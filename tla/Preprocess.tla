----------------------------- MODULE Preprocess -----------------------------
(***************************************************************************)
(* How the backtester repairs the lines of a script before it compiles it  *)
(* (preprocess.go): the passes that strip, indent, join, split and drop    *)
(* lines.  What renames words and rewrites calls is left out, and finds    *)
(* nothing to do in a script without the names it knows.  So is            *)
(* declareSelfReferencingSeries, which finds nothing to do in one that     *)
(* never reads the history of a name it assigns.                           *)
(*                                                                         *)
(* Lines and characters are those of Lexer: a word, also a keyword, is one *)
(* character.  Every pass trims the end of a line before it looks at it, so *)
(* lines have no trailing spaces here once comments are gone.              *)
(***************************************************************************)
EXTENDS Lexer

Row(lead, code) == [lead |-> lead, code |-> code]
Indent(n) == [k \in 1..n |-> " "]
NoLine == Row(<<>>, <<>>)
IsBlank(line) == line.code = <<>>

Trimmed(s) ==
  LET text == {i \in DOMAIN s : s[i] \notin {" ", "TAB"}}
  IN  IF text = {} THEN <<>> ELSE SubSeq(s, Min(text), Max(text))
StartsWith(s, c, d) == At(s, 1) = c /\ At(s, 2) = d
\* Whether a line ends with "=>".
OpensBlock(code) == Len(code) > 1 /\ code[Len(code) - 1] = "=" /\ Last(code) = ">"
\* The index of the last line with code, 0 if none has any.
LastCode(lines) == Max({0} \cup {k \in DOMAIN lines : ~IsBlank(lines[k])})
\* A line glued to the end of the last one with code.
Glued(lines, code) ==
  LET k == LastCode(lines) IN [lines EXCEPT ![k].code = @ \o <<" ">> \o code]
Resplit(s) ==
  LET k == FirstFrom(s, 1, LAMBDA c : c \notin {" ", "TAB"})
  IN  Row(SubSeq(s, 1, k - 1), Trimmed(s))

-----------------------------------------------------------------------------
(* Strings and parentheses. *)

\* The quotes one is inside of after the character c: none, one, or one and a backslash.
AfterChar(quoted, c) ==
  CASE quoted = <<>> -> IF c \in Quotes THEN <<c>> ELSE <<>>
    [] Len(quoted) = 1 -> IF c = "\\" THEN quoted \o <<c>> ELSE IF quoted = <<c>> THEN <<>> ELSE quoted
    [] Len(quoted) = 2 -> <<quoted[1]>>
QuotedAt(s) == FoldLeft(AfterChar, <<>>, s)

\* Opening parentheses less closing ones, outside of strings.
ParenSurplus(s) ==
  FoldLeft(LAMBDA acc, c : [quoted |-> AfterChar(acc.quoted, c),
                            n |-> acc.n + (IF acc.quoted # <<>> THEN 0
                                           ELSE IF c = "(" THEN 1 ELSE IF c = ")" THEN -1 ELSE 0)],
           [quoted |-> <<>>, n |-> 0], s).n
Deeper(depth, code) == Max({0, depth + ParenSurplus(code)})

-----------------------------------------------------------------------------
(* Comments and indentation. *)

\* What stripBlockComments keeps of a line that starts in a mode, "code", "string" or
\* "block", and the mode after it.
OutsideBlocks(s, start) ==
  LET from[i \in 1..(Len(s) + 2), mode \in {"code", "string", "block"}] ==
        LET Kept(j, next) == LET r == from[j, next]
                             IN  [text |-> SubSeq(s, i, Min({j - 1, Len(s)})) \o r.text, mode |-> r.mode]
        IN  IF i > Len(s) THEN [text |-> <<>>, mode |-> mode]
            ELSE CASE mode = "block" -> IF s[i] = "*" /\ At(s, i + 1) = "/" THEN from[i + 2, "code"] ELSE from[i + 1, mode]
                   [] mode = "string" -> IF s[i] = "\\" THEN Kept(i + 2, mode)
                                         ELSE Kept(i + 1, IF s[i] = "\"" THEN "code" ELSE mode)
                   [] mode = "code" -> IF s[i] = "/" /\ At(s, i + 1) = "/" THEN Kept(Len(s) + 1, mode)
                                       ELSE IF s[i] = "/" /\ At(s, i + 1) = "*" THEN from[i + 2, "block"]
                                       ELSE Kept(i + 1, IF s[i] = "\"" THEN "string" ELSE mode)
  IN  from[1, start]
\* A comment goes on over the end of its lines, which are then one.
StripBlockComments(lines) ==
  LET Next(acc, line) ==
        LET r == OutsideBlocks(line.lead \o line.code, acc.mode)
        IN  [mode |-> r.mode,
             out |-> IF acc.mode = "block" THEN [acc.out EXCEPT ![Len(acc.out)] = @ \o r.text] ELSE Append(acc.out, r.text)]
      all == FoldLeft(Next, [out |-> <<>>, mode |-> "code"], lines).out
  IN  [k \in DOMAIN all |-> Resplit(all[k])]

\* The apostrophe that ends the string that starts at i on the same line, or 0.
PairOf(s, i) ==
  LET from[k \in (i + 1)..(Len(s) + 2)] ==
        IF k > Len(s) THEN 0 ELSE IF s[k] # "'" THEN from[k + 1] ELSE IF At(s, k + 1) = "'" THEN from[k + 2] ELSE k
  IN  from[i + 1]
\* A line without its comment, and whether it ends in a string.
WithoutComment(s, start) ==
  LET from[i \in 1..(Len(s) + 2), quoted \in BOOLEAN] ==
        LET Kept(j, next) == LET r == from[j, next]
                             IN  [text |-> SubSeq(s, i, Min({j - 1, Len(s)})) \o r.text, quoted |-> r.quoted]
        IN  IF i > Len(s) THEN [text |-> <<>>, quoted |-> quoted]
            ELSE IF quoted /\ s[i] = "\\" THEN Kept(i + 2, TRUE)
            ELSE IF s[i] = "\"" THEN Kept(i + 1, ~quoted)
            ELSE IF quoted THEN Kept(i + 1, TRUE)
            ELSE IF s[i] = "/" /\ At(s, i + 1) = "/" THEN [text |-> <<>>, quoted |-> FALSE]
            ELSE IF s[i] = "'" /\ PairOf(s, i) # 0 THEN Kept(PairOf(s, i) + 1, FALSE)
            ELSE Kept(i + 1, FALSE)
  IN  from[1, start]
StripLineComments(lines) ==
  LET Next(acc, line) ==
        LET r == WithoutComment(line.code, acc.quoted)
        IN  [quoted |-> r.quoted, out |-> Append(acc.out, Row(line.lead, Trimmed(r.text)))]
  IN  FoldLeft(Next, [out |-> <<>>, quoted |-> FALSE], lines).out

\* Four spaces for a tab, at the start of a line.
ExpandTabs(lines) == [k \in DOMAIN lines |-> [lines[k] EXCEPT !.lead = Indent(Columns(@))]]

\* Mutant: a dedent to no level goes to the level around it.
LevelAround(n, levels) == Max({lv \in levels : lv <= n} \cup (IF \A lv \in levels : lv < n THEN {n} ELSE {}))
\* A dedent to no level goes to the next deeper one.
LevelOf(n, levels) ==
  LET deeper == {lv \in levels : lv > n}
  IN  IF n \in levels \/ deeper = {} THEN n ELSE Min(deeper)
\* The loop of snapIndentation: a level is new when it is two columns deeper, or one
\* after a line that opens a block.
Snap(acc, line) ==
  LET n == LevelOf(Len(line.lead), Range(acc.stack))
      kept == SelectSeq(acc.stack, LAMBDA lv : lv <= n)
      off == n = Last(kept) + 1 /\ ~acc.opens
  IN  IF IsBlank(line) THEN [acc EXCEPT !.out = Append(@, line)]
      ELSE [stack |-> IF n > Last(kept) /\ ~off THEN Append(kept, n) ELSE kept,
            opens |-> OpensBlock(line.code),
            out |-> Append(acc.out, [line EXCEPT !.lead = Indent(IF off THEN Last(kept) ELSE n)])]
SnapIndentation(lines) == FoldLeft(Snap, [stack |-> <<0>>, opens |-> FALSE, out |-> <<>>], lines).out

-----------------------------------------------------------------------------
(* Joining lines. *)

Operators == {"+", "*", "/", "%", "<", ">", "=", "!", "?", ":", "^"}
\* ")" or "," or "na)" alone on a line.
IsResidue(code) ==
  Last(code) \in {")", ","} /\ (Len(code) = 1 \/ (code[1] = "na" /\ Trimmed(SubSeq(code, 2, Len(code) - 1)) = <<>>))
\* "//" in a string is taken for a comment.
HasSlashes(code) == \E i \in DOMAIN code : code[i] = "/" /\ At(code, i + 1) = "/"
GoesOn(code) == ~OpensBlock(code) /\ Last(code) \in Operators \cup {"-", ",", "(", "[", "and", "or", "not"}

RECURSIVE JoinedFrom(_, _)
\* joinTrailingOperatorLines, from a line on, inside so many parentheses.
JoinedFrom(lines, depth) ==
  LET line == Head(lines)
      rest == Tail(lines)
      next == SelectInSeq(rest, LAMBDA l : ~IsBlank(l))
      joined == [line EXCEPT !.code = @ \o <<" ">> \o rest[next].code]
      After(l, d) == <<l>> \o JoinedFrom(rest, d)
  IN  IF lines = <<>> THEN <<>>
      ELSE IF IsBlank(line) THEN After(line, depth)
      ELSE IF IsResidue(line.code) THEN IF depth = 0 THEN After(NoLine, depth) ELSE After(line, Deeper(depth, line.code))
      ELSE IF OpensBlock(line.code) \/ HasSlashes(line.code) THEN After(line, depth)
      ELSE IF ~GoesOn(line.code) THEN After(line, Deeper(depth, line.code))
      ELSE IF next = 0 THEN After(line, depth)
      ELSE JoinedFrom(<<joined>> \o ReplaceAt(rest, next, NoLine), depth)
JoinTrailingOperatorLines(lines) == JoinedFrom(lines, 0)

JoinContinuationLines(lines) ==
  LET Next(out, line) ==
        LET goesOn == ~IsBlank(line) /\ ~StartsWith(line.code, "=", ">") /\ ~StartsWith(line.code, "/", "/")
                      /\ line.code[1] \in Operators \cup {"and", "or", "not"}
        IN  IF goesOn /\ LastCode(out) # 0 THEN Append(Glued(out, line.code), NoLine) ELSE Append(out, line)
  IN  FoldLeft(Next, <<>>, lines)

\* A line that closes more than it opens belongs to the open call, or to none.
FixUnbalancedCloseLines(lines) ==
  LET Next(acc, line) ==
        LET surplus == ParenSurplus(line.code)
        IN  IF surplus >= 0 THEN [depth |-> acc.depth + surplus, out |-> Append(acc.out, line)]
            ELSE IF acc.depth = 0 THEN [acc EXCEPT !.out = Append(@, NoLine)]
            ELSE [depth |-> Max({0, acc.depth + surplus}), out |-> Append(Glued(acc.out, line.code), NoLine)]
  IN  FoldLeft(Next, [depth |-> 0, out |-> <<>>], lines).out

\* An argument that starts with its comma, and no call is open.
DropLeadingCommaContinuations(lines) ==
  LET Next(acc, line) ==
        IF At(line.code, 1) = "," /\ ParenSurplus(line.code) <= 0 /\ acc.depth = 0
        THEN [acc EXCEPT !.out = Append(@, NoLine)]
        ELSE [depth |-> Deeper(acc.depth, line.code), out |-> Append(acc.out, line)]
  IN  FoldLeft(Next, [depth |-> 0, out |-> <<>>], lines).out

\* "study(...) /", the rest of a banner.
DropDeclarationTrailingSlash(lines) ==
  LET Declaration(code) ==
        /\ code # <<>> /\ code[1] \in {"strategy", "study", "indicator", "library"} /\ Last(code) = "/"
        /\ At(Trimmed(SubSeq(code, 2, Len(code))), 1) = "("
        /\ Last(Trimmed(SubSeq(code, 1, Len(code) - 1))) = ")"
      Kept(code) == IF Declaration(code) THEN Trimmed(SubSeq(code, 1, Len(code) - 1)) ELSE code
  IN  [k \in DOMAIN lines |-> [lines[k] EXCEPT !.code = Kept(@)]]

\* "strategy" and "(" on two lines.
JoinSplitStrategyDecl(lines) ==
  LET Next(out, line) ==
        LET k == Len(out)
        IN  IF k > 0 /\ out[k].code \in {<<"strategy">>, <<"study">>, <<"indicator">>} /\ At(line.code, 1) = "("
            THEN [out EXCEPT ![k].code = @ \o line.code] ELSE Append(out, line)
  IN  FoldLeft(Next, <<>>, lines)

-----------------------------------------------------------------------------
(* Splitting and dropping lines. *)

\* splitOnTopLevelCommas.
Segments(code) ==
  LET Next(acc, c) ==
        LET plain == acc.quoted = <<>>
            depth == IF ~plain THEN acc.depth ELSE IF c \in {"(", "["} THEN acc.depth + 1
                     ELSE IF c \in {")", "]"} THEN Max({0, acc.depth - 1}) ELSE acc.depth
        IN  [quoted |-> AfterChar(acc.quoted, c), depth |-> depth,
             out |-> IF plain /\ c = "," /\ depth = 0 THEN Append(acc.out, <<>>)
                     ELSE [acc.out EXCEPT ![Len(acc.out)] = Append(@, c)]]
  IN  FoldLeft(Next, [quoted |-> <<>>, depth |-> 0, out |-> <<<<>>>>], code).out
HasArrow(code) == \E i \in DOMAIN code : code[i] = "=" /\ At(code, i + 1) = ">"
SplitStatementCommas(lines) ==
  LET Next(acc, line) ==
        LET parts == Segments(line.code)
            whole == acc.depth > 0 \/ Len(parts) = 1
        IN  IF whole THEN [depth |-> Deeper(acc.depth, line.code), out |-> Append(acc.out, line)]
            ELSE IF HasArrow(line.code) THEN [acc EXCEPT !.out = Append(@, line)]
            ELSE [acc EXCEPT !.out = @ \o [k \in DOMAIN parts |-> Row(line.lead, Trimmed(parts[k]))]]
  IN  FoldLeft(Next, [depth |-> 0, out |-> <<>>], lines).out

\* A statement that wants a block, and the next line with code is no deeper.
DropEmptyBlocks(lines) ==
  LET Empty(k) ==
        LET next == {j \in (k + 1)..Len(lines) : ~IsBlank(lines[j])}
        IN  /\ ~IsBlank(lines[k]) /\ lines[k].code[1] \in {"if", "while", "for", "else"} /\ ~OpensBlock(lines[k].code)
            /\ next # {} /\ Len(lines[Min(next)].lead) <= Len(lines[k].lead)
      kept == SelectSeq([k \in DOMAIN lines |-> k], LAMBDA k : ~Empty(k))
  IN  [k \in DOMAIN kept |-> lines[kept[k]]]

\* A line that is one word the script has nowhere else, such as a heading; the words
\* exempted are more: those of colours, prices and times.
Exempted == {"true", "false", "na", "close", "else", "if", "for", "while", "break", "continue", "and", "or", "not", "to", "var"}
DropLoneIdentLines(lines) ==
  LET Uses(w) == FoldLeft(LAMBDA n, l : n + Cardinality({i \in DOMAIN l.code : l.code[i] = w}), 0, lines)
      Next(k) == SelectInSeq(SubSeq(lines, k + 1, Len(lines)), LAMBDA l : ~IsBlank(l))
      Defined(k) == LET code == lines[k + Next(k)].code
                    IN  Next(k) # 0 /\ (code[1] \in {"=", "("} \/ StartsWith(code, ":", "="))
      Lone(k) == LET code == lines[k].code
                 IN  Len(code) = 1 /\ Letter(code[1]) /\ code[1] \notin Exempted /\ Uses(code[1]) = 1 /\ ~Defined(k)
  IN  [k \in DOMAIN lines |-> IF Lone(k) THEN NoLine ELSE lines[k]]

-----------------------------------------------------------------------------
(* Functions on one line, and what the end of the script lacks. *)

\* "f(x) => y = e" becomes a block; pos is where the line was when the loop started.
ArrowBody(lines, line, pos) ==
  LET code == line.code
      Depth(s, i, open, close) == Cardinality({j \in 1..i : s[j] \in open}) - Cardinality({j \in 1..i : s[j] \in close})
      arrow == Max({0} \cup {i \in DOMAIN code : code[i] = "=" /\ At(code, i + 1) = ">" /\ Depth(code, i, {"("}, {")"}) = 0})
      rest == Trimmed(SubSeq(code, arrow + 2, Len(code)))
      eqs == {i \in DOMAIN rest : /\ rest[i] = "=" /\ Depth(rest, i, {"(", "["}, {")", "]"}) = 0
                                  /\ (i = 1 \/ rest[i - 1] \notin {"=", "!", "<", ">", ":"}) /\ At(rest, i + 1) # "="}
      name == Trimmed(SubSeq(rest, 1, Min(eqs \cup {Len(rest) + 1}) - 1))
      indent == line.lead \o Indent(2)
      block == <<Row(line.lead, Trimmed(SubSeq(code, 1, arrow - 1)) \o <<" ", "=", ">">>),
                 Row(indent, name \o <<" ", "=", " ">> \o Trimmed(SubSeq(rest, Min(eqs) + 1, Len(rest)))),
                 Row(indent, name)>>
  IN  IF /\ ~IsBlank(line) /\ Letter(code[1]) /\ At(Trimmed(SubSeq(code, 2, Len(code))), 1) = "("
         /\ arrow # 0 /\ eqs # {} /\ Len(name) = 1 /\ Letter(name[1])
      THEN SubSeq(lines, 1, pos - 1) \o block \o SubSeq(lines, pos + 1, Len(lines))
      ELSE lines
RewriteArrowAssignmentBody(lines) ==
  FoldLeft(LAMBDA out, k : ArrowBody(out, lines[k], k), lines, [k \in DOMAIN lines |-> k])

RepairUnterminatedStrings(lines) ==
  LET Repaired(code) == IF QuotedAt(code) = <<>> THEN code ELSE Append(code, QuotedAt(code)[1])
  IN  [k \in DOMAIN lines |-> [lines[k] EXCEPT !.code = Repaired(@)]]

\* "f(x) => e" and "f => e", also an arm of a switch, get a line for the body.
SplitInlineArrowBodies(lines) ==
  LET Split(line) ==
        LET code == line.code
            at == Min({Len(code)} \cup {i \in 1..(Len(code) - 4) : SubSeq(code, i, i + 3) = <<" ", "=", ">", " ">>})
            head == SubSeq(code, 1, at - 1)
            signature == /\ head # <<>> /\ Letter(head[1])
                         /\ \/ Len(head) = 1
                            \/ /\ head[2] = "(" /\ Last(head) = ")"
                               /\ \A i \in 3..(Len(head) - 1) : head[i] \notin {"(", ")"}
        IN  IF at < Len(code) /\ signature
            THEN <<Row(line.lead, head \o <<" ", "=", ">">>),
                   Row(line.lead \o Indent(4), Trimmed(SubSeq(code, at + 4, Len(code))))>>
            ELSE <<line>>
  IN  FlattenSeq([k \in DOMAIN lines |-> Split(lines[k])])

\* A call that is never closed, closed at the end of the script.
CloseUnterminatedCalls(lines) ==
  LET Next(depth, line) ==
        IF depth > 0 THEN Deeper(depth, line.code)
        ELSE IF ~IsBlank(line) /\ Letter(line.code[1]) THEN Deeper(0, line.code) ELSE 0
  IN  IF FoldLeft(Next, 0, lines) = 0 THEN lines
      ELSE [lines EXCEPT ![LastCode(lines)].code = Append(@, ")")]

-----------------------------------------------------------------------------
(* The order of the passes (preprocess). *)

Passes ==
  <<"strip block comments", "strip line comments", "expand tabs", "snap indentation",
    "join trailing operators", "join continuations", "fix unbalanced", "drop leading commas",
    "drop trailing slash", "split commas", "drop empty blocks", "drop lone names",
    "rewrite arrow bodies", "repair strings", "join split declaration",
    "join trailing operators", "fix unbalanced", "drop leading commas",
    "split arrow bodies", "close calls">>

AfterPass(pass, lines) ==
  CASE pass = "strip block comments" -> StripBlockComments(lines)
    [] pass = "strip line comments" -> StripLineComments(lines)
    [] pass = "expand tabs" -> ExpandTabs(lines)
    [] pass = "snap indentation" -> SnapIndentation(lines)
    [] pass = "join trailing operators" -> JoinTrailingOperatorLines(lines)
    [] pass = "join continuations" -> JoinContinuationLines(lines)
    [] pass = "fix unbalanced" -> FixUnbalancedCloseLines(lines)
    [] pass = "drop leading commas" -> DropLeadingCommaContinuations(lines)
    [] pass = "drop trailing slash" -> DropDeclarationTrailingSlash(lines)
    [] pass = "split commas" -> SplitStatementCommas(lines)
    [] pass = "drop empty blocks" -> DropEmptyBlocks(lines)
    [] pass = "drop lone names" -> DropLoneIdentLines(lines)
    [] pass = "rewrite arrow bodies" -> RewriteArrowAssignmentBody(lines)
    [] pass = "repair strings" -> RepairUnterminatedStrings(lines)
    [] pass = "join split declaration" -> JoinSplitStrategyDecl(lines)
    [] pass = "split arrow bodies" -> SplitInlineArrowBodies(lines)
    [] pass = "close calls" -> CloseUnterminatedCalls(lines)
=============================================================================
