------------------------------- MODULE Lexer -------------------------------
(***************************************************************************)
(* From the lines of a script to its tokens (lexer.go).                    *)
(*                                                                         *)
(* A line is the whitespace it starts with and the characters that follow. *)
(* A run of letters is one character here: only its length in bytes counts.*)
(* Hexadecimal and unicode escapes are left out.                           *)
(***************************************************************************)
EXTENDS Integers, Sequences, FiniteSetsExt, SequencesExt

OneChar == {"(", ")", "[", "]", ",", "?", ":", "=", "+", "-", "*", "/", "%", "<", ">"}
TwoChars == {":=", "=>", "+=", "-=", "*=", "/=", "%=", "==", "!=", "<=", ">="}
Digits == {"0", "1", "2"}
Quotes == {"\"", "'"}
Marks == OneChar \cup Quotes \cup {" ", "TAB", ".", "!", "\\", "#", "^"}
Letter(c) == c \notin Marks \cup Digits

Token(typ, text) == [typ |-> typ, text |-> text]
Mark(typ) == Token(typ, typ)

Joined(s, i, j) == FoldLeft(LAMBDA text, c : text \o c, "", SubSeq(s, i, j - 1))
\* The first position from i on that P holds at, or the one after the last.
FirstFrom(s, i, P(_)) == Min({j \in i..(Len(s) + 1) : j > Len(s) \/ P(s[j])})
At(s, i) == IF i <= Len(s) THEN s[i] ELSE ""

-----------------------------------------------------------------------------
(* One line (lexLine). *)

EndOfWord(s, i) == FirstFrom(s, i, LAMBDA c : ~Letter(c) /\ c \notin Digits \cup {"."})

EndOfNumber(s, i) ==
  LET EndOfDigits(j) == FirstFrom(s, j, LAMBDA c : c \notin Digits)
      whole == EndOfDigits(i)
      decimal == IF At(s, whole) = "." THEN EndOfDigits(whole + 1) ELSE whole
      power == decimal + (IF At(s, decimal + 1) \in {"+", "-"} THEN 2 ELSE 1)
  IN  IF At(s, decimal) \in {"e", "E"} /\ At(s, power) \in Digits THEN EndOfDigits(power)
      ELSE decimal

\* The position of the quote that ends the string, 0 if none does.
ClosingQuote(s, i) ==
  LET close[j \in (i + 1)..(Len(s) + 1)] ==
        IF j > Len(s) THEN 0
        ELSE IF s[j] = s[i] THEN j
        ELSE IF s[j] = "\\" /\ j < Len(s) THEN close[j + 2]
        ELSE close[j + 1]
  IN  close[i + 1]
\* lenientUnquoteString and unescapeSingleQuotedString.
Unescaped(s, i, j) ==
  LET Meant(c) == CASE c = "n" -> "LF" [] c = "r" -> "CR" [] c = "t" -> "TAB" [] OTHER -> c
      rest[k \in i..(Len(s) + 1)] ==
        IF k >= j THEN ""
        ELSE IF s[k] = "\\" /\ k + 1 < j THEN Meant(s[k + 1]) \o rest[k + 2]
        ELSE s[k] \o rest[k + 1]
  IN  rest[i]

\* The token at i, and the position after it; the position is 0 where none can be.
TokenAt(s, i) ==
  LET c == s[i]
      Upto(j, token) == [token |-> token, next |-> j]
      Named(typ, j) == Upto(j, Token(typ, Joined(s, i, j)))
  IN  CASE c \in Quotes ->
             LET j == ClosingQuote(s, i)
             IN  Upto(IF j = 0 THEN 0 ELSE j + 1, Token("STRING", Unescaped(s, i + 1, j)))
        [] c = "#" ->
             LET j == FirstFrom(s, i + 1, LAMBDA d : d \notin Digits \cup {"a"})
             IN  Upto(IF j - i - 1 \in {6, 8} THEN j ELSE 0, Token("STRING", Joined(s, i, j)))
        [] c \in Digits \/ (c = "." /\ At(s, i + 1) \in Digits) -> Named("NUMBER", EndOfNumber(s, i))
        [] Letter(c) -> Named("IDENT", EndOfWord(s, i))
        [] c \o At(s, i + 1) \in TwoChars -> Upto(i + 2, Mark(c \o s[i + 1]))
        [] c \in OneChar /\ c \o At(s, i + 1) \notin TwoChars -> Upto(i + 1, Mark(c))
        [] OTHER -> Upto(0, Mark(c))

BadToken == Mark("BAD")
\* The tokens of a line, the last one BadToken where the line has none.
LexLine(s) ==
  LET from[i \in 1..(Len(s) + 1)] ==
        IF i > Len(s) \/ (At(s, i) = "/" /\ At(s, i + 1) = "/") THEN <<>>
        ELSE IF s[i] \in {" ", "TAB"} THEN from[i + 1]
        ELSE LET t == TokenAt(s, i)
             IN  IF t.next = 0 THEN <<BadToken>> ELSE <<t.token>> \o from[t.next]
  IN  from[1]

-----------------------------------------------------------------------------
(* One line after another (lex). *)

\* countLeadingSpaces: a tab is one character and four columns.
Columns(lead) == FoldLeft(LAMBDA n, c : n + (IF c = "TAB" THEN 4 ELSE 1), 0, lead)
\* raw[indent:] is given columns and counts bytes; past the end it panics, which is
\* modelled as a character no token starts with.
RECURSIVE Cut(_, _)
Cut(s, n) ==
  IF n = 0 THEN s
  ELSE IF s = <<>> THEN <<"^">>
  ELSE IF n < Len(s[1]) THEN <<SubSeq(s[1], n + 1, Len(s[1]))>> \o Tail(s)
  ELSE Cut(Tail(s), n - Len(s[1]))

Skipped(raw) == raw.code = <<>> \/ (At(raw.code, 1) = "/" /\ At(raw.code, 2) = "/")

\* The state of lex: indentStack, groupDepth, out; and whether it has failed.
LexStart == [stack |-> <<0>>, depth |-> 0, out |-> <<>>, failed |-> FALSE]

Indented(lx, indent) ==
  LET deeper == indent > Last(lx.stack)
      kept == SelectSeq(lx.stack, LAMBDA n : n <= indent)
  IN  IF lx.depth > 0 THEN lx
      ELSE IF deeper THEN [lx EXCEPT !.stack = Append(@, indent), !.out = Append(@, Mark("INDENT"))]
      ELSE [lx EXCEPT !.stack = kept,
                      !.out = @ \o [k \in 1..(Len(lx.stack) - Len(kept)) |-> Mark("DEDENT")],
                      !.failed = indent # Last(kept)]

DepthAfter(depth, line) ==
  FoldLeft(LAMBDA d, t : IF t.typ \in {"(", "["} THEN d + 1
                         ELSE IF t.typ \in {")", "]"} /\ d > 0 THEN d - 1 ELSE d, depth, line)

AfterLine(lx, raw) ==
  LET in == Indented(lx, Columns(raw.lead))
      line == LexLine(Cut(raw.code, Columns(raw.lead) - Len(raw.lead)))
      depth == DepthAfter(in.depth, line)
      end == IF depth = 0 THEN <<Mark("NEWLINE")>> ELSE <<>>
  IN  IF Skipped(raw) THEN lx
      ELSE [in EXCEPT !.depth = depth, !.failed = @ \/ Contains(line, BadToken),
                      !.out = @ \o line \o end]

AfterLast(lx) ==
  [lx EXCEPT !.stack = <<0>>,
             !.out = @ \o [k \in 1..(Len(lx.stack) - 1) |-> Mark("DEDENT")] \o <<Mark("EOF")>>]
=============================================================================
