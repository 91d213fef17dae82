------------------------------ MODULE Scripts ------------------------------
(***************************************************************************)
(* How a program is written: the text a script has for an expression or a  *)
(* statement, with no more parentheses than its meaning needs, in several  *)
(* layouts.  This is the reference the lexer and the parser are checked    *)
(* against, not part of the code.                                          *)
(***************************************************************************)
EXTENDS Parser

Words(ws) == [k \in DOMAIN ws |-> Token("IDENT", ws[k])]
Word(w) == Words(<<w>>)
Sign(m) == <<Mark(m)>>
Between(seqs, sep) ==
  FoldLeft(LAMBDA text, s : IF text = <<>> THEN s ELSE text \o sep \o s, <<>>, seqs)

\* How tightly the operators of the language bind, loosest first.
Ranks == <<{"or"}, {"and"}, {"==", "!="}, {"<", "<=", ">", ">="}, {"+", "-"}, {"*", "/", "%"}>>
Rank(op) == CHOOSE k \in DOMAIN Ranks : op \in Ranks[k]
OpToken(op) == IF op \in {"or", "and", "not"} THEN Word(op) ELSE Sign(op)
Bound(e) == CASE e.kind = "ternary" -> 0 [] e.kind = "binary" -> Rank(e.op) [] e.kind = "unary" -> 7
              [] OTHER -> 8

RECURSIVE Written(_, _)
\* The tokens of an expression where one that binds at least as tightly as p is wanted.
Written(e, p) ==
  LET All(es) == Between([k \in DOMAIN es |-> Written(es[k], 0)], Sign(","))
      text == CASE e.kind = "ident" -> Word(e.name)
                [] e.kind = "number" -> <<Token("NUMBER", e.text)>>
                [] e.kind = "string" -> <<Token("STRING", e.text)>>
                [] e.kind = "bool" -> Word(IF e.val THEN "true" ELSE "false")
                [] e.kind = "na" -> Word("na")
                [] e.kind = "unary" -> OpToken(e.op) \o Written(e.right, 7)
                [] e.kind = "binary" -> Written(e.left, Rank(e.op)) \o OpToken(e.op)
                                        \o Written(e.right, Rank(e.op) + 1)
                [] e.kind = "ternary" -> Written(e.cond, 1) \o Sign("?") \o Written(e.then, 0)
                                         \o Sign(":") \o Written(e.else, 0)
                [] e.kind = "index" -> Written(e.left, 8) \o Sign("[") \o Written(e.right, 0) \o Sign("]")
                [] e.kind = "call" -> Written(e.left, 8) \o Sign("(") \o All(e.args) \o Sign(")")
                [] e.kind = "named_arg" -> Word(e.name) \o Sign("=") \o Written(e.right, 0)
                [] e.kind = "tuple" -> Sign("(") \o All(e.elems) \o Sign(")")
                [] e.kind = "array" -> Sign("[") \o All(e.elems) \o Sign("]")
  IN  IF Bound(e) < p THEN Sign("(") \o text \o Sign(")") ELSE text

-----------------------------------------------------------------------------
(* Statements: lines, each indented so many levels. *)

Line(depth, toks) == <<[depth |-> depth, toks |-> toks]>>
Flat(seqs) == FoldLeft(LAMBDA text, s : text \o s, <<>>, seqs)
Params2(ps) ==
  Sign("(") \o Between([k \in DOMAIN ps |-> Word(ps[k].name) \o
                          (IF ps[k].default = None THEN <<>>
                           ELSE Sign("=") \o Written(ps[k].default, 0))], Sign(",")) \o Sign(")")

RECURSIVE LinesOf(_, _)
BodyLines(stmts, d) == Flat([k \in DOMAIN stmts |-> LinesOf(stmts[k], d)])

\* An arm: its action on the same line, or its statements on the next ones.
ArmLines(head, body, inExpr, d) ==
  LET stmts == IF inExpr \/ body[1].kind # "block" THEN body ELSE body[1].body
      short == Len(body) = 1 /\ body[1].kind # "block" /\ (inExpr => body[1].kind = "expr")
      lines == BodyLines(stmts, d + 1)
  IN  IF short THEN Line(d, head \o Sign("=>") \o lines[1].toks) \o Tail(lines)
      ELSE Line(d, head \o Sign("=>")) \o lines
SwitchLines(start, sw, inExpr, d) ==
  LET subject == IF sw.subject = None THEN <<>> ELSE Written(sw.subject, 0)
  IN  Line(d, start \o Word("switch") \o subject)
      \o Flat([k \in DOMAIN sw.cases |->
                 ArmLines(Written(sw.cases[k].match, 0), sw.cases[k].body, inExpr, d + 1)])
      \o (IF sw.default = <<>> THEN <<>> ELSE ArmLines(<<>>, sw.default, inExpr, d + 1))

\* A line that ends in an expression.
Ended(start, e, d) ==
  IF e = None THEN Line(d, start)
  ELSE IF e.kind = "switch" THEN SwitchLines(start, e, TRUE, d) ELSE Line(d, start \o Written(e, 0))

LinesOf(s, d) ==
  CASE s.kind = "decl" ->
         Ended(Word(IF s.const THEN "const" ELSE "var") \o (IF s.type = "" THEN <<>> ELSE Word(s.type))
               \o Word(s.name) \o (IF s.expr = None THEN <<>> ELSE Sign("=")), s.expr, d)
    [] s.kind = "assign" -> Ended(Word(s.name) \o Sign("="), s.expr, d)
    [] s.kind = "tuple_assign" ->
         Ended(Written(Listed("array", [k \in DOMAIN s.names |-> Ident(s.names[k])]), 0) \o Sign("="), s.expr, d)
    [] s.kind = "expr" -> Ended(<<>>, s.expr, d)
    [] s.kind = "return" -> Ended(Word("return"), s.expr, d)
    [] s.kind \in {"break", "continue"} -> Line(d, Word(s.kind))
    [] s.kind = "if" ->
         Line(d, Word("if") \o Written(s.cond, 0)) \o BodyLines(s.then, d + 1)
         \o (IF s.else = <<>> THEN <<>>
             ELSE IF s.else[1].kind = "if" /\ Len(s.else) = 1
                  THEN LET nested == LinesOf(s.else[1], d)
                       IN  Line(d, Word("else") \o nested[1].toks) \o Tail(nested)
             ELSE Line(d, Word("else")) \o BodyLines(s.else, d + 1))
    [] s.kind = "while" -> Line(d, Word("while") \o Written(s.cond, 0)) \o BodyLines(s.body, d + 1)
    [] s.kind = "for" ->
         Line(d, Word("for") \o Word(s.vars[1]) \o Sign("=") \o Written(s.from, 0) \o Word("to")
                 \o Written(s.to, 0) \o (IF s.by = None THEN <<>> ELSE Word("by") \o Written(s.by, 0)))
         \o BodyLines(s.body, d + 1)
    [] s.kind = "for in" ->
         Line(d, Word("for") \o (IF Len(s.vars) = 1 THEN Word(s.vars[1])
                                 ELSE Sign("[") \o Word(s.vars[1]) \o Sign(",") \o Word(s.vars[2]) \o Sign("]"))
                 \o Word("in") \o Written(s.in, 0)) \o BodyLines(s.body, d + 1)
    [] s.kind = "switch" -> SwitchLines(<<>>, s, FALSE, d)
    [] s.kind = "function" ->
         IF s.expr # None THEN Ended(Word(s.name) \o Params2(s.params) \o Sign("=>"), s.expr, d)
         ELSE Line(d, Word(s.name) \o Params2(s.params) \o Sign("=>")) \o BodyLines(s.body, d + 1)
    [] s.kind = "type" ->
         Line(d, Words(<<"type", s.name>>))
         \o Flat([k \in DOMAIN s.fields |->
                    Ended(Words(<<s.fields[k].type, s.fields[k].name>>)
                          \o (IF s.fields[k].default = None THEN <<>> ELSE Sign("=")), s.fields[k].default, d + 1)])

-----------------------------------------------------------------------------
(* Layouts: characters. *)

\* One mark of two characters is two characters; a string is quoted.
Chars(t) ==
  CASE t.typ = "STRING" -> <<"\"", t.text, "\"">>
    [] t.typ \in TwoChars -> <<SubSeq(t.typ, 1, 1), SubSeq(t.typ, 2, 2)>>
    [] OTHER -> <<t.text>>
Wordy(t) == t.typ \in {"IDENT", "NUMBER"}
\* A space between every two tokens, or only where two words would become one.
Spelled(toks, spaced) ==
  FoldLeft(LAMBDA acc, t : [last |-> t,
                            text |-> acc.text \o (IF acc.text # <<>> /\ (spaced \/ (Wordy(acc.last) /\ Wordy(t)))
                                                  THEN <<" ">> ELSE <<>>) \o Chars(t)],
           [last |-> BadToken, text |-> <<>>], toks).text

Raw(lead, code) == <<[lead |-> lead, code |-> code]>>
Spaces(n) == [k \in 1..n |-> " "]
Noise == Raw(Spaces(3), <<"/", "/", "a">>) \o Raw(Spaces(1), <<>>)

\* A line goes on on the next one after a comma or an opening parenthesis.
Wrapped(lead, toks, spaced) ==
  LET breaks == {k \in 1..(Len(toks) - 1) : toks[k].typ \in {"(", ","}}
      starts == SetToSortSeq({1} \cup {k + 1 : k \in breaks}, LAMBDA j, k : j < k)
      Piece(k) == SubSeq(toks, starts[k], IF k = Len(starts) THEN Len(toks) ELSE starts[k + 1] - 1)
  IN  Flat([k \in DOMAIN starts |-> Raw(IF k = 1 THEN lead ELSE <<" ">>, Spelled(Piece(k), spaced))])

\* layout.hang: the value of an assignment starts on the next line.
Hung(line) ==
  LET k == SelectInSeq(line.toks, LAMBDA t : t.typ = "=")
      plain == /\ k \in {2, 3} /\ k < Len(line.toks) /\ Wordy(line.toks[1])
               /\ (k = 3 => line.toks[1].text = "var")
               /\ \A j \in DOMAIN line.toks : line.toks[j].text \notin {"=>", "switch", "for", "to"}
  IN  IF plain THEN Line(line.depth, SubSeq(line.toks, 1, k))
                    \o Line(line.depth + 1, SubSeq(line.toks, k + 1, Len(line.toks)))
      ELSE <<line>>

Rows(line, layout) ==
  LET lead == Flat([k \in 1..line.depth |-> layout.unit])
  IN  (IF layout.noise THEN Noise ELSE <<>>) \o
      (IF layout.wrap THEN Wrapped(lead, line.toks, layout.spaced)
       ELSE Raw(lead, Spelled(line.toks, layout.spaced)))
LaidOut(lines, layout) ==
  LET Piece(line) == IF layout.hang THEN Hung(line) ELSE <<line>>
      AllRows(parts) == Flat([k \in DOMAIN parts |-> Rows(parts[k], layout)])
  IN  Flat([k \in DOMAIN lines |-> AllRows(Piece(lines[k]))])
TextOf(stmts, layout) == LaidOut(BodyLines(stmts, 0), layout)
=============================================================================
