------------------------------- MODULE Parser -------------------------------
(***************************************************************************)
(* From the tokens of a script to its program (parser.go, ast.go).         *)
(*                                                                         *)
(* A parsing operator is given the position it starts at and returns a     *)
(* Node: what it read, n, and the position after it, p.  Position 0 stands *)
(* for an error: no token is there, so whatever goes on from it fails too. *)
(* nl is exprNL > 0: whether an expression may go on on the next line.     *)
(*                                                                         *)
(* The parser is one recursive function, Read: what a rule of the grammar  *)
(* reads at a position.  Each rule is an operator over that function, R.   *)
(***************************************************************************)
EXTENDS Lexer, FiniteSets

VARIABLE tokens

-----------------------------------------------------------------------------
(* What is read: expressions, statements, functions and types. *)

None == [kind |-> "none"]
Ident(x) == [kind |-> "ident", name |-> x]
Number(x) == [kind |-> "number", text |-> x]
String(x) == [kind |-> "string", text |-> x]
Bool(b) == [kind |-> "bool", val |-> b]
Na == [kind |-> "na"]
Unary(op, e) == [kind |-> "unary", op |-> op, right |-> e]
Binary(op, l, r) == [kind |-> "binary", op |-> op, left |-> l, right |-> r]
Ternary(c, t, f) == [kind |-> "ternary", cond |-> c, then |-> t, else |-> f]
Index(e, i) == [kind |-> "index", left |-> e, right |-> i]
Call(f, args) == [kind |-> "call", left |-> f, args |-> args]
NamedArg(x, e) == [kind |-> "named_arg", name |-> x, right |-> e]
Listed(kind, es) == [kind |-> kind, elems |-> es]   \* "array" or "tuple"
Switch(s, cases, default) ==
  [kind |-> "switch", subject |-> s, cases |-> cases, default |-> default]

Decl(x, type, const, e) == [kind |-> "decl", name |-> x, type |-> type, const |-> const, expr |-> e]
Assign(x, e) == [kind |-> "assign", name |-> x, expr |-> e]
TupleAssign(xs, e) == [kind |-> "tuple_assign", names |-> xs, expr |-> e]
Of(kind, e) == [kind |-> kind, expr |-> e]          \* "expr" or "return"
If(c, t, e) == [kind |-> "if", cond |-> c, then |-> t, else |-> e]
While(c, b) == [kind |-> "while", cond |-> c, body |-> b]
For(xs, from, to, by, b) ==
  [kind |-> "for", vars |-> xs, from |-> from, to |-> to, by |-> by, body |-> b]
ForIn(xs, e, b) == [kind |-> "for in", vars |-> xs, in |-> e, body |-> b]
Block(b) == [kind |-> "block", body |-> b]
Jump(kind) == [kind |-> kind]                       \* "break" or "continue"
Function(f, params, b, e) ==
  [kind |-> "function", name |-> f, params |-> params, body |-> b, expr |-> e]
Type(t, fields) == [kind |-> "type", name |-> t, fields |-> fields]

-----------------------------------------------------------------------------
(* The tokens ahead. *)

Node(n, p) == [n |-> n, p |-> p]
FAIL == Node(<<>>, 0)

Peek(i) == IF i = 0 THEN BadToken ELSE IF i > Len(tokens) THEN Mark("EOF") ELSE tokens[i]
Is(i, typ) == Peek(i).typ = typ
IsWord(i, w) == Peek(i) = Token("IDENT", w)
Expect(i, typ) == IF Is(i, typ) THEN i + 1 ELSE 0
ExpectWord(i, w) == IF IsWord(i, w) THEN i + 1 ELSE 0
Skip(i) == IF i = 0 THEN 0 ELSE FirstFrom(tokens, i, LAMBDA t : t.typ # "NEWLINE")
\* expectNewlineAndIndent
Into(i) == Expect(Skip(i), "INDENT")

\* Mutant: comparisons bind like equalities.
OneComparison(t) ==
  LET op == IF t.typ = "IDENT" THEN t.text ELSE t.typ
  IN  CASE op = "or" -> 1 [] op = "and" -> 2 [] op \in {"==", "!=", "<", "<=", ">", ">="} -> 3
        [] op \in {"+", "-"} -> 5 [] op \in {"*", "/", "%"} -> 6 [] OTHER -> -1
\* infixInfo: the precedence of an infix operator, -1 for any other token.
Precedence(t) ==
  LET op == IF t.typ = "IDENT" THEN t.text ELSE t.typ
  IN  CASE op = "or" -> 1 [] op = "and" -> 2 [] op \in {"==", "!="} -> 3
        [] op \in {"<", "<=", ">", ">="} -> 4 [] op \in {"+", "-"} -> 5
        [] op \in {"*", "/", "%"} -> 6 [] OTHER -> -1
UnaryPrecedence == 9

\* isAssignToken and makeAssignExpr.
AssignOps == {"=", ":=", "+=", "-=", "*=", "/=", "%="}
Assigned(x, op, e) ==
  IF op \in {"=", ":="} THEN e
  ELSE Binary(CHOOSE o \in {"+", "-", "*", "/", "%"} : o \o "=" = op, Ident(x), e)

-----------------------------------------------------------------------------
(* Types and declarations, as far as they need no expression. *)

TypeWords == {"int", "float", "bool", "string", "array", "matrix", "map", "color", "line"}
Qualifiers == {"simple", "series", "input"}
DeclWords == {"var", "const", "varip"}
Unsupported == {"enum", "import", "export", "do", "as", "in"}
DeclEnds == {"=", "NEWLINE", "DEDENT", "EOF"}

\* consumeTypeAnnotation: the position after the <...> at i, and after the type at i.
AfterGeneric(i) ==
  LET Count(typ, j) == Cardinality({k \in i..j : Is(k, typ)})
      closed == {j \in i..Len(tokens) : Is(j, ">") /\ Count("<", j) = Count(">", j)}
      end == IF closed = {} THEN 0 ELSE Min(closed)
  IN  IF \E k \in i..end : Peek(k).typ \in {"NEWLINE", "EOF"} THEN 0
      ELSE IF end = 0 THEN 0 ELSE end + 1
AfterType(i) ==
  LET base == IF ~Is(i, "IDENT") THEN 0 ELSE IF Is(i + 1, "<") THEN AfterGeneric(i + 1) ELSE i + 1
  IN  IF Is(base, "[") /\ Is(base + 1, "]") THEN base + 2 ELSE base

\* x is the position after the type at i.
IsTypedDeclStart(i, x) ==
  /\ Is(i, "IDENT") /\ ~Is(i + 1, "(")
  /\ \/ Peek(i).text \in TypeWords
     \/ Is(i + 1, "IDENT") /\ Peek(i + 2).typ \in DeclEnds
     \/ Is(i + 1, "<") /\ Is(x, "IDENT") /\ Peek(x + 1).typ \in DeclEnds

\* The position after the `=` of a tuple assignment that starts at i, or 0.
TupleHead(i) ==
  LET j == FirstFrom(tokens, i, LAMBDA t : t.typ = "]")
  IN  IF /\ (j - i) % 2 = 0
         /\ \A k \in (i + 1)..(j - 1) : Is(k, IF (k - i) % 2 = 1 THEN "IDENT" ELSE ",")
      THEN Expect(j + 1, "=") ELSE 0
TupleNames(i) ==
  LET j == FirstFrom(tokens, i, LAMBDA t : t.typ = "]")
  IN  [k \in 1..((j - i) \div 2) |-> Peek(i + 2 * k - 1).text]

\* arrowFollowsParenGroup, for the group at i.
ArrowFollows(i) ==
  LET Count(typ, j) == Cardinality({k \in i..j : Is(k, typ)})
      closed == {j \in i..Len(tokens) : Is(j, ")") /\ Count("(", j) = Count(")", j)}
  IN  Is(i, "(") /\ closed # {} /\ Is(Min(closed) + 1, "=>")

-----------------------------------------------------------------------------
(* Expressions. *)

\* parseSwitch and parseSwitchExpr, after the keyword; the actions of the arms differ.
SwitchAt(R, rule, i, nl) ==
  LET subject == IF Is(i, "NEWLINE") THEN Node(None, i) ELSE R["expr", i, 0, nl]
      arms == R[rule, Into(subject.p), 0, nl]
      cases == SelectSeq(arms.n, LAMBDA arm : arm.match # None)
      defaults == SelectSeq(arms.n, LAMBDA arm : arm.match = None)
  IN  IF Len(defaults) > 1 THEN FAIL
      ELSE Node(Switch(subject.n, cases, IF defaults = <<>> THEN <<>> ELSE defaults[1].body), arms.p)

PrefixAt(R, i, nl) ==
  LET t == Peek(i)
      word == IF t.typ = "IDENT" THEN t.text ELSE ""
      operand == R["expr", i + 1, UnaryPrecedence, nl]
      elems == R[IF t.typ = "(" THEN "tuple" ELSE "array", i + 1, 0, nl]
  IN  CASE t.typ = "NUMBER" -> Node(Number(t.text), i + 1)
        [] t.typ = "STRING" -> Node(String(t.text), i + 1)
        [] t.typ \in {"-", "+"} \/ word = "not" -> Node(Unary(t.text, operand.n), operand.p)
        [] t.typ = "(" /\ Len(elems.n) = 1 -> Node(elems.n[1], elems.p)
        [] t.typ = "(" /\ Len(elems.n) # 1 -> Node(Listed("tuple", elems.n), elems.p)
        [] t.typ = "[" -> Node(Listed("array", elems.n), elems.p)
        [] word = "switch" -> SwitchAt(R, "value arms", i + 1, nl)
        [] word \in {"true", "false"} -> Node(Bool(word = "true"), i + 1)
        [] word = "na" -> Node(IF Is(i + 1, "(") THEN Ident("na") ELSE Na, i + 1)
        [] word \notin {"", "not", "switch", "true", "false", "na"} -> Node(Ident(word), i + 1)
        [] OTHER -> FAIL

\* The loop of parseExpr: what follows an operand, one suffix after the other.
SuffixesAt(R, from, prec, nl) ==
  LET i == IF nl THEN Skip(from) ELSE from
      op == Peek(i)
      args == R["args", Skip(i + 1), 0, TRUE]
      inner == R["expr", i + 1, 0, nl]
      right == R["expr", i + 1, Precedence(op) + 1, nl]
      else == R["expr", Expect(inner.p, ":"), 0, nl]
      Then(suffix, p) == LET rest == R["suffixes", p, prec, nl] IN Node(<<suffix>> \o rest.n, rest.p)
  IN  CASE Is(i, "(") -> Then([kind |-> "call", args |-> args.n], args.p)
        [] Is(i, "[") -> Then([kind |-> "index", right |-> inner.n], Expect(inner.p, "]"))
        [] Precedence(op) >= Max({prec, 0}) -> Then([kind |-> "binary", op |-> op.text, right |-> right.n], right.p)
        [] Is(i, "?") /\ prec <= 0 -> Node(<<[kind |-> "ternary", then |-> inner.n, else |-> else.n]>>, else.p)
        [] OTHER -> Node(<<>>, i)
\* An operand with one suffix.
Suffixed(left, s) ==
  CASE s.kind = "call" -> Call(left, s.args)
    [] s.kind = "index" -> Index(left, s.right)
    [] s.kind = "binary" -> Binary(s.op, left, s.right)
    [] s.kind = "ternary" -> Ternary(left, s.then, s.else)

ExprAt(R, i, prec, nl) ==
  LET left == PrefixAt(R, IF nl THEN Skip(i) ELSE i, nl)
      suffixes == R["suffixes", left.p, prec, nl]
  IN  Node(FoldLeft(Suffixed, left.n, suffixes.n), suffixes.p)

\* The elements of a tuple or an array, up to its closing mark; an array may be empty
\* and may end in a comma.
ElemsAt(R, rule, i, nl) ==
  LET close == IF rule = "tuple" THEN ")" ELSE "]"
      e == R["expr", i, 0, nl]
      rest == R[rule, e.p + 1, 0, nl]
  IN  IF rule = "array" /\ Is(i, close) THEN Node(<<>>, i + 1)
      ELSE IF Is(e.p, ",") THEN Node(<<e.n>> \o rest.n, rest.p)
      ELSE Node(<<e.n>>, Expect(e.p, close))

\* parseArgs, after the opening parenthesis: newlines do not count.
ArgsAt(R, i) ==
  LET e == R["expr", i, 0, TRUE]
      named == Is(e.p, "=") /\ e.n.kind = "ident"
      v == IF named THEN R["expr", Skip(e.p + 1), 0, TRUE] ELSE e
      arg == IF named THEN NamedArg(e.n.name, v.n) ELSE v.n
      rest == R["args", Skip(v.p + 1), 0, TRUE]
  IN  IF Is(i, ")") THEN Node(<<>>, i + 1)
      ELSE IF Is(v.p, ",") THEN Node(<<arg>> \o rest.n, rest.p)
      ELSE Node(<<arg>>, Expect(Skip(v.p), ")"))

-----------------------------------------------------------------------------
(* Declarations, assignments and functions. *)

\* parseRHSExpr: a value may start on the next line, indented.
RHSAt(R, i, nl) ==
  LET e == R["expr", Into(i), 0, TRUE]
  IN  IF Is(i, "NEWLINE") THEN Node(e.n, Expect(Skip(e.p), "DEDENT")) ELSE R["expr", i, 0, nl]

DeclAt(R, i, nl) ==
  LET typed == Is(R["type", i + 1, 0, nl].p, "IDENT")
      x == IF typed THEN R["type", i + 1, 0, nl].p ELSE i + 1
      e == IF Is(x + 1, "=") THEN RHSAt(R, x + 2, nl) ELSE Node(None, x + 1)
      type == IF typed THEN Peek(i + 1).text ELSE ""
  IN  IF Is(x, "IDENT") THEN Node(Decl(Peek(x).text, type, IsWord(i, "const"), e.n), e.p) ELSE FAIL

\* An optional value, after the name at x.
DefaultAt(R, x, nl) == IF Is(x + 1, "=") THEN R["expr", x + 2, 0, nl] ELSE Node(None, x + 1)

TypedDeclAt(R, i, nl) ==
  LET x == R["type", i, 0, nl].p
      e == DefaultAt(R, x, nl)
  IN  IF Is(x, "IDENT") THEN Node(Decl(Peek(x).text, Peek(i).text, FALSE, e.n), e.p) ELSE FAIL

QualifiedDeclAt(R, i, nl) ==
  LET j == FirstFrom(tokens, i, LAMBDA t : t.typ # "IDENT" \/ t.text \notin Qualifiers)
  IN  IF Is(j, "IDENT") /\ Peek(j).text \in DeclWords THEN R["decl", j, 0, nl]
      ELSE R["typed decl", j, 0, nl]

\* An assignment of the value read after its operator.
AssignAt(i, e) == Node(Assign(Peek(i).text, Assigned(Peek(i).text, Peek(i + 1).typ, e.n)), e.p)

EvaluateAt(R, kind, i, nl) == LET e == R["expr", i, 0, nl] IN Node(Of(kind, e.n), e.p)

\* parseParams, after the opening parenthesis.
ParamsAt(R, i, nl) ==
  LET qualified == Is(i, "IDENT") /\ Peek(i).text \in Qualifiers /\ Is(i + 1, "IDENT")
      annotated == Is(i, "IDENT") /\ (Peek(i).text \in TypeWords \/ Peek(i + 1).typ \in {"IDENT", "<"})
      x == IF annotated THEN R["type", i, 0, nl].p ELSE i
      e == DefaultAt(R, x, nl)
      param == [name |-> Peek(x).text, default |-> e.n]
      rest == R["params", e.p + 1, 0, nl]
  IN  IF Is(i, ")") THEN Node(<<>>, i + 1)
      ELSE IF qualified THEN R["params", i + 1, 0, nl]
      ELSE IF ~Is(x, "IDENT") THEN FAIL
      ELSE IF Is(e.p, ",") THEN Node(<<param>> \o rest.n, rest.p)
      ELSE Node(<<param>>, Expect(e.p, ")"))

\* parseFunction and tryParseArrowFunction, from the name on.
FunctionAt(R, i, nl) ==
  LET params == R["params", Expect(Expect(i, "IDENT"), "("), 0, nl]
      start == IF Is(params.p, "=>") THEN params.p + 1 ELSE params.p
      body == R["block", Into(start), 0, nl]
      e == R["expr", start, 0, nl]
      Fn(b, x) == Function(Peek(i).text, params.n, b, x)
  IN  IF start = params.p \/ Is(start, "NEWLINE") THEN Node(Fn(body.n, None), body.p)
      ELSE Node(Fn(<<>>, e.n), e.p)

\* The fields of a type, after the indentation.
FieldsAt(R, i, nl) ==
  LET x == R["type", i, 0, nl].p
      e == DefaultAt(R, x, nl)
      rest == R["fields", Skip(e.p), 0, nl]
  IN  IF Is(i, "DEDENT") THEN Node(<<>>, i + 1)
      ELSE IF ~Is(x, "IDENT") THEN FAIL
      ELSE Node(<<[name |-> Peek(x).text, type |-> Peek(i).text, default |-> e.n]>> \o rest.n, rest.p)

TypeAt(R, i, nl) ==
  LET fields == R["fields", Skip(Into(Expect(i + 1, "IDENT"))), 0, nl]
  IN  Node(Type(Peek(i + 1).text, fields.n), fields.p)

-----------------------------------------------------------------------------
(* Switches. *)

\* parseSwitchCaseAction: a block, or one statement of a few kinds.
ActionAt(R, i, nl) ==
  LET word == IF Is(i, "IDENT") THEN Peek(i).text ELSE ""
      block == R["block", Into(i), 0, nl]
  IN  CASE Is(i, "NEWLINE") -> Node(Block(block.n), block.p)
        [] word \in DeclWords -> R["decl", i, 0, nl]
        [] word \in Qualifiers -> QualifiedDeclAt(R, i, nl)
        [] word \in Unsupported \ {"enum"} -> FAIL
        [] word = "method" -> FunctionAt(R, i + 1, nl)
        [] OTHER ->
             IF IsTypedDeclStart(i, R["type", i, 0, nl].p) THEN R["typed decl", i, 0, nl]
             ELSE IF word # "" /\ Peek(i + 1).typ \in AssignOps THEN AssignAt(i, R["expr", i + 2, 0, nl])
             ELSE EvaluateAt(R, "expr", i, nl)

\* The statements an arm executes; in an expression, those that give it its value.
ArmAt(R, i, nl) == LET s == ActionAt(R, i, nl) IN Node(<<s.n>>, s.p)
ValueArmAt(R, i, nl) ==
  LET s == EvaluateAt(R, "expr", i, nl)
  IN  IF Is(i, "NEWLINE") THEN R["block", Into(i), 0, nl] ELSE Node(<<s.n>>, s.p)

ArmsAt(R, rule, from, nl) ==
  LET i == Skip(from)
      match == IF Is(i, "=>") THEN Node(None, i) ELSE R["expr", i, 0, nl]
      body == R[IF rule = "arms" THEN "arm" ELSE "value arm", Expect(match.p, "=>"), 0, nl]
      rest == R[rule, body.p, 0, nl]
  IN  IF i = 0 \/ Is(i, "EOF") THEN FAIL
      ELSE IF Is(i, "DEDENT") THEN Node(<<>>, i + 1)
      ELSE Node(<<[match |-> match.n, body |-> body.n]>> \o rest.n, rest.p)

-----------------------------------------------------------------------------
(* Statements. *)

IfAt(R, i, nl) ==
  LET cond == R["expr", i + 1, 0, nl]
      then == R["block", Into(cond.p), 0, nl]
      e == Skip(then.p)
      afterElse == Skip(e + 1)
      nested == R["stmt", afterElse, 0, nl]
      else == IF IsWord(afterElse, "if") THEN Node(<<nested.n>>, nested.p)
              ELSE R["block", Into(afterElse), 0, nl]
  IN  IF IsWord(e, "else") THEN Node(If(cond.n, then.n, else.n), else.p)
      ELSE Node(If(cond.n, then.n, <<>>), e)

WhileAt(R, i, nl) ==
  LET cond == R["expr", i + 1, 0, nl]
      body == R["block", Into(cond.p), 0, nl]
  IN  Node(While(cond.n, body.n), body.p)

ForAt(R, i, nl) ==
  LET pair == Is(i, "[")
      vars == IF pair THEN <<Peek(i + 1).text, Peek(i + 3).text>> ELSE <<Peek(i).text>>
      head == IF ~pair THEN Expect(i, "IDENT")
              ELSE IF Is(i + 1, "IDENT") /\ Is(i + 2, ",") /\ Is(i + 3, "IDENT") THEN Expect(i + 4, "]")
              ELSE 0
      in == R["expr", head + 1, 0, nl]
      each == R["block", Into(in.p), 0, nl]
      from == R["expr", Expect(head, "="), 0, nl]
      to == R["expr", ExpectWord(from.p, "to"), 0, nl]
      by == IF IsWord(to.p, "by") THEN R["expr", to.p + 1, 0, nl] ELSE Node(None, to.p)
      body == R["block", Into(by.p), 0, nl]
  IN  IF IsWord(head, "in") THEN Node(ForIn(vars, in.n, each.n), each.p)
      ELSE IF pair THEN FAIL
      ELSE Node(For(vars, from.n, to.n, by.n, body.n), body.p)

StmtAt(R, i, nl) ==
  LET word == IF Is(i, "IDENT") THEN Peek(i).text ELSE ""
      tuple == IF Is(i, "[") THEN TupleHead(i) ELSE 0
      rhs == R["expr", tuple, 0, nl]
  IN  CASE tuple # 0 -> Node(TupleAssign(TupleNames(i), rhs.n), rhs.p)
        [] word = "if" -> IfAt(R, i, nl)
        [] word = "while" -> WhileAt(R, i, nl)
        [] word = "for" -> ForAt(R, i + 1, nl)
        [] word = "switch" -> SwitchAt(R, "arms", i + 1, nl)
        [] word \in {"break", "continue"} -> Node(Jump(word), i + 1)
        [] word = "return" ->
             IF Peek(i + 1).typ \in {"NEWLINE", "DEDENT", "EOF"} THEN Node(Of("return", None), i + 1)
             ELSE EvaluateAt(R, "return", i + 1, nl)
        [] word \in DeclWords -> R["decl", i, 0, nl]
        [] word \in Qualifiers -> QualifiedDeclAt(R, i, nl)
        [] word = "type" -> TypeAt(R, i, nl)
        [] word \in Unsupported -> FAIL
        [] word \in {"method", "function"} -> FunctionAt(R, i + 1, nl)
        [] OTHER ->
             IF IsTypedDeclStart(i, R["type", i, 0, nl].p) THEN R["typed decl", i, 0, nl]
             ELSE IF word # "" /\ ArrowFollows(i + 1) THEN FunctionAt(R, i, nl)
             ELSE IF word # "" /\ Peek(i + 1).typ \in AssignOps THEN AssignAt(i, RHSAt(R, i + 2, nl))
             ELSE EvaluateAt(R, "expr", i, nl)

\* parseBlock and the loop of parseProgram: statements up to the end of the
\* indentation or of the script.
StmtsAt(R, rule, from, nl) ==
  LET i == Skip(from)
      end == IF rule = "block" THEN "DEDENT" ELSE "EOF"
      s == R["stmt", i, 0, nl]
      rest == R[rule, s.p, 0, nl]
  IN  IF i = 0 THEN FAIL
      ELSE IF Is(i, end) THEN Node(<<>>, i + 1)
      ELSE Node(<<s.n>> \o rest.n, rest.p)

Rules == {"expr", "suffixes", "tuple", "array", "args", "type", "decl", "typed decl", "params",
          "fields", "arms", "value arms", "arm", "value arm", "stmt", "block", "program"}
\* What rule reads at i; no token is at position 0.
Read[rule \in Rules, i \in Nat, prec \in 0..UnaryPrecedence, nl \in BOOLEAN] ==
  CASE i = 0 -> FAIL
    [] i # 0 /\ rule = "expr" -> ExprAt(Read, i, prec, nl)
    [] i # 0 /\ rule = "suffixes" -> SuffixesAt(Read, i, prec, nl)
    [] i # 0 /\ rule \in {"tuple", "array"} -> ElemsAt(Read, rule, i, nl)
    [] i # 0 /\ rule = "args" -> ArgsAt(Read, i)
    [] i # 0 /\ rule = "type" -> Node(<<>>, AfterType(i))
    [] i # 0 /\ rule = "decl" -> DeclAt(Read, i, nl)
    [] i # 0 /\ rule = "typed decl" -> TypedDeclAt(Read, i, nl)
    [] i # 0 /\ rule = "params" -> ParamsAt(Read, i, nl)
    [] i # 0 /\ rule = "fields" -> FieldsAt(Read, i, nl)
    [] i # 0 /\ rule \in {"arms", "value arms"} -> ArmsAt(Read, rule, i, nl)
    [] i # 0 /\ rule = "arm" -> ArmAt(Read, i, nl)
    [] i # 0 /\ rule = "value arm" -> ValueArmAt(Read, i, nl)
    [] i # 0 /\ rule = "stmt" -> StmtAt(Read, i, nl)
    [] i # 0 /\ rule \in {"block", "program"} -> StmtsAt(Read, rule, i, nl)

-----------------------------------------------------------------------------
(* The program: functions and types are kept by name, the last one counts. *)

ByName(stmts, kind) ==
  FoldLeft(LAMBDA f, s : IF s.kind = kind THEN (s.name :> s) @@ f ELSE f, <<>>, stmts)
Program(stmts) ==
  [stmts |-> SelectSeq(stmts, LAMBDA s : s.kind \notin {"function", "type"}),
   functions |-> ByName(stmts, "function"), types |-> ByName(stmts, "type")]

Whole == Read["program", 1, 0, FALSE]
Parses == Whole.p # 0
ParseProgram == Program(Whole.n)
=============================================================================
