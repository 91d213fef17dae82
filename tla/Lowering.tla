------------------------------ MODULE Lowering ------------------------------
(***************************************************************************)
(* The program the runtime evaluates (lowering.go, opcode_ids.go).         *)
(*                                                                         *)
(* Opcodes are the names of what they stand for.  What is left to lowering *)
(* is to recognise max(min(v, u), l) and min(max(v, l), u) as one clamp,   *)
(* anywhere in a program.                                                  *)
(***************************************************************************)
EXTENDS Parser

\* isCallNamed, and a call of two arguments.
CallsNamed(e, names) == e.kind = "call" /\ e.left.kind = "ident" /\ e.left.name \in names
Pairs(e, names) == CallsNamed(e, names) /\ Len(e.args) = 2
Maxes == {"math.max", "max"}
Mins == {"math.min", "min"}

\* Mutant: the bounds change places.
ClampSwapped(e) ==
  CASE Pairs(e, Maxes) /\ Pairs(e.args[1], Mins) ->
         Listed("cisc_clamp", <<e.args[1].args[1], e.args[1].args[2], e.args[2]>>)
    [] Pairs(e, Mins) /\ Pairs(e.args[1], Maxes) ->
         Listed("cisc_clamp", <<e.args[1].args[1], e.args[1].args[2], e.args[2]>>)
    [] OTHER -> e
\* tryLowerClampCall: the value, the lower and the upper bound.
Clamp(e) ==
  CASE Pairs(e, Maxes) /\ Pairs(e.args[1], Mins) ->
         Listed("cisc_clamp", <<e.args[1].args[1], e.args[2], e.args[1].args[2]>>)
    [] Pairs(e, Mins) /\ Pairs(e.args[1], Maxes) ->
         Listed("cisc_clamp", <<e.args[1].args[1], e.args[1].args[2], e.args[2]>>)
    [] OTHER -> e

RECURSIVE LowerExpr(_), LowerStmt(_)
LowerAll(es) == [k \in DOMAIN es |-> LowerExpr(es[k])]
LowerBody(stmts) == [k \in DOMAIN stmts |-> LowerStmt(stmts[k])]
LowerCases(cases) ==
  [k \in DOMAIN cases |-> [match |-> LowerExpr(cases[k].match), body |-> LowerBody(cases[k].body)]]
LowerFields(fs) == [k \in DOMAIN fs |-> [fs[k] EXCEPT !.default = LowerExpr(@)]]

LowerExpr(e) ==
  CASE e.kind \in {"unary", "named_arg"} -> [e EXCEPT !.right = LowerExpr(@)]
    [] e.kind \in {"binary", "index"} -> [e EXCEPT !.left = LowerExpr(@), !.right = LowerExpr(@)]
    [] e.kind = "ternary" ->
         [e EXCEPT !.cond = LowerExpr(@), !.then = LowerExpr(@), !.else = LowerExpr(@)]
    [] e.kind \in {"array", "tuple", "cisc_clamp"} -> [e EXCEPT !.elems = LowerAll(@)]
    [] e.kind = "call" -> Clamp([e EXCEPT !.left = LowerExpr(@), !.args = LowerAll(@)])
    [] e.kind = "switch" -> [e EXCEPT !.subject = LowerExpr(@), !.cases = LowerCases(@),
                                      !.default = LowerBody(@)]
    [] OTHER -> e

LowerFunction(fn) ==
  [fn EXCEPT !.body = LowerBody(@), !.expr = LowerExpr(@), !.params = LowerFields(@)]

LowerStmt(s) ==
  CASE s.kind \in {"decl", "assign", "tuple_assign", "expr", "return"} -> [s EXCEPT !.expr = LowerExpr(@)]
    [] s.kind = "if" -> [s EXCEPT !.cond = LowerExpr(@), !.then = LowerBody(@), !.else = LowerBody(@)]
    [] s.kind = "while" -> [s EXCEPT !.cond = LowerExpr(@), !.body = LowerBody(@)]
    [] s.kind = "for" -> [s EXCEPT !.from = LowerExpr(@), !.to = LowerExpr(@), !.by = LowerExpr(@),
                                   !.body = LowerBody(@)]
    [] s.kind = "for in" -> [s EXCEPT !.in = LowerExpr(@), !.body = LowerBody(@)]
    [] s.kind = "block" -> [s EXCEPT !.body = LowerBody(@)]
    [] s.kind = "switch" -> LowerExpr(s)
    [] s.kind = "function" -> LowerFunction(s)
    [] s.kind = "type" -> [s EXCEPT !.fields = LowerFields(@)]
    [] OTHER -> s

LowerProgram(program) ==
  [stmts |-> LowerBody(program.stmts),
   functions |-> [f \in DOMAIN program.functions |-> LowerFunction(program.functions[f])],
   types |-> [t \in DOMAIN program.types |-> LowerStmt(program.types[t])]]
=============================================================================
