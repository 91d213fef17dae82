----------------------------- MODULE TypeCheck -----------------------------
(***************************************************************************)
(* The static types of a program, and what is rejected (typecheck.go).     *)
(*                                                                         *)
(* An environment is a function from names to types, Reject once an        *)
(* error is found.  Checking an expression may change it, because the arms *)
(* of a switch hold statements: every operator takes the environment and   *)
(* returns the type and the environment after it.                          *)
(***************************************************************************)
EXTENDS Parser

Unknown == "unknown"
NoTypes == [x \in {} |-> Unknown]
Reject == [x \in {"!"} |-> Unknown]   \* no name is spelt so
Put(f, x, e) == [y \in DOMAIN f \cup {x} |-> IF y = x THEN e ELSE f[y]]

Typed(type, env) == [type |-> type, env |-> env]
Rejected == Typed(Unknown, Reject)

\* staticTypeFromName, staticTypeForIdentifier and staticTypeForBuiltinCall.
TypeNamed(name) ==
  CASE name = "bool" -> "bool" [] name \in {"int", "float"} -> "number"
    [] name = "string" -> "string" [] OTHER -> Unknown
TypeOfName(x, env) ==
  IF x \in DOMAIN env THEN env[x]
  ELSE IF x \in {"open", "close", "bar_index"} THEN "number" ELSE Unknown
TypeOfCall(f) ==
  CASE f \in {"bool", "na", "ta.crossover"} -> "bool"
    [] f \in {"int", "float", "math.max", "math.min"} -> "number" [] OTHER -> Unknown

\* mergeStaticExprTypes over the arms of a switch: Unknown as long as no arm says more.
Merged(types) ==
  LET known == SelectSeq(types, LAMBDA t : t \notin {Unknown, "na"})
  IN  IF known = <<>> THEN Unknown
      ELSE FoldLeft(LAMBDA merged, t : IF merged = t THEN t ELSE Unknown, known[1], Tail(known))

Literals == {"number", "string", "bool", "na"}
Arithmetic == {"+", "-", "*", "/", "%"}
\* The expressions an expression is made of, in the order they are checked.
Parts(e) ==
  CASE e.kind \in Literals \cup {"ident", "none", "switch"} -> <<>>
    [] e.kind \in {"unary", "named_arg"} -> <<e.right>>
    [] e.kind \in {"binary", "index"} -> <<e.left, e.right>>
    [] e.kind = "ternary" -> <<e.cond, e.then, e.else>>
    [] e.kind = "call" -> <<e.left>> \o e.args
    [] e.kind \in {"array", "tuple", "cisc_clamp"} -> e.elems

\* Mutant: only the left operand makes + a concatenation.
LeftConcatenates(e, types, env) ==
  CASE e.kind \in Literals -> e.kind
    [] e.kind = "ident" -> TypeOfName(e.name, env)
    [] e.kind = "index" -> IF types[1] \in {"bool", "number", "string"} THEN types[1] ELSE Unknown
    [] e.kind = "unary" -> IF e.op = "not" THEN "bool" ELSE "number"
    [] e.kind = "binary" ->
         IF e.op \notin Arithmetic THEN "bool"
         ELSE IF e.op = "+" /\ types[1] = "string" THEN "string" ELSE "number"
    [] e.kind = "ternary" -> IF types[2] = types[3] THEN types[2] ELSE Unknown
    [] e.kind = "named_arg" -> types[1]
    [] e.kind = "call" -> IF e.left.kind = "ident" THEN TypeOfCall(e.left.name) ELSE Unknown
    [] OTHER -> Unknown
\* The type of an expression from those of its parts.
TypeFrom(e, types, env) ==
  CASE e.kind \in Literals -> e.kind
    [] e.kind = "ident" -> TypeOfName(e.name, env)
    [] e.kind = "index" -> IF types[1] \in {"bool", "number", "string"} THEN types[1] ELSE Unknown
    [] e.kind = "unary" -> IF e.op = "not" THEN "bool" ELSE "number"
    [] e.kind = "binary" ->
         IF e.op \notin Arithmetic THEN "bool"
         ELSE IF e.op = "+" /\ "string" \in {types[1], types[2]} THEN "string" ELSE "number"
    [] e.kind = "ternary" -> IF types[2] = types[3] THEN types[2] ELSE Unknown
    [] e.kind = "named_arg" -> types[1]
    [] e.kind = "call" -> IF e.left.kind = "ident" THEN TypeOfCall(e.left.name) ELSE Unknown
    [] OTHER -> Unknown

-----------------------------------------------------------------------------
RECURSIVE CheckExpr(_, _), CheckStmts(_, _)

\* Expressions one after the other; the type is the sequence of their types.
CheckExprs(es, env) ==
  FoldLeft(LAMBDA acc, e : LET v == CheckExpr(e, acc.env) IN Typed(Append(acc.type, v.type), v.env),
           Typed(<<>>, env), es)

\* A body of one expression has its type (validateSwitchExprBodyNoNumericToBool).
CheckBody(body, env) ==
  IF env # Reject /\ Len(body) = 1 /\ body[1].kind \in {"expr", "return"}
  THEN CheckExpr(body[1].expr, env) ELSE Typed(Unknown, CheckStmts(body, env))

\* One arm more; the types of the arms are collected.
CheckArm(acc, match, body) ==
  LET v == CheckBody(body, CheckExpr(match, acc.env).env) IN Typed(Append(acc.type, v.type), v.env)
CheckSwitch(e, env) ==
  LET arms == e.cases \o <<[match |-> None, body |-> e.default]>>
  IN  FoldLeft(LAMBDA acc, c : CheckArm(acc, c.match, c.body), Typed(<<>>, CheckExpr(e.subject, env).env), arms)

Concluded(e, parts) ==
  IF parts.env = Reject THEN Rejected
  ELSE Typed(IF e.kind = "switch" THEN Merged(parts.type) ELSE TypeFrom(e, parts.type, parts.env), parts.env)
CheckExpr(e, env) ==
  IF env = Reject THEN Rejected
  ELSE Concluded(e, IF e.kind = "switch" THEN CheckSwitch(e, env) ELSE CheckExprs(Parts(e), env))

\* A declaration or an assignment of a value to x, declared of type `declared`; v is its
\* type and the environment after it.
Given(x, declared, v) ==
  IF v.env = Reject \/ (declared = "bool" /\ v.type = "number") THEN Reject
  ELSE IF declared # Unknown THEN Put(v.env, x, declared)
  ELSE IF v.type \notin {Unknown, "na"} THEN Put(v.env, x, v.type) ELSE v.env
Known(x, env) == IF x \in DOMAIN env THEN env[x] ELSE Unknown

CheckStmt(s, env) ==
  LET Value(e, en) == CheckExpr(e, en).env
  IN  CASE env = Reject -> Reject
        [] s.kind = "decl" -> Given(s.name, TypeNamed(s.type), CheckExpr(s.expr, env))
        [] s.kind = "assign" -> LET v == CheckExpr(s.expr, env) IN Given(s.name, Known(s.name, v.env), v)
        [] s.kind \in {"tuple_assign", "expr", "return"} -> Value(s.expr, env)
        [] s.kind = "if" -> CheckStmts(s.else, CheckStmts(s.then, Value(s.cond, env)))
        [] s.kind = "while" -> CheckStmts(s.body, Value(s.cond, env))
        [] s.kind = "for" -> CheckStmts(s.body, Value(s.by, Value(s.to, Value(s.from, env))))
        [] s.kind = "for in" -> CheckStmts(s.body, Value(s.in, env))
        [] s.kind = "block" -> CheckStmts(s.body, env)
        [] s.kind = "switch" -> CheckSwitch(s, env).env
        [] OTHER -> env

CheckStmts(stmts, env) == FoldLeft(LAMBDA en, s : CheckStmt(s, en), env, stmts)

-----------------------------------------------------------------------------
(* Functions. *)

\* Mutant: the bodies of conditions are forgotten.
RECURSIVE LocalNames(_), TopLocals(_)
TopLocals(stmts) ==
  UNION {LET s == stmts[i] IN
         CASE s.kind \in {"decl", "assign"} -> {s.name}
           [] s.kind \in {"for", "for in", "while"} -> TopLocals(s.body)
           [] s.kind = "switch" ->
                TopLocals(s.default) \cup UNION {TopLocals(s.cases[k].body) : k \in DOMAIN s.cases}
           [] OTHER -> {} : i \in DOMAIN stmts}
\* collectLocalDeclNames.
LocalNames(stmts) ==
  UNION {LET s == stmts[i] IN
         CASE s.kind \in {"decl", "assign"} -> {s.name}
           [] s.kind = "if" -> LocalNames(s.then) \cup LocalNames(s.else)
           [] s.kind \in {"for", "for in", "while"} -> LocalNames(s.body)
           [] s.kind = "switch" ->
                LocalNames(s.default) \cup UNION {LocalNames(s.cases[k].body) : k \in DOMAIN s.cases}
           [] OTHER -> {} : i \in DOMAIN stmts}

\* The environment of a function before its defaults and its body, and after them.
Seeded(fn, globals) ==
  LET params == {fn.params[k].name : k \in DOMAIN fn.params}
      seen == {x \in DOMAIN globals : x \notin LocalNames(fn.body)}
  IN  [x \in seen \cup params |-> IF x \in params THEN Unknown ELSE globals[x]]
CheckFunction(fn, globals) ==
  LET defaults == CheckExprs([k \in DOMAIN fn.params |-> fn.params[k].default], Seeded(fn, globals))
  IN  CheckStmts(fn.body, CheckExpr(fn.expr, defaults.env).env)

\* validateNoNumericToBoolAutoConversion.
Accepted(program) ==
  LET globals == CheckStmts(program.stmts, NoTypes)
  IN  /\ globals # Reject
      /\ \A f \in DOMAIN program.functions : CheckFunction(program.functions[f], globals) # Reject
=============================================================================
