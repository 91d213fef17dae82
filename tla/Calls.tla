------------------------------- MODULE Calls -------------------------------
(***************************************************************************)
(* What an expression of a lowered program evaluates to: operators,        *)
(* switches, and calls of the script's functions and types, of builtins    *)
(* and of the functions the host registered (runtime_calls.go, eval and    *)
(* its helpers in runtime_exec.go).                                        *)
(*                                                                         *)
(* A number is an integer or NaN, every string is Text, an instance of a   *)
(* type is the sequence of its fields, and an error is Err.  Left out are  *)
(* methods, arrays, and the history of a value: Interp has the latter.     *)
(***************************************************************************)
EXTENDS Lowering

CONSTANTS
  NaN, True, False, Text, Err,  \* values that are no integers
  Hosts                         \* the functions registered: a name and its parameters,
                                \* NoSpec where it was registered without them
NoSpec == <<"!">>

IsFloat(v) == v # Text
ToFloat(v) == CASE v = True -> 1 [] v \in {False, Text} -> 0 [] OTHER -> v
Truthy(v) == v \notin {False, NaN} /\ (v \in {True, Text} \/ v # 0)
Boolean(b) == IF b THEN True ELSE False
CompareEq(v, w) ==
  IF IsFloat(v) /\ IsFloat(w) THEN NaN \notin {v, w} /\ ToFloat(v) = ToFloat(w) ELSE v = w

\* evalUnary and evalBinaryByOpcode.
OfUnary(op, v) ==
  CASE op = "not" -> Boolean(~Truthy(v)) [] v = NaN -> NaN
    [] op = "-" /\ v # NaN -> -ToFloat(v) [] op = "+" /\ v # NaN -> ToFloat(v)
OfBinary(op, v, w) ==
  LET a == ToFloat(v) b == ToFloat(w)
      numbers == NaN \notin {v, w}
  IN  CASE op = "or" -> Boolean(Truthy(v) \/ Truthy(w))
        [] op = "and" -> Boolean(Truthy(v) /\ Truthy(w))
        [] op = "==" -> Boolean(CompareEq(v, w))
        [] op = "!=" -> Boolean(~CompareEq(v, w))
        [] op = "<" -> Boolean(numbers /\ a < b)
        [] op = "<=" -> Boolean(numbers /\ a <= b)
        [] op = ">" -> Boolean(numbers /\ a > b)
        [] op = ">=" -> Boolean(numbers /\ a >= b)
        [] op = "+" /\ Text \in {v, w} -> Text
        [] ~numbers -> NaN
        [] op = "+" /\ Text \notin {v, w} /\ numbers -> a + b
        [] op = "-" /\ numbers -> a - b
        [] op = "*" /\ numbers -> a * b

\* math.max and math.min, and the clamp that stands for both.
Floats(vs) == {ToFloat(vs[k]) : k \in DOMAIN vs}
ClampOf(x, low, high) ==
  IF NaN \notin {x, low} /\ ToFloat(x) < ToFloat(low) THEN ToFloat(low)
  ELSE IF NaN \notin {x, high} /\ ToFloat(x) > ToFloat(high) THEN ToFloat(high) ELSE ToFloat(x)

BuiltinNames == {"math.max", "max", "math.min", "min", "nz", "bool", "color.new"}
Builtin(f, vs) ==
  CASE f \in {"math.max", "max"} -> IF vs = <<>> THEN Err ELSE IF NaN \in Floats(vs) THEN NaN ELSE Max(Floats(vs))
    [] f \in {"math.min", "min"} -> IF vs = <<>> THEN Err ELSE IF NaN \in Floats(vs) THEN NaN ELSE Min(Floats(vs))
    [] f = "nz" -> IF Len(vs) \notin {1, 2} THEN Err
                   ELSE IF vs[1] # NaN THEN vs[1] ELSE IF Len(vs) = 2 THEN vs[2] ELSE 0
    [] f = "bool" -> IF Len(vs) = 1 THEN Boolean(Truthy(vs[1])) ELSE Err
    [] f = "color.new" -> IF Len(vs) \notin {1, 2} THEN Err
                          ELSE <<vs[1], IF Len(vs) = 2 THEN ToFloat(vs[2]) ELSE 0>>
\* builtinCallParamSpecs; the first parameter is required.
BuiltinSpecs == [f \in {"color.new"} |-> <<"color", "transp">>]

-----------------------------------------------------------------------------
(* Binding the arguments of a call to parameters. *)

HasNamedArgs(args) == \E k \in DOMAIN args : args[k].kind = "named_arg"

IsTypeConstructor(f, program) == \E t \in DOMAIN program.types : f = t \o ".new"
TypeOfConstructor(f, program) == program.types[CHOOSE t \in DOMAIN program.types : f = t \o ".new"]
NamesOf(fields) == [k \in DOMAIN fields |-> fields[k].name]

\* callParamSpec, and NoSpec where hasCallParamSpec is false.
SpecOf(f, program) ==
  IF f \in DOMAIN Hosts /\ Hosts[f] # NoSpec THEN Hosts[f]
  ELSE IF f \in DOMAIN program.functions THEN NamesOf(program.functions[f].params)
  ELSE IF IsTypeConstructor(f, program) THEN NamesOf(TypeOfConstructor(f, program).fields)
  ELSE IF f \in DOMAIN BuiltinSpecs THEN BuiltinSpecs[f]
  ELSE NoSpec

Failure == [failed |-> TRUE, slots |-> <<>>]
\* Mutant: a named argument takes the next free slot.
NextSlot(acc, arg, names) ==
  LET free == {k \in DOMAIN acc.slots : acc.slots[k] = None}
  IN  IF acc.failed THEN acc
      ELSE IF free = {} THEN Failure
      ELSE [acc EXCEPT !.slots[Min(free)] = IF arg.kind = "named_arg" THEN arg.right ELSE arg]
\* One argument more; a slot that is None has no argument yet.
BindArg(acc, arg, names) ==
  LET free == {k \in DOMAIN acc.slots : acc.slots[k] = None}
      named == SelectInSeq(names, LAMBDA x : x = arg.name)
  IN  IF acc.failed THEN acc
      ELSE IF arg.kind = "named_arg"
           THEN IF named \in free THEN [acc EXCEPT !.slots[named] = arg.right] ELSE acc
      ELSE IF free = {} THEN Failure
      ELSE [acc EXCEPT !.slots[Min(free)] = arg]

\* bindNamedCallArgs: an unknown name and a second value for a slot are dropped, and
\* the slots after the last one taken.
BindNamedArgs(f, args, names) ==
  LET all == FoldLeft(LAMBDA acc, arg : BindArg(acc, arg, names),
                      [failed |-> FALSE, slots |-> [k \in DOMAIN names |-> None]], args)
      last == Max({k \in DOMAIN all.slots : all.slots[k] # None} \cup {0})
      required == IF f \in DOMAIN BuiltinSpecs /\ names = BuiltinSpecs[f] THEN 1 ELSE 0
  IN  IF all.failed \/ (required = 1 /\ (last = 0 \/ all.slots[1] = None)) THEN Failure
      ELSE [failed |-> FALSE, slots |-> SubSeq(all.slots, 1, last)]

\* prepareCallArgs.
Prepared(f, args, program) ==
  LET names == SpecOf(f, program)
  IN  IF ~HasNamedArgs(args) THEN [failed |-> FALSE, slots |-> args]
      ELSE IF names = NoSpec THEN Failure ELSE BindNamedArgs(f, args, names)

-----------------------------------------------------------------------------
(* Evaluation. *)

NumberOf == [text \in {"0", "1", "2"} |-> CASE text = "0" -> 0 [] text = "1" -> 1 [] text = "2" -> 2]
\* resolve: the innermost frame that knows a name.
Resolved(x, frames) ==
  LET known == {k \in DOMAIN frames : x \in DOMAIN frames[k]}
  IN  IF known = {} THEN Err ELSE frames[Max(known)][x]

\* constExprValue, Err where the expression is no constant.
RECURSIVE ConstantOf(_)
ConstantOf(e) ==
  CASE e.kind = "number" -> NumberOf[e.text] [] e.kind = "string" -> Text
    [] e.kind = "bool" -> Boolean(e.val) [] e.kind = "na" -> NaN
    [] e.kind = "unary" /\ e.op \in {"-", "+"} ->
         LET v == ConstantOf(e.right) IN IF v \in {Text, Err} THEN Err ELSE OfUnary(e.op, v)
    [] OTHER -> Err
\* compareSwitchValue: against a constant, a boolean or a string equals only its like.
EqualsConstant(v, c) == IF v \in {True, False, Text} THEN v = c ELSE IsFloat(c) /\ CompareEq(v, c)

RECURSIVE Eval(_, _, _)

\* The values of expressions, a slot without one being na; Err if any of them fails.
EvalAll(es, program, frames) ==
  LET vs == [k \in DOMAIN es |-> Eval(es[k], program, frames)]
  IN  IF \E k \in DOMAIN vs : vs[k] = Err THEN Err ELSE vs

\* callScriptFunction, for a function of one expression: an argument that is bound to
\* no value hides the default, and a default is evaluated among the parameters.
Called(fn, args, program, frames) ==
  LET n == Len(args)
      start == [x \in {fn.params[k].name : k \in DOMAIN fn.params} |->
                  LET k == Max({j \in DOMAIN fn.params : fn.params[j].name = x})
                  IN  IF k <= n THEN args[k] ELSE NaN]
      Default(frame, p) ==
        IF Err \in {frame[x] : x \in DOMAIN frame} \/ p.default = None THEN frame
        ELSE [frame EXCEPT ![p.name] = Eval(p.default, program, Append(frames, frame))]
      frame == FoldLeft(Default, start, SubSeq(fn.params, n + 1, Len(fn.params)))
  IN  IF Err \in {frame[x] : x \in DOMAIN frame} THEN Err
      ELSE Eval(fn.expr, program, Append(frames, frame))

\* instantiateType: a field without an argument has its default.
Instance(type, slots, args, program, frames) ==
  IF Len(args) > Len(type.fields) THEN Err
  ELSE LET Field(k) == IF k \in DOMAIN slots /\ slots[k] # None THEN args[k]
                       ELSE Eval(type.fields[k].default, program, frames)
           values == [k \in DOMAIN type.fields |-> Field(k)]
       IN  IF \E k \in DOMAIN values : values[k] = Err THEN Err ELSE values

\* Who answers a call, in the order evalCall asks.
Hookable == {"box.new"}
UnsupportedFeature(f) == f \in {"plot", "request.security"}
CalleeOf(f, program) ==
  CASE UnsupportedFeature(f) \/ (f \in Hookable /\ f \in DOMAIN Hosts) ->
         IF f \in DOMAIN Hosts THEN "host" ELSE "nobody"
    [] f \in DOMAIN program.functions -> "script"
    [] f \in BuiltinNames -> "builtin"
    [] IsTypeConstructor(f, program) -> "type"
    [] f \in DOMAIN Hosts -> "host"
    [] OTHER -> "nobody"

EvalCall(e, program, frames) ==
  LET f == e.left.name
      bound == Prepared(f, e.args, program)
      args == EvalAll(bound.slots, program, frames)
      callee == CalleeOf(f, program)
  IN  IF e.left.kind # "ident" \/ bound.failed \/ args = Err THEN Err
      ELSE CASE callee = "script" -> Called(program.functions[f], args, program, frames)
             [] callee = "builtin" -> Builtin(f, args)
             [] callee = "type" -> Instance(TypeOfConstructor(f, program), bound.slots, args, program, frames)
             [] callee = "host" -> IF args = <<>> THEN NaN ELSE args[1]  \* what the host returns here
             [] callee = "nobody" -> Err

RECURSIVE EvalArms(_, _, _, _)
\* execSwitch from case k on, for bodies of one expression.
EvalArms(sw, k, program, frames) ==
  LET subject == Eval(sw.subject, program, frames)
      match == sw.cases[k].match
      v == Eval(match, program, frames)
      chosen == IF sw.subject = None THEN Truthy(v)
                ELSE IF ConstantOf(match) # Err THEN EqualsConstant(subject, ConstantOf(match))
                ELSE CompareEq(subject, v)
      Body(stmts) == IF stmts = <<>> THEN NaN ELSE Eval(Last(stmts).expr, program, frames)
  IN  IF subject = Err \/ (k <= Len(sw.cases) /\ v = Err) THEN Err
      ELSE IF k > Len(sw.cases) THEN Body(sw.default)
      ELSE IF chosen THEN Body(sw.cases[k].body)
      ELSE EvalArms(sw, k + 1, program, frames)

Eval(e, program, frames) ==
  LET v == Eval(e.right, program, frames)
      l == Eval(e.left, program, frames)
      c == Eval(e.cond, program, frames)
      vs == EvalAll(e.elems, program, frames)
  IN  CASE e.kind \in {"number", "string", "bool", "na"} -> ConstantOf(e)
        [] e.kind = "none" -> NaN
        [] e.kind = "ident" -> Resolved(e.name, frames)
        [] e.kind = "unary" -> IF v = Err THEN Err ELSE OfUnary(e.op, v)
        [] e.kind = "binary" -> IF Err \in {l, v} THEN Err ELSE OfBinary(e.op, l, v)
        [] e.kind = "ternary" ->
             IF c = Err THEN Err ELSE Eval(IF Truthy(c) THEN e.then ELSE e.else, program, frames)
        [] e.kind = "cisc_clamp" -> IF vs = Err THEN Err ELSE ClampOf(vs[1], vs[2], vs[3])
        [] e.kind = "switch" -> EvalArms(e, 1, program, frames)
        [] e.kind = "call" -> EvalCall(e, program, frames)
        [] e.kind \in {"named_arg", "index", "array", "tuple"} -> Err
=============================================================================
