--------------------------- MODULE CompilerProps ---------------------------
(***************************************************************************)
(* What the compiler promises: a program is read as it is written, the     *)
(* types it is checked with are those of its values, and what is lowered   *)
(* evaluates to what was written.                                          *)
(***************************************************************************)
EXTENDS Compiler

-----------------------------------------------------------------------------
(* Reading. *)

\* Columns and bytes differ where an indentation has tabs.
HasTabs == \E k \in DOMAIN text.lines : "TAB" \in Range(text.lines[k].lead)

\* A value switch ends without a NEWLINE: a next statement that starts like a suffix is
\* read as one.
EndsInSwitch(s) == s.kind \in {"assign", "decl", "expr", "return", "tuple_assign"} /\ s.expr.kind = "switch"
LooksLikeSuffix(s) ==
  \/ s.kind = "tuple_assign"
  \/ s.kind = "expr" /\ \/ s.expr.kind \in {"tuple", "array"}
                        \/ s.expr.kind = "unary" /\ s.expr.op = "-"
Swallows(stmts) ==
  \E k \in 1..(Len(stmts) - 1) : EndsInSwitch(stmts[k]) /\ LooksLikeSuffix(stmts[k + 1])

Readable == ~HasTabs /\ ~Swallows(text.stmts)

\* A text that says a program is parsed to that program, whatever its layout: spaces,
\* comments, wrapped argument lists, values on the next line.  A text that says none is
\* not parsed.  (lex and parseProgram; the exceptions are in the README.)
ReadsAsWritten ==
  (stage \in {"checking", "lowering", "failed"} /\ ~text.raw /\ Readable) =>
    program = Program(text.stmts)

\* A switch without a subject is a line of one word, which dropLoneIdentLines drops.
LosesSwitch(stmts) ==
  \E k \in DOMAIN stmts : stmts[k].kind = "switch" /\ stmts[k].subject = None

\* A raw text, damaged or not, is parsed to the program it is meant to say: the passes
\* repair the damage and leave the rest alone.  (preprocess)
RepairedAsMeant ==
  (stage \in {"checking", "lowering", "failed"} /\ text.raw
   /\ ~Swallows(text.stmts) /\ ~LosesSwitch(text.stmts)) =>
    program = Program(text.stmts)

-----------------------------------------------------------------------------
(* Types and values. *)

\* The values that some names may have, and the types of these names.
FrameOf(v, b) == [x \in {"a", "b", "s"} |-> IF x = "a" THEN v ELSE IF x = "b" THEN b ELSE Text]
SomeFrames == {FrameOf(v, b) : v \in {0, 1, 2, NaN}, b \in {True, False}}
TypesOfNames ==
  [x \in {"a", "b", "s"} |-> CASE x = "a" -> "number" [] x = "b" -> "bool" [] x = "s" -> "string"]

RECURSIVE SubExprs(_)
SubExprs(e) == {e} \cup UNION {SubExprs(Parts(e)[k]) : k \in DOMAIN Parts(e)}

Values(stmts) == {stmts[k].expr : k \in {j \in DOMAIN stmts : stmts[j].kind \in {"assign", "expr"}}}

\* No calls, and no names but those of a known type, also in the arms of a switch.
RECURSIVE Settled(_)
Settled(e) ==
  \A x \in SubExprs(e) :
    CASE x.kind = "ident" -> x.name \in DOMAIN TypesOfNames
      [] x.kind = "call" -> FALSE
      [] x.kind = "switch" ->
           /\ \A k \in DOMAIN x.cases : \A j \in DOMAIN x.cases[k].body :
                x.cases[k].body[j].kind = "expr" /\ Settled(x.cases[k].body[j].expr)
           /\ \A j \in DOMAIN x.default : x.default[j].kind = "expr" /\ Settled(x.default[j].expr)
      [] OTHER -> TRUE

Fits(v, type) ==
  CASE type = "number" -> v \notin {True, False, Text}
    [] type = "bool" -> v \in {True, False, NaN}
    [] type = "string" -> v \in {Text, NaN}
    [] OTHER -> TRUE

\* The type inferred for an expression is that of its value, whatever the values of its
\* names are: a rejected script would have put a number into a boolean.
\* (validateExprNoNumericToBool against eval)
InferredTypesHold ==
  stage = "lowering" =>
    \A e \in Values(program.stmts) : Settled(e) =>
      \A frame \in SomeFrames :
        LET v == Eval(e, program, <<frame>>)
        IN  v = Err \/ Fits(v, CheckExpr(e, TypesOfNames).type)

\* Every name a function declares or assigns, at any depth.
RECURSIVE Declares(_)
Declares(stmts) ==
  UNION {LET s == stmts[k] IN
         CASE s.kind \in {"decl", "assign"} -> {s.name}
           [] s.kind = "if" -> Declares(s.then) \cup Declares(s.else)
           [] s.kind \in {"for", "for in", "while", "block"} -> Declares(s.body)
           [] s.kind = "switch" ->
                Declares(s.default) \cup UNION {Declares(s.cases[j].body) : j \in DOMAIN s.cases}
           [] OTHER -> {} : k \in DOMAIN stmts}

BlockArms(fn) == \E k \in DOMAIN fn.body : fn.body[k].kind = "switch" /\
  \E j \in DOMAIN fn.body[k].cases : \E i \in DOMAIN fn.body[k].cases[j].body :
    fn.body[k].cases[j].body[i].kind = "block"

\* Whether a function is accepted does not depend on the globals whose names it declares
\* itself, wherever in its body it does.  (collectLocalDeclNames; the exception, an arm
\* that is a block, is in the README.)
LocalsShadow ==
  stage \in {"lowering", "failed"} =>
    LET globals == CheckStmts(program.stmts, NoTypes)
        Ok(fn, env) == CheckFunction(fn, env) # Reject
    IN  \A f \in DOMAIN program.functions :
          LET fn == program.functions[f]
              others == [x \in DOMAIN globals \ Declares(fn.body) |-> globals[x]]
          IN  globals = Reject \/ BlockArms(fn) \/ Ok(fn, globals) = Ok(fn, others)

-----------------------------------------------------------------------------
(* Evaluation. *)

\* A clamp of bounds that are numbers, the lower one not above the upper one.
Ordered(clamp, frame) ==
  LET low == Eval(clamp.elems[2], program, <<frame>>)
      high == Eval(clamp.elems[3], program, <<frame>>)
  IN  Err \in {low, high} \/ (NaN \notin {low, high} /\ ToFloat(low) <= ToFloat(high))

Lowered == stage = "done"
Source == Program(text.stmts)

\* What an expression is lowered to evaluates to what was written, as long as the bounds
\* of its clamps are in order.  (lowerProgram)
LoweringKeepsMeaning ==
  (Lowered /\ Readable) =>
    \A k \in DOMAIN program.stmts : program.stmts[k].kind \in {"assign", "expr"} =>
      LET e == program.stmts[k].expr
          clamps == {x \in SubExprs(e) : x.kind = "cisc_clamp"}
      IN  \A frame \in SomeFrames :
            (\A c \in clamps : Ordered(c, frame)) =>
              Eval(e, program, <<frame>>) = Eval(Source.stmts[k].expr, Source, <<frame>>)

\* A call with arguments before the first name and every other parameter named.
Spelt(e) == e.kind = "call" /\ HasNamedArgs(e.args)
Complete(args, names) ==
  LET n == SelectInSeq(args, LAMBDA x : x.kind = "named_arg") - 1
  IN  /\ Len(args) = Len(names)
      /\ \A k \in DOMAIN args : (args[k].kind = "named_arg") = (k > n)
      /\ {args[k].name : k \in (n + 1)..Len(args)} = {names[k] : k \in (n + 1)..Len(names)}
Positional(args, names) ==
  [k \in DOMAIN names |->
     IF args[k].kind # "named_arg" THEN args[k]
     ELSE (CHOOSE x \in Range(args) : x.kind = "named_arg" /\ x.name = names[k]).right]

\* The order in which a call names its arguments does not matter: it evaluates to what
\* the call with the arguments in the order of the parameters does, for functions of the
\* script, of the host and of the language, and for types.  (bindNamedCallArgs)
NamedLikePositional ==
  Lowered =>
    \A e \in Values(program.stmts) : Spelt(e) =>
      LET names == SpecOf(e.left.name, program)
      IN  (names # NoSpec /\ Complete(e.args, names)) =>
            \A frame \in SomeFrames :
              Eval(e, program, <<frame>>)
                = Eval(Call(e.left, Positional(e.args, names)), program, <<frame>>)
=============================================================================
