----------------------------- MODULE MCCompiler -----------------------------
(* Programs for the compiler: every shape of expression around every shape of an      *)
(* operand, every statement before every start of another one, and the calls whose    *)
(* arguments are named; each in several layouts.                                      *)
EXTENDS CompilerProps, Damage

a == Ident("a")
b == Ident("b")
s == Ident("s")
zero == Number("0")
one == Number("1")
two == Number("2")
Do(e) == Of("expr", e)
CallOf(f, args) == Call(Ident(f), args)
Param(x, default) == [name |-> x, default |-> default]
Field(x, default) == [name |-> x, type |-> "int", default |-> default]
Arm(e, stmts) == [match |-> e, body |-> stmts]

-----------------------------------------------------------------------------
(* Expressions. *)

Ops == {"or", "and", "==", "<", "-", "*"}
Around(e) ==
  {Unary("not", e), Unary("-", e), Index(a, e), Index(e, a), Ternary(e, one, a), Ternary(a, e, one),
   Ternary(a, one, e), Listed("tuple", <<e, one>>), Listed("array", <<one, e>>),
   CallOf("f", <<e>>), CallOf("f", <<e, NamedArg("p", one)>>), CallOf("f", <<NamedArg("p", e), one>>)}
  \cup {Binary(op, e, one) : op \in Ops} \cup {Binary(op, one, e) : op \in Ops}
Operands == {a, one, Na, Bool(TRUE), String("s"), Listed("array", <<>>), CallOf("f", <<>>)}
Nested == UNION {Around(e) : e \in Around(a)}
Mixed == {Binary(op, x, y) : op \in {"+", "==", "and"}, x \in {a, b, s, one}, y \in {a, b, s, one}}
MixedChoices == {Ternary(b, x, y) : x \in Mixed, y \in {a, s, Na}}

\* A clamp written one way or the other, of any value and bounds.
Bounds == {a, one, two, Na}
Clamped ==
  UNION {{CallOf("max", <<CallOf("math.min", <<x, u>>), l>>), CallOf("math.min", <<CallOf("max", <<x, l>>), u>>)}
         : x \in {a, s, Binary("-", zero, a)}, l \in Bounds, u \in Bounds}

-----------------------------------------------------------------------------
(* Statements. *)

set == Assign("x", one)
call == Do(CallOf("f", <<a>>))
ValueSwitch == Switch(a, <<Arm(one, <<Do(b)>>), Arm(s, <<Assign("y", a), Do(two)>>)>>, <<Do(zero)>>)
Simple ==
  {set, call, Assign("x", Binary("+", Ident("x"), one)), Decl("x", "", FALSE, one), Decl("x", "int", TRUE, one),
   Decl("x", "bool", FALSE, None), TupleAssign(<<"x", "y">>, CallOf("f", <<a, b>>)),
   TupleAssign(<<"x">>, a)}
OnOneLine == Simple \cup {Do(Listed("tuple", <<a, b>>)), Do(Listed("array", <<a>>)), Do(Unary("-", a)), Do(Ident("x"))}
Bodies == {<<set>>, <<call, set>>, <<If(a, <<set>>, <<>>)>>}
Opening ==
  UNION {{If(a, body, <<>>), If(a, <<set>>, body), If(a, body, <<If(b, <<set>>, <<call>>)>>),
          While(a, body \o <<Jump("break")>>), For(<<"i">>, zero, a, None, body),
          For(<<"i">>, zero, a, two, <<If(b, <<Jump("continue")>>, <<>>)>> \o body),
          ForIn(<<"v">>, s, body), ForIn(<<"i", "v">>, s, body),
          Switch(a, <<Arm(one, <<set>>), Arm(two, <<Block(body)>>)>>, <<>>),
          Switch(None, <<Arm(Binary("<", a, one), <<call>>)>>, <<Block(body)>>),
          Function("f", <<Param("p", None)>>, body, None),
          Function("f", <<Param("p", None), Param("q", one)>>, body \o <<Of("return", Ident("p"))>>, None)}
         : body \in Bodies}
  \cup {Assign("x", ValueSwitch), Decl("x", "", FALSE, ValueSwitch),
        Function("g", <<>>, <<>>, Binary("*", a, two)), Function("g", <<Param("p", two)>>, <<>>, a),
        Type("T", <<Field("u", None), Field("v", one)>>)}
Statements == {<<x, y>> : x \in Opening, y \in OnOneLine} \cup {<<set, x>> : x \in OnOneLine \cup Opening}

\* A global of a type, and a function that gives its name to something else.
Shadowing ==
  {<<Decl("x", "bool", FALSE, Bool(TRUE)), Function("f", <<Param("p", None)>>, body, None)>>
   : body \in {<<set>>, <<If(Ident("p"), <<set>>, <<>>)>>, <<If(Ident("p"), <<call>>, <<set>>)>>,
               <<While(Ident("p"), <<set>>)>>, <<For(<<"i">>, zero, one, None, <<If(a, <<set>>, <<>>)>>)>>,
               <<Switch(a, <<Arm(one, <<set>>)>>, <<call>>)>>, <<call>>}}
NotABool ==
  {<<Decl("x", "bool", FALSE, one)>>, <<Decl("x", "bool", FALSE, Bool(TRUE)), set>>,
   <<Decl("x", "bool", FALSE, Binary("+", s, one))>>,
   <<Decl("x", "bool", FALSE, None), If(a, <<set>>, <<>>)>>}

-----------------------------------------------------------------------------
(* Calls. *)

Defined ==
  <<Function("f", <<Param("p", None), Param("q", one), Param("r", two)>>, <<>>,
             Binary("-", Ident("p"), Binary("*", Ident("q"), Ident("r")))),
    Type("T", <<Field("u", None), Field("v", one)>>)>>
Values1 == {zero, two, a}
Named(f, names) ==
  LET Args(p, x, y) == [k \in DOMAIN names |-> NamedArg(names[p[k]], IF k = 1 THEN x ELSE y)]
  IN  {CallOf(f, [k \in DOMAIN names |-> IF k <= n THEN Args(p, x, y)[k].right ELSE Args(p, x, y)[k]])
       : p \in {q \in [DOMAIN names -> DOMAIN names] : Cardinality(Range(q)) = Len(names)},
         n \in {0, 1}, x \in Values1, y \in Values1}
Calling ==
  {Defined \o <<Do(e)>> : e \in Named("f", <<"p", "q", "r">>) \cup Named("T.new", <<"u", "v">>)
     \cup Named("h", <<"u", "v">>) \cup Named("color.new", <<"color", "transp">>)
     \cup {CallOf("f", args) : args \in {<<a>>, <<a, two>>, <<a, NamedArg("r", a)>>, <<a, a, a, a, NamedArg("p", a)>>,
                                         <<NamedArg("z", a)>>}}
     \cup {CallOf("T.new", <<NamedArg("v", a)>>), CallOf("color.new", <<NamedArg("transp", a)>>),
           CallOf("nz", <<NamedArg("u", a)>>), CallOf("nz", <<a>>), CallOf("bool", <<s>>),
           CallOf("box.new", <<a>>), CallOf("plot", <<a>>), CallOf("nowhere", <<>>)}}

-----------------------------------------------------------------------------
(* Texts. *)

Layout(unit, spaced, noise, wrap, hang) ==
  [unit |-> unit, spaced |-> spaced, noise |-> noise, wrap |-> wrap, hang |-> hang]
Dense == Layout(Spaces(1), FALSE, FALSE, FALSE, FALSE)
Wide == Layout(Spaces(4), TRUE, TRUE, TRUE, FALSE)
Hanging == Layout(Spaces(2), TRUE, FALSE, TRUE, TRUE)
Tabbed == Layout(<<"TAB">>, FALSE, FALSE, FALSE, FALSE)

Says(plans) == {[stmts |-> plan[1], lines |-> TextOf(plan[1], plan[2]), raw |-> FALSE] : plan \in plans}
Set(exprs) == {<<Assign("x", e)>> : e \in exprs}
Code(k, code) == Raw(Spaces(k), code)
Misprints ==
  {Code(1, <<"a">>), Code(0, <<"if", " ", "a">>), Code(0, <<"\"", "s">>), Code(0, <<"a", "!">>),
   Code(0, <<"if", " ", "a">>) \o Code(4, <<"x", "=", "1">>) \o Code(2, <<"y", "=", "1">>),
   Code(0, <<"f", "(", "a">>), Code(0, <<"x", "=">>), Code(0, <<"(", ")">>),
   Code(0, <<"import", " ", "a">>), Code(0, <<"a", "?", "1">>), Code(0, <<"a", "[", "1", ")">>),
   Code(0, <<"for", " ", "[", "a", "]", " ", "in", " ", "s">>) \o Code(4, <<"x", "=", "1">>),
   Code(0, <<"var", " ", "=", "1">>), Code(0, <<"type", " ", "T">>) \o Code(1, <<"=">>),
   Code(0, <<"switch", " ", "a">>) \o Code(1, <<"=", ">", "1">>) \o Code(1, <<"=", ">", "2">>),
   Code(0, <<"f", "(", "1", ")", "=", ">", "a">>), Code(0, <<"#", "0">>)}

\* Raw texts: programs as they are, and damaged.
Untyped(stmts) == \A k \in DOMAIN stmts : stmts[k].kind = "decl" => stmts[k].type = ""
Intact == Set(Operands \cup Around(a)) \cup {p \in Statements : Untyped(p) /\ Do(Ident("x")) \notin Range(p)}
ToDamage == Set(Around(a) \cup Mixed) \cup {<<x, call>> : x \in Opening} \cup {<<set, x>> : x \in Opening}
RawText(stmts, rows) == [stmts |-> stmts, lines |-> rows, raw |-> TRUE]
OneLiners == {set, call, Decl("x", "", FALSE, one), TupleAssign(<<"x", "y">>, CallOf("f", <<a, b>>))}
AnArrow(e) == Function("f", <<Param("p", None)>>, <<Assign("y", e), Do(Ident("y"))>>, None)
AnArrowLine(e) == Raw(<<>>, Spelled(Written(CallOf("f", <<Ident("p")>>), 0) \o Sign("=>") \o Word("y") \o Sign("=") \o Written(e, 0), TRUE))
Declared == CallOf("strategy", <<String("s"), NamedArg("p", one)>>)

RawTexts ==
  {RawText(p, TextOf(p, layout)) : p \in Intact, layout \in {Wide, Hanging, Tabbed}}
  \cup UNION {{RawText(p, rows) : rows \in Damages(BodyLines(p, 0))} : p \in ToDamage}
  \cup {RawText(p, OnOneRow(BodyLines(p, 0))) : p \in OneLiners \X OneLiners}
  \cup {RawText(p, Cut1(BodyLines(p, 0))) : p \in {<<set, call>>, <<Assign("x", Declared)>>, <<set, Assign("x", String("s"))>>,
                                                    <<If(a, <<set>>, <<>>), Do(Declared)>>}}
  \cup {RawText(<<AnArrow(e), call>>, AnArrowLine(e) \o Raw(<<>>, <<"f", "(", "a", ")">>)) : e \in Around(Ident("p"))}
  \cup {RawText(<<Do(Declared), set>>, Raw(<<>>, <<"strategy">>) \o Raw(<<>>, Tail(Spelled(Written(Declared, 0), TRUE)))
                                        \o Raw(<<>>, <<"x", "=", "1">>))}
  \cup {RawText(<<set, Do(Declared)>>, Raw(<<>>, <<"x", "=", "1">>) \o Raw(<<>>, Spelled(Written(Declared, 0), TRUE) \o <<" ", "/">>))}

MCTexts ==
  Says((Set(Operands \cup Around(a) \cup Nested) \cup Statements) \X {Dense, Wide, Hanging}
       \cup (Set(Mixed \cup MixedChoices \cup Clamped) \cup Shadowing \cup NotABool \cup Calling) \X {Wide}
       \cup Shadowing \X {Tabbed})
  \cup {[stmts |-> <<>>, lines |-> m, raw |-> FALSE] : m \in Misprints}
  \cup RawTexts
MCHosts == [f \in {"h", "plot", "box.new", "k"} |-> IF f = "h" THEN <<"u", "v">> ELSE NoSpec]
=============================================================================
