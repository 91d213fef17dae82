------------------------------ MODULE MCInterp ------------------------------
(***************************************************************************)
(* Small instances of Interp.                                              *)
(***************************************************************************)
EXTENDS InterpProps

CONSTANTS x, i, S

TwoNames == {x, i}
OneString == {S}

Blank == [kind |-> "decl", name |-> x, value |-> 0, const |-> FALSE, type |-> "",
          from |-> 0, to |-> 1, by |-> 1, items |-> <<>>, arg |-> Literal, offset |-> 0]
Let(y, v) == [Blank EXCEPT !.name = y, !.value = v]
Set(y, v) == [Let(y, v) EXCEPT !.kind = "assign"]
For(y, by) == [Blank EXCEPT !.kind = "for", !.name = y, !.by = by]
Each(y, items) == [Blank EXCEPT !.kind = "for in", !.name = y, !.items = items]
CallWith(y, arg, back) == [Blank EXCEPT !.kind = "call", !.name = y, !.arg = arg, !.offset = back]

\* Loops over names that are variables too, in the script and in functions.
Nested == {Let(x, 0), Let(x, S), Set(i, 1), For(i, 1), Each(x, <<S, 1>>),
           CallWith(i, x, 0), CallWith(x, x, 1), [Blank EXCEPT !.kind = "while"],
           [Let(i, NaN) EXCEPT !.type = "bool"], [Let(i, True) EXCEPT !.const = TRUE]}
\* A function that assigns a name its caller loops over.
Capture == {For(i, 1), CallWith(x, Literal, 0), Set(i, 1)}
=============================================================================
