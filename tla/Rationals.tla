------------------------------ MODULE Rationals -----------------------------
(***************************************************************************)
(* Floats whose rounding does not matter: rationals in lowest terms, with  *)
(* the arithmetic and the comparisons of Go, and NaN, which absorbs every  *)
(* operation and compares with nothing.                                    *)
(***************************************************************************)
EXTENDS Integers

CONSTANT NaN

AbsInt(n) == IF n < 0 THEN -n ELSE n
Gcd[m \in Nat, n \in Nat] == IF n = 0 THEN m ELSE Gcd[n, m % n]

\* n / d, for a d other than 0.
Q(n, d) ==
  LET g == Gcd[AbsInt(n), AbsInt(d)]
  IN  IF d > 0 THEN <<n \div g, d \div g>> ELSE <<-n \div g, -d \div g>>
AllFloats == (Int \X (Nat \ {0})) \cup {NaN}
Whole(n) == <<n, 1>>
Zero == Whole(0)
One == Whole(1)

Undefined(x, y) == x = NaN \/ y = NaN
Plus(x, y) == IF Undefined(x, y) THEN NaN ELSE Q(x[1] * y[2] + y[1] * x[2], x[2] * y[2])
Times(x, y) == IF Undefined(x, y) THEN NaN ELSE Q(x[1] * y[1], x[2] * y[2])
Minus(x, y) == Plus(x, Times(Whole(-1), y))
Over(x, y) == IF Undefined(x, y) THEN NaN ELSE Q(x[1] * y[2], x[2] * y[1])
Less(x, y) == ~Undefined(x, y) /\ x[1] * y[2] < y[1] * x[2]
Magnitude(x) == IF x = NaN THEN NaN ELSE <<AbsInt(x[1]), x[2]>>

\* int(x): towards zero; of NaN, what the machine makes of it.
LowestInt == -(2^30)
Truncated(x) ==
  IF x = NaN THEN {0, LowestInt}
  ELSE {IF x[1] < 0 THEN -((-x[1]) \div x[2]) ELSE x[1] \div x[2]}
=============================================================================
