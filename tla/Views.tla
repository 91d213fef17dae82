-------------------------------- MODULE Views -------------------------------
(***************************************************************************)
(* The algorithms of the series package (series/base.go, series_impl.go,   *)
(* cross.go) on series tabulated over the offsets 0 .. Reach: n is what    *)
(* Length() says, at[i] what Last(i) says.                                 *)
(***************************************************************************)
EXTENDS Queues, Rationals, SequencesExt

CONSTANT Reach  \* the farthest offset that is read

Read(a, i) == IF i \in DOMAIN a.at THEN a.at[i] ELSE Zero
Series(n, At(_)) == [n |-> n, at |-> [i \in 0 .. Reach |-> At(i)]]
OfQueue(q) == Series(LengthOf(q), LAMBDA i : Whole(LastOf(q, i)))

\* Series made from others are views: what they say, they ask of those.
Shorter(a, b) == IF a.n < b.n THEN a.n ELSE b.n
Add(a, b) == Series(Shorter(a, b), LAMBDA i : Plus(Read(a, i), Read(b, i)))
Sub(a, b) == Series(Shorter(a, b), LAMBDA i : Minus(Read(a, i), Read(b, i)))
Mul(a, b) == Series(Shorter(a, b), LAMBDA i : Times(Read(a, i), Read(b, i)))
Quotient(x, y) == IF y = Zero THEN NaN ELSE Over(x, y)
Div(a, b) == Series(Shorter(a, b), LAMBDA i : Quotient(Read(a, i), Read(b, i)))
Abs(a) == Series(a.n, LAMBDA i : Magnitude(Read(a, i)))
MaxInt32 == 2147483647
NumberSeries(x) == Series(MaxInt32, LAMBDA i : x)

Left(a, offset) == IF a.n >= offset THEN a.n - offset ELSE 0
Change(a, offset) ==
  Series(Left(a, offset), LAMBDA i : IF i + offset >= a.n THEN Zero ELSE Minus(Read(a, i), Read(a, i + offset)))
PercentageChange(a, offset) ==
  Series(Left(a, offset), LAMBDA i : IF i + offset >= a.n THEN Zero
                                     ELSE Minus(Quotient(Read(a, i), Read(a, i + offset)), One))
Shift(a, offset) ==
  Series(Left(a, offset), LAMBDA i : IF offset + i \notin 0 .. a.n - 1 THEN Zero ELSE Read(a, offset + i))

\* Windows that do not overlap; the last one keeps its length when the values run out.
SliceView(a, start, length) == Series(length, LAMBDA i : IF i >= length THEN Zero ELSE Read(a, i + start))
Windows(a, window) == a.n \div window + IF a.n % window > 0 THEN 1 ELSE 0
Window1(a, window, k) == SliceView(a, k * window, window)

\* Copies: queues of their own, filled from the oldest value on.
Array(a, limit) == [i \in 1 .. IF limit < a.n THEN limit ELSE a.n |-> Read(a, i - 1)]
FromArray(s) ==
  LET Of(q) == Series(LengthOf(q), LAMBDA i : IF i < Len(q.arr) THEN LastOf(q, i) ELSE Zero)
  IN  Of(FoldLeft(Updated, NewQueue(Len(s)), Reverse(s)))
\* Reverse, which despite its name leaves the newest value the newest.
Reversed(a, limit) == FromArray(Array(a, limit))
AtMosts(a, n) == [i \in 1 .. n |-> Cardinality({j \in 0 .. n - 1 : ~Less(Read(a, i - 1), Read(a, j))})]
\* Mutant: tied values take the best of their ranks.
RankTop(a, limit) ==
  LET Ranked(counts) == FromArray([i \in DOMAIN counts |-> Whole(counts[i])])
  IN  Ranked(AtMosts(a, IF limit > a.n THEN a.n ELSE limit))
\* One-based ranks; tied values take the average of theirs.
Rank(a, limit) ==
  LET Ties(counts, r) == Cardinality({j \in DOMAIN counts : counts[j] = r})
      Ranked(counts) ==
        FromArray([i \in DOMAIN counts |-> Minus(Whole(counts[i]), Q(Ties(counts, counts[i]) - 1, 2))])
  IN  Ranked(AtMosts(a, IF limit > a.n THEN a.n ELSE limit))

-----------------------------------------------------------------------------
(* Numbers out of the newest values. *)

Total(s) == FoldLeft(Plus, Zero, s)
Sum(a, limit) == Total(Array(a, limit))
Mean(a, limit) == IF a.n = 0 THEN Zero ELSE Quotient(Sum(a, limit), Whole(IF limit < a.n THEN limit ELSE a.n))
Best(s, Better(_, _)) == FoldLeft(LAMBDA x, y : IF Better(x, y) THEN y ELSE x, s[1], Tail(s))
Maximum(a, limit) == IF a.n = 0 THEN Zero ELSE Best(<<Read(a, 0)>> \o Array(a, limit), Less)
Minimum(a, limit) == IF a.n = 0 THEN Zero ELSE Best(<<Read(a, 0)>> \o Array(a, limit), LAMBDA x, y : Less(y, x))
Highest(a, lookback) == Best(<<Read(a, 0)>> \o Array(a, lookback), Less)
Lowest(a, lookback) == Best(<<Read(a, 0)>> \o Array(a, lookback), LAMBDA x, y : Less(y, x))
Dot(a, b) == Sum(Mul(a, b), Shorter(a, b))

Common(a, b, length) ==
  IF length < a.n /\ length < b.n THEN length ELSE Shorter(a, b)
\* The sum of the products of the deviations from the means of the newest n values.
Deviations(xs, ys, mx, my) ==
  Total([i \in DOMAIN xs |-> Times(Minus(xs[i], mx), Minus(ys[i], my))])
Spread(xs, ys) ==
  Deviations(xs, ys, Quotient(Total(xs), Whole(Len(xs))), Quotient(Total(ys), Whole(Len(ys))))
Covariance(a, b, length) ==
  LET Of(n) == Quotient(Spread(Array(a, n), Array(b, n)), Whole(n)) IN Of(Common(a, b, length))
Variance(a, length) == Covariance(a, a, length)
\* The square of Stdev.
StdevSquared(a, limit, ddof) ==
  LET Of(xs) == IF Len(xs) \in {0, ddof} THEN Zero ELSE Over(Spread(xs, xs), Whole(Len(xs) - ddof))
  IN  Of(Array(a, limit))

Through(xs, ys, beta) ==
  [alpha |-> Quotient(Minus(Total(ys), Times(beta, Total(xs))), Whole(Len(xs))), beta |-> beta]
OLS(a, b, length) ==
  LET Slope(both, own) == IF own = Zero THEN Zero ELSE Over(both, own)
      Fit(xs, ys) == IF Spread(xs, xs) = Zero THEN [alpha |-> Zero, beta |-> Zero]
                     ELSE Through(xs, ys, Slope(Spread(xs, ys), Spread(xs, xs)))
  IN  Fit(Array(a, Common(a, b, length)), Array(b, Common(a, b, length)))

\* The line of least squares through the values at 0, 1, ... (gonum): none through one.
Regression(xs, ys) == Through(xs, ys, Quotient(Spread(xs, ys), Spread(xs, xs)))
LinearRegression(a, lookback) ==
  LET Of(ys) == Regression([i \in DOMAIN ys |-> Whole(i - 1)], ys) IN Of(Array(a, lookback))
LineAt(line, x) == Plus(line.alpha, Times(line.beta, x))
Predict(a, lookback, offset) == LineAt(LinearRegression(a, lookback), Whole(-offset))

Ceiling(x) == -((-x[1]) \div x[2])
NoCross == [bars |-> {0}, value |-> Zero, crosses |-> FALSE]
\* bars: the values the conversion of the offset to an int can have.
Meeting(line, x) ==
  IF x # NaN /\ ~Less(x, Zero) THEN NoCross
  ELSE [bars |-> IF x = NaN THEN Truncated(NaN) ELSE {Ceiling(Minus(Zero, x))},
        value |-> LineAt(line, x), crosses |-> TRUE]
NextCross(a, b, lookback) ==
  LET Of(line1, line2) ==
        IF line1.beta # NaN /\ line1.beta = line2.beta THEN NoCross
        ELSE Meeting(line1, Quotient(Minus(line1.alpha, line2.alpha), Minus(line2.beta, line1.beta)))
  IN  Of(LinearRegression(a, Common(a, b, lookback)), LinearRegression(b, Common(a, b, lookback)))

\* Kendall: pairs that the ranks do not order alike, ties among them, count against.
Kendall(a, b, length) ==
  LET Pairs(n) == {p \in (1 .. n) \X (1 .. n) : p[1] < p[2]}
      Alike(r, s) == {p \in Pairs(Len(r)) : Less(Zero, Times(Minus(r[p[1]], r[p[2]]), Minus(s[p[1]], s[p[2]])))}
      Tau(n, alike) == Quotient(Whole(4 * alike - n * (n - 1)), Whole(n * (n - 1)))
      Of(r, s) == Tau(Len(r), Cardinality(Alike(r, s)))
  IN  Of(Array(Rank(a, Common(a, b, length)), Reach + 1), Array(Rank(b, Common(a, b, length)), Reach + 1))

Crossed(a, b, i, below) ==
  /\ i + 1 < Shorter(a, b)
  /\ LET Sides(now, before) == IF below THEN Less(now, Zero) /\ Less(Zero, before)
                               ELSE Less(Zero, now) /\ Less(before, Zero)
     IN  Sides(Minus(Read(a, i), Read(b, i)), Minus(Read(a, i + 1), Read(b, i + 1)))
CrossOver(a, b, i) == Crossed(a, b, i, FALSE)
CrossUnder(a, b, i) == Crossed(a, b, i, TRUE)
=============================================================================
