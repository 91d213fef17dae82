------------------------------- MODULE MCQueue -------------------------------
(***************************************************************************)
(* Small instances of Queue, filtered, and the series made from them.      *)
(***************************************************************************)
EXTENDS Filter, Views

SmallSizes == 0 .. 5
SmallValues == {-1, 2}
Positive == {2}

-----------------------------------------------------------------------------
(* The series of the queue, and series made from it. *)

All(a) == Sum(a, a.n)
\* Windows, changes and ranks account for every value once; a last window that the
\* values do not fill reads on among the values the queue still has in its buffer.
Ordered(a, r, n) ==
  /\ All(r) = Q(n * (n + 1), 2)
  /\ \A i, j \in 0 .. n - 1 : /\ Less(Read(a, i), Read(a, j)) <=> Less(Read(r, i), Read(r, j))
                              /\ Read(a, i) = Read(a, j) <=> Read(r, i) = Read(r, j)
Conserved(a) ==
  /\ \A w \in 1 .. 3 :
       a.n % w = 0 \/ Len(queue.arr) <= queue.size =>
         Total([k \in 1 .. Windows(a, w) |-> All(Window1(a, w, k - 1))]) = All(a)
  /\ a.n > 0 => All(Change(a, 1)) = Minus(Read(a, 0), Read(a, a.n - 1))
  /\ \A n \in 1 .. a.n : Ordered(a, Rank(a, n), n)
\* Two ways to one number.
OneNumber(a, previous) ==
  /\ \A n \in 1 .. a.n :
       /\ Highest(a, n) = Maximum(a, n) /\ Lowest(a, n) = Minimum(a, n)
       /\ Variance(a, n) = StdevSquared(a, n, 0)
       /\ Variance(a, n) = Minus(Mean(Mul(a, a), n), Times(Mean(a, n), Mean(a, n)))
  /\ Dot(a, previous) = Total([i \in 1 .. a.n - 1 |-> Times(Read(a, i - 1), Read(a, i))])
  /\ \A n \in 0 .. a.n : Array(Reversed(a, n), a.n) = Array(a, n)
  /\ Array(PercentageChange(a, 1), a.n) = Array(Div(Change(a, 1), previous), a.n)
\* A line is found again, through any values and through its own.
Line(a, alpha, beta) == Add(NumberSeries(alpha), Mul(a, NumberSeries(beta)))
Fitted(a, ages) ==
  \A n \in 2 .. a.n :
    /\ LinearRegression(a, n) = OLS(ages, a, n)
    /\ Predict(Line(ages, Whole(2), Q(-1, 2)), n, 3) = Q(7, 2)
    /\ OLS(a, Line(a, One, Whole(-3)), n)
         = IF Highest(a, n) = Lowest(a, n) THEN [alpha |-> Zero, beta |-> Zero]
           ELSE [alpha |-> One, beta |-> Whole(-3)]
    /\ \A beta \in {-1, 1} : Kendall(ages, Line(ages, One, Whole(beta)), n) = Whole(beta)
\* The lines of two series cross where they are said to: not before, and by then.
Gap(line1, line2, x) == Minus(LineAt(line1, Whole(x)), LineAt(line2, Whole(x)))
Opposite(x, y) == ~Less(Zero, Times(x, y))
Meets(next, line1, line2) ==
  IF next.crosses
  THEN \E k \in next.bars : k > 0 /\ Opposite(Gap(line1, line2, -k), Gap(line1, line2, 1 - k))
  ELSE Gap(line1, line2, 0) = Zero \/ ~Opposite(Gap(line1, line2, 0), Gap(line1, line2, -100))
Crossing(a, b) ==
  /\ \A n \in 2 .. Shorter(a, b) : Meets(NextCross(a, b, n), LinearRegression(a, n), LinearRegression(b, n))
  /\ \A i \in 0 .. a.n :
       CrossOver(a, b, i) =>
         /\ ~CrossUnder(a, b, i) /\ CrossUnder(b, a, i)
         /\ Less(Read(Change(Sub(b, a), 1), i), Zero)
Agree(a, previous, ages) ==
  /\ Conserved(a) /\ OneNumber(a, previous) /\ Fitted(a, ages)
  /\ Crossing(a, Sub(NumberSeries(One), Abs(previous)))
\* The series made from a queue, at whatever point of its life: windows, changes and
\* ranks account for every value once, what is computed in two ways is one number, a copy
\* of the newest values reads as they do, newest first, lines are found again from their
\* points, and lines cross where NextCross says they will
\* (series/base.go: "Rolling groups values into non-overlapping windows", "Tied values
\* receive the average of their ranks", "b ~ alpha + beta*thisSeries", "predicts when
\* series a will cross series b").
ViewsAgree ==
  LET Of(a) == Agree(a, Shift(a, 1), FromArray([i \in 1 .. a.n |-> Whole(i - 1)]))
  IN  cache = {} => Of(OfQueue(queue))  \* they do not depend on the filter
=============================================================================
