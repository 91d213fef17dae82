----------------------------- MODULE Indicators -----------------------------
(***************************************************************************)
(* The indicators of builtins.go that are computed in two ways: from a     *)
(* state updated once a bar, and from the whole series.  Prices are        *)
(* integers and divisions round down; NaN stands for na.                   *)
(***************************************************************************)
EXTENDS Queues, SequencesExt

CONSTANTS NaN, MaxIndicatorWindowLength   \* 262144 in the code

ASSUME NaNAssumption == NaN \notin Int
ASSUME WindowAssumption == MaxIndicatorWindowLength \in Nat \ {0}

-----------------------------------------------------------------------------
(* rollingWindowState. *)

NewWindow(size) ==
  LET cap == Max({1, Min({size, MaxIndicatorWindowLength})})
  IN  [buf |-> [i \in 0 .. cap - 1 |-> 0], start |-> 0, count |-> 0, cap |-> cap]

Full(w) == w.count = w.cap
\* Mutant: the oldest value is overwritten and stays the oldest.
PushedInPlace(w, v) ==
  IF Full(w) THEN [w EXCEPT !.buf[w.start] = v]
  ELSE [w EXCEPT !.buf[(w.start + w.count) % w.cap] = v, !.count = @ + 1]
Pushed(w, v) ==
  IF Full(w) THEN [w EXCEPT !.buf[w.start] = v, !.start = (@ + 1) % w.cap]
  ELSE [w EXCEPT !.buf[(w.start + w.count) % w.cap] = v, !.count = @ + 1]
\* The value the next push replaces, which the sums then lose.
Replaced(w) == IF Full(w) THEN w.buf[w.start] ELSE 0
Oldest(w) == w.buf[w.start]
Newest(w) == w.buf[(w.start + w.cap - 1) % w.cap]

-----------------------------------------------------------------------------
(* The incremental states: sma and bb keep sums, ema and rma an average,   *)
(* rsi the sums of gains and losses, macd three emas, and mom, roc, highest *)
(* and lowest the window alone.                                             *)

NewSums(n) == [window |-> NewWindow(n), sum |-> 0, sumSq |-> 0]
SumsUpdated(s, v) ==
  LET old == Replaced(s.window)
  IN  [window |-> Pushed(s.window, v), sum |-> s.sum + v - old, sumSq |-> s.sumSq + v * v - old * old]
SMAOf(s) == IF Full(s.window) THEN s.sum \div s.window.cap ELSE NaN
\* The basis, and the variance times the square of the length.
BBOf(s) ==
  IF Full(s.window) THEN <<s.sum \div s.window.cap, s.window.cap * s.sumSq - s.sum * s.sum>>
  ELSE <<NaN, NaN>>

EMAStep(ema, v, n) == (2 * v + (n - 1) * ema) \div (n + 1)
NewEMA(n) == [window |-> n, count |-> 0, value |-> 0]
EMAUpdated(s, v) ==
  [s EXCEPT !.count = @ + 1, !.value = IF s.count = 0 THEN v ELSE EMAStep(@, v, s.window)]
EMAOf(s) == IF s.count < s.window THEN NaN ELSE s.value

RMAStep(rma, v, n) == (rma * (n - 1) + v) \div n
NewRMA(n) == [window |-> n, count |-> 0, sum |-> 0, value |-> 0]
RMAUpdated(s, v) ==
  IF s.count < s.window
  THEN [s EXCEPT !.count = @ + 1, !.sum = @ + v,
                 !.value = IF s.count + 1 = s.window THEN (s.sum + v) \div s.window ELSE @]
  ELSE [s EXCEPT !.count = @ + 1, !.value = RMAStep(@, v, s.window)]
RMAOf(s) == IF s.count < s.window THEN NaN ELSE s.value

Gain(d) == IF d > 0 THEN d ELSE 0
Loss(d) == IF d < 0 THEN -d ELSE 0
NewRSI(n) == [window |-> n, priceSeen |-> 0, prev |-> 0, diffs |-> NewWindow(n),
              sumGain |-> 0, sumLoss |-> 0]
RSIUpdated(s, v) ==
  LET d == v - s.prev
      old == Replaced(s.diffs)
  IN  IF s.priceSeen = 0 THEN [s EXCEPT !.priceSeen = 1, !.prev = v]
      ELSE [s EXCEPT !.priceSeen = @ + 1, !.prev = v, !.diffs = Pushed(@, d),
                     !.sumGain = @ - Gain(old) + Gain(d), !.sumLoss = @ - Loss(old) + Loss(d)]
RSIOf(s) ==
  IF s.priceSeen <= s.window \/ s.diffs.count < s.window THEN NaN
  ELSE IF s.sumLoss = 0 THEN IF s.sumGain = 0 THEN 50 ELSE 100
  ELSE (100 * s.sumGain) \div (s.sumGain + s.sumLoss)

\* The signal line takes in the difference of the averages once there is one.
NewMACD(fast, slow, sig) ==
  [fast |-> NewEMA(fast), slow |-> NewEMA(slow), signal |-> NewEMA(sig)]
MACDOf(s) ==
  IF NaN \in {EMAOf(s.fast), EMAOf(s.slow)} THEN <<NaN, NaN>>
  ELSE <<EMAOf(s.fast) - EMAOf(s.slow), EMAOf(s.signal)>>
MACDUpdated(s, v) ==
  LET next == [s EXCEPT !.fast = EMAUpdated(@, v), !.slow = EMAUpdated(@, v)]
  IN  IF MACDOf(next)[1] = NaN THEN next
      ELSE [next EXCEPT !.signal = EMAUpdated(@, MACDOf(next)[1])]

MOMOf(w, n) == IF w.count < n + 1 THEN NaN ELSE Newest(w) - Oldest(w)
ROCOf(w, n) ==
  IF w.count < n + 1 \/ Oldest(w) = 0 THEN NaN
  ELSE (100 * (Newest(w) - Oldest(w))) \div Oldest(w)
ExtremaOf(w, isMax) ==
  LET seen == {w.buf[i] : i \in 0 .. w.cap - 1}
  IN  IF ~ Full(w) THEN NaN ELSE IF isMax THEN Max(seen) ELSE Min(seen)

-----------------------------------------------------------------------------
(* The same from a series, the oldest value first. *)

Chrono(ser) == [i \in 1 .. LengthOf(ser) |-> LastOf(ser, LengthOf(ser) - i)]
\* seriesWindowForValueType: the n values up to bar eff, or as many as there are.
WindowAt(ser, eff, n) ==
  LET m == Max({0, Min({n, eff + 1, LengthOf(ser)})})
  IN  [i \in 1 .. m |-> LastOf(ser, LengthOf(ser) - 1 - eff + m - i)]
Total(vals) == FoldLeft(+, 0, vals)
LastFew(vals, n) == SubSeq(vals, Len(vals) - n + 1, Len(vals))

\* Of a window, which is n values long or shorter.
SMAOver(window, n) == IF Len(window) < n THEN NaN ELSE Total(window) \div n
EMAFrom(vals, n) ==
  IF Len(vals) < n THEN NaN
  ELSE FoldLeft(LAMBDA ema, v : EMAStep(ema, v, n), Head(vals), Tail(vals))
RMAFrom(vals, n) ==
  IF Len(vals) < n THEN NaN
  ELSE FoldLeft(LAMBDA rma, v : RMAStep(rma, v, n), Total(SubSeq(vals, 1, n)) \div n,
                SubSeq(vals, n + 1, Len(vals)))
RSIFrom(vals, n) ==
  LET deltas == [i \in 1 .. n |-> vals[Len(vals) - n + i] - vals[Len(vals) - n + i - 1]]
      gain == Total([i \in 1 .. n |-> Gain(deltas[i])])
      loss == Total([i \in 1 .. n |-> Loss(deltas[i])])
  IN  IF Len(vals) <= n THEN NaN
      ELSE IF loss = 0 THEN 100 ELSE (100 * gain) \div (gain + loss)
BBFrom(vals, n) ==
  LET window == LastFew(vals, n)
      deviations == [i \in 1 .. n |-> n * window[i] - Total(window)]
  IN  IF Len(vals) < n THEN <<NaN, NaN>>
      ELSE <<SMAOver(window, n), Total([i \in 1 .. n |-> deviations[i] * deviations[i]]) \div n>>
MACDFrom(vals, fast, slow, sig) ==
  LET need == Max({fast, slow})
      macds == [i \in 1 .. Len(vals) - need + 1 |->
                  EMAFrom(SubSeq(vals, 1, need + i - 1), fast) - EMAFrom(SubSeq(vals, 1, need + i - 1), slow)]
  IN  IF Len(vals) < need THEN <<NaN, NaN>>
      ELSE <<macds[Len(macds)], EMAFrom(macds, sig)>>
MOMFrom(vals, n) == IF Len(vals) <= n THEN NaN ELSE vals[Len(vals)] - vals[Len(vals) - n]
ROCFrom(vals, n) ==
  IF Len(vals) <= n \/ vals[Len(vals) - n] = 0 THEN NaN
  ELSE (100 * (vals[Len(vals)] - vals[Len(vals) - n])) \div vals[Len(vals) - n]
ExtremaOver(window, n, isMax) ==
  IF Len(window) < n THEN NaN ELSE IF isMax THEN Max(ToSet(window)) ELSE Min(ToSet(window))
=============================================================================
