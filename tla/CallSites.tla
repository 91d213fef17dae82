----------------------------- MODULE CallSites ------------------------------
(***************************************************************************)
(* One call of a builtin that remembers: a derived series (SeriesMemo), an *)
(* indicator with an incremental state, barssince or valuewhen             *)
(* (builtins.go).  The script evaluates it on the bars it likes, at the    *)
(* current bar, or, by f(x)[k] or in a function called so, at an earlier   *)
(* one; what it remembers is keyed by the expression and lives as long as  *)
(* the runtime.                                                            *)
(***************************************************************************)
EXTENDS SeriesMemo, Indicators

CONSTANTS
  Sites,        \* the builtins the script may call: a subset of Builtins
  Prices,       \* the values a bar may have
  Length,       \* the length the indicators are given; macd has three
  Occurrences   \* the third argument of valuewhen

Streams == {"sma", "bb", "ema", "rma", "rsi", "macd", "mom", "roc", "highest", "lowest"}
Conditional == {"barssince", "valuewhen"}
Builtins == {"derived"} \cup Streams \cup Conditional

ASSUME SitesAssumption == Sites \subseteq Builtins
ASSUME PricesAssumption == Prices \subseteq Nat
ASSUME LengthAssumption == Length \in Nat \ {0} /\ Length < MaxIndicatorWindowLength
ASSUME OccurrencesAssumption == Occurrences \subseteq Nat

VARIABLES
  site,      \* the builtin that is called
  data,      \* the price series, loaded before the first bar
  stream,    \* indicatorState or extremaState of the call
  lastBar,   \* its lastBar, -1 at first
  memo,      \* barssinceMemo of the call; found is FALSE and lastCheckBar NoCheck at first
  answer,    \* the last answer, with the bar it is about and whether it was asked back
  said,      \* for the properties: what a stream that missed no bar answered at each bar
  forward    \* for the properties: the bars asked about never went back

remembered == <<stream, lastBar, memo>>
asked == <<answer, said, forward>>
siteVars == <<site, data, remembered, asked>>
allVars == <<vars, siteVars>>

Effective(offset) == barIndex - offset
\* The series the provider loaded, all of it, and its values up to bar eff.
Loaded == Fed(NewQueue(LastBar + 1), [k \in 1 .. LastBar + 1 |-> data[k - 1]])
UpTo(eff) == Chrono(AtEvalPoint(Loaded, eff))

-----------------------------------------------------------------------------
(* Indicators with an incremental state. *)

New ==
  CASE site \in {"sma", "bb"} -> NewSums(Length)
    [] site = "ema" -> NewEMA(Length)
    [] site = "rma" -> NewRMA(Length)
    [] site = "rsi" -> NewRSI(Length)
    [] site = "macd" -> NewMACD(1, Length, Length)
    [] site \in {"mom", "roc"} -> NewWindow(Length + 1)
    [] OTHER -> NewWindow(Length)

StreamUpdated(v) ==
  CASE site \in {"sma", "bb"} -> SumsUpdated(stream, v)
    [] site = "ema" -> EMAUpdated(stream, v)
    [] site = "rma" -> RMAUpdated(stream, v)
    [] site = "rsi" -> RSIUpdated(stream, v)
    [] site = "macd" -> MACDUpdated(stream, v)
    [] OTHER -> Pushed(stream, v)

StreamValue(s) ==
  CASE site = "sma" -> SMAOf(s)
    [] site = "bb" -> BBOf(s)
    [] site = "ema" -> EMAOf(s)
    [] site = "rma" -> RMAOf(s)
    [] site = "rsi" -> RSIOf(s)
    [] site = "macd" -> MACDOf(s)
    [] site = "mom" -> MOMOf(s, Length)
    [] site = "roc" -> ROCOf(s, Length)
    [] OTHER -> ExtremaOf(s, site = "highest")

SeriesValue(eff) ==
  LET vals == UpTo(eff)
      window == WindowAt(Loaded, eff, Length)
  IN
  CASE site = "sma" -> SMAOver(window, Length)
    [] site = "bb" -> BBFrom(vals, Length)
    [] site = "ema" -> EMAFrom(vals, Length)
    [] site = "rma" -> RMAFrom(vals, Length)
    [] site = "rsi" -> RSIFrom(vals, Length)
    [] site = "macd" -> MACDFrom(vals, 1, Length, Length)
    [] site = "mom" -> MOMFrom(vals, Length)
    [] site = "roc" -> ROCFrom(vals, Length)
    [] OTHER -> ExtremaOver(window, Length, site = "highest")

\* At the current bar: the state takes in the bar's value, once however often the
\* call is evaluated.
AskNow ==
  /\ site \in Streams
  /\ IF lastBar # barIndex
     THEN stream' = StreamUpdated(data[barIndex]) /\ lastBar' = barIndex
     ELSE UNCHANGED <<stream, lastBar>>
  /\ answer' = [value |-> StreamValue(stream'), eff |-> barIndex, back |-> FALSE]
  /\ said' = IF DOMAIN said = 0 .. barIndex - 1
             THEN [b \in 0 .. barIndex |-> IF b = barIndex THEN answer'.value ELSE said[b]]
             ELSE said
  /\ UNCHANGED <<vars, site, data, memo, forward>>

\* At an earlier bar: from the series.
AskBack(offset) ==
  /\ site \in Streams /\ offset > 0
  /\ answer' = [value |-> SeriesValue(Effective(offset)), eff |-> Effective(offset), back |-> TRUE]
  /\ UNCHANGED <<vars, site, data, remembered, said, forward>>

-----------------------------------------------------------------------------
(* barssince and valuewhen: the condition is that the price is not 0, the   *)
(* source is the number of the bar.                                         *)

Holds(b) == data[b] > 0
NoCheck == -2
NoMemo == [lastTrueBar |-> -1, lastCheckBar |-> NoCheck, found |-> FALSE]

\* The last bar up to eff at which the condition holds, by scanning.
Scanned(eff) == Max({b \in 0 .. eff : Holds(b)} \cup {-1})

\* Mutant: the memo may lag two bars behind.
RecalledLate(eff) ==
  IF Holds(eff) THEN eff
  ELSE IF memo.lastCheckBar >= eff - 2
  THEN IF memo.found /\ memo.lastTrueBar <= eff THEN memo.lastTrueBar ELSE -1
  ELSE Scanned(eff)
\* The last bar at which the condition held, -1 if it is taken not to have: from the
\* memo when that has seen this bar or the one before, which a look at a later bar counts as.
Recalled(eff) ==
  IF Holds(eff) THEN eff
  ELSE IF memo.lastCheckBar >= eff - 1
  THEN IF memo.found /\ memo.lastTrueBar <= eff THEN memo.lastTrueBar ELSE -1
  ELSE IF Scanned(eff) # -1 THEN Scanned(eff)
  ELSE IF memo.found THEN memo.lastTrueBar ELSE -1

\* valuewhen counts the occurrences before the last one by scanning.
Occurrence(last, n) ==
  LET before == {b \in 0 .. last : Holds(b) /\ Cardinality({c \in b + 1 .. last : Holds(c)}) = n}
  IN  IF last = -1 \/ before = {} THEN NaN ELSE CHOOSE b \in before : TRUE

AskSince(offset, n) ==
  LET eff == Effective(offset)
      last == Recalled(eff)
  IN  /\ site \in Conditional
      /\ IF eff < 0
         THEN /\ answer' = [value |-> NaN, eff |-> eff, back |-> offset > 0]
              /\ UNCHANGED <<memo, forward>>
         ELSE /\ memo' = [lastTrueBar |-> last, lastCheckBar |-> eff, found |-> last # -1]
              /\ answer' = [value |-> IF site = "valuewhen" THEN Occurrence(last, n)
                                      ELSE IF last = -1 THEN NaN ELSE eff - last,
                            eff |-> eff, back |-> offset > 0, occurrence |-> n]
              /\ forward' = (forward /\ memo.lastCheckBar <= eff)
      /\ UNCHANGED <<vars, site, data, stream, lastBar, said>>

-----------------------------------------------------------------------------
SitesInit ==
  /\ Init
  /\ site \in Sites
  /\ data \in IF site = "derived" THEN {[b \in 0 .. LastBar |-> 0]} ELSE [0 .. LastBar -> Prices]
  /\ stream = New /\ lastBar = -1
  /\ memo = NoMemo
  /\ answer = [value |-> NaN, eff |-> -1, back |-> FALSE]
  /\ said = [b \in {} |-> NaN] /\ forward = TRUE

SitesNext ==
  \/ NextBar /\ UNCHANGED siteVars
  \/ \E offset \in 0 .. barIndex + 1 :
       \/ site = "derived" /\ Derive(offset) /\ UNCHANGED siteVars
       \/ AskBack(offset)
       \/ \E n \in Occurrences : AskSince(offset, n)
  \/ AskNow
SitesSpec == SitesInit /\ [][SitesNext]_allVars

-----------------------------------------------------------------------------
\* The incremental state and the whole series give one answer: what an indicator
\* evaluated on every bar said at a bar is what f(x)[k] says of that bar later
\* (docs/architecture.md: "Rather than recomputing the entire history on each bar, it
\* maintains incremental state"); all but rsi over a flat stretch, which is 50 the one
\* way and 100 the other.
PathsAgree ==
  answer.back /\ answer.eff \in DOMAIN said =>
    \/ answer.value = said[answer.eff]
    \/ site = "rsi" /\ said[answer.eff] = 50 /\ answer.value = 100

\* barssince counts the bars since the condition held, and valuewhen finds the bars
\* it held at, on whatever bars they are evaluated, as long as they never look back
\* behind a bar they have looked at.
TrueBars == {b \in 0 .. answer.eff : Holds(b)}
Right ==
  IF site = "barssince"
  THEN answer.value = IF TrueBars = {} THEN NaN ELSE answer.eff - Max(TrueBars)
  ELSE IF Cardinality(TrueBars) <= answer.occurrence THEN answer.value = NaN
  ELSE Cardinality({b \in TrueBars : b >= answer.value}) = answer.occurrence + 1
       /\ answer.value \in TrueBars
SinceForward == site \in Conditional /\ forward /\ answer.eff >= 0 => Right
=============================================================================
