----------------------------- MODULE SeriesMemo -----------------------------
(***************************************************************************)
(* The series of an expression that is not a plain series, such as the     *)
(* inner call of hma(hma(close, 20), 50): seriesFromExpr and its slow path *)
(* (builtins.go).  A builtin asks for it on some bars, at the current bar  *)
(* or, inside a history reference such as x[1], at an earlier one; the     *)
(* queue is kept in seriesExprCache for as long as the runtime lives.      *)
(***************************************************************************)
EXTENDS Queues, SequencesExt

CONSTANTS
  LastBar      \* bound: index of the last bar

ASSUME LastBarAssumption == LastBar \in Nat /\ 0 .. LastBar + 1 \subseteq IntSizes  \* an int counts the bars

VARIABLES
  barIndex,    \* Runtime.barIndex
  cached,      \* seriesExprCache[raw]; of length 0 as long as there is none
  derived,     \* the series the last derivation gave
  derivedAt,   \* and the effective bar it was derived at, -1 at first
  extended     \* for the properties: the cached queue has been extended

vars == <<barIndex, cached, derived, derivedAt, extended>>

\* evalWithOffset: the expression has a value of its own on every bar.
ValueAt(b) == b + 1

\* An Update for each of the values.
Fed(q, values) == FoldLeft(Updated, q, values)

\* The memo is empty: the whole history, oldest bar first.
Built(eff) == Fed(NewQueue(eff + 1), [k \in 1 .. eff + 1 |-> ValueAt(k - 1)])

\* Mutant: the newest bars instead of those up to the effective one.
NewestSliced(eff) == Fed(NewQueue(eff + 1), [k \in 1 .. eff + 1 |-> LastOf(cached, eff + 1 - k)])
\* "Historic evaluation window": the memo reaches beyond the effective bar.
Sliced(eff) ==
  LET have == LengthOf(cached)
  IN  Fed(NewQueue(eff + 1),
          [k \in 1 .. eff + 1 |-> LastOf(cached, have - 1 - eff + (eff + 1 - k))])

\* The memo ends before the effective bar.  The loop runs over the offsets from
\* have to eff, and offset `off` is `off` bars back.
Extended(eff) ==
  LET have == LengthOf(cached)
  IN  Fed(cached, [k \in 1 .. eff + 1 - have |-> ValueAt(eff - (have + k - 1))])

\* seriesAtEvalSeries: at most the bars up to the effective one.
AtEvalPoint(ser, eff) ==
  LET total == LengthOf(ser)
      count == IF eff + 1 > total THEN total ELSE eff + 1
  IN  Fed(NewQueue(count), [k \in 1 .. count |-> LastOf(ser, count - k + (total - count))])

Init ==
  /\ barIndex = 0
  /\ cached = NewQueue(0) /\ extended = FALSE
  /\ derived = NewQueue(0) /\ derivedAt = -1

NextBar ==
  /\ barIndex < LastBar
  /\ barIndex' = barIndex + 1
  /\ UNCHANGED <<cached, derived, derivedAt, extended>>

\* seriesFromExprSlow at evalOffset `offset`; before the first bar the series is empty.
Derive(offset) ==
  LET eff == barIndex - offset
      have == LengthOf(cached)
  IN  /\ derivedAt' = eff
      /\ \/ have = 0
            /\ cached' = Built(eff) /\ derived' = AtEvalPoint(cached', eff)
            /\ UNCHANGED extended
         \/ /\ 0 <= eff /\ eff < have - 1
            /\ derived' = AtEvalPoint(Sliced(eff), eff)
            /\ UNCHANGED <<cached, extended>>
         \/ /\ have > 0 /\ eff = have - 1
            /\ derived' = AtEvalPoint(cached, eff)
            /\ UNCHANGED <<cached, extended>>
         \/ /\ have > 0 /\ eff > have - 1
            /\ cached' = Extended(eff) /\ derived' = AtEvalPoint(cached', eff)
            /\ extended' = TRUE
      /\ UNCHANGED barIndex

Next == NextBar \/ \E offset \in 0 .. barIndex + 1 : Derive(offset)
Spec == Init /\ [][Next]_vars

-----------------------------------------------------------------------------
\* The derived series is the expression's history up to the effective bar.
IsHistory ==
  /\ LengthOf(derived) = derivedAt + 1
  /\ \A i \in 0 .. derivedAt : LastOf(derived, i) = ValueAt(derivedAt - i)

\* As long as the memo has not had to be extended, every derived series is the
\* history, also one derived in the past of the bar the memo was made on.
HistoryUntilExtended == ~ extended => IsHistory

\* seriesExprCache: "Cached queues extend incrementally - one new value per bar".
HistoryAlways == IsHistory
=============================================================================
