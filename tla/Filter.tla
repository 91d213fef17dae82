------------------------------- MODULE Filter -------------------------------
(***************************************************************************)
(* A filtered view of a queue (series/filter.go).  It remembers the        *)
(* offsets of the values it has found, and reads them again later; the     *)
(* queue goes on being updated.                                            *)
(***************************************************************************)
EXTENDS Queue, FiniteSets

CONSTANTS
  Wanted,  \* the values the predicate is true of
  Limit    \* the length the filter was given

ASSUME LimitAssumption == Limit \in Int

VARIABLES
  cache,  \* the offsets found; the slice has them nearest first, as it found them
  stale   \* for the properties: the queue has been updated since the first was found
filterVars == <<queue, cache, stale>>

Matching == {i \in 0 .. LengthOf(queue) - 1 : LastOf(queue, i) \in Wanted}
Nearer(S, i) == {k \in S : k < i}

\* What a scan may find, from the offset after the last found on.
\* Mutant: the scan starts again at the last offset found.
UnseenAgain == {i \in Matching : \A k \in cache : k <= i}
Unseen == {i \in Matching : \A k \in cache : k < i}
\* What the cache is after Last(j), and what Last(j) returns.
Extended(j) ==
  LET missing == j + 1 - Cardinality(cache)
  IN  IF j >= Limit \/ missing <= 0 THEN cache
      ELSE cache \cup {i \in Unseen : Cardinality(Nearer(Unseen, i)) < missing}
FilterLast(j) ==
  IF j >= Limit \/ j >= Cardinality(Extended(j)) THEN 0
  ELSE LastOf(queue, CHOOSE i \in Extended(j) : Cardinality(Nearer(Extended(j), i)) = j)

Ask(j) == cache' = Extended(j) /\ UNCHANGED <<queue, stale>>

FilterInit == Init /\ cache = {} /\ stale = FALSE
FilterNext ==
  \/ Next /\ stale' = (cache # {}) /\ UNCHANGED cache
  \/ \E j \in 0 .. Limit : Ask(j)
FilterSpec == FilterInit /\ [][FilterNext]_filterVars

-----------------------------------------------------------------------------
\* Until the queue is updated again, Last(j) is the value that, of those the predicate
\* is true of, comes j-th from the newest, in whatever order they are asked for, and 0
\* when there is none or the length is exceeded ("containing only values from the input
\* series for which the predicate function returns true").
FilterExact ==
  \A j \in 0 .. Limit :
    ~stale => \/ j < Limit /\ \E i \in Matching : /\ Cardinality(Nearer(Matching, i)) = j
                                                  /\ FilterLast(j) = LastOf(queue, i)
              \/ ~(j < Limit /\ j < Cardinality(Matching)) /\ FilterLast(j) = 0
=============================================================================
