------------------------------- MODULE Queues -------------------------------
(***************************************************************************)
(* The circular buffer behind every series (series/queue.go), as a value   *)
(* and the functions on it.  Go slices start at 0, sequences at 1.         *)
(***************************************************************************)
EXTENDS Integers, Sequences

\* The sizes a 64-bit int can hold such that the length of the buffer, the next
\* power of two, is an int too.
IntSizes == {n \in Nat : \E k \in 0 .. 62 : n <= 2^k}

\* getRealSize: every bit below the highest one of n-1 is set.
RealSize(n) ==
  IF n <= 1 THEN 1
  ELSE LET bits == CHOOSE k \in 0 .. 62 : n <= 2^k /\ \A j \in 0 .. k - 1 : 2^j < n
       IN  2^bits - 1

NewQueue(size) ==
  [arr |-> <<>>, size |-> size, start |-> 0, last |-> -1, realSize |-> RealSize(size)]

\* i & realSize, realSize being one less than a power of two.
Slot(q, i) == i % (q.realSize + 1)

LastOf(q, i) ==
  IF i < 0 \/ Len(q.arr) - i - 1 < 0 THEN 0 ELSE q.arr[Slot(q, q.last - i) + 1]

LengthOf(q) == IF q.size < Len(q.arr) THEN q.size ELSE Len(q.arr)

\* Mutant: the value overwrites the newest slot, not the oldest.
OverwroteNewest(q, v) ==
  IF Len(q.arr) <= q.realSize THEN [q EXCEPT !.arr = Append(@, v), !.last = @ + 1]
  ELSE IF q.size = 0 THEN q
  ELSE [q EXCEPT !.arr[q.last + 1] = v, !.start = Slot(q, @ + 1), !.last = Slot(q, @ + 1)]
\* Mutant: the oldest slot is overwritten and stays the oldest.
StartStays(q, v) ==
  IF Len(q.arr) <= q.realSize THEN [q EXCEPT !.arr = Append(@, v), !.last = @ + 1]
  ELSE IF q.size = 0 THEN q
  ELSE [q EXCEPT !.arr[q.start + 1] = v, !.last = Slot(q, @ + 1)]
Updated(q, v) ==
  IF Len(q.arr) <= q.realSize THEN [q EXCEPT !.arr = Append(@, v), !.last = @ + 1]
  ELSE IF q.size = 0 THEN q
  ELSE [q EXCEPT !.arr[q.start + 1] = v, !.start = Slot(q, @ + 1), !.last = Slot(q, @ + 1)]
=============================================================================
