-------------------------------- MODULE Queue --------------------------------
(***************************************************************************)
(* One queue: created with some size, then updated any number of times.    *)
(***************************************************************************)
EXTENDS Queues

CONSTANTS Sizes, Values

ASSUME SizesAssumption == Sizes \subseteq IntSizes

VARIABLE queue

Init == \E n \in Sizes : queue = NewQueue(n)
Update(v) == queue' = Updated(queue, v)
Next == \E v \in Values : Update(v)
Spec == Init /\ [][Next]_queue

\* The buffer grows slot by slot up to its physical length, which is at least the
\* size asked for; from then on `start` is the slot after `last`, all around.
IsRing(q) ==
  /\ q \in [arr : Seq(Values), size : Sizes, start : Nat, last : Nat \cup {-1},
            realSize : {RealSize(q.size)}]
  /\ LET slots == q.realSize + 1
         used == Len(q.arr)
     IN  /\ used <= slots /\ q.last < used /\ q.size <= slots
         /\ used < slots => q.start = 0 /\ q.last = used - 1
         /\ used = slots => q.last >= 0 /\ q.start = (q.last + 1) % slots
TypeOK == IsRing(queue)

\* The queue is a sliding window: reading Last(0) .. Last(Length() - 1) always
\* gives the newest `size` values, whatever the physical length of the buffer.
IsWindow == INSTANCE Window WITH
              window <- [i \in 1 .. LengthOf(queue) |-> LastOf(queue, i - 1)],
              size <- queue.size
IsAWindow == IsWindow!Spec
=============================================================================
