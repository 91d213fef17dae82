----------------------------- MODULE QueueProofs -----------------------------
(***************************************************************************)
(* The ring of slots implements the sliding window, for every size an int  *)
(* can hold and whatever the values; a filter of it answers right until it *)
(* is updated again, whatever the predicate.                               *)
(***************************************************************************)
EXTENDS Filter, SumTheorems

\* The bit smearing of getRealSize covers the size asked for.
LEMMA RealSizeCovers ==
  ASSUME NEW n \in IntSizes
  PROVE  RealSize(n) \in Nat /\ RealSize(n) >= 1 /\ RealSize(n) + 1 >= n
<1>1. CASE n <= 1
  BY <1>1 DEF RealSize, IntSizes
<1>2. CASE ~ (n <= 1)
  <2> DEFINE Fits == {k \in 0 .. 62 : n <= 2^k}
             IsBits(k) == n <= 2^k /\ \A j \in 0 .. k - 1 : 2^j < n
             bits == CHOOSE k \in 0 .. 62 : IsBits(k)
  <2>0. PICK some \in 0 .. 62 : n <= 2^some
    BY DEF IntSizes
  <2>1. Fits \subseteq Nat /\ Fits # {} /\ n \in Int
    <3>1. some \in Fits
      BY <2>0
    <3>2. n \in Int
      BY DEF IntSizes
    <3> QED BY <3>1, <3>2
  <2>2. PICK k \in Fits : \A m \in Fits : k <= m
    <3> HIDE DEF Fits
    <3> QED BY <2>1, LeastNatural
  <2>3. \A j \in 0 .. k - 1 : j \in 0 .. 62 /\ j \notin Fits
    BY <2>2
  <2>4. IsBits(k)
    BY <2>1, <2>2, <2>3
  <2>5. bits \in 0 .. 62 /\ IsBits(bits)
    <3> HIDE DEF IsBits
    <3> QED BY <2>2, <2>4
  <2>6. 2^bits \in Int /\ n <= 2^bits
    <3> HIDE DEF bits
    <3> QED BY <2>5
  <2>7. RealSize(n) = 2^bits - 1
    BY <1>2 DEF RealSize
  <2> HIDE DEF bits
  <2> QED BY <1>2, <2>1, <2>6, <2>7
<1> QED BY <1>1, <1>2

\* Slots of a ring of N: the one after `last`, and the ones at a distance.
LEMMA NextSlot ==
  ASSUME NEW N \in Nat \ {0}, NEW last \in 0 .. N - 1
  PROVE  /\ (last + 1) % N \in 0 .. N - 1
         /\ (last + 1) % N = IF last + 1 = N THEN 0 ELSE last + 1
OBVIOUS

\* Going back from the slot `last` stays inside the buffer or wraps around it once.
LEMMA SlotBack ==
  ASSUME NEW N \in Nat \ {0}, NEW last \in 0 .. N - 1, NEW i \in 0 .. N - 1
  PROVE  (last - i) % N = IF i <= last THEN last - i ELSE last - i + N
OBVIOUS

\* One slot back from the slot `last` is two slots back from the next one.
LEMMA SlotShift ==
  ASSUME NEW N \in Nat \ {0}, NEW last \in 0 .. N - 1, NEW i \in 1 .. N - 1,
         NEW start, start = IF last + 1 = N THEN 0 ELSE last + 1
  PROVE  LET at == IF i <= start THEN start - i ELSE start - i + N
         IN  /\ i - 1 \in 0 .. N - 1 /\ at \in 0 .. N - 1 /\ at # start
             /\ at = IF i - 1 <= last THEN last - (i - 1) ELSE last - (i - 1) + N
OBVIOUS

\* A new queue (NewQueue in queue.go) is a ring.
LEMMA NewIsRing == ASSUME NEW n \in Sizes PROVE IsRing(NewQueue(n))
<1>1. n \in IntSizes
  BY SizesAssumption
<1>2. RealSize(n) \in Nat /\ RealSize(n) >= 1 /\ RealSize(n) + 1 >= n
  BY <1>1, RealSizeCovers
<1>3. n \in Int
  BY <1>1 DEF IntSizes
<1> HIDE DEF IntSizes
<1> QED BY <1>2, <1>3 DEF NewQueue, IsRing

\* The parts of a ring.
LEMMA RingParts ==
  ASSUME NEW q, IsRing(q)
  PROVE  LET N == q.realSize + 1
         IN  /\ q = [arr |-> q.arr, size |-> q.size, start |-> q.start, last |-> q.last,
                     realSize |-> q.realSize]
             /\ q.size \in Sizes /\ q.realSize = RealSize(q.size)
             /\ N \in Nat \ {0} /\ q.size \in Nat /\ q.realSize \in Nat /\ q.size <= N
             /\ q.arr \in Seq(Values) /\ q.start \in Nat /\ q.last \in Nat \cup {-1}
             /\ Len(q.arr) <= N /\ q.last < Len(q.arr)
             /\ Len(q.arr) < N => q.start = 0 /\ q.last = Len(q.arr) - 1
             /\ Len(q.arr) = N => q.last >= 0 /\ q.start = (q.last + 1) % N
<1>1. q.size \in Sizes /\ q.size \in IntSizes /\ q.realSize = RealSize(q.size)
  BY SizesAssumption DEF IsRing
<1>2. q.size \in Nat
  BY <1>1 DEF IntSizes
<1>3. q.realSize + 1 \in Nat \ {0} /\ q.realSize \in Nat /\ q.size <= q.realSize + 1
  BY <1>1, <1>2, RealSizeCovers
<1> QED BY <1>1, <1>2, <1>3 DEF IsRing

\* What an update does to a ring: while it is not full it grows; a full ring of
\* size 0 stays as it is, any other loses the oldest value.
LEMMA UpdatedRing ==
  ASSUME NEW q, IsRing(q), NEW v \in Values
  PROVE  LET N == q.realSize + 1
             r == Updated(q, v)
         IN  /\ IsRing(r) /\ r.size = q.size /\ r.realSize = q.realSize
             /\ \/ Len(q.arr) < N /\ r.arr = Append(q.arr, v) /\ r.last = q.last + 1
                \/ Len(q.arr) = N /\ q.size = 0 /\ r = q
                \/ /\ Len(q.arr) = N /\ q.size > 0 /\ q.start \in 0 .. N - 1
                   /\ q.start = IF q.last + 1 = N THEN 0 ELSE q.last + 1
                   /\ r.arr = [q.arr EXCEPT ![q.start + 1] = v] /\ r.last = q.start
<1> DEFINE N == q.realSize + 1
           r == Updated(q, v)
<1>1. q.size \in Sizes /\ q.realSize = RealSize(q.size)
  BY RingParts
<1>2. N \in Nat \ {0} /\ q.size \in Nat /\ q.realSize \in Nat /\ q.size <= N
  BY RingParts
<1>3. /\ q = [arr |-> q.arr, size |-> q.size, start |-> q.start, last |-> q.last,
              realSize |-> q.realSize]
      /\ q.arr \in Seq(Values) /\ q.start \in Nat /\ q.last \in Nat \cup {-1}
      /\ Len(q.arr) <= N /\ q.last < Len(q.arr)
      /\ Len(q.arr) < N => q.start = 0 /\ q.last = Len(q.arr) - 1
      /\ Len(q.arr) = N => q.last >= 0 /\ q.start = (q.last + 1) % N
  BY RingParts
<1>4. CASE Len(q.arr) < N
  <2>1. r = [q EXCEPT !.arr = Append(@, v), !.last = @ + 1]
    BY <1>2, <1>3, <1>4 DEF Updated
  <2>2. r = [arr |-> Append(q.arr, v), size |-> q.size, start |-> 0, last |-> q.last + 1,
                  realSize |-> q.realSize]
    BY <1>3, <1>4, <2>1
  <2>3. Append(q.arr, v) \in Seq(Values) /\ Len(Append(q.arr, v)) = Len(q.arr) + 1
    BY <1>3
  <2>4. Len(q.arr) + 1 = N => 0 = (q.last + 1 + 1) % N
    BY <1>2, <1>3, <1>4, NextSlot
  <2>5. IsRing(r)
    BY <1>1, <1>2, <1>3, <1>4, <2>2, <2>3, <2>4 DEF IsRing
  <2> QED BY <1>4, <2>2, <2>5
<1>5. CASE Len(q.arr) = N /\ q.size = 0
  <2>1. r = q
    BY <1>2, <1>5 DEF Updated
  <2> QED BY <1>5, <2>1
<1>6. CASE Len(q.arr) = N /\ q.size # 0
  <2>1. r = [q EXCEPT !.arr[q.start + 1] = v, !.start = Slot(q, @ + 1), !.last = Slot(q, @ + 1)]
    BY <1>2, <1>6 DEF Updated
  <2>2. q.start = (q.last + 1) % N /\ q.start \in 0 .. N - 1 /\ q.last \in 0 .. N - 1
    BY <1>2, <1>3, <1>6, NextSlot
  <2>3. (q.start + 1) % N \in 0 .. N - 1
    BY <1>2, <2>2, NextSlot
  <2>4. r = [arr |-> [q.arr EXCEPT ![q.start + 1] = v], size |-> q.size,
                  start |-> (q.start + 1) % N, last |-> q.start, realSize |-> q.realSize]
    BY <1>3, <2>1, <2>2 DEF Slot
  <2>5. [q.arr EXCEPT ![q.start + 1] = v] \in Seq(Values)
        /\ Len([q.arr EXCEPT ![q.start + 1] = v]) = N
    BY <1>3, <1>6, <2>2
  <2>6. IsRing(r)
    <3> DEFINE arr == [q.arr EXCEPT ![q.start + 1] = v]
               start == (q.start + 1) % N
    <3>1. /\ r = [arr |-> arr, size |-> q.size, start |-> start, last |-> q.start,
                       realSize |-> q.realSize]
          /\ arr \in Seq(Values) /\ Len(arr) = N /\ start \in Nat
      BY <2>3, <2>4, <2>5
    <3>2. start = (q.start + 1) % N
      OBVIOUS
    <3> HIDE DEF arr, start
    <3> QED BY <1>1, <1>2, <2>2, <3>1, <3>2 DEF IsRing
  <2>7. q.start = IF q.last + 1 = N THEN 0 ELSE q.last + 1
    BY <1>2, <2>2, NextSlot
  <2>8. r.size = q.size /\ r.realSize = q.realSize /\ r.last = q.start
        /\ r.arr = [q.arr EXCEPT ![q.start + 1] = v]
    BY <2>4
  <2>9. Len(q.arr) = N /\ q.size > 0
    BY <1>2, <1>6
  <2> QED BY <2>2, <2>6, <2>7, <2>8, <2>9, Zenon
<1> HIDE DEF r
<1> QED BY <1>2, <1>3, <1>4, <1>5, <1>6 DEF r

\* THEOREM: the ring stays well formed, for every size and whatever the values.
THEOREM RingWellFormed == Spec => []TypeOK
<1>1. Init => TypeOK
  BY NewIsRing DEF Init, TypeOK
<1>2. TypeOK /\ [Next]_queue => TypeOK'
  <2> SUFFICES ASSUME TypeOK, Next PROVE TypeOK'
    BY DEF TypeOK
  <2>1. PICK v \in Values : queue' = Updated(queue, v)
    BY DEF Next, Update
  <2> QED BY <2>1, UpdatedRing DEF TypeOK
<1> QED BY <1>1, <1>2, PTL DEF Spec

\* What the reads give, in terms of the ring.
LEMMA RingReads ==
  ASSUME NEW q, IsRing(q)
  PROVE  LET N == q.realSize + 1
         IN  /\ LengthOf(q) \in Nat /\ LengthOf(q) <= Len(q.arr)
             /\ LengthOf(q) = IF q.size < Len(q.arr) THEN q.size ELSE Len(q.arr)
             /\ \A i \in 0 .. Len(q.arr) - 1 :
                  LastOf(q, i) = q.arr[(IF i <= q.last THEN q.last - i ELSE q.last - i + N) + 1]
<1> DEFINE N == q.realSize + 1
<1>1. N \in Nat \ {0} /\ q.size \in Nat
  BY RingParts
<1>2. /\ q.arr \in Seq(Values) /\ q.last \in Nat \cup {-1} /\ Len(q.arr) <= N
      /\ q.last < Len(q.arr)
      /\ Len(q.arr) < N => q.last = Len(q.arr) - 1
      /\ Len(q.arr) = N => q.last >= 0
  BY RingParts
<1>3. LengthOf(q) \in Nat /\ LengthOf(q) <= Len(q.arr)
      /\ LengthOf(q) = IF q.size < Len(q.arr) THEN q.size ELSE Len(q.arr)
  BY <1>1, <1>2 DEF LengthOf
<1>4. ASSUME NEW i \in 0 .. Len(q.arr) - 1
      PROVE  LastOf(q, i) = q.arr[(IF i <= q.last THEN q.last - i ELSE q.last - i + N) + 1]
  <2>1. q.last \in 0 .. N - 1 /\ i \in 0 .. N - 1
    BY <1>1, <1>2
  <2>2. (q.last - i) % N = IF i <= q.last THEN q.last - i ELSE q.last - i + N
    BY <1>1, <2>1, SlotBack
  <2>3. LastOf(q, i) = q.arr[((q.last - i) % N) + 1]
    BY <1>2 DEF LastOf, Slot
  <2> QED BY <2>2, <2>3
<1> QED BY <1>3, <1>4

\* The refinement step: the window an updated ring shows is the window of the ring
\* with the new value in front, cut to the size.
LEMMA WindowSlides ==
  ASSUME NEW q, IsRing(q), NEW v \in Values
  PROVE  LET r == Updated(q, v)
         IN  /\ LengthOf(r) = IF LengthOf(q) < q.size THEN LengthOf(q) + 1 ELSE q.size
             /\ \A i \in 1 .. LengthOf(r) :
                  LastOf(r, i - 1) = IF i = 1 THEN v ELSE LastOf(q, i - 2)
<1> DEFINE N == q.realSize + 1
           r == Updated(q, v)
<1>1. /\ N \in Nat \ {0} /\ q.size \in Nat /\ q.size <= N
      /\ q.arr \in Seq(Values) /\ q.last \in Nat \cup {-1} /\ Len(q.arr) <= N
      /\ q.last < Len(q.arr)
      /\ Len(q.arr) < N => q.last = Len(q.arr) - 1
      /\ Len(q.arr) = N => q.last >= 0
  BY RingParts
<1>2. IsRing(r) /\ r.size = q.size /\ r.realSize = q.realSize
  BY UpdatedRing
<1>3. /\ LengthOf(q) \in Nat /\ LengthOf(q) <= Len(q.arr)
      /\ LengthOf(q) = IF q.size < Len(q.arr) THEN q.size ELSE Len(q.arr)
      /\ \A i \in 0 .. Len(q.arr) - 1 :
           LastOf(q, i) = q.arr[(IF i <= q.last THEN q.last - i ELSE q.last - i + N) + 1]
  BY RingReads
<1>4. /\ LengthOf(r) \in Nat /\ LengthOf(r) <= Len(r.arr)
      /\ LengthOf(r) = IF q.size < Len(r.arr) THEN q.size ELSE Len(r.arr)
      /\ \A i \in 0 .. Len(r.arr) - 1 :
           LastOf(r, i) = r.arr[(IF i <= r.last THEN r.last - i ELSE r.last - i + N) + 1]
  <2> HIDE DEF r
  <2> QED BY <1>2, RingReads
<1> SUFFICES /\ LengthOf(r) = IF LengthOf(q) < q.size THEN LengthOf(q) + 1 ELSE q.size
             /\ \A i \in 1 .. LengthOf(r) :
                  LastOf(r, i - 1) = IF i = 1 THEN v ELSE LastOf(q, i - 2)
  OBVIOUS
<1>5. CASE Len(q.arr) < N /\ r.arr = Append(q.arr, v) /\ r.last = q.last + 1
  <2>1. Len(r.arr) = Len(q.arr) + 1 /\ r.last = Len(q.arr) /\ q.last = Len(q.arr) - 1
        /\ r.arr[Len(q.arr) + 1] = v /\ \A j \in 1 .. Len(q.arr) : r.arr[j] = q.arr[j]
    BY <1>1, <1>5
  <2>2. ASSUME NEW i \in 1 .. LengthOf(r)
        PROVE  LastOf(r, i - 1) = IF i = 1 THEN v ELSE LastOf(q, i - 2)
    <3>1. LastOf(r, i - 1) = r.arr[Len(q.arr) - i + 2]
      BY <1>1, <1>4, <2>1
    <3>2. CASE i = 1
      BY <1>1, <2>1, <3>1, <3>2
    <3>3. CASE i # 1
      <4>1. i - 2 \in 0 .. Len(q.arr) - 1 /\ Len(q.arr) - i + 2 \in 1 .. Len(q.arr)
        BY <1>1, <1>4, <2>1, <3>3
      <4>2. LastOf(q, i - 2) = q.arr[Len(q.arr) - i + 2]
        <5>1. i - 2 <= q.last /\ q.last - (i - 2) + 1 = Len(q.arr) - i + 2
          BY <2>1, <4>1
        <5> QED BY <1>3, <4>1, <5>1
      <4> QED BY <2>1, <3>1, <3>3, <4>1, <4>2
    <3> QED BY <3>2, <3>3
  <2> HIDE DEF r
  <2> QED BY <1>1, <1>3, <1>4, <2>1, <2>2
<1>6. CASE Len(q.arr) = N /\ q.size = 0 /\ r = q
  <2> HIDE DEF r
  <2> QED BY <1>1, <1>3, <1>6
<1>7. CASE /\ Len(q.arr) = N /\ q.size > 0 /\ q.start \in 0 .. N - 1
           /\ q.start = IF q.last + 1 = N THEN 0 ELSE q.last + 1
           /\ r.arr = [q.arr EXCEPT ![q.start + 1] = v] /\ r.last = q.start
  <2>1. Len(r.arr) = N /\ r.arr[q.start + 1] = v /\ LengthOf(r) = q.size
        /\ \A j \in 1 .. N : j # q.start + 1 => r.arr[j] = q.arr[j]
    <3>1. q.start + 1 \in 1 .. Len(q.arr)
      BY <1>1, <1>7
    <3>2. Len(r.arr) = N
      BY <1>1, <1>7, <3>1
    <3>3. r.arr[q.start + 1] = v /\ \A j \in 1 .. N : j # q.start + 1 => r.arr[j] = q.arr[j]
      BY <1>1, <1>7, <3>1
    <3>4. LengthOf(r) = q.size
      BY <1>1, <1>4, <3>2
    <3> QED BY <3>2, <3>3, <3>4
  <2>2. ASSUME NEW i \in 1 .. LengthOf(r)
        PROVE  LastOf(r, i - 1) = IF i = 1 THEN v ELSE LastOf(q, i - 2)
    <3> DEFINE at == IF i - 1 <= q.start THEN q.start - (i - 1) ELSE q.start - (i - 1) + N
    <3>1. LastOf(r, i - 1) = r.arr[at + 1]
      BY <1>1, <1>4, <1>7, <2>1
    <3>2. CASE i = 1
      BY <1>7, <2>1, <3>1, <3>2
    <3>3. CASE i # 1
      <4>1. i - 2 \in 0 .. N - 1 /\ at \in 0 .. N - 1 /\ at # q.start
            /\ at = IF i - 2 <= q.last THEN q.last - (i - 2) ELSE q.last - (i - 2) + N
        <5>1. /\ i - 1 \in 1 .. N - 1 /\ q.last \in 0 .. N - 1 /\ N \in Nat \ {0}
              /\ q.start = IF q.last + 1 = N THEN 0 ELSE q.last + 1
          <6>1. i \in Int /\ 1 < i /\ i <= q.size
            BY <1>1, <2>1, <3>3
          <6>2. i - 1 \in 1 .. N - 1
            BY <1>1, <6>1
          <6>3. q.last \in 0 .. N - 1
            BY <1>1, <1>7
          <6> QED BY <1>1, <1>7, <6>2, <6>3
        <5>2. i - 2 = (i - 1) - 1
          OBVIOUS
        <5> HIDE DEF N
        <5> QED BY <5>1, <5>2, SlotShift
      <4>2. LastOf(q, i - 2) = q.arr[at + 1]
        BY <1>3, <1>7, <4>1
      <4> HIDE DEF at
      <4>3. at + 1 \in 1 .. N /\ at + 1 # q.start + 1
        BY <1>1, <1>7, <4>1
      <4> QED BY <2>1, <3>1, <3>3, <4>2, <4>3
    <3> QED BY <3>2, <3>3
  <2> HIDE DEF r
  <2> QED BY <1>1, <1>3, <1>7, <2>1, <2>2
<1> QED BY <1>5, <1>6, <1>7, UpdatedRing

\* THEOREM: a queue is the sliding window of its size: reading it back gives the
\* newest `size` values, newest first, whatever the length of the buffer.
THEOREM QueueIsWindow == Spec => IsAWindow
<1> DEFINE shown(q) == [i \in 1 .. LengthOf(q) |-> LastOf(q, i - 1)]
<1>1. Init => IsWindow!Init
  <2> SUFFICES ASSUME NEW n \in Sizes, queue = NewQueue(n) PROVE IsWindow!Init
    BY DEF Init
  <2>1. n \in Nat
    BY SizesAssumption DEF IntSizes
  <2>2. LengthOf(queue) = 0 /\ queue.size = n
    BY <2>1 DEF NewQueue, LengthOf
  <2> QED BY <2>2 DEF IsWindow!Init
<1>2. TypeOK /\ [Next]_queue => [IsWindow!Next]_<<shown(queue), queue.size>>
  <2> SUFFICES ASSUME TypeOK, NEW v \in Values, queue' = Updated(queue, v)
               PROVE  IsWindow!Push(v)
    BY DEF Next, Update, IsWindow!Next
  <2>1. IsRing(queue)
    BY DEF TypeOK
  <2>2. /\ LengthOf(queue') = IF LengthOf(queue) < queue.size THEN LengthOf(queue) + 1
                              ELSE queue.size
        /\ \A i \in 1 .. LengthOf(queue') :
             LastOf(queue', i - 1) = IF i = 1 THEN v ELSE LastOf(queue, i - 2)
    BY <2>1, WindowSlides
  <2>3. queue'.size = queue.size
    BY <2>1, UpdatedRing
  <2>4. queue.size \in Nat /\ LengthOf(queue) \in Nat /\ LengthOf(queue) <= queue.size
    BY <2>1, RingParts, RingReads
  <2>5. Len(shown(queue)) = LengthOf(queue)
    BY <2>4
  <2>6. shown(queue)' = [i \in 1 .. IF Len(shown(queue)) < queue.size
                                     THEN Len(shown(queue)) + 1 ELSE queue.size |->
                            IF i = 1 THEN v ELSE shown(queue)[i - 1]]
    <3>1. ASSUME NEW i \in 1 .. LengthOf(queue'), i # 1
          PROVE  shown(queue)[i - 1] = LastOf(queue, i - 2)
      BY <2>2, <2>4, <3>1
    <3>2. shown(queue)' = [i \in 1 .. LengthOf(queue') |-> LastOf(queue', i - 1)]
      OBVIOUS
    <3> HIDE DEF shown
    <3> QED BY <2>2, <2>5, <3>1, <3>2
  <2> QED BY <2>3, <2>6 DEF IsWindow!Push
<1> QED BY <1>1, <1>2, RingWellFormed, PTL DEF Spec, IsAWindow, IsWindow!Spec

-----------------------------------------------------------------------------
(* The filter. *)

\* A finite set of offsets has one with exactly n nearer, if it has more than n.
LEMMA NearerExists ==
  ASSUME NEW T, T \subseteq Nat, IsFiniteSet(T), NEW n \in Nat, n < Cardinality(T)
  PROVE  \E i \in T : Cardinality(Nearer(T, i)) = n
<1> DEFINE Bad == {k \in Nat : k < Cardinality(T) /\ \A i \in T : Cardinality(Nearer(T, i)) # k}
<1> SUFFICES ASSUME Bad # {} PROVE FALSE
  OBVIOUS
<1>1. PICK k \in Bad : \A j \in Bad : k <= j
  <2>1. Bad \subseteq Nat
    OBVIOUS
  <2> HIDE DEF Bad
  <2> QED BY <2>1, LeastNatural
<1>2. Cardinality(T) \in Nat
  BY FS_CardinalityType
\* The next one after some that are not all.
<1>3. ASSUME NEW U, U \subseteq T, U # T, Cardinality(U) = k, \A x \in U : \A y \in T : y < x => y \in U
      PROVE  FALSE
  <2>1. T \ U \subseteq Nat /\ T \ U # {}
    BY <1>3
  <2>2. PICK i \in T \ U : \A m \in T \ U : i <= m
    BY <2>1, LeastNatural
  <2>3. \A x \in U : x < i
    <3>1. ASSUME NEW x \in U PROVE x < i
      <4>1. x \in Nat /\ i \in Nat /\ x # i /\ ~ (i < x)
        BY <1>3, <2>2
      <4> QED BY <4>1
    <3> QED BY <3>1
  <2>4. Nearer(T, i) = U
    <3>1. \A x \in T \ U : ~ (x < i)
      <4>1. ASSUME NEW x \in T \ U PROVE ~ (x < i)
        BY <2>1, <2>2
      <4> QED BY <4>1
    <3> QED BY <1>3, <2>3, <3>1 DEF Nearer
  <2>5. Cardinality(Nearer(T, i)) # k
    BY <1>1, <2>2
  <2> QED BY <1>3, <2>4, <2>5
<1>4. k = 0 => Cardinality({}) = k
  BY FS_EmptySet
<1>5. k = 0 => FALSE
  <2>1. k = 0 => {} # T
    BY <1>1, FS_EmptySet
  <2> QED BY <1>3, <1>4, <2>1
<1>6. k \in Nat /\ k # 0 /\ k < Cardinality(T)
  BY <1>1, <1>5
<1>7. k - 1 \in Nat /\ k - 1 < Cardinality(T) /\ k - 1 \notin Bad
  BY <1>1, <1>2, <1>6
<1>8. PICK b \in T : Cardinality(Nearer(T, b)) = k - 1
  BY <1>7
<1> DEFINE U == Nearer(T, b) \cup {b}
<1>9. U \subseteq T /\ b \notin Nearer(T, b) /\ b \in Nat
  BY <1>8 DEF Nearer
<1>10. Cardinality(U) = k
  <2>1. IsFiniteSet(Nearer(T, b))
    <3>1. Nearer(T, b) \subseteq T
      BY DEF Nearer
    <3> QED BY <3>1, FS_Subset
  <2>2. Cardinality(U) = (k - 1) + 1
    BY <1>8, <1>9, <2>1, FS_AddElement
  <2> QED BY <1>6, <2>2
<1>11. U # T
  BY <1>2, <1>6, <1>10
<1>12. \A x \in U : \A y \in T : y < x => y \in U
  <2>1. ASSUME NEW x \in U, NEW y \in T, y < x PROVE y \in U
    <3>1. x \in Nat /\ y \in Nat /\ b \in Nat /\ (x < b \/ x = b)
      BY <1>9 DEF Nearer
    <3>2. y < b
      BY <2>1, <3>1
    <3> QED BY <3>2 DEF Nearer
  <2> QED BY <2>1
<1> HIDE DEF U
<1> QED BY <1>3, <1>9, <1>10, <1>11, <1>12

\* No two of them have as many nearer.
LEMMA NearerDiffers ==
  ASSUME NEW T, T \subseteq Nat, IsFiniteSet(T), NEW i \in T, NEW m \in T, i < m
  PROVE  Cardinality(Nearer(T, i)) < Cardinality(Nearer(T, m))
<1>1. Nearer(T, i) \subseteq Nearer(T, m) /\ i \in Nearer(T, m) /\ i \notin Nearer(T, i)
  <2>1. i \in Nat /\ m \in Nat
    OBVIOUS
  <2>2. ASSUME NEW x \in Nearer(T, i) PROVE x \in Nearer(T, m)
    <3>1. x \in T /\ x \in Nat /\ x < i
      BY DEF Nearer
    <3> QED BY <2>1, <3>1 DEF Nearer
  <2>3. ~ (i < i)
    BY <2>1
  <2> QED BY <2>2, <2>3 DEF Nearer
<1>2. IsFiniteSet(Nearer(T, i)) /\ IsFiniteSet(Nearer(T, m))
  <2>1. Nearer(T, i) \subseteq T /\ Nearer(T, m) \subseteq T
    BY DEF Nearer
  <2> QED BY <2>1, FS_Subset
<1>3. /\ Cardinality(Nearer(T, i)) \in Nat /\ Cardinality(Nearer(T, m)) \in Nat
      /\ Cardinality(Nearer(T, i)) <= Cardinality(Nearer(T, m))
      /\ Cardinality(Nearer(T, i)) = Cardinality(Nearer(T, m)) => Nearer(T, i) = Nearer(T, m)
  BY <1>1, <1>2, FS_CardinalityType, FS_Subset
<1> QED BY <1>1, <1>3

\* A part of the matching offsets, with each all that are nearer.
FirstOf(S) == S \subseteq Matching /\ \A c \in S : \A i \in Matching : i < c => i \in S

\* The offsets of the queue.
LEMMA Offsets == ASSUME TypeOK PROVE Matching \subseteq Nat /\ IsFiniteSet(Matching)
<1>1. LengthOf(queue) \in Nat
  BY RingReads DEF TypeOK
<1>2. Matching \subseteq 0 .. LengthOf(queue) - 1 /\ IsFiniteSet(0 .. LengthOf(queue) - 1)
  BY <1>1, FS_Interval DEF Matching
<1>3. 0 .. LengthOf(queue) - 1 \subseteq Nat
  BY <1>1
<1> QED BY <1>2, <1>3, FS_Subset

\* A scan finds the nearest of those the cache has not, and with the cache they are
\* again the first ones.
LEMMA ExtendedIsFirst ==
  ASSUME TypeOK, FirstOf(cache), NEW j \in Nat
  PROVE  FirstOf(Extended(j))
<1> DEFINE missing == j + 1 - Cardinality(cache)
           found == {i \in Unseen : Cardinality(Nearer(Unseen, i)) < missing}
<1>1. Matching \subseteq Nat /\ IsFiniteSet(Matching)
  BY Offsets
<1>2. Unseen \subseteq Matching /\ IsFiniteSet(Unseen)
  BY <1>1, FS_Subset DEF Unseen
<1>3. IsFiniteSet(cache) /\ Cardinality(cache) \in Nat
  BY <1>1, FS_Subset, FS_CardinalityType DEF FirstOf
<1>4. ASSUME NEW c \in found, NEW i \in Matching, i < c PROVE i \in cache \cup found
  <2>1. CASE \E k \in cache : ~ (k < i)
    <3>1. PICK k \in cache : ~ (k < i)
      BY <2>1
    <3>2. k \in Nat /\ i \in Nat /\ (i < k \/ i = k)
      BY <1>1, <3>1 DEF FirstOf
    <3> QED BY <3>2 DEF FirstOf
  <2>2. CASE \A k \in cache : k < i
    <3>1. i \in Unseen /\ c \in Unseen
      BY <2>2 DEF Unseen
    <3>2. Unseen \subseteq Nat
      BY <1>1, <1>2
    <3>3. Cardinality(Nearer(Unseen, i)) < Cardinality(Nearer(Unseen, c))
      BY <1>2, <1>4, <3>1, <3>2, NearerDiffers
    <3>4. /\ Cardinality(Nearer(Unseen, i)) \in Nat /\ Cardinality(Nearer(Unseen, c)) \in Nat
          /\ Cardinality(Nearer(Unseen, c)) < missing /\ missing \in Int
      <4>1. Nearer(Unseen, i) \subseteq Unseen /\ Nearer(Unseen, c) \subseteq Unseen
        BY DEF Nearer
      <4> QED BY <1>2, <1>3, <4>1, FS_Subset, FS_CardinalityType
    <3>5. Cardinality(Nearer(Unseen, i)) < missing
      BY <3>3, <3>4
    <3> QED BY <3>1, <3>5
  <2> QED BY <2>1, <2>2
<1>5. Extended(j) = cache \/ Extended(j) = cache \cup found
  BY DEF Extended
<1>6. found \subseteq Matching
  BY <1>2
<1> HIDE DEF found
<1> QED BY <1>4, <1>5, <1>6 DEF FirstOf

\* It reaches the one asked for.
LEMMA ExtendedReaches ==
  ASSUME TypeOK, FirstOf(cache), NEW j \in Nat, j < Limit,
         NEW i \in Matching, Cardinality(Nearer(Matching, i)) = j
  PROVE  i \in Extended(j)
<1>1. Matching \subseteq Nat /\ IsFiniteSet(Matching)
  BY Offsets
<1>2. IsFiniteSet(cache) /\ Cardinality(cache) \in Nat /\ cache \subseteq Nat
  BY <1>1, FS_Subset, FS_CardinalityType DEF FirstOf
<1>3. CASE i \in cache
  BY <1>3 DEF Extended
<1>4. CASE i \notin cache
  <2>1. \A k \in cache : k < i
    <3>1. ASSUME NEW k \in cache PROVE k < i
      <4>1. k \in Nat /\ i \in Nat /\ k # i /\ ~ (i < k)
        BY <1>1, <1>2, <1>4 DEF FirstOf
      <4> QED BY <4>1
    <3> QED BY <3>1
  <2>2. i \in Unseen
    BY <2>1 DEF Unseen
  <2>3. Nearer(Matching, i) = cache \cup Nearer(Unseen, i) /\ cache \cap Nearer(Unseen, i) = {}
    <3>1. \A x \in Unseen : x \notin cache
      <4>1. ASSUME NEW x \in Unseen, x \in cache PROVE FALSE
        <5>1. x \in Nat /\ x < x
          BY <1>2, <4>1 DEF Unseen
        <5> QED BY <5>1
      <4> QED BY <4>1
    <3>2. ASSUME NEW x \in Matching, x < i, x \notin cache PROVE x \in Unseen
      <4>1. ASSUME NEW k \in cache PROVE k < x
        <5>1. k \in Nat /\ x \in Nat /\ k # x /\ ~ (x < k)
          BY <1>1, <1>2, <3>2 DEF FirstOf
        <5> QED BY <5>1
      <4> QED BY <4>1 DEF Unseen
    <3>3. cache \subseteq Matching /\ Unseen \subseteq Matching
      BY DEF FirstOf, Unseen
    <3> QED BY <2>1, <3>1, <3>2, <3>3 DEF Nearer
  <2>4. IsFiniteSet(Nearer(Unseen, i)) /\ Cardinality(Nearer(Unseen, i)) \in Nat
    <3>1. Nearer(Unseen, i) \subseteq Matching
      BY DEF Nearer, Unseen
    <3> QED BY <1>1, <3>1, FS_Subset, FS_CardinalityType
  <2>5. j = Cardinality(cache) + Cardinality(Nearer(Unseen, i))
    <3>1. Cardinality(cache \cup Nearer(Unseen, i))
            = Cardinality(cache) + Cardinality(Nearer(Unseen, i)) - Cardinality(cache \cap Nearer(Unseen, i))
      BY <1>2, <2>4, FS_Union
    <3>2. Cardinality(cache \cap Nearer(Unseen, i)) = 0
      BY <2>3, FS_EmptySet
    <3> QED BY <1>2, <2>3, <2>4, <3>1, <3>2
  <2> DEFINE missing == j + 1 - Cardinality(cache)
  <2>6. ~ (missing <= 0) /\ Cardinality(Nearer(Unseen, i)) < missing
    BY <1>2, <2>4, <2>5
  <2>7. ~ (j >= Limit)
    BY LimitAssumption
  <2> HIDE DEF missing
  <2>8. Extended(j) = cache \cup {k \in Unseen : Cardinality(Nearer(Unseen, k)) < missing}
    BY <2>6, <2>7 DEF Extended, missing
  <2> QED BY <2>2, <2>6, <2>8
<1> QED BY <1>3, <1>4

\* What a cache of the first ones answers.
LEMMA FirstAnswers ==
  ASSUME TypeOK, FirstOf(cache), NEW j \in 0 .. Limit
  PROVE  \/ j < Limit /\ \E i \in Matching : /\ Cardinality(Nearer(Matching, i)) = j
                                             /\ FilterLast(j) = LastOf(queue, i)
         \/ ~(j < Limit /\ j < Cardinality(Matching)) /\ FilterLast(j) = 0
<1>1. Matching \subseteq Nat /\ IsFiniteSet(Matching) /\ Cardinality(Matching) \in Nat /\ j \in Nat
  BY Offsets, FS_CardinalityType
<1> DEFINE all == Extended(j)
           IsIt(i) == i \in all /\ Cardinality(Nearer(all, i)) = j
<1>2. FirstOf(all)
  BY <1>1, ExtendedIsFirst
<1>3. all \subseteq Nat /\ IsFiniteSet(all) /\ Cardinality(all) \in Nat /\ Cardinality(all) <= Cardinality(Matching)
  BY <1>1, <1>2, FS_Subset, FS_CardinalityType DEF FirstOf
<1>4. CASE ~ (j < Limit)
  <2>1. j >= Limit
    BY <1>1, <1>4, LimitAssumption
  <2> QED BY <1>4, <2>1 DEF FilterLast
<1>5. CASE j < Limit /\ ~ (j < Cardinality(Matching))
  <2>1. j >= Cardinality(all)
    BY <1>1, <1>3, <1>5
  <2> QED BY <1>5, <2>1 DEF FilterLast
<1>6. CASE j < Limit /\ j < Cardinality(Matching)
  <2>1. PICK i \in Matching : Cardinality(Nearer(Matching, i)) = j
    BY <1>1, <1>6, NearerExists
  <2>2. i \in all
    BY <1>1, <1>6, <2>1, ExtendedReaches
  <2>3. Nearer(all, i) = Nearer(Matching, i)
    BY <1>2, <2>2 DEF FirstOf, Nearer
  <2>4. IsIt(i)
    BY <2>1, <2>2, <2>3
  <2>5. ~ (j >= Limit) /\ ~ (j >= Cardinality(all))
    <3>1. Nearer(all, i) \subseteq all /\ Nearer(all, i) # all
      <4>1. i \in Nat /\ ~ (i < i)
        BY <1>1
      <4> QED BY <2>2, <4>1 DEF Nearer
    <3>2. Cardinality(Nearer(all, i)) < Cardinality(all)
      BY <1>3, <3>1, FS_Subset, FS_CardinalityType
    <3> QED BY <1>1, <1>3, <1>6, <2>4, <3>2, LimitAssumption
  <2>6. \A k : IsIt(k) => k = i
    <3>1. ASSUME NEW k, IsIt(k), k # i PROVE FALSE
      <4>1. k \in Nat /\ i \in Nat /\ (k < i \/ i < k)
        BY <1>3, <2>2, <3>1
      <4>2. Cardinality(Nearer(all, k)) = j /\ Cardinality(Nearer(all, i)) = j
        BY <2>4, <3>1
      <4>3. j < j
        BY <1>3, <2>2, <3>1, <4>1, <4>2, NearerDiffers
      <4> QED BY <1>1, <4>3
    <3> QED BY <3>1
  <2>7. (CHOOSE k \in all : Cardinality(Nearer(all, k)) = j) = i
    BY <2>4, <2>6
  <2>8. FilterLast(j) = LastOf(queue, i)
    BY <2>5, <2>7 DEF FilterLast
  <2> QED BY <1>6, <2>1, <2>8
<1> QED BY <1>4, <1>5, <1>6

\* Whatever the order in which it is asked, until its queue is updated again a filter
\* answers the j-th of the values the predicate is true of, and 0 beyond the last or
\* beyond its length (FilterResult of series/filter.go), for every queue and predicate.
THEOREM FilterAnswersRight == FilterSpec => []FilterExact
<1> DEFINE FInv == TypeOK /\ (~ stale => FirstOf(cache))
<1>1. FilterInit => FInv
  BY NewIsRing DEF FilterInit, Init, TypeOK, FirstOf
<1>2. FInv /\ [FilterNext]_filterVars => FInv'
  <2> SUFFICES ASSUME FInv, [FilterNext]_filterVars PROVE FInv'
    OBVIOUS
  <2>1. CASE Next /\ stale' = (cache # {}) /\ UNCHANGED cache
    <3>1. PICK v \in Values : queue' = Updated(queue, v)
      BY <2>1 DEF Next, Update
    <3>2. TypeOK'
      BY <3>1, UpdatedRing DEF TypeOK
    <3>3. ~ stale' => FirstOf(cache)'
      BY <2>1 DEF FirstOf
    <3> QED BY <3>2, <3>3
  <2>2. ASSUME NEW j \in 0 .. Limit, Ask(j) PROVE FInv'
    <3>1. j \in Nat
      OBVIOUS
    <3>2. queue' = queue /\ cache' = Extended(j) /\ stale' = stale
      BY <2>2 DEF Ask
    <3>3. Matching' = Matching
      BY <3>2 DEF Matching
    <3>4. ~ stale => FirstOf(Extended(j))
      BY <3>1, ExtendedIsFirst
    <3> QED BY <3>2, <3>3, <3>4 DEF FirstOf, TypeOK
  <2>3. CASE UNCHANGED filterVars
    BY <2>3 DEF filterVars, FirstOf, Matching, TypeOK
  <2> QED BY <2>1, <2>2, <2>3 DEF FilterNext
<1>3. FInv => FilterExact
  BY FirstAnswers DEF FilterExact
<1> QED BY <1>1, <1>2, <1>3, PTL DEF FilterSpec
=============================================================================
