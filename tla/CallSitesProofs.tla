-------------------------- MODULE CallSitesProofs ---------------------------
(***************************************************************************)
(* For every number of bars, all prices and occurrences, and whatever bars *)
(* the script asks about: barssince and valuewhen answer from their memo   *)
(* what a scan of the whole history would, a derived series is the history *)
(* of its expression until its memo is extended, and the state an          *)
(* indicator takes along says of a bar what its series say of it later.    *)
(***************************************************************************)
EXTENDS CallSites, SumTheorems

-----------------------------------------------------------------------------
(* The greatest number of a set, and how many are greater than one. *)

\* A nonempty set of integers that none exceeds has a greatest one.
LEMMA GreatestExists ==
  ASSUME NEW S, \A x \in S : x \in Int, S # {}, NEW top \in Int, \A x \in S : x <= top
  PROVE  /\ Max(S) \in S /\ \A x \in S : x <= Max(S)
         /\ \A m \in S : (\A x \in S : x <= m) => Max(S) = m
<1> DEFINE B == {top - x : x \in S}
<1>1. B \subseteq Nat /\ B # {}
  OBVIOUS
<1>2. PICK n \in B : \A m \in B : n <= m
  BY <1>1, LeastNatural
<1>3. PICK y \in S : n = top - y
  BY <1>2
<1>4. \A x \in S : y >= x
  <2> SUFFICES ASSUME NEW x \in S PROVE y >= x
    OBVIOUS
  <2>1. top - x \in B
    OBVIOUS
  <2>2. top - y <= top - x
    BY <1>2, <1>3, <2>1
  <2> QED BY <2>2
<1> HIDE DEF B
<1>5. Max(S) \in S /\ \A x \in S : Max(S) >= x
  BY <1>3, <1>4 DEF Max
<1>6. \A x \in S : x <= Max(S)
  BY <1>5
<1>7. ASSUME NEW m \in S, \A x \in S : x <= m PROVE Max(S) = m
  BY <1>5, <1>7
<1> QED BY <1>5, <1>6, <1>7

\* The elements of T that are greater than b, and those that are not smaller.
Above(T, b) == {c \in T : c > b}
From(T, b) == {c \in T : c >= b}

\* An element counts one more than those above it.
LEMMA FromIsOneMore ==
  ASSUME NEW T, \A c \in T : c \in Int, IsFiniteSet(T), NEW b \in T
  PROVE  /\ Cardinality(Above(T, b)) \in Nat /\ Cardinality(T) \in Nat
         /\ Cardinality(From(T, b)) = Cardinality(Above(T, b)) + 1
         /\ Cardinality(From(T, b)) <= Cardinality(T)
<1>1. Above(T, b) \subseteq T /\ From(T, b) \subseteq T
  BY DEF Above, From
<1>2. IsFiniteSet(Above(T, b)) /\ IsFiniteSet(From(T, b))
  BY <1>1, FS_Subset
<1>3. b \notin Above(T, b) /\ From(T, b) = Above(T, b) \cup {b}
  BY DEF Above, From
<1>4. Cardinality(Above(T, b) \cup {b}) = Cardinality(Above(T, b)) + 1
  BY <1>2, <1>3, FS_AddElement
<1>5. Cardinality(From(T, b)) <= Cardinality(T)
  BY <1>1, FS_Subset
<1>6. Cardinality(Above(T, b)) \in Nat /\ Cardinality(T) \in Nat
  BY <1>2, FS_CardinalityType
<1> QED BY <1>3, <1>4, <1>5, <1>6

\* Of every finite set there is an element with exactly n above it, if it has more than n.
LEMMA RankExists ==
  ASSUME NEW T, \A c \in T : c \in Int, IsFiniteSet(T), NEW top \in Int, \A x \in T : x <= top,
         NEW n \in Nat, n < Cardinality(T)
  PROVE  \E b \in T : Cardinality(Above(T, b)) = n
<1> DEFINE Bad == {k \in Nat : k < Cardinality(T) /\ \A b \in T : Cardinality(Above(T, b)) # k}
<1> SUFFICES ASSUME Bad # {} PROVE FALSE
  OBVIOUS
<1>1. PICK k \in Bad : \A j \in Bad : k <= j
  <2>1. Bad \subseteq Nat
    OBVIOUS
  <2> HIDE DEF Bad
  <2> QED BY <2>1, LeastNatural
<1>2. Cardinality(T) \in Nat
  BY FS_CardinalityType
<1>3. k # 0
  <2> SUFFICES ASSUME k = 0 PROVE FALSE
    OBVIOUS
  <2>1. T # {}
    BY <1>1, <1>2, FS_EmptySet
  <2>2. Max(T) \in T /\ \A x \in T : x <= Max(T)
    BY <2>1, GreatestExists
  <2>3. Above(T, Max(T)) = {}
    <3>1. \A x \in T : ~ (x > Max(T))
      BY <2>2
    <3> QED BY <3>1 DEF Above
  <2>4. Cardinality(Above(T, Max(T))) = 0
    BY <2>3, FS_EmptySet
  <2> QED BY <1>1, <2>2, <2>4
<1>4. PICK b \in T : Cardinality(Above(T, b)) = k - 1
  <2>1. k - 1 \in Nat /\ k - 1 < Cardinality(T) /\ k - 1 \notin Bad
    BY <1>1, <1>2, <1>3
  <2> QED BY <2>1
<1> DEFINE U == {c \in T : c < b}
<1>5. U # {}
  <2> SUFFICES ASSUME U = {} PROVE FALSE
    OBVIOUS
  <2>1. T = From(T, b)
    BY DEF From
  <2>2. Cardinality(From(T, b)) = Cardinality(Above(T, b)) + 1
    BY FromIsOneMore
  <2>3. k - 1 \in Int /\ Cardinality(T) = (k - 1) + 1
    BY <1>1, <1>4, <2>1, <2>2
  <2> QED BY <1>1, <1>2, <2>3
<1>6. Max(U) \in U /\ \A x \in U : x <= Max(U)
  <2>1. (\A x \in U : x \in Int) /\ \A x \in U : x <= b
    OBVIOUS
  <2> HIDE DEF U
  <2> QED BY <1>5, <2>1, GreatestExists
<1>7. Above(T, Max(U)) = From(T, b)
  <2>1. Max(U) \in T /\ Max(U) < b /\ \A c \in T : c < b => c <= Max(U)
    BY <1>6
  <2>2. PICK m : m = Max(U)
    OBVIOUS
  <2> HIDE DEF U
  <2>3. \A c \in T : c > m <=> c >= b
    BY <2>1, <2>2
  <2> QED BY <2>2, <2>3 DEF Above, From
<1>8. Cardinality(Above(T, Max(U))) = (k - 1) + 1 /\ Max(U) \in T
  BY <1>4, <1>6, <1>7, FromIsOneMore
<1>9. PICK m \in T : Cardinality(Above(T, m)) = (k - 1) + 1
  BY <1>8
<1>10. k \in Nat /\ \A c \in T : Cardinality(Above(T, c)) # k
  BY <1>1
<1> QED BY <1>9, <1>10

-----------------------------------------------------------------------------
(* The memo. *)

\* The bars up to e at which the condition holds.
HeldUpTo(e) == {b \in 0 .. e : Holds(b)}

\* A scan finds the last of them.
LEMMA ScanFindsLast ==
  ASSUME NEW e \in Int
  PROVE  /\ Scanned(e) \in HeldUpTo(e) \cup {-1}
         /\ \A b \in HeldUpTo(e) : b <= Scanned(e)
         /\ Scanned(e) = -1 <=> HeldUpTo(e) = {}
         /\ HeldUpTo(e) # {} => Max(HeldUpTo(e)) = Scanned(e)
         /\ IsFiniteSet(HeldUpTo(e)) /\ HeldUpTo(e) \subseteq Nat
<1> DEFINE S == HeldUpTo(e) \cup {-1}
           top == IF e >= 0 THEN e ELSE 0
<1>1. HeldUpTo(e) \subseteq 0 .. e /\ HeldUpTo(e) \subseteq Nat
  BY DEF HeldUpTo
<1>2. (\A x \in S : x \in Int) /\ S # {} /\ top \in Int /\ \A x \in S : x <= top
  BY <1>1
<1>3. Scanned(e) = Max(S)
  BY DEF Scanned, HeldUpTo
<1>4. Max(S) \in S /\ \A x \in S : x <= Max(S)
  <2> HIDE DEF S, top
  <2> QED BY <1>2, GreatestExists
<1>5. Scanned(e) = -1 <=> HeldUpTo(e) = {}
  BY <1>1, <1>3, <1>4
<1>6. ASSUME HeldUpTo(e) # {} PROVE Max(HeldUpTo(e)) = Scanned(e)
  <2>1. Scanned(e) \in HeldUpTo(e) /\ \A x \in HeldUpTo(e) : x <= Scanned(e)
    BY <1>3, <1>4, <1>5, <1>6
  <2>2. (\A x \in HeldUpTo(e) : x \in Int) /\ Scanned(e) \in Int
    BY <1>1, <2>1
  <2> QED BY <1>6, <2>1, <2>2, GreatestExists
<1>7. IsFiniteSet(HeldUpTo(e))
  <2>1. IsFiniteSet(0 .. e)
    BY FS_Interval
  <2> QED BY <1>1, <2>1, FS_Subset
<1> QED BY <1>1, <1>3, <1>4, <1>5, <1>6, <1>7

\* What the memo has to hold: the last look, and what a scan would have found there.
Memoed ==
  \/ memo = NoMemo
  \/ /\ memo.lastCheckBar \in Nat /\ memo.lastTrueBar = Scanned(memo.lastCheckBar)
     /\ memo.found <=> memo.lastTrueBar # -1

\* As long as no bar before the last one looked at is asked about, the memo and the
\* shortcut of one bar it allows find what a scan finds.
LEMMA RecallsTheScan ==
  ASSUME Memoed, NEW e \in Nat, memo.lastCheckBar <= e
  PROVE  Recalled(e) = Scanned(e)
<1>1. /\ Scanned(e) \in HeldUpTo(e) \cup {-1}
      /\ \A b \in HeldUpTo(e) : b <= Scanned(e)
      /\ Scanned(e) = -1 <=> HeldUpTo(e) = {}
  BY ScanFindsLast
<1>2. CASE Holds(e)
  <2>1. e \in HeldUpTo(e) /\ Recalled(e) = e
    BY <1>2 DEF HeldUpTo, Recalled
  <2>2. Scanned(e) \in Int /\ Scanned(e) <= e /\ e <= Scanned(e)
    BY <1>1, <2>1 DEF HeldUpTo
  <2> QED BY <2>1, <2>2
<1>3. CASE ~ Holds(e) /\ memo = NoMemo
  <2>1. memo.lastCheckBar = -2 /\ memo.found = FALSE
    BY <1>3 DEF NoMemo, NoCheck
  <2>2. ~ (memo.lastCheckBar >= e - 1)
    BY <2>1
  <2> QED BY <1>3, <2>1, <2>2 DEF Recalled
<1>4. CASE ~ Holds(e) /\ memo # NoMemo
  <2>0. PICK at, hit : at = memo.lastCheckBar /\ hit = memo.lastTrueBar
    OBVIOUS
  <2>1. at \in Nat /\ hit = Scanned(at) /\ (memo.found <=> hit # -1) /\ at <= e
    BY <1>4, <2>0 DEF Memoed
  <2>2. /\ hit \in HeldUpTo(at) \cup {-1} /\ \A b \in HeldUpTo(at) : b <= hit
        /\ hit = -1 <=> HeldUpTo(at) = {}
    BY <2>1, ScanFindsLast
  <2>3. HeldUpTo(at) \subseteq HeldUpTo(e)
    BY <2>1 DEF HeldUpTo
  <2>4. hit \in Int /\ hit <= e
    BY <2>1, <2>2 DEF HeldUpTo
  <2>5. CASE at >= e - 1
    <3>1. HeldUpTo(at) = HeldUpTo(e)
      BY <1>4, <2>1, <2>5 DEF HeldUpTo
    <3>2. hit = Scanned(e)
      <4>1. Scanned(e) \in Int
        BY <1>1 DEF HeldUpTo
      <4>2. CASE HeldUpTo(e) = {}
        BY <1>1, <2>2, <3>1, <4>2
      <4>3. CASE HeldUpTo(e) # {}
        <5>1. hit \in HeldUpTo(e) /\ Scanned(e) \in HeldUpTo(e)
          BY <1>1, <2>2, <3>1, <4>3
        <5>2. hit <= Scanned(e) /\ Scanned(e) <= hit
          BY <1>1, <2>2, <3>1, <5>1
        <5> QED BY <2>4, <4>1, <5>2
      <4> QED BY <4>2, <4>3
    <3>3. Recalled(e) = IF memo.found /\ hit <= e THEN hit ELSE -1
      BY <1>4, <2>0, <2>5 DEF Recalled
    <3> QED BY <2>1, <2>4, <3>2, <3>3
  <2>6. CASE ~ (at >= e - 1)
    <3>1. Recalled(e) = IF Scanned(e) # -1 THEN Scanned(e) ELSE IF memo.found THEN hit ELSE -1
      BY <1>4, <2>0, <2>6 DEF Recalled
    <3>2. Scanned(e) = -1 => hit = -1
      BY <1>1, <2>2, <2>3
    <3> QED BY <2>1, <3>1, <3>2
  <2> QED BY <2>5, <2>6
<1> QED BY <1>2, <1>3, <1>4

\* What valuewhen answers, given the last bar of a scan: the bar with n after it.
LEMMA OccurrenceIsRanked ==
  ASSUME NEW e \in Nat, NEW n \in Nat, NEW v, v = Occurrence(Scanned(e), n)
  PROVE  IF Cardinality(HeldUpTo(e)) <= n THEN v = NaN
         ELSE Cardinality({b \in HeldUpTo(e) : b >= v}) = n + 1 /\ v \in HeldUpTo(e)
<1> DEFINE T == HeldUpTo(e)
           last == Scanned(e)
           before == {b \in 0 .. last : Holds(b) /\ Cardinality({c \in b + 1 .. last : Holds(c)}) = n}
<1>1. /\ last \in T \cup {-1} /\ \A b \in T : b <= last
      /\ last = -1 <=> T = {}
      /\ IsFiniteSet(T) /\ T \subseteq Nat
  BY ScanFindsLast
<1>2. v = IF last = -1 \/ before = {} THEN NaN ELSE CHOOSE b \in before : TRUE
  BY DEF Occurrence
<1>3. last <= e /\ last \in Int
  BY <1>1 DEF HeldUpTo
<1>4. before = {b \in T : Cardinality(Above(T, b)) = n}
  <2>1. {b \in 0 .. last : Holds(b)} = T
    BY <1>1, <1>3 DEF HeldUpTo
  <2>2. \A b \in T : {c \in b + 1 .. last : Holds(c)} = Above(T, b)
    <3> SUFFICES ASSUME NEW b \in T PROVE {c \in b + 1 .. last : Holds(c)} = Above(T, b)
      OBVIOUS
    <3>1. b \in Nat
      BY <1>1
    <3>2. \A c : c \in b + 1 .. last /\ Holds(c) <=> c \in T /\ c > b
      BY <1>1, <1>3, <3>1 DEF HeldUpTo
    <3> QED BY <3>2 DEF Above
  <2> HIDE DEF T, last
  <2>3. \A b : b \in 0 .. last /\ Holds(b) <=> b \in T
    BY <2>1
  <2> QED BY <2>2, <2>3
<1> HIDE DEF before, last, T
<1>5. (\A c \in T : c \in Int) /\ e \in Int /\ \A x \in T : x <= e
  BY <1>1, <1>3
<1>6. Cardinality(T) \in Nat
  BY <1>1, FS_CardinalityType
<1>7. CASE Cardinality(T) <= n
  <2>1. \A b \in T : Cardinality(Above(T, b)) # n
    <3> SUFFICES ASSUME NEW b \in T PROVE Cardinality(Above(T, b)) # n
      OBVIOUS
    <3>1. /\ Cardinality(Above(T, b)) \in Nat
          /\ Cardinality(From(T, b)) = Cardinality(Above(T, b)) + 1
          /\ Cardinality(From(T, b)) <= Cardinality(T)
      BY <1>1, <1>5, FromIsOneMore
    <3> QED BY <1>6, <1>7, <3>1
  <2>2. before = {}
    BY <1>4, <2>1
  <2> QED BY <1>2, <1>7, <2>2 DEF T
<1>8. CASE ~ (Cardinality(T) <= n)
  <2>1. n < Cardinality(T)
    BY <1>6, <1>8
  <2>2. PICK b \in T : Cardinality(Above(T, b)) = n
    BY <1>1, <1>5, <2>1, RankExists
  <2>3. before # {} /\ last # -1
    BY <1>1, <1>4, <2>2
  <2>4. v \in before
    BY <1>2, <2>3
  <2>5. v \in T /\ Cardinality(Above(T, v)) = n
    BY <1>4, <2>4
  <2>6. Cardinality(From(T, v)) = n + 1
    BY <1>1, <1>5, <2>5, FromIsOneMore
  <2> QED BY <1>8, <2>5, <2>6 DEF From, T
<1> QED BY <1>7, <1>8

-----------------------------------------------------------------------------
(* The steps. *)

\* Before any bar is asked about again, the memo is that of a scan and the last answer
\* is right.
Since ==
  /\ barIndex \in Nat
  /\ site \in Conditional /\ forward => Memoed
  /\ site \in Conditional => SinceForward

\* The answer about a bar no earlier one of which was asked about later.
LEMMA AnswersAreScans ==
  ASSUME Since, NEW offset \in 0 .. barIndex, NEW n \in Occurrences, AskSince(offset, n)
  PROVE  Since'
<1> DEFINE eff == Effective(offset)
           last == Recalled(eff)
<1>1. eff \in Nat
  BY DEF Since, Effective
<1>2. /\ site \in Conditional /\ UNCHANGED <<barIndex, site, data>>
      /\ memo' = [lastTrueBar |-> last, lastCheckBar |-> eff, found |-> last # -1]
      /\ answer' = [value |-> IF site = "valuewhen" THEN Occurrence(last, n)
                              ELSE IF last = -1 THEN NaN ELSE eff - last,
                    eff |-> eff, back |-> offset > 0, occurrence |-> n]
      /\ forward' = (forward /\ memo.lastCheckBar <= eff)
  BY <1>1 DEF AskSince, vars
<1>3. CASE ~ forward'
  BY <1>2, <1>3 DEF Since, SinceForward
<1>4. CASE forward'
  <2>1. forward /\ memo.lastCheckBar <= eff /\ Memoed
    BY <1>2, <1>4 DEF Since
  <2>2. last = Scanned(eff)
    BY <1>1, <2>1, RecallsTheScan
  <2> HIDE DEF eff, last
  <2>3. \A e : Scanned(e)' = Scanned(e) /\ HeldUpTo(e)' = HeldUpTo(e)
    BY <1>2 DEF Scanned, HeldUpTo, Holds
  <2>4. Memoed'
    <3>1. memo'.lastCheckBar = eff /\ memo'.lastTrueBar = last /\ memo'.found = (last # -1)
      BY <1>2
    <3> QED BY <1>1, <2>2, <2>3, <3>1 DEF Memoed
  <2>5. /\ answer'.eff = eff /\ answer'.occurrence = n
        /\ answer'.value = IF site = "valuewhen" THEN Occurrence(last, n)
                           ELSE IF last = -1 THEN NaN ELSE eff - last
    BY <1>2
  <2>6. TrueBars' = HeldUpTo(eff)
    BY <1>2, <2>5 DEF TrueBars, HeldUpTo, Holds
  <2>7. CASE site = "barssince"
    <3>1. /\ last = -1 <=> HeldUpTo(eff) = {}
          /\ HeldUpTo(eff) # {} => Max(HeldUpTo(eff)) = last
      BY <1>1, <2>2, ScanFindsLast
    <3>2. Right'
      BY <1>2, <2>5, <2>6, <2>7, <3>1 DEF Right
    <3> QED BY <1>2, <2>4, <3>2 DEF Since, SinceForward
  <2>8. CASE site = "valuewhen"
    <3>1. n \in Nat
      BY OccurrencesAssumption
    <3>2. PICK v : v = Occurrence(Scanned(eff), n)
      OBVIOUS
    <3>3. IF Cardinality(HeldUpTo(eff)) <= n THEN v = NaN
          ELSE Cardinality({b \in HeldUpTo(eff) : b >= v}) = n + 1 /\ v \in HeldUpTo(eff)
      BY <1>1, <3>1, <3>2, OccurrenceIsRanked
    <3>4. answer'.value = v /\ site' # "barssince"
      BY <1>2, <2>2, <2>5, <2>8, <3>2
    <3>5. Right'
      BY <2>5, <2>6, <3>3, <3>4 DEF Right
    <3> QED BY <1>2, <2>4, <3>5 DEF Since, SinceForward
  <2> QED BY <1>2, <2>7, <2>8 DEF Conditional
<1> QED BY <1>3, <1>4

\* Before the first bar there is nothing to answer.
LEMMA NothingBeforeTheFirstBar ==
  ASSUME Since, NEW offset \in Int, NEW n, Effective(offset) < 0, AskSince(offset, n)
  PROVE  Since'
<1>1. /\ answer'.eff = Effective(offset) /\ UNCHANGED <<barIndex, site, data, memo, forward>>
  BY DEF AskSince, vars
<1>2. ~ (answer'.eff >= 0)
  <2>1. Effective(offset) \in Int
    BY DEF Effective, Since
  <2> QED BY <1>1, <2>1
<1>3. Memoed => Memoed'
  BY <1>1 DEF Memoed, Scanned, Holds
<1> QED BY <1>1, <1>2, <1>3 DEF Since, SinceForward

\* The other steps answer nothing of the two, or nothing at all.
LEMMA OthersKeepSince ==
  ASSUME Since, UNCHANGED <<site, data, memo, forward>>, barIndex' \in Nat,
         UNCHANGED answer \/ site \notin Conditional
  PROVE  Since'
<1>1. Memoed => Memoed'
  BY DEF Memoed, Scanned, Holds
<1>2. SinceForward /\ UNCHANGED answer => SinceForward'
  BY DEF SinceForward, Right, TrueBars, Holds
<1> QED BY <1>1, <1>2 DEF Since, SinceForward

\* Every step preserves the invariant.
LEMMA StepsKeepSince == ASSUME Since, [SitesNext]_allVars PROVE Since'
<1>0. barIndex \in Nat
  BY DEF Since
<1>1. CASE UNCHANGED allVars
  BY <1>0, <1>1, OthersKeepSince DEF allVars, vars, siteVars, remembered, asked
<1>2. CASE NextBar /\ UNCHANGED siteVars
  <2>1. barIndex' \in Nat
    BY <1>0, <1>2 DEF NextBar
  <2> QED BY <1>2, <2>1, OthersKeepSince DEF siteVars, remembered, asked
<1>3. ASSUME NEW offset, Derive(offset), UNCHANGED siteVars PROVE Since'
  <2>1. barIndex' \in Nat
    BY <1>0, <1>3 DEF Derive
  <2> QED BY <1>3, <2>1, OthersKeepSince DEF siteVars, remembered, asked
<1>4. ASSUME NEW offset, AskBack(offset) PROVE Since'
  <2>1. barIndex' \in Nat /\ site \notin Conditional
    BY <1>0, <1>4 DEF AskBack, vars, Streams, Conditional
  <2> QED BY <1>4, <2>1, OthersKeepSince DEF AskBack, remembered
<1>5. CASE AskNow
  <2>1. barIndex' \in Nat /\ site \notin Conditional
    BY <1>0, <1>5 DEF AskNow, vars, Streams, Conditional
  <2> QED BY <1>5, <2>1, OthersKeepSince DEF AskNow
<1>6. ASSUME NEW offset \in 0 .. barIndex + 1, NEW n \in Occurrences, AskSince(offset, n) PROVE Since'
  <2>1. CASE offset \in 0 .. barIndex
    BY <1>6, <2>1, AnswersAreScans
  <2>2. CASE offset \notin 0 .. barIndex
    <3>1. Effective(offset) < 0
      BY <1>0, <1>6, <2>2 DEF Effective
    <3> QED BY <1>6, <3>1, NothingBeforeTheFirstBar
  <2> QED BY <2>1, <2>2
<1> QED BY <1>1, <1>2, <1>3, <1>4, <1>5, <1>6 DEF SitesNext

-----------------------------------------------------------------------------
\* As long as no bar behind the last one looked at is asked about, barssince counts the
\* bars since the condition held and valuewhen finds the bars it held at, for every
\* number of bars and occurrences, on whatever bars they are evaluated (barssinceMemo of
\* builtins.go).
THEOREM SinceIsAScan == SitesSpec => []SinceForward
<1>1. SitesInit => Since
  <2>1. SitesInit => barIndex \in Nat /\ memo = NoMemo /\ answer.eff = -1
    BY DEF SitesInit, Init
  <2> QED BY <2>1 DEF Since, Memoed, SinceForward
<1>2. Since => SinceForward
  BY DEF Since, SinceForward
<1> QED BY <1>1, <1>2, StepsKeepSince, PTL DEF SitesSpec

-----------------------------------------------------------------------------
(* The memo of a derived series. *)

\* The bit smearing of getRealSize leaves room for the size asked for.
LEMMA RoomForAll ==
  ASSUME NEW n \in IntSizes
  PROVE  n \in Nat /\ RealSize(n) \in Nat /\ n <= RealSize(n) + 1
<1> DEFINE Fits == {k \in 0 .. 62 : n <= 2^k}
           IsBits(k) == n <= 2^k /\ \A j \in 0 .. k - 1 : 2^j < n
           bits == CHOOSE k \in 0 .. 62 : IsBits(k)
<1>0. n \in Nat
  BY DEF IntSizes
<1>1. CASE n <= 1
  BY <1>0, <1>1 DEF RealSize
<1>2. CASE ~ (n <= 1)
  <2>0. PICK some \in 0 .. 62 : n <= 2^some
    BY DEF IntSizes
  <2>1. Fits \subseteq Nat /\ Fits # {}
    <3>1. some \in Fits
      BY <2>0
    <3>2. \A k \in Fits : k \in 0 .. 62
      OBVIOUS
    <3> HIDE DEF Fits
    <3> QED BY <3>1, <3>2
  <2>2. PICK k \in Fits : \A m \in Fits : k <= m
    <3> HIDE DEF Fits
    <3> QED BY <2>1, LeastNatural
  <2>3. \A j \in 0 .. k - 1 : j \in 0 .. 62 /\ j \notin Fits
    BY <2>2
  <2>4. IsBits(k)
    BY <1>0, <2>1, <2>2, <2>3
  <2>5. bits \in 0 .. 62 /\ IsBits(bits)
    <3> HIDE DEF IsBits
    <3> QED BY <2>2, <2>4
  <2>6. 2^bits \in Int /\ n <= 2^bits
    <3> HIDE DEF bits
    <3> QED BY <2>5
  <2>7. RealSize(n) = 2^bits - 1
    BY <1>2 DEF RealSize
  <2> HIDE DEF bits
  <2> QED BY <1>0, <1>2, <2>6, <2>7
<1> QED BY <1>1, <1>2

\* The function that the fold of Fed recurs on.
Feed(q, vals, h, s) == IF s = {} THEN q ELSE LET x == Max(s) IN Updated(h[s \ {x}], vals[x])
Feeds(q, vals, h) == h = [s \in SUBSET DOMAIN vals |-> Feed(q, vals, h, s)]
Feeding(q, vals) == CHOOSE h : Feeds(q, vals, h)

\* Fed (the updates of the loops in seriesFromExprSlow) is what that recursion gives.
LEMMA FedIsFeeding ==
  ASSUME NEW q, NEW vals
  PROVE  Fed(q, vals) = Feeding(q, vals)[DOMAIN vals]
BY DEF Fed, FoldLeft, MapThenFoldSet, Feeding, Feeds, Feed

\* The greatest of some of the first numbers.
LEMMA MaxOfSome ==
  ASSUME NEW n \in Nat, NEW s \in SUBSET (1 .. n), s # {}
  PROVE  Max(s) \in s /\ \A m \in s : m <= Max(s)
<1>1. PICK top \in s : \A m \in s : m <= top
  <2>1. n \in Int /\ (\A x \in s : x \in Int) /\ (\A x \in s : x <= n)
    OBVIOUS
  <2> QED BY <2>1, GreatestExists
<1> QED BY <1>1 DEF Max

\* The recursion has a solution: one for the subsets of the first n numbers extends to
\* one for those of the first n + 1.
LEMMA FeedingFeeds ==
  ASSUME NEW q, NEW vals, NEW last \in Nat, DOMAIN vals = 1 .. last
  PROVE  Feeds(q, vals, Feeding(q, vals))
<1> DEFINE Solves(h, n) == h = [s \in SUBSET (1 .. n) |-> Feed(q, vals, h, s)]
           Bad == {n \in 0 .. last : \A h : ~ Solves(h, n)}
<1>1. 0 \notin Bad
  <2> DEFINE h == [s \in SUBSET (1 .. 0) |-> q]
  <2>1. \A s \in SUBSET (1 .. 0) : s = {}
    OBVIOUS
  <2>2. Solves(h, 0)
    BY <2>1 DEF Feed
  <2> QED BY <2>2
<1>2. ASSUME NEW n \in 0 .. last, n + 1 \in 0 .. last, n \notin Bad PROVE n + 1 \notin Bad
  <2>1. PICK h : Solves(h, n)
    BY <1>2
  <2> DEFINE k == [s \in SUBSET (1 .. n + 1) |-> IF s \in SUBSET (1 .. n) THEN h[s] ELSE Feed(q, vals, h, s)]
  <2>2. ASSUME NEW s \in SUBSET (1 .. n + 1) PROVE k[s] = Feed(q, vals, k, s)
    <3>0. k[s] = Feed(q, vals, h, s)
      BY <2>1
    <3>1. CASE s = {}
      BY <3>0, <3>1 DEF Feed
    <3>2. CASE s # {}
      <4>1. PICK top \in s : top = Max(s) /\ \A m \in s : m <= top
        <5>1. n + 1 \in Nat
          OBVIOUS
        <5> QED BY <3>2, <5>1, MaxOfSome
      <4>2. s \ {top} \in SUBSET (1 .. n) /\ s \ {top} \in SUBSET (1 .. n + 1)
        <5>1. \A m \in s \ {top} : m \in 1 .. n + 1 /\ m <= top /\ m # top /\ top \in 1 .. n + 1
          BY <4>1
        <5>2. \A m \in s \ {top} : m \in 1 .. n
          BY <5>1
        <5> QED BY <5>1, <5>2
      <4>3. k[s \ {top}] = h[s \ {top}]
        BY <4>2
      <4> QED BY <3>0, <4>1, <4>3 DEF Feed
    <3> QED BY <3>1, <3>2
  <2>3. k = [s \in SUBSET (1 .. n + 1) |-> k[s]]
    OBVIOUS
  <2> HIDE DEF k
  <2>4. Solves(k, n + 1)
    BY <2>2, <2>3
  <2> QED BY <2>4
<1>3. last \notin Bad
  <2> HIDE DEF Bad
  <2> SUFFICES ASSUME last \in Bad PROVE FALSE
    OBVIOUS
  <2>1. Bad \subseteq 0 .. last
    BY DEF Bad
  <2>2. PICK n \in Bad : \A m \in Bad : n <= m
    <3>1. Bad \subseteq Nat /\ Bad # {}
      BY <2>1
    <3> QED BY <3>1, LeastNatural
  <2>3. n # 0 /\ n - 1 \in 0 .. last /\ n - 1 \notin Bad
    BY <1>1, <2>1, <2>2
  <2>4. (n - 1) + 1 = n
    BY <2>1
  <2> QED BY <1>2, <2>1, <2>2, <2>3, <2>4
<1>4. \E h : Feeds(q, vals, h)
  <2> HIDE DEF Solves
  <2>1. PICK h : Solves(h, last)
    BY <1>3
  <2> USE DEF Solves
  <2> QED BY <2>1 DEF Feeds
<1> QED BY <1>4 DEF Feeding

\* A queue of size n after the first k of n values: nothing has been evicted.
Ring(n, vals, k) ==
  [arr |-> [j \in 1 .. k |-> vals[j]], size |-> n, start |-> 0, last |-> k - 1, realSize |-> RealSize(n)]

\* An update within the size appends.
LEMMA UpdateAppends ==
  ASSUME NEW n \in IntSizes, NEW vals, NEW k \in Nat, k < n
  PROVE  Updated(Ring(n, vals, k), vals[k + 1]) = Ring(n, vals, k + 1)
<1> DEFINE arr == [j \in 1 .. k |-> vals[j]]
<1>1. n \in Nat /\ RealSize(n) \in Nat /\ k <= RealSize(n)
  BY RoomForAll
<1>2. arr \in Seq({vals[j] : j \in 1 .. k + 1}) /\ Len(arr) = k
  OBVIOUS
<1>3. Append(arr, vals[k + 1]) = [j \in 1 .. k + 1 |-> vals[j]]
  BY <1>2
<1>4. Updated(Ring(n, vals, k), vals[k + 1]) =
        [Ring(n, vals, k) EXCEPT !.arr = Append(@, vals[k + 1]), !.last = @ + 1]
  BY <1>1, <1>2 DEF Updated, Ring
<1>5. (k - 1) + 1 = (k + 1) - 1
  OBVIOUS
<1> HIDE DEF arr
<1> QED BY <1>3, <1>4, <1>5 DEF Ring, arr

\* A queue given as many values as its size has them all, the last one first.
LEMMA FedHasAll ==
  ASSUME NEW n \in IntSizes, NEW vals, vals = [k \in 1 .. n |-> vals[k]]
  PROVE  LET q == Fed(NewQueue(n), vals)
         IN  LengthOf(q) = n /\ \A i \in 0 .. n - 1 : LastOf(q, i) = vals[n - i]
<1> DEFINE new == NewQueue(n)
           fed == Feeding(new, vals)
           Bad == {k \in 0 .. n : fed[1 .. k] # Ring(n, vals, k)}
<1>0. n \in Nat /\ RealSize(n) \in Nat /\ n <= RealSize(n) + 1
  BY RoomForAll
<1>1. DOMAIN vals = 1 .. n
  OBVIOUS
<1>2. \A s \in SUBSET (1 .. n) : fed[s] = Feed(new, vals, fed, s)
  <2>1. Feeds(new, vals, fed)
    BY <1>0, <1>1, FeedingFeeds
  <2> HIDE DEF fed, new
  <2>2. fed = [s \in SUBSET (1 .. n) |-> Feed(new, vals, fed, s)]
    BY <1>1, <2>1 DEF Feeds
  <2> QED BY <2>2
<1>3. 0 \notin Bad
  <2>1. 1 .. 0 = {}
    OBVIOUS
  <2>2. fed[1 .. 0] = new
    BY <1>2, <2>1 DEF Feed
  <2>3. <<>> = [j \in 1 .. 0 |-> vals[j]]
    OBVIOUS
  <2>4. new = Ring(n, vals, 0)
    BY <2>3 DEF NewQueue, Ring
  <2> QED BY <2>2, <2>4
<1>4. ASSUME NEW k \in Nat, k < n, fed[1 .. k] = Ring(n, vals, k)
      PROVE  fed[1 .. k + 1] = Ring(n, vals, k + 1)
  <2>1. 1 .. k + 1 \in SUBSET (1 .. n) /\ 1 .. k + 1 # {} /\ (1 .. k + 1) \ {k + 1} = 1 .. k
    <3>1. k + 1 <= n /\ k + 1 \in 1 .. k + 1
      BY <1>0, <1>4
    <3>2. \A j \in 1 .. k + 1 : j \in 1 .. n
      BY <1>0, <1>4, <3>1
    <3>3. (1 .. k + 1) \ {k + 1} = 1 .. k
      OBVIOUS
    <3> QED BY <3>1, <3>2, <3>3
  <2>2. Max(1 .. k + 1) = k + 1
    <3>1. Max(1 .. k + 1) \in 1 .. k + 1 /\ \A m \in 1 .. k + 1 : m <= Max(1 .. k + 1)
      BY <1>0, <2>1, MaxOfSome
    <3> QED BY <3>1
  <2>3. fed[1 .. k + 1] = Updated(fed[1 .. k], vals[k + 1])
    BY <1>2, <2>1, <2>2 DEF Feed
  <2> QED BY <1>4, <2>3, UpdateAppends
<1>5. Fed(new, vals) = Ring(n, vals, n)
  <2> HIDE DEF new, fed
  <2>1. n \notin Bad
    <3> SUFFICES ASSUME n \in Bad PROVE FALSE
      OBVIOUS
    <3>1. Bad \subseteq Nat /\ Bad # {}
      OBVIOUS
    <3>2. PICK k \in Bad : \A m \in Bad : k <= m
      <4> HIDE DEF Bad
      <4> QED BY <3>1, LeastNatural
    <3>3. k # 0
      BY <1>3, <3>2
    <3>4. k - 1 \in Nat /\ k - 1 < n /\ fed[1 .. k - 1] = Ring(n, vals, k - 1)
      BY <1>0, <3>2, <3>3
    <3>5. (k - 1) + 1 = k
      BY <3>2
    <3> QED BY <1>4, <3>2, <3>4, <3>5
  <2> QED BY <1>0, <1>1, <2>1, FedIsFeeding DEF fed
<1> DEFINE full == Ring(n, vals, n)
<1>6. /\ full.arr = vals /\ full.size = n /\ full.last = n - 1 /\ full.realSize = RealSize(n)
      /\ Len(full.arr) = n
  <2>1. full.arr = vals /\ full.size = n /\ full.last = n - 1 /\ full.realSize = RealSize(n)
    BY DEF Ring
  <2>2. Len([k \in 1 .. n |-> vals[k]]) = n
    BY <1>0
  <2> QED BY <2>1, <2>2
<1> HIDE DEF full, new
<1>7. LengthOf(full) = n
  BY <1>0, <1>6 DEF LengthOf
<1>8. ASSUME NEW i \in 0 .. n - 1 PROVE LastOf(full, i) = vals[n - i]
  <2>1. ~ (i < 0 \/ n - i - 1 < 0)
    BY <1>0
  <2>2. ((n - 1 - i) % (RealSize(n) + 1)) + 1 = n - i
    <3>1. n - 1 - i \in 0 .. RealSize(n)
      BY <1>0
    <3>2. ASSUME NEW m \in Nat, NEW x \in 0 .. m PROVE x % (m + 1) = x
      OBVIOUS
    <3>3. (n - 1 - i) % (RealSize(n) + 1) = n - 1 - i
      BY <1>0, <3>1, <3>2
    <3> QED BY <1>0, <3>3
  <2> QED BY <1>6, <2>1, <2>2 DEF LastOf, Slot
<1> QED BY <1>5, <1>7, <1>8 DEF full, new

\* A queue with the history up to bar e, the newest value first.
Tells(q, e) == LengthOf(q) = e + 1 /\ \A i \in 0 .. e : LastOf(q, i) = ValueAt(e - i)

\* What is made of the values up to bar e, oldest first, tells them.
LEMMA FedTells ==
  ASSUME NEW e \in -1 .. LastBar, NEW vals, vals = [k \in 1 .. e + 1 |-> vals[k]],
         \A k \in 1 .. e + 1 : vals[k] = ValueAt(k - 1)
  PROVE  Tells(Fed(NewQueue(e + 1), vals), e)
<1>1. e + 1 \in IntSizes
  BY LastBarAssumption
<1>2. PICK q : q = Fed(NewQueue(e + 1), vals)
  OBVIOUS
<1>3. LengthOf(q) = e + 1 /\ \A i \in 0 .. e : LastOf(q, i) = vals[e + 1 - i]
  <2>1. LengthOf(q) = e + 1 /\ \A i \in 0 .. (e + 1) - 1 : LastOf(q, i) = vals[(e + 1) - i]
    BY <1>1, <1>2, FedHasAll
  <2>2. \A i \in 0 .. e : i \in 0 .. (e + 1) - 1 /\ (e + 1) - i = e + 1 - i
    OBVIOUS
  <2> QED BY <2>1, <2>2
<1>4. \A i \in 0 .. e : vals[e + 1 - i] = ValueAt(e - i)
  <2>1. \A i \in 0 .. e : e + 1 - i \in 1 .. e + 1 /\ (e + 1 - i) - 1 = e - i
    OBVIOUS
  <2> QED BY <2>1
<1> QED BY <1>2, <1>3, <1>4 DEF Tells

\* seriesAtEvalSeries keeps a series that ends at the effective bar as it is.
LEMMA AtEvalPointTells ==
  ASSUME NEW e \in -1 .. LastBar, NEW ser, Tells(ser, e)
  PROVE  Tells(AtEvalPoint(ser, e), e)
<1> DEFINE vals == [k \in 1 .. e + 1 |-> LastOf(ser, e + 1 - k + (e + 1 - (e + 1)))]
<1>1. AtEvalPoint(ser, e) = Fed(NewQueue(e + 1), vals)
  BY DEF AtEvalPoint, Tells
<1>2. ASSUME NEW k \in 1 .. e + 1 PROVE vals[k] = ValueAt(k - 1)
  <2>1. e + 1 - k + (e + 1 - (e + 1)) = e + 1 - k /\ e + 1 - k \in 0 .. e /\ e - (e + 1 - k) = k - 1
    OBVIOUS
  <2> QED BY <2>1 DEF Tells
<1> HIDE DEF vals
<1>3. vals = [k \in 1 .. e + 1 |-> vals[k]]
  BY DEF vals
<1> QED BY <1>1, <1>2, <1>3, FedTells

\* A memo built from nothing has the history; a slice of one that reaches further has
\* that of the bars before.
LEMMA BuiltTells == ASSUME NEW e \in -1 .. LastBar PROVE Tells(Built(e), e)
<1> DEFINE vals == [k \in 1 .. e + 1 |-> ValueAt(k - 1)]
<1>1. vals = [k \in 1 .. e + 1 |-> vals[k]] /\ \A k \in 1 .. e + 1 : vals[k] = ValueAt(k - 1)
  OBVIOUS
<1> HIDE DEF vals
<1> QED BY <1>1, FedTells DEF Built, vals
LEMMA SlicedTells ==
  ASSUME NEW have \in -1 .. LastBar, Tells(cached, have), NEW e \in 0 .. have
  PROVE  Tells(Sliced(e), e)
<1> DEFINE vals == [k \in 1 .. e + 1 |-> LastOf(cached, have + 1 - 1 - e + (e + 1 - k))]
<1>1. Sliced(e) = Fed(NewQueue(e + 1), vals)
  BY DEF Sliced, Tells
<1>2. ASSUME NEW k \in 1 .. e + 1 PROVE vals[k] = ValueAt(k - 1)
  <2>1. /\ have + 1 - 1 - e + (e + 1 - k) = have + 1 - k
        /\ have + 1 - k \in 0 .. have /\ have - (have + 1 - k) = k - 1
    OBVIOUS
  <2> QED BY <2>1 DEF Tells
<1> HIDE DEF vals
<1>3. vals = [k \in 1 .. e + 1 |-> vals[k]] /\ e \in -1 .. LastBar
  BY LastBarAssumption DEF vals
<1> QED BY <1>1, <1>2, <1>3, FedTells

\* Until it is extended, the memo has the history up to the bar it was made on.
Told ==
  /\ barIndex \in 0 .. LastBar
  /\ ~ extended => \E e \in -1 .. LastBar : Tells(cached, e)
  /\ HistoryUntilExtended

\* A derivation, from nothing, from a slice or from the memo as it is.
LEMMA DeriveTells ==
  ASSUME Told, NEW offset \in 0 .. barIndex + 1, Derive(offset)
  PROVE  Told'
<1> DEFINE eff == barIndex - offset
<1>1. eff \in -1 .. LastBar /\ derivedAt' = eff /\ barIndex' = barIndex
  BY LastBarAssumption DEF Told, Derive
<1>2. SUFFICES ASSUME ~ extended'
               PROVE  (\E e \in -1 .. LastBar : Tells(cached', e)) /\ Tells(derived', eff)
  BY <1>1 DEF Told, HistoryUntilExtended, IsHistory, Tells
<1> HIDE DEF eff
<1>3. ~ extended
  BY <1>2 DEF Derive
<1>4. PICK have \in -1 .. LastBar : Tells(cached, have)
  BY <1>3 DEF Told
<1>5. LengthOf(cached) = have + 1
  BY <1>4 DEF Tells
<1>6. CASE cached' = Built(eff) /\ derived' = AtEvalPoint(cached', eff)
  BY <1>1, <1>6, BuiltTells, AtEvalPointTells
<1>7. CASE 0 <= eff /\ eff < have + 1 - 1 /\ derived' = AtEvalPoint(Sliced(eff), eff) /\ cached' = cached
  <2>1. eff \in 0 .. have
    BY <1>1, <1>7
  <2> QED BY <1>1, <1>4, <1>7, <2>1, SlicedTells, AtEvalPointTells
<1>8. CASE eff = have + 1 - 1 /\ derived' = AtEvalPoint(cached, eff) /\ cached' = cached
  <2>1. eff = have
    BY <1>1, <1>8
  <2> QED BY <1>1, <1>4, <1>8, <2>1, AtEvalPointTells
<1> QED BY <1>2, <1>5, <1>6, <1>7, <1>8 DEF Derive, eff

\* As long as the memo of a derived series has not had to be extended, every series
\* derived from it is the history of the expression, for every number of bars and on
\* whatever bars and offsets it is asked for (seriesExprCache of builtins.go).
THEOREM DerivedIsHistory == SitesSpec => []HistoryUntilExtended
<1>1. SitesInit => Told
  <2> SUFFICES ASSUME SitesInit PROVE Told
    OBVIOUS
  <2>1. cached = NewQueue(0) /\ derived = NewQueue(0) /\ derivedAt = -1 /\ barIndex = 0
    BY DEF SitesInit, Init
  <2>2. Tells(NewQueue(0), -1)
    BY DEF Tells, NewQueue, LengthOf
  <2> QED BY <2>1, <2>2, LastBarAssumption DEF Told, HistoryUntilExtended, IsHistory, Tells
<1>2. Told /\ [SitesNext]_allVars => Told'
  <2> SUFFICES ASSUME Told, [SitesNext]_allVars PROVE Told'
    OBVIOUS
  <2>1. CASE NextBar
    BY <2>1, LastBarAssumption DEF NextBar, Told, HistoryUntilExtended, IsHistory
  <2>2. CASE UNCHANGED vars
    BY <2>2 DEF vars, Told, HistoryUntilExtended, IsHistory
  <2>3. CASE \E offset \in 0 .. barIndex + 1 : Derive(offset)
    BY <2>3, DeriveTells
  <2> QED BY <2>1, <2>2, <2>3 DEF SitesNext, AskBack, AskSince, AskNow, allVars, vars
<1>3. Told => HistoryUntilExtended
  BY DEF Told
<1> QED BY <1>1, <1>2, <1>3, PTL DEF SitesSpec

-----------------------------------------------------------------------------
(* Folds of integers, a value at a time. *)

\* Induction up to n, for a set.
LEMMA InductionTo ==
  ASSUME NEW n \in Nat, NEW Good, 0 \in Good, \A k \in 0 .. n - 1 : k \in Good => k + 1 \in Good
  PROVE  \A k \in 0 .. n : k \in Good
<1> DEFINE Bad == {k \in 0 .. n : k \notin Good}
<1> SUFFICES ASSUME Bad # {} PROVE FALSE
  OBVIOUS
<1>1. PICK k \in Bad : \A m \in Bad : k <= m
  <2>1. Bad \subseteq Nat
    OBVIOUS
  <2> HIDE DEF Bad
  <2> QED BY <2>1, LeastNatural
<1>2. k # 0 /\ k - 1 \in 0 .. n - 1 /\ (k - 1) + 1 = k /\ k - 1 \in Good
  <2>1. k \in 0 .. n /\ k # 0
    BY <1>1
  <2>2. k - 1 \in 0 .. n /\ k - 1 \in 0 .. n - 1 /\ k - 1 \notin Bad
    BY <1>1, <2>1
  <2> QED BY <2>1, <2>2
<1> QED BY <1>1, <1>2

\* A recursion that takes the greatest element off a set has a solution, if its step
\* is a function of integers: as that of FedIsFeeding, a number at a time.
Folds(g, base, vals, h, s) == h[s] = IF s = {} THEN base ELSE g[<<h[s \ {Max(s)}], vals[Max(s)]>>]
LEMMA FoldsExist ==
  ASSUME NEW g \in [Int \X Int -> Int], NEW base \in Int, NEW last \in Nat, NEW vals \in [1 .. last -> Int]
  PROVE  \E h \in [SUBSET (1 .. last) -> Int] : \A s \in SUBSET (1 .. last) : Folds(g, base, vals, h, s)
<1> DEFINE Solves(h, n) == /\ h \in [SUBSET (1 .. n) -> Int]
                        /\ \A s \in SUBSET (1 .. n) : Folds(g, base, vals, h, s)
           Bad == {n \in 0 .. last : \A h : ~ Solves(h, n)}
<1>1. 0 \notin Bad
  <2> DEFINE h == [s \in SUBSET (1 .. 0) |-> base]
  <2>1. \A s \in SUBSET (1 .. 0) : s = {}
    OBVIOUS
  <2>2. Solves(h, 0)
    BY <2>1 DEF Folds
  <2> QED BY <2>2
<1>2. ASSUME NEW n \in 0 .. last, n + 1 \in 0 .. last, n \notin Bad PROVE n + 1 \notin Bad
  <2>1. PICK h : Solves(h, n)
    BY <1>2
  <2> DEFINE new(s) == g[<<h[s \ {n + 1}], vals[n + 1]>>]
             k == [s \in SUBSET (1 .. n + 1) |-> IF s \in SUBSET (1 .. n) THEN h[s] ELSE new(s)]
  <2>2. ASSUME NEW s \in SUBSET (1 .. n + 1) PROVE k[s] \in Int /\ Folds(g, base, vals, k, s)
    <3>1. CASE s \in SUBSET (1 .. n)
      <4>1. k[s] = h[s] /\ h[s] \in Int /\ Folds(g, base, vals, h, s)
        BY <2>1, <3>1
      <4>2. s \ {Max(s)} \in SUBSET (1 .. n) /\ s \ {Max(s)} \in SUBSET (1 .. n + 1)
        BY <3>1
      <4>3. k[s \ {Max(s)}] = h[s \ {Max(s)}]
        BY <4>2
      <4> HIDE DEF k
      <4> QED BY <4>1, <4>3 DEF Folds
    <3>2. CASE s \notin SUBSET (1 .. n)
      <4>0. n + 1 \in Nat /\ n + 1 \in 1 .. last
        BY <1>2
      <4>1. n + 1 \in s /\ s # {}
        BY <3>2
      <4>2. Max(s) \in s /\ \A m \in s : m <= Max(s)
        BY <4>0, <4>1, MaxOfSome
      <4>3. Max(s) = n + 1
        <5>1. Max(s) \in 1 .. n + 1 /\ n + 1 <= Max(s)
          BY <4>1, <4>2
        <5> QED BY <5>1
      <4>4. s \ {n + 1} \in SUBSET (1 .. n) /\ s \ {n + 1} \in SUBSET (1 .. n + 1)
        OBVIOUS
      <4>5. k[s \ {n + 1}] = h[s \ {n + 1}] /\ h[s \ {n + 1}] \in Int /\ vals[n + 1] \in Int
        BY <2>1, <4>0, <4>4
      <4>6. k[s] = new(s) /\ new(s) \in Int
        BY <3>2, <4>5
      <4> HIDE DEF k
      <4> QED BY <4>1, <4>3, <4>5, <4>6 DEF Folds
    <3> QED BY <3>1, <3>2
  <2>3. k = [s \in SUBSET (1 .. n + 1) |-> k[s]]
    OBVIOUS
  <2> HIDE DEF k
  <2>4. Solves(k, n + 1)
    BY <2>2, <2>3
  <2> QED BY <2>4
<1>3. last \notin Bad
  <2> HIDE DEF Bad
  <2> SUFFICES ASSUME last \in Bad PROVE FALSE
    OBVIOUS
  <2>1. Bad \subseteq 0 .. last
    BY DEF Bad
  <2>2. PICK n \in Bad : \A m \in Bad : n <= m
    <3>1. Bad \subseteq Nat /\ Bad # {}
      BY <2>1
    <3> QED BY <3>1, LeastNatural
  <2>3. n # 0 /\ n - 1 \in 0 .. last /\ n - 1 \notin Bad
    BY <1>1, <2>1, <2>2
  <2>4. (n - 1) + 1 = n
    BY <2>1
  <2> QED BY <1>2, <2>1, <2>2, <2>3, <2>4
<1>4. \E h : Solves(h, last)
  <2> HIDE DEF Solves
  <2> QED BY <1>3
<1> QED BY <1>4

\* Taking the greatest off the first numbers.
LEMMA GreatestOfFirst ==
  ASSUME NEW k \in Nat
  PROVE  1 .. k + 1 # {} /\ Max(1 .. k + 1) = k + 1 /\ (1 .. k + 1) \ {k + 1} = 1 .. k
<1>1. k + 1 \in Nat /\ k + 1 \in 1 .. k + 1 /\ 1 .. k + 1 \in SUBSET (1 .. k + 1)
  OBVIOUS
<1>2. Max(1 .. k + 1) \in 1 .. k + 1 /\ \A m \in 1 .. k + 1 : m <= Max(1 .. k + 1)
  BY <1>1, MaxOfSome
<1>3. Max(1 .. k + 1) = k + 1
  BY <1>1, <1>2
<1>4. \A m \in 1 .. k + 1 : m # k + 1 <=> m \in 1 .. k
  OBVIOUS
<1>5. \A m \in 1 .. k : m \in 1 .. k + 1
  OBVIOUS
<1> QED BY <1>1, <1>3, <1>4, <1>5

\* Totals (the loops of the sma and the standard deviation over a window) are had by adding
\* one value after another.
Adding(h, vals) ==
  h = [s \in SUBSET DOMAIN vals |-> IF s = {} THEN 0 ELSE LET x == Max(s) IN h[s \ {x}] + vals[x]]
LEMMA TotalRuns ==
  ASSUME NEW n \in Nat, NEW vals \in [1 .. n -> Int], NEW t, t[0] = 0,
         \A k \in 0 .. n - 1 : t[k + 1] = t[k] + vals[k + 1]
  PROVE  Total(vals) = t[n]
<1> DEFINE hh == CHOOSE h : Adding(h, vals)
           g == [p \in Int \X Int |-> p[1] + p[2]]
<1>1. Total(vals) = hh[DOMAIN vals]
  BY DEF Total, FoldLeft, MapThenFoldSet, Adding
<1>2. PICK f \in [SUBSET (1 .. n) -> Int] : \A s \in SUBSET (1 .. n) : Folds(g, 0, vals, f, s)
  <2>1. g \in [Int \X Int -> Int] /\ 0 \in Int
    OBVIOUS
  <2> HIDE DEF g
  <2> QED BY <2>1, FoldsExist, Zenon
<1>3. Adding(f, vals)
  <2>1. ASSUME NEW s \in SUBSET (1 .. n)
        PROVE  f[s] = IF s = {} THEN 0 ELSE LET x == Max(s) IN f[s \ {x}] + vals[x]
    <3>1. CASE s = {}
      BY <1>2, <3>1 DEF Folds
    <3>2. CASE s # {}
      <4>1. Max(s) \in 1 .. n /\ s \ {Max(s)} \in SUBSET (1 .. n)
        BY <3>2, MaxOfSome
      <4>2. f[s \ {Max(s)}] \in Int /\ vals[Max(s)] \in Int
        BY <1>2, <4>1
      <4>3. f[s] = g[<<f[s \ {Max(s)}], vals[Max(s)]>>]
        BY <1>2, <3>2 DEF Folds
      <4> QED BY <3>2, <4>2, <4>3
    <3> QED BY <3>1, <3>2
  <2>2. f = [s \in SUBSET (1 .. n) |-> f[s]] /\ DOMAIN vals = 1 .. n
    BY <1>2
  <2> QED BY <2>1, <2>2 DEF Adding
<1>4. Adding(hh, vals)
  BY <1>3
<1> HIDE DEF hh, g
<1>5. \A s \in SUBSET (1 .. n) : hh[s] = IF s = {} THEN 0 ELSE LET x == Max(s) IN hh[s \ {x}] + vals[x]
  BY <1>4 DEF Adding
<1>6. hh[1 .. 0] = t[0]
  <2>1. 1 .. 0 = {}
    OBVIOUS
  <2> QED BY <1>5, <2>1
<1>7. ASSUME NEW k \in 0 .. n - 1, hh[1 .. k] = t[k] PROVE hh[1 .. k + 1] = t[k + 1]
  <2>1. 1 .. k + 1 \in SUBSET (1 .. n)
    OBVIOUS
  <2>2. 1 .. k + 1 # {} /\ Max(1 .. k + 1) = k + 1 /\ (1 .. k + 1) \ {k + 1} = 1 .. k
    <3>1. k \in Nat
      OBVIOUS
    <3> QED BY <3>1, GreatestOfFirst
  <2>3. hh[1 .. k + 1] = hh[1 .. k] + vals[k + 1]
    BY <1>5, <2>1, <2>2
  <2> QED BY <1>7, <2>3
<1>8. \A k \in 0 .. n : hh[1 .. k] = t[k]
  <2> DEFINE Same == {k \in 0 .. n : hh[1 .. k] = t[k]}
  <2>1. 0 \in Same /\ \A k \in 0 .. n - 1 : k \in Same => k + 1 \in Same
    BY <1>6, <1>7
  <2>2. \A k \in 0 .. n : k \in Same
    <3> HIDE DEF Same
    <3> QED BY <2>1, InductionTo
  <2> QED BY <2>2
<1> QED BY <1>1, <1>2, <1>8

\* A loop over values goes through intermediate results, if its step is a function of
\* integers.
LEMMA LoopRuns ==
  ASSUME NEW g \in [Int \X Int -> Int], NEW base \in Int, NEW m \in Nat, NEW vals \in [1 .. m -> Int]
  PROVE  \E t \in [0 .. m -> Int] : t[0] = base /\ \A k \in 0 .. m - 1 : t[k + 1] = g[<<t[k], vals[k + 1]>>]
<1>1. PICK h \in [SUBSET (1 .. m) -> Int] : \A s \in SUBSET (1 .. m) : Folds(g, base, vals, h, s)
  BY FoldsExist, Zenon
<1> DEFINE t == [k \in 0 .. m |-> h[1 .. k]]
<1>2. t \in [0 .. m -> Int]
  BY <1>1
<1>3. t[0] = base
  <2>1. 1 .. 0 = {} /\ 0 \in 0 .. m
    OBVIOUS
  <2>2. t[0] = h[{}] /\ {} \in SUBSET (1 .. m)
    BY <2>1
  <2> HIDE DEF t
  <2> QED BY <1>1, <2>2 DEF Folds
<1>4. ASSUME NEW k \in 0 .. m - 1 PROVE t[k + 1] = g[<<t[k], vals[k + 1]>>]
  <2>1. k \in 0 .. m /\ k + 1 \in 0 .. m /\ k \in Nat
    OBVIOUS
  <2>2. t[k] = h[1 .. k] /\ t[k + 1] = h[1 .. k + 1]
    BY <2>1
  <2>3. 1 .. k + 1 # {} /\ Max(1 .. k + 1) = k + 1 /\ (1 .. k + 1) \ {k + 1} = 1 .. k
    BY <2>1, GreatestOfFirst
  <2>4. 1 .. k + 1 \in SUBSET (1 .. m)
    BY <2>1
  <2>5. h[1 .. k + 1] = g[<<h[1 .. k], vals[k + 1]>>]
    BY <1>1, <2>3, <2>4 DEF Folds
  <2> HIDE DEF t
  <2> QED BY <2>2, <2>5
<1> HIDE DEF t
<1> QED BY <1>2, <1>3, <1>4

\* That, as a predicate.
Chain(g, base, m, vals, t) ==
  t \in [0 .. m -> Int] /\ t[0] = base /\ \A k \in 0 .. m - 1 : t[k + 1] = g[<<t[k], vals[k + 1]>>]
LEMMA Chains ==
  ASSUME NEW g \in [Int \X Int -> Int], NEW base \in Int, NEW m \in Nat, NEW vals \in [1 .. m -> Int]
  PROVE  \E t : Chain(g, base, m, vals, t)
<1>1. PICK t \in [0 .. m -> Int] : t[0] = base /\ \A k \in 0 .. m - 1 : t[k + 1] = g[<<t[k], vals[k + 1]>>]
  BY LoopRuns
<1>2. Chain(g, base, m, vals, t)
  BY <1>1 DEF Chain
<1> QED BY <1>2

\* The steps of the averages give integers.
LEMMA StepsAreWhole ==
  ASSUME NEW n \in Nat \ {0}
  PROVE  \A a, v \in Int : EMAStep(a, v, n) \in Int /\ RMAStep(a, v, n) \in Int
<1>1. ASSUME NEW a \in Int, NEW b \in Nat \ {0} PROVE a \div b \in Int
  OBVIOUS
<1> SUFFICES ASSUME NEW a \in Int, NEW v \in Int PROVE EMAStep(a, v, n) \in Int /\ RMAStep(a, v, n) \in Int
  OBVIOUS
<1>2. 2 * v + (n - 1) * a \in Int /\ a * (n - 1) + v \in Int /\ n + 1 \in Nat \ {0}
  OBVIOUS
<1> QED BY <1>1, <1>2 DEF EMAStep, RMAStep

\* The loop of calcEMAFromChrono: one average after another.
AveragingEMA(h, n, base, vals) ==
  h = [s \in SUBSET DOMAIN vals |-> IF s = {} THEN base ELSE LET x == Max(s) IN EMAStep(h[s \ {x}], vals[x], n)]
EMAOver(n, base, vals) == FoldLeft(LAMBDA a, v : EMAStep(a, v, n), base, vals)
EMAChain(n, base, m, vals, t) ==
  t \in [0 .. m -> Int] /\ t[0] = base /\ \A k \in 0 .. m - 1 : t[k + 1] = EMAStep(t[k], vals[k + 1], n)
LEMMA EMARuns ==
  ASSUME NEW n \in Nat \ {0}, NEW base \in Int, NEW m \in Nat, NEW vals \in [1 .. m -> Int],
         NEW t, EMAChain(n, base, m, vals, t)
  PROVE  EMAOver(n, base, vals) = t[m]
<1>0. t[0] = base /\ \A k \in 0 .. m - 1 : t[k + 1] = EMAStep(t[k], vals[k + 1], n)
  BY DEF EMAChain
<1> DEFINE hh == CHOOSE h : AveragingEMA(h, n, base, vals)
           g == [p \in Int \X Int |-> EMAStep(p[1], p[2], n)]
<1>1. EMAOver(n, base, vals) = hh[DOMAIN vals]
  BY DEF EMAOver, FoldLeft, MapThenFoldSet, AveragingEMA
<1>2. PICK f \in [SUBSET (1 .. m) -> Int] : \A s \in SUBSET (1 .. m) : Folds(g, base, vals, f, s)
  <2>1. g \in [Int \X Int -> Int]
    BY StepsAreWhole
  <2> HIDE DEF g
  <2> QED BY <2>1, FoldsExist, Zenon
<1>3. AveragingEMA(f, n, base, vals)
  <2>1. ASSUME NEW s \in SUBSET (1 .. m)
        PROVE  f[s] = IF s = {} THEN base ELSE LET x == Max(s) IN EMAStep(f[s \ {x}], vals[x], n)
    <3>1. CASE s = {}
      BY <1>2, <3>1 DEF Folds
    <3>2. CASE s # {}
      <4>1. Max(s) \in 1 .. m /\ s \ {Max(s)} \in SUBSET (1 .. m)
        BY <3>2, MaxOfSome
      <4>2. f[s \ {Max(s)}] \in Int /\ vals[Max(s)] \in Int
        BY <1>2, <4>1
      <4>3. f[s] = g[<<f[s \ {Max(s)}], vals[Max(s)]>>]
        BY <1>2, <3>2 DEF Folds
      <4> QED BY <3>2, <4>2, <4>3
    <3> QED BY <3>1, <3>2
  <2>2. f = [s \in SUBSET (1 .. m) |-> f[s]] /\ DOMAIN vals = 1 .. m
    BY <1>2
  <2> QED BY <2>1, <2>2 DEF AveragingEMA
<1>4. AveragingEMA(hh, n, base, vals)
  BY <1>3
<1> HIDE DEF hh, g
<1>5. \A s \in SUBSET (1 .. m) :
        hh[s] = IF s = {} THEN base ELSE LET x == Max(s) IN EMAStep(hh[s \ {x}], vals[x], n)
  BY <1>4 DEF AveragingEMA
<1>6. hh[1 .. 0] = t[0]
  <2>1. 1 .. 0 = {}
    OBVIOUS
  <2> QED BY <1>0, <1>5, <2>1
<1>7. ASSUME NEW k \in 0 .. m - 1, hh[1 .. k] = t[k] PROVE hh[1 .. k + 1] = t[k + 1]
  <2>1. 1 .. k + 1 \in SUBSET (1 .. m)
    OBVIOUS
  <2>2. 1 .. k + 1 # {} /\ Max(1 .. k + 1) = k + 1 /\ (1 .. k + 1) \ {k + 1} = 1 .. k
    <3>1. k \in Nat
      OBVIOUS
    <3> QED BY <3>1, GreatestOfFirst
  <2>3. hh[1 .. k + 1] = EMAStep(hh[1 .. k], vals[k + 1], n)
    BY <1>5, <2>1, <2>2
  <2> QED BY <1>0, <1>7, <2>3
<1>8. \A k \in 0 .. m : hh[1 .. k] = t[k]
  <2> DEFINE Same == {k \in 0 .. m : hh[1 .. k] = t[k]}
  <2>1. 0 \in Same /\ \A k \in 0 .. m - 1 : k \in Same => k + 1 \in Same
    <3>1. 0 \in Same
      BY <1>6
    <3>2. ASSUME NEW k \in 0 .. m - 1, k \in Same PROVE k + 1 \in Same
      <4>1. hh[1 .. k + 1] = t[k + 1]
        BY <1>7, <3>2
      <4>2. k + 1 \in 0 .. m
        OBVIOUS
      <4> QED BY <4>1, <4>2
    <3> QED BY <3>1, <3>2
  <2>2. \A k \in 0 .. m : k \in Same
    <3> HIDE DEF Same
    <3> QED BY <2>1, InductionTo
  <2> QED BY <2>2
<1> QED BY <1>1, <1>2, <1>8

\* It has such a chain of averages.
LEMMA EMAChains ==
  ASSUME NEW n \in Nat \ {0}, NEW base \in Int, NEW m \in Nat, NEW vals \in [1 .. m -> Int]
  PROVE  \E t : EMAChain(n, base, m, vals, t)
<1> DEFINE g == [p \in Int \X Int |-> EMAStep(p[1], p[2], n)]
<1>1. g \in [Int \X Int -> Int]
  BY StepsAreWhole
<1>2. PICK t : Chain(g, base, m, vals, t)
  <2> HIDE DEF g
  <2> QED BY <1>1, Chains
<1>3. ASSUME NEW k \in 0 .. m - 1 PROVE t[k + 1] = EMAStep(t[k], vals[k + 1], n)
  <2>1. k \in 0 .. m /\ k + 1 \in 1 .. m
    OBVIOUS
  <2>2. t[k] \in Int /\ vals[k + 1] \in Int
    BY <1>2, <2>1 DEF Chain
  <2>3. t[k + 1] = g[<<t[k], vals[k + 1]>>]
    BY <1>2 DEF Chain
  <2> QED BY <2>2, <2>3
<1> HIDE DEF g
<1>4. EMAChain(n, base, m, vals, t)
  BY <1>2, <1>3 DEF Chain, EMAChain
<1> QED BY <1>4

\* The loop of calcRMAFromChrono.
AveragingRMA(h, n, base, vals) ==
  h = [s \in SUBSET DOMAIN vals |-> IF s = {} THEN base ELSE LET x == Max(s) IN RMAStep(h[s \ {x}], vals[x], n)]
RMAOver(n, base, vals) == FoldLeft(LAMBDA a, v : RMAStep(a, v, n), base, vals)
RMAChain(n, base, m, vals, t) ==
  t \in [0 .. m -> Int] /\ t[0] = base /\ \A k \in 0 .. m - 1 : t[k + 1] = RMAStep(t[k], vals[k + 1], n)
LEMMA RMARuns ==
  ASSUME NEW n \in Nat \ {0}, NEW base \in Int, NEW m \in Nat, NEW vals \in [1 .. m -> Int],
         NEW t, RMAChain(n, base, m, vals, t)
  PROVE  RMAOver(n, base, vals) = t[m]
<1>0. t[0] = base /\ \A k \in 0 .. m - 1 : t[k + 1] = RMAStep(t[k], vals[k + 1], n)
  BY DEF RMAChain
<1> DEFINE hh == CHOOSE h : AveragingRMA(h, n, base, vals)
           g == [p \in Int \X Int |-> RMAStep(p[1], p[2], n)]
<1>1. RMAOver(n, base, vals) = hh[DOMAIN vals]
  BY DEF RMAOver, FoldLeft, MapThenFoldSet, AveragingRMA
<1>2. PICK f \in [SUBSET (1 .. m) -> Int] : \A s \in SUBSET (1 .. m) : Folds(g, base, vals, f, s)
  <2>1. g \in [Int \X Int -> Int]
    BY StepsAreWhole
  <2> HIDE DEF g
  <2> QED BY <2>1, FoldsExist, Zenon
<1>3. AveragingRMA(f, n, base, vals)
  <2>1. ASSUME NEW s \in SUBSET (1 .. m)
        PROVE  f[s] = IF s = {} THEN base ELSE LET x == Max(s) IN RMAStep(f[s \ {x}], vals[x], n)
    <3>1. CASE s = {}
      BY <1>2, <3>1 DEF Folds
    <3>2. CASE s # {}
      <4>1. Max(s) \in 1 .. m /\ s \ {Max(s)} \in SUBSET (1 .. m)
        BY <3>2, MaxOfSome
      <4>2. f[s \ {Max(s)}] \in Int /\ vals[Max(s)] \in Int
        BY <1>2, <4>1
      <4>3. f[s] = g[<<f[s \ {Max(s)}], vals[Max(s)]>>]
        BY <1>2, <3>2 DEF Folds
      <4> QED BY <3>2, <4>2, <4>3
    <3> QED BY <3>1, <3>2
  <2>2. f = [s \in SUBSET (1 .. m) |-> f[s]] /\ DOMAIN vals = 1 .. m
    BY <1>2
  <2> QED BY <2>1, <2>2 DEF AveragingRMA
<1>4. AveragingRMA(hh, n, base, vals)
  BY <1>3
<1> HIDE DEF hh, g
<1>5. \A s \in SUBSET (1 .. m) :
        hh[s] = IF s = {} THEN base ELSE LET x == Max(s) IN RMAStep(hh[s \ {x}], vals[x], n)
  BY <1>4 DEF AveragingRMA
<1>6. hh[1 .. 0] = t[0]
  <2>1. 1 .. 0 = {}
    OBVIOUS
  <2> QED BY <1>0, <1>5, <2>1
<1>7. ASSUME NEW k \in 0 .. m - 1, hh[1 .. k] = t[k] PROVE hh[1 .. k + 1] = t[k + 1]
  <2>1. 1 .. k + 1 \in SUBSET (1 .. m)
    OBVIOUS
  <2>2. 1 .. k + 1 # {} /\ Max(1 .. k + 1) = k + 1 /\ (1 .. k + 1) \ {k + 1} = 1 .. k
    <3>1. k \in Nat
      OBVIOUS
    <3> QED BY <3>1, GreatestOfFirst
  <2>3. hh[1 .. k + 1] = RMAStep(hh[1 .. k], vals[k + 1], n)
    BY <1>5, <2>1, <2>2
  <2> QED BY <1>0, <1>7, <2>3
<1>8. \A k \in 0 .. m : hh[1 .. k] = t[k]
  <2> DEFINE Same == {k \in 0 .. m : hh[1 .. k] = t[k]}
  <2>1. 0 \in Same /\ \A k \in 0 .. m - 1 : k \in Same => k + 1 \in Same
    <3>1. 0 \in Same
      BY <1>6
    <3>2. ASSUME NEW k \in 0 .. m - 1, k \in Same PROVE k + 1 \in Same
      <4>1. hh[1 .. k + 1] = t[k + 1]
        BY <1>7, <3>2
      <4>2. k + 1 \in 0 .. m
        OBVIOUS
      <4> QED BY <4>1, <4>2
    <3> QED BY <3>1, <3>2
  <2>2. \A k \in 0 .. m : k \in Same
    <3> HIDE DEF Same
    <3> QED BY <2>1, InductionTo
  <2> QED BY <2>2
<1> QED BY <1>1, <1>2, <1>8

\* It has such a chain of averages.
LEMMA RMAChains ==
  ASSUME NEW n \in Nat \ {0}, NEW base \in Int, NEW m \in Nat, NEW vals \in [1 .. m -> Int]
  PROVE  \E t : RMAChain(n, base, m, vals, t)
<1> DEFINE g == [p \in Int \X Int |-> RMAStep(p[1], p[2], n)]
<1>1. g \in [Int \X Int -> Int]
  BY StepsAreWhole
<1>2. PICK t : Chain(g, base, m, vals, t)
  <2> HIDE DEF g
  <2> QED BY <1>1, Chains
<1>3. ASSUME NEW k \in 0 .. m - 1 PROVE t[k + 1] = RMAStep(t[k], vals[k + 1], n)
  <2>1. k \in 0 .. m /\ k + 1 \in 1 .. m
    OBVIOUS
  <2>2. t[k] \in Int /\ vals[k + 1] \in Int
    BY <1>2, <2>1 DEF Chain
  <2>3. t[k + 1] = g[<<t[k], vals[k + 1]>>]
    BY <1>2 DEF Chain
  <2> QED BY <2>2, <2>3
<1> HIDE DEF g
<1>4. RMAChain(n, base, m, vals, t)
  BY <1>2, <1>3 DEF Chain, RMAChain
<1> QED BY <1>4

-----------------------------------------------------------------------------
(* The window of the last n of the values v, after the first c of them.    *)

Around(i, n) == IF i < n THEN i ELSE i - n
Holding(w, v, c, n) ==
  /\ w = [buf |-> w.buf, start |-> w.start, count |-> w.count, cap |-> n]
  /\ w.buf \in [0 .. n - 1 -> Int] /\ w.start \in 0 .. n - 1
  /\ w.count = IF c < n THEN c ELSE n
  /\ c < n => w.start = 0
  /\ \A j \in 0 .. w.count - 1 : w.buf[Around(w.start + j, n)] = v[c - w.count + j]

\* The arithmetic of % around a ring.
LEMMA RoundTheRing ==
  ASSUME NEW n \in Nat \ {0}, NEW i \in 0 .. 2 * n - 1
  PROVE  i % n = Around(i, n) /\ Around(i, n) \in 0 .. n - 1
<1>1. CASE i < n
  <2>1. ASSUME NEW m \in Nat, NEW x \in 0 .. m PROVE x % (m + 1) = x
    OBVIOUS
  <2>2. n - 1 \in Nat /\ i \in 0 .. n - 1 /\ (n - 1) + 1 = n
    BY <1>1
  <2>3. i % ((n - 1) + 1) = i
    BY <2>1, <2>2
  <2> QED BY <1>1, <2>2, <2>3 DEF Around
<1>2. CASE ~ (i < n)
  <2>1. ASSUME NEW m \in Nat, NEW x \in 0 .. m PROVE (x + (m + 1)) % (m + 1) = x
    OBVIOUS
  <2>2. n - 1 \in Nat /\ i - n \in 0 .. n - 1 /\ (n - 1) + 1 = n /\ (i - n) + n = i
    BY <1>2
  <2>3. ((i - n) + ((n - 1) + 1)) % ((n - 1) + 1) = i - n
    BY <2>1, <2>2
  <2> QED BY <1>2, <2>2, <2>3 DEF Around
<1> QED BY <1>1, <1>2

\* newRollingWindowState.
LEMMA NewWindowHolds ==
  ASSUME NEW n \in Nat \ {0}, n <= MaxIndicatorWindowLength, NEW v
  PROVE  Holding(NewWindow(n), v, 0, n)
<1>1. MaxIndicatorWindowLength \in Nat
  BY WindowAssumption
<1>2. Min({n, MaxIndicatorWindowLength}) = n
  BY <1>1 DEF Min
<1>3. Max({1, n}) = n
  BY DEF Max
<1>4. NewWindow(n) = [buf |-> [i \in 0 .. n - 1 |-> 0], start |-> 0, count |-> 0, cap |-> n]
  BY <1>2, <1>3 DEF NewWindow
<1> QED BY <1>4 DEF Holding

\* rollingWindowState.push: the next value takes the place of the oldest.
LEMMA PushHolds ==
  ASSUME NEW n \in Nat \ {0}, NEW c \in Nat, NEW v, NEW x \in Int, x = v[c], NEW w, Holding(w, v, c, n)
  PROVE  /\ Holding(Pushed(w, x), v, c + 1, n)
         /\ Replaced(w) = IF c < n THEN 0 ELSE v[c - n]
         /\ Full(w) <=> c >= n
<1>0. PICK buf, start, count : buf = w.buf /\ start = w.start /\ count = w.count
  OBVIOUS
<1>1. /\ w = [buf |-> buf, start |-> start, count |-> count, cap |-> n]
      /\ buf \in [0 .. n - 1 -> Int] /\ start \in 0 .. n - 1
      /\ count = IF c < n THEN c ELSE n
      /\ c < n => start = 0
      /\ \A j \in 0 .. count - 1 : buf[Around(start + j, n)] = v[c - count + j]
  BY <1>0 DEF Holding
<1>2. Full(w) <=> c >= n
  BY <1>1 DEF Full
<1>3. CASE c < n
  <2>1. start = 0 /\ count = c /\ (start + count) % n = c
    BY <1>1, <1>3, RoundTheRing DEF Around
  <2>2. Pushed(w, x) = [buf |-> [buf EXCEPT ![c] = x], start |-> 0, count |-> c + 1, cap |-> n]
    <3>1. Pushed(w, x) = [w EXCEPT !.buf[(w.start + w.count) % w.cap] = x, !.count = @ + 1]
      BY <1>2, <1>3 DEF Pushed
    <3>2. (w.start + w.count) % w.cap = c /\ w.count = c /\ w.start = 0
      BY <1>1, <2>1
    <3>3. Pushed(w, x) = [w EXCEPT !.buf[c] = x, !.count = c + 1]
      BY <3>1, <3>2
    <3> QED BY <1>1, <2>1, <3>3
  <2>3. [buf EXCEPT ![c] = x] \in [0 .. n - 1 -> Int]
    BY <1>1
  <2>4. ASSUME NEW j \in 0 .. c PROVE [buf EXCEPT ![c] = x][Around(0 + j, n)] = v[j]
    <3>1. Around(0 + j, n) = j /\ j \in 0 .. n - 1
      BY <1>3 DEF Around
    <3>2. CASE j = c
      BY <1>1, <3>1, <3>2
    <3>3. CASE j # c
      <4>1. j \in 0 .. count - 1 /\ c - count + j = j /\ start + j = 0 + j
        BY <2>1, <3>3
      <4>2. buf[j] = v[j]
        BY <1>1, <3>1, <4>1
      <4> QED BY <1>1, <3>1, <3>3, <4>2
    <3> QED BY <3>2, <3>3
  <2>5. (c + 1) - (c + 1) = 0 /\ (c + 1) - 1 = c /\ \A j \in 0 .. c : 0 + j = j
    OBVIOUS
  <2>6. c + 1 = IF c + 1 < n THEN c + 1 ELSE n
    BY <1>3
  <2>7. Holding(Pushed(w, x), v, c + 1, n)
    <3>1. PICK full : full = [buf EXCEPT ![c] = x]
      OBVIOUS
    <3>2. PICK p : p = Pushed(w, x)
      OBVIOUS
    <3>3. p = [buf |-> full, start |-> 0, count |-> c + 1, cap |-> n]
      BY <2>2, <3>1, <3>2
    <3>4. \A j \in 0 .. p.count - 1 : p.buf[Around(p.start + j, n)] = v[(c + 1) - p.count + j]
      BY <2>4, <2>5, <3>1, <3>3
    <3> QED BY <2>3, <2>6, <3>1, <3>2, <3>3, <3>4 DEF Holding
  <2>8. Replaced(w) = 0
    BY <1>2, <1>3 DEF Replaced
  <2> QED BY <1>2, <1>3, <2>7, <2>8
<1>4. CASE ~ (c < n)
  <2>1. count = n /\ c >= n
    BY <1>1, <1>4
  <2>2. PICK next : next = Around(start + 1, n)
    OBVIOUS
  <2>3. (start + 1) % n = next /\ next \in 0 .. n - 1
    BY <1>1, <2>2, RoundTheRing
  <2>4. Pushed(w, x) = [buf |-> [buf EXCEPT ![start] = x], start |-> next, count |-> n, cap |-> n]
    BY <1>1, <1>2, <2>1, <2>3 DEF Pushed
  <2>5. ASSUME NEW j \in 0 .. n - 1 PROVE [buf EXCEPT ![start] = x][Around(next + j, n)] = v[(c + 1) - n + j]
    <3>1. CASE j = n - 1
      <4>1. Around(next + j, n) = start
        BY <1>1, <2>2, <3>1 DEF Around
      <4>2. (c + 1) - n + j = c
        BY <3>1
      <4> QED BY <1>1, <4>1, <4>2
    <3>2. CASE j # n - 1
      <4>1. Around(next + j, n) = Around(start + (j + 1), n) /\ Around(next + j, n) # start
        BY <1>1, <2>2, <3>2 DEF Around
      <4>2. Around(next + j, n) \in 0 .. n - 1
        BY <1>1, <2>3, <3>2 DEF Around
      <4>3. j + 1 \in 0 .. count - 1 /\ c - count + (j + 1) = (c + 1) - n + j
        BY <2>1, <3>2
      <4>4. buf[Around(start + (j + 1), n)] = v[(c + 1) - n + j]
        BY <1>1, <4>3
      <4> QED BY <1>1, <4>1, <4>2, <4>4
    <3> QED BY <3>1, <3>2
  <2>6. [buf EXCEPT ![start] = x] \in [0 .. n - 1 -> Int]
    BY <1>1
  <2>7. ~ (c + 1 < n)
    BY <1>4
  <2>8. Holding(Pushed(w, x), v, c + 1, n)
    BY <2>3, <2>4, <2>5, <2>6, <2>7 DEF Holding
  <2>9. Replaced(w) = v[c - n]
    <3>1. 0 \in 0 .. count - 1 /\ Around(start + 0, n) = start /\ c - count + 0 = c - n
      BY <1>1, <2>1 DEF Around
    <3>2. buf[start] = v[c - n]
      BY <1>1, <3>1
    <3> QED BY <1>1, <1>2, <2>1, <3>2 DEF Replaced
  <2> QED BY <1>2, <1>4, <2>8, <2>9
<1> QED BY <1>3, <1>4

\* What is read from a window: both its ends, and all of it.
SeenIn(w) == {w.buf[i] : i \in 0 .. w.cap - 1}
Between(v, a, b) == {v[k] : k \in a .. b}
LEMMA ReadOff ==
  ASSUME NEW n \in Nat \ {0}, NEW c \in Nat, c >= n, NEW v, NEW w, Holding(w, v, c, n)
  PROVE  /\ Oldest(w) = v[c - n] /\ Newest(w) = v[c - 1]
         /\ SeenIn(w) = Between(v, c - n, c - 1)
<1>0. PICK buf, start : buf = w.buf /\ start = w.start
  OBVIOUS
<1>1. /\ w.cap = n /\ start \in 0 .. n - 1
      /\ \A j \in 0 .. n - 1 : buf[Around(start + j, n)] = v[c - n + j]
  BY <1>0 DEF Holding
<1>2. Oldest(w) = v[c - n]
  <2>1. 0 \in 0 .. n - 1 /\ Around(start + 0, n) = start /\ c - n + 0 = c - n
    BY <1>1 DEF Around
  <2> QED BY <1>0, <1>1, <2>1 DEF Oldest
<1>3. Newest(w) = v[c - 1]
  <2>1. start + n - 1 \in 0 .. 2 * n - 1
    BY <1>1
  <2>2. (start + n - 1) % n = Around(start + n - 1, n)
    BY <2>1, RoundTheRing
  <2>3. n - 1 \in 0 .. n - 1 /\ start + (n - 1) = start + n - 1 /\ c - n + (n - 1) = c - 1
    BY <1>1
  <2>4. buf[Around(start + n - 1, n)] = v[c - 1]
    BY <1>1, <2>3
  <2> QED BY <1>0, <1>1, <2>2, <2>4 DEF Newest
<1>4. ASSUME NEW i \in 0 .. n - 1 PROVE \E b \in c - n .. c - 1 : buf[i] = v[b]
  <2> DEFINE j == IF i >= start THEN i - start ELSE i + n - start
  <2>1. j \in 0 .. n - 1 /\ Around(start + j, n) = i
    BY <1>1 DEF Around
  <2>2. c - n + j \in c - n .. c - 1
    BY <2>1
  <2> HIDE DEF j
  <2> QED BY <1>1, <2>1, <2>2
<1>5. ASSUME NEW b \in c - n .. c - 1 PROVE \E i \in 0 .. n - 1 : buf[i] = v[b]
  <2> DEFINE j == b - (c - n)
  <2>1. j \in 0 .. n - 1 /\ c - n + j = b
    OBVIOUS
  <2>2. Around(start + j, n) \in 0 .. n - 1
    BY <1>1, <2>1 DEF Around
  <2> HIDE DEF j
  <2> QED BY <1>1, <2>1, <2>2
<1>6. {buf[i] : i \in 0 .. n - 1} = {v[b] : b \in c - n .. c - 1}
  BY <1>4, <1>5
<1> QED BY <1>0, <1>1, <1>2, <1>3, <1>6 DEF SeenIn, Between

\* The partial sums of some values.
LEMMA PartialSums ==
  ASSUME NEW m \in Nat, NEW vals \in [1 .. m -> Int]
  PROVE  /\ \E t \in [0 .. m -> Int] : t[0] = 0 /\ \A k \in 0 .. m - 1 : t[k + 1] = t[k] + vals[k + 1]
         /\ Total(vals) \in Int
<1> DEFINE g == [p \in Int \X Int |-> p[1] + p[2]]
<1>1. g \in [Int \X Int -> Int] /\ 0 \in Int
  OBVIOUS
<1>2. PICK t \in [0 .. m -> Int] : t[0] = 0 /\ \A k \in 0 .. m - 1 : t[k + 1] = g[<<t[k], vals[k + 1]>>]
  <2> HIDE DEF g
  <2> QED BY <1>1, LoopRuns, Zenon
<1>3. ASSUME NEW k \in 0 .. m - 1 PROVE t[k + 1] = t[k] + vals[k + 1]
  <2>1. t[k] \in Int /\ vals[k + 1] \in Int /\ t[k + 1] = g[<<t[k], vals[k + 1]>>]
    BY <1>2
  <2> QED BY <2>1
<1>4. Total(vals) = t[m]
  BY <1>2, <1>3, TotalRuns
<1>5. t[m] \in Int
  <2>1. m \in 0 .. m
    OBVIOUS
  <2> QED BY <2>1
<1> QED BY <1>2, <1>3, <1>4, <1>5

\* The last n of the first c values of f, the oldest first.
Fewer(c, n) == IF c < n THEN c ELSE n
Span(f, c, n) == [i \in 1 .. Fewer(c, n) |-> f[c - Fewer(c, n) + i - 1]]

\* The total of a window is the difference of two partial sums.
LEMMA SpanIsDifference ==
  ASSUME NEW n \in Nat, NEW c \in Nat, NEW f, \A b \in 0 .. c - 1 : f[b] \in Int,
         NEW t, \A b \in 0 .. c : t[b] \in Int, \A b \in 0 .. c - 1 : t[b + 1] = t[b] + f[b]
  PROVE  Total(Span(f, c, n)) = t[c] - t[c - Fewer(c, n)]
<1> PICK m : m = Fewer(c, n)
  OBVIOUS
<1>1. m \in 0 .. c /\ Span(f, c, n) = [i \in 1 .. m |-> f[c - m + i - 1]]
  BY DEF Fewer, Span
<1> DEFINE vals == [i \in 1 .. m |-> f[c - m + i - 1]]
           s == [k \in 0 .. m |-> t[c - m + k] - t[c - m]]
<1>2. vals \in [1 .. m -> Int]
  <2>1. \A i \in 1 .. m : c - m + i - 1 \in 0 .. c - 1
    BY <1>1
  <2> QED BY <2>1
<1>3. s[0] = 0
  <2>1. c - m \in 0 .. c /\ c - m + 0 = c - m
    BY <1>1
  <2> QED BY <1>1, <2>1
<1>4. ASSUME NEW k \in 0 .. m - 1 PROVE s[k + 1] = s[k] + vals[k + 1]
  <2>0. k \in Int /\ 0 <= k /\ k < m /\ m \in Int /\ m <= c
    BY <1>1
  <2>1. /\ c - m + k \in 0 .. c - 1 /\ c - m + k \in 0 .. c /\ c - m \in 0 .. c
        /\ c - m + (k + 1) = (c - m + k) + 1 /\ c - m + (k + 1) - 1 = c - m + k
        /\ k \in 0 .. m /\ k + 1 \in 0 .. m /\ k + 1 \in 1 .. m
    BY <2>0
  <2>2. PICK b : b = c - m + k
    OBVIOUS
  <2>3. t[b + 1] = t[b] + f[b] /\ t[b] \in Int /\ t[c - m] \in Int /\ f[b] \in Int
    BY <2>1, <2>2
  <2>4. s[k + 1] = t[b + 1] - t[c - m] /\ s[k] = t[b] - t[c - m] /\ vals[k + 1] = f[b]
    BY <2>1, <2>2
  <2> HIDE DEF s, vals
  <2> QED BY <2>3, <2>4
<1>5. s[m] = t[c] - t[c - m]
  <2>1. m \in 0 .. m /\ c - m + m = c
    BY <1>1
  <2> QED BY <2>1
<1>6. m \in Nat
  BY <1>1
<1> HIDE DEF vals, s
<1>7. Total(vals) = s[m]
  BY <1>2, <1>3, <1>4, <1>6, TotalRuns
<1> QED BY <1>1, <1>5, <1>7 DEF vals

\* The sum of a window is kept by adding the next value and taking off the one that leaves.
LEMMA SpanSlides ==
  ASSUME NEW n \in Nat \ {0}, NEW c \in Nat, NEW f, \A b \in 0 .. c : f[b] \in Int
  PROVE  /\ Total(Span(f, c, n)) \in Int
         /\ Total(Span(f, c + 1, n)) = Total(Span(f, c, n)) + f[c] - (IF c < n THEN 0 ELSE f[c - n])
<1> DEFINE vals == [i \in 1 .. c + 1 |-> f[i - 1]]
<1>1. c + 1 \in Nat /\ vals \in [1 .. c + 1 -> Int]
  <2>1. \A i \in 1 .. c + 1 : i - 1 \in 0 .. c
    OBVIOUS
  <2> QED BY <2>1
<1>2. PICK t \in [0 .. c + 1 -> Int] : \A k \in 0 .. (c + 1) - 1 : t[k + 1] = t[k] + vals[k + 1]
  <2> HIDE DEF vals
  <2> QED BY <1>1, PartialSums
<1>3. ASSUME NEW b \in 0 .. c PROVE t[b + 1] = t[b] + f[b]
  <2>1. b \in 0 .. (c + 1) - 1 /\ b + 1 \in 1 .. c + 1 /\ (b + 1) - 1 = b
    OBVIOUS
  <2> QED BY <1>2, <2>1
<1>4. (\A b \in 0 .. c + 1 : t[b] \in Int) /\ (\A b \in 0 .. c : t[b] \in Int)
  BY <1>2
<1> HIDE DEF vals
<1>5. ASSUME NEW d \in Nat, d <= c + 1 PROVE Total(Span(f, d, n)) = t[d] - t[d - Fewer(d, n)]
  <2>1. (\A b \in 0 .. d - 1 : f[b] \in Int) /\ \A b \in 0 .. d - 1 : t[b + 1] = t[b] + f[b]
    BY <1>3, <1>5
  <2>2. \A b \in 0 .. d : t[b] \in Int
    BY <1>4, <1>5
  <2> QED BY <2>1, <2>2, SpanIsDifference
<1>6. /\ Total(Span(f, c, n)) = t[c] - t[c - Fewer(c, n)]
      /\ Total(Span(f, c + 1, n)) = t[c + 1] - t[c + 1 - Fewer(c + 1, n)]
  <2>1. c \in Nat /\ c + 1 \in Nat /\ c <= c + 1 /\ c + 1 <= c + 1
    OBVIOUS
  <2>2. Total(Span(f, c, n)) = t[c] - t[c - Fewer(c, n)]
    BY <1>5, <2>1
  <2>3. PICK d \in Nat : d = c + 1
    BY <2>1
  <2>4. Total(Span(f, d, n)) = t[d] - t[d - Fewer(d, n)]
    BY <1>5, <2>1, <2>3
  <2>5. Span(f, d, n) = Span(f, c + 1, n) /\ Fewer(d, n) = Fewer(c + 1, n)
    BY <2>3
  <2>6. Total(Span(f, d, n)) = Total(Span(f, c + 1, n))
    BY <2>5
  <2>7. t[d] = t[c + 1]
    BY <2>3
  <2>8. t[d - Fewer(d, n)] = t[c + 1 - Fewer(c + 1, n)]
    BY <2>3 DEF Fewer
  <2>9. Total(Span(f, c + 1, n)) = t[c + 1] - t[c + 1 - Fewer(c + 1, n)]
    BY <2>4, <2>6, <2>7, <2>8
  <2> QED BY <2>2, <2>9
<1>7. t[c + 1] = t[c] + f[c] /\ t[c] \in Int /\ f[c] \in Int /\ t[c - Fewer(c, n)] \in Int
  <2>1. c - Fewer(c, n) \in 0 .. c
    BY DEF Fewer
  <2> QED BY <1>3, <1>4, <2>1
<1>8. CASE c < n
  <2>1. c - Fewer(c, n) = 0 /\ c + 1 - Fewer(c + 1, n) = 0
    BY <1>8 DEF Fewer
  <2> QED BY <1>6, <1>7, <1>8, <2>1
<1>9. CASE ~ (c < n)
  <2>1. c - Fewer(c, n) = c - n /\ c + 1 - Fewer(c + 1, n) = (c - n) + 1 /\ c - n \in 0 .. c
    BY <1>9 DEF Fewer
  <2>2. t[(c - n) + 1] = t[c - n] + f[c - n] /\ f[c - n] \in Int
    BY <1>3, <2>1
  <2>3. t[c - n] \in Int
    BY <1>4, <2>1
  <2>4. Total(Span(f, c, n)) = t[c] - t[c - n] /\ Total(Span(f, c + 1, n)) = t[c + 1] - t[(c - n) + 1]
    BY <1>6, <2>1
  <2> QED BY <1>7, <1>9, <2>2, <2>3, <2>4
<1> QED BY <1>8, <1>9

\* What the squared deviations add up to: n times the variance that bb keeps, by the
\* sums of the values and of their squares.
SquaresOf(w, n) == [i \in 1 .. n |-> w[i] * w[i]]
DeviationsOf(w, n, sum) == [i \in 1 .. n |-> (n * w[i] - sum) * (n * w[i] - sum)]
LEMMA DeviationsAddUp ==
  ASSUME NEW n \in Nat \ {0}, NEW w \in [1 .. n -> Int], NEW sum, sum = Total(w),
         NEW squares, squares = Total(SquaresOf(w, n))
  PROVE  /\ Total(DeviationsOf(w, n, sum)) = n * (n * squares - sum * sum)
         /\ (n * (n * squares - sum * sum)) \div n = n * squares - sum * sum
<1> DEFINE sq == [i \in 1 .. n |-> w[i] * w[i]]
           dev == [i \in 1 .. n |-> (n * w[i] - sum) * (n * w[i] - sum)]
<1>1. sum \in Int
  BY PartialSums
<1>2. sq \in [1 .. n -> Int] /\ dev \in [1 .. n -> Int]
  BY <1>1
<1>3. \A i \in 1 .. n : sq[i] = w[i] * w[i] /\ dev[i] = (n * w[i] - sum) * (n * w[i] - sum)
  OBVIOUS
<1>4. squares = Total(sq)
  BY DEF SquaresOf
<1> HIDE DEF sq, dev
<1>5. PICK a \in [0 .. n -> Int] : a[0] = 0 /\ \A k \in 0 .. n - 1 : a[k + 1] = a[k] + w[k + 1]
  BY PartialSums
<1>6. PICK b \in [0 .. n -> Int] : b[0] = 0 /\ \A k \in 0 .. n - 1 : b[k + 1] = b[k] + sq[k + 1]
  BY <1>2, PartialSums
<1>7. sum = a[n] /\ squares = b[n]
  <2>1. Total(w) = a[n]
    BY <1>5, TotalRuns
  <2>2. Total(sq) = b[n]
    BY <1>2, <1>6, TotalRuns
  <2> QED BY <1>4, <2>1, <2>2
<1> DEFINE t == [k \in 0 .. n |-> n * n * b[k] - 2 * n * sum * a[k] + k * sum * sum]
<1>8. t[0] = 0
  BY <1>1, <1>5, <1>6
<1>9. ASSUME NEW k \in 0 .. n - 1 PROVE t[k + 1] = t[k] + dev[k + 1]
  <2>2. /\ k \in 0 .. n /\ k + 1 \in 0 .. n /\ k + 1 \in 1 .. n
        /\ a[k] \in Int /\ b[k] \in Int /\ w[k + 1] \in Int
    BY <1>5, <1>6
  <2>3. a[k + 1] = a[k] + w[k + 1] /\ b[k + 1] = b[k] + w[k + 1] * w[k + 1]
    BY <1>3, <1>5, <1>6, <2>2
  <2>4. t[k + 1] = n * n * (b[k] + w[k + 1] * w[k + 1]) - 2 * n * sum * (a[k] + w[k + 1]) + (k + 1) * sum * sum
    BY <2>2, <2>3
  <2>5. t[k] = n * n * b[k] - 2 * n * sum * a[k] + k * sum * sum
    BY <2>2
  <2>6. dev[k + 1] = (n * w[k + 1] - sum) * (n * w[k + 1] - sum)
    BY <1>3, <2>2
  <2> HIDE DEF t
  <2>7. k \in Int /\ n \in Int
    BY <2>2
  <2>8. PICK x \in Int, y \in Int, z \in Int : x = a[k] /\ y = b[k] /\ z = w[k + 1]
    BY <2>2
  <2>9. PICK j \in Int, u \in Int, l \in Int : j = k /\ u = sum /\ l = n
    BY <1>1, <2>7
  <2>10. l * l * (y + z * z) - 2 * l * u * (x + z) + (j + 1) * u * u
         = (l * l * y - 2 * l * u * x + j * u * u) + (l * z - u) * (l * z - u)
    OBVIOUS
  <2> QED BY <2>4, <2>5, <2>6, <2>8, <2>9, <2>10
<1>10. t[n] = n * (n * squares - sum * sum)
  <2>1. ASSUME NEW l \in Int, NEW y \in Int, NEW u \in Int
        PROVE  l * l * y - 2 * l * u * u + l * u * u = l * (l * y - u * u)
    OBVIOUS
  <2>2. n \in 0 .. n /\ n \in Int /\ squares \in Int
    BY <1>6, <1>7
  <2>3. t[n] = n * n * squares - 2 * n * sum * sum + n * sum * sum
    BY <1>7, <2>2
  <2> HIDE DEF t
  <2> QED BY <1>1, <2>1, <2>2, <2>3
<1> HIDE DEF t
<1>11. Total(dev) = t[n]
  BY <1>2, <1>8, <1>9, TotalRuns
<1>12. ASSUME NEW x \in Int PROVE (n * x) \div n = x
  OBVIOUS
<1>13. n * squares - sum * sum \in Int
  BY <1>1, <1>6, <1>7
<1> QED BY <1>10, <1>11, <1>12, <1>13 DEF dev, DeviationsOf

\* The first k of some values.
First(vals, k) == [i \in 1 .. k |-> vals[i]]

\* What the loop gives is an integer, and the base if there is nothing to average;
\* a value more is a step more.
LEMMA EMALoop ==
  ASSUME NEW n \in Nat \ {0}, NEW base \in Int, NEW m \in Nat, NEW vals \in [1 .. m -> Int]
  PROVE  EMAOver(n, base, vals) \in Int /\ (m = 0 => EMAOver(n, base, vals) = base)
<1>1. PICK t : EMAChain(n, base, m, vals, t)
  BY EMAChains
<1>2. EMAOver(n, base, vals) = t[m]
  BY <1>1, EMARuns
<1>3. t[m] \in Int /\ t[0] = base
  BY <1>1 DEF EMAChain
<1> QED BY <1>2, <1>3

\* A value more is an EMA step more on what the loop gave before it.
LEMMA EMALoopAppends ==
  ASSUME NEW n \in Nat \ {0}, NEW base \in Int, NEW m \in Nat, NEW vals \in [1 .. m + 1 -> Int]
  PROVE  EMAOver(n, base, vals) = EMAStep(EMAOver(n, base, First(vals, m)), vals[m + 1], n)
<1>0. PICK k \in Nat : k = m + 1
  OBVIOUS
<1>1. PICK t : EMAChain(n, base, k, vals, t)
  <2>1. vals \in [1 .. k -> Int]
    BY <1>0
  <2> HIDE <1>0
  <2> QED BY <2>1, EMAChains
<1>2. EMAOver(n, base, vals) = t[k]
  <2>1. vals \in [1 .. k -> Int]
    BY <1>0
  <2> QED BY <1>1, <2>1, EMARuns
<1>3. PICK u : u = [i \in 0 .. m |-> t[i]]
  OBVIOUS
<1>4. PICK fewer \in [1 .. m -> Int] : fewer = First(vals, m)
  <2>1. First(vals, m) \in [1 .. m -> Int]
    BY DEF First
  <2> QED BY <2>1
<1>5. EMAChain(n, base, m, fewer, u)
  <2>1. \A i \in 0 .. m : t[i] \in Int /\ u[i] = t[i]
    BY <1>0, <1>1, <1>3 DEF EMAChain
  <2>2. u \in [0 .. m -> Int] /\ u[0] = base
    BY <1>1, <1>3, <2>1 DEF EMAChain
  <2>3. ASSUME NEW i \in 0 .. m - 1 PROVE u[i + 1] = EMAStep(u[i], fewer[i + 1], n)
    <3>1. i \in 0 .. m /\ i + 1 \in 0 .. m /\ i \in 0 .. k - 1 /\ i + 1 \in 1 .. m
      BY <1>0
    <3>2. fewer[i + 1] = vals[i + 1]
      BY <1>4, <3>1 DEF First
    <3>3. t[i + 1] = EMAStep(t[i], vals[i + 1], n)
      BY <1>1, <3>1 DEF EMAChain
    <3> QED BY <2>1, <3>1, <3>2, <3>3
  <2> QED BY <2>2, <2>3 DEF EMAChain
<1>6. EMAOver(n, base, fewer) = t[m]
  <2>1. EMAOver(n, base, fewer) = u[m]
    BY <1>4, <1>5, EMARuns
  <2>2. m \in 0 .. m
    OBVIOUS
  <2> QED BY <1>3, <2>1, <2>2
<1>7. t[k] = EMAStep(t[m], vals[m + 1], n)
  <2>1. m \in 0 .. k - 1 /\ k = m + 1
    BY <1>0
  <2> QED BY <1>1, <2>1 DEF EMAChain
<1> QED BY <1>2, <1>4, <1>6, <1>7

\* What the loop gives is an integer, and the base if there is nothing to average;
\* a value more is a step more.
LEMMA RMALoop ==
  ASSUME NEW n \in Nat \ {0}, NEW base \in Int, NEW m \in Nat, NEW vals \in [1 .. m -> Int]
  PROVE  RMAOver(n, base, vals) \in Int /\ (m = 0 => RMAOver(n, base, vals) = base)
<1>1. PICK t : RMAChain(n, base, m, vals, t)
  BY RMAChains
<1>2. RMAOver(n, base, vals) = t[m]
  BY <1>1, RMARuns
<1>3. t[m] \in Int /\ t[0] = base
  BY <1>1 DEF RMAChain
<1> QED BY <1>2, <1>3

\* A value more is an RMA step more on what the loop gave before it.
LEMMA RMALoopAppends ==
  ASSUME NEW n \in Nat \ {0}, NEW base \in Int, NEW m \in Nat, NEW vals \in [1 .. m + 1 -> Int]
  PROVE  RMAOver(n, base, vals) = RMAStep(RMAOver(n, base, First(vals, m)), vals[m + 1], n)
<1>0. PICK k \in Nat : k = m + 1
  OBVIOUS
<1>1. PICK t : RMAChain(n, base, k, vals, t)
  <2>1. vals \in [1 .. k -> Int]
    BY <1>0
  <2> HIDE <1>0
  <2> QED BY <2>1, RMAChains
<1>2. RMAOver(n, base, vals) = t[k]
  <2>1. vals \in [1 .. k -> Int]
    BY <1>0
  <2> QED BY <1>1, <2>1, RMARuns
<1>3. PICK u : u = [i \in 0 .. m |-> t[i]]
  OBVIOUS
<1>4. PICK fewer \in [1 .. m -> Int] : fewer = First(vals, m)
  <2>1. First(vals, m) \in [1 .. m -> Int]
    BY DEF First
  <2> QED BY <2>1
<1>5. RMAChain(n, base, m, fewer, u)
  <2>1. \A i \in 0 .. m : t[i] \in Int /\ u[i] = t[i]
    BY <1>0, <1>1, <1>3 DEF RMAChain
  <2>2. u \in [0 .. m -> Int] /\ u[0] = base
    BY <1>1, <1>3, <2>1 DEF RMAChain
  <2>3. ASSUME NEW i \in 0 .. m - 1 PROVE u[i + 1] = RMAStep(u[i], fewer[i + 1], n)
    <3>1. i \in 0 .. m /\ i + 1 \in 0 .. m /\ i \in 0 .. k - 1 /\ i + 1 \in 1 .. m
      BY <1>0
    <3>2. fewer[i + 1] = vals[i + 1]
      BY <1>4, <3>1 DEF First
    <3>3. t[i + 1] = RMAStep(t[i], vals[i + 1], n)
      BY <1>1, <3>1 DEF RMAChain
    <3> QED BY <2>1, <3>1, <3>2, <3>3
  <2> QED BY <2>2, <2>3 DEF RMAChain
<1>6. RMAOver(n, base, fewer) = t[m]
  <2>1. RMAOver(n, base, fewer) = u[m]
    BY <1>4, <1>5, RMARuns
  <2>2. m \in 0 .. m
    OBVIOUS
  <2> QED BY <1>3, <2>1, <2>2
<1>7. t[k] = RMAStep(t[m], vals[m + 1], n)
  <2>1. m \in 0 .. k - 1 /\ k = m + 1
    BY <1>0
  <2> QED BY <1>1, <2>1 DEF RMAChain
<1> QED BY <1>2, <1>4, <1>6, <1>7

\* The average of all values, the first being what it starts from.
EMAAll(n, vals) == EMAOver(n, vals[1], [i \in 1 .. Len(vals) - 1 |-> vals[i + 1]])
LEMMA EMAFromIsAll ==
  ASSUME NEW n \in Nat \ {0}, NEW m \in Nat, NEW vals \in [1 .. m -> Int]
  PROVE  EMAFrom(vals, n) = IF m < n THEN NaN ELSE EMAAll(n, vals)
<1>1. vals \in Seq(Int) /\ Len(vals) = m
  OBVIOUS
<1>2. CASE m < n
  BY <1>1, <1>2 DEF EMAFrom, FoldLeft, MapThenFoldSet
<1>3. CASE ~ (m < n)
  <2>1. Head(vals) = vals[1] /\ Tail(vals) = [i \in 1 .. Len(vals) - 1 |-> vals[i + 1]]
    <3>1. vals # <<>>
      BY <1>1, <1>3
    <3>2. Head(vals) = vals[1] /\ Tail(vals) \in Seq(Int) /\ Len(Tail(vals)) = m - 1
      BY <1>1, <3>1
    <3>3. \A i \in 1 .. m - 1 : Tail(vals)[i] = vals[i + 1]
      BY <1>1, <3>1
    <3>4. \A s \in Seq(Int) : s = [i \in 1 .. Len(s) |-> s[i]]
      OBVIOUS
    <3> QED BY <1>1, <3>2, <3>3, <3>4
  <2>2. EMAFrom(vals, n) = EMAOver(n, Head(vals), Tail(vals))
    BY <1>1, <1>3 DEF EMAFrom, EMAOver, FoldLeft, MapThenFoldSet
  <2> QED BY <1>3, <2>1, <2>2 DEF EMAAll
<1> QED BY <1>2, <1>3

\* calcEMAFromChrono over one value more is one step of indicatorState.updateEMA.
LEMMA EMAAppends ==
  ASSUME NEW n \in Nat \ {0}, NEW m \in Nat, NEW vals \in [1 .. m + 1 -> Int]
  PROVE  /\ EMAAll(n, vals) \in Int
         /\ m = 0 => EMAAll(n, vals) = vals[1]
         /\ m # 0 => EMAAll(n, vals) = EMAStep(EMAAll(n, First(vals, m)), vals[m + 1], n)
<1>1. PICK base \in Int, rest \in [1 .. m -> Int] : base = vals[1] /\ rest = [i \in 1 .. m |-> vals[i + 1]]
  <2>1. vals[1] \in Int /\ [i \in 1 .. m |-> vals[i + 1]] \in [1 .. m -> Int]
    OBVIOUS
  <2> QED BY <2>1
<1>2. EMAAll(n, vals) = EMAOver(n, base, rest)
  <2>1. Len(vals) - 1 = m
    OBVIOUS
  <2> QED BY <1>1, <2>1 DEF EMAAll
<1>3. EMAOver(n, base, rest) \in Int /\ (m = 0 => EMAOver(n, base, rest) = base)
  BY <1>1, EMALoop
<1>4. ASSUME m # 0 PROVE EMAAll(n, vals) = EMAStep(EMAAll(n, First(vals, m)), vals[m + 1], n)
  <2>1. PICK l \in Nat : m = l + 1
    <3>1. m - 1 \in Nat /\ (m - 1) + 1 = m
      BY <1>4
    <3> QED BY <3>1
  <2>2. rest \in [1 .. l + 1 -> Int]
    BY <1>1, <2>1
  <2>3. EMAOver(n, base, rest) = EMAStep(EMAOver(n, base, First(rest, l)), rest[l + 1], n)
    BY <1>1, <2>1, <2>2, EMALoopAppends
  <2>4. rest[l + 1] = vals[m + 1]
    <3>1. l + 1 \in 1 .. m /\ (l + 1) + 1 = m + 1
      BY <2>1
    <3> QED BY <1>1, <3>1, <2>1
  <2>5. EMAAll(n, First(vals, m)) = EMAOver(n, base, First(rest, l))
    <3>1. Len(First(vals, m)) - 1 = l /\ First(vals, m)[1] = base
      BY <1>1, <2>1 DEF First
    <3>2. [i \in 1 .. l |-> First(vals, m)[i + 1]] = First(rest, l)
      BY <1>1, <2>1 DEF First
    <3> QED BY <3>1, <3>2 DEF EMAAll
  <2> QED BY <1>2, <2>3, <2>4, <2>5
<1> QED BY <1>1, <1>2, <1>3, <1>4

\* The same of the other average: the loop starts from the mean of the first n values.
RMAAll(n, vals) ==
  RMAOver(n, Total(First(vals, n)) \div n, [i \in 1 .. Len(vals) - n |-> vals[i + n]])
LEMMA RMAFromIsAll ==
  ASSUME NEW n \in Nat \ {0}, NEW m \in Nat, NEW vals \in [1 .. m -> Int]
  PROVE  RMAFrom(vals, n) = IF m < n THEN NaN ELSE RMAAll(n, vals)
<1>1. vals \in Seq(Int) /\ Len(vals) = m
  OBVIOUS
<1>2. CASE m < n
  BY <1>1, <1>2 DEF RMAFrom, FoldLeft, MapThenFoldSet
<1>3. CASE ~ (m < n)
  <2>1. SubSeq(vals, 1, n) = First(vals, n)
    BY <1>1, <1>3 DEF First
  <2>2. SubSeq(vals, n + 1, Len(vals)) = [i \in 1 .. Len(vals) - n |-> vals[i + n]]
    BY <1>1, <1>3
  <2>3. RMAFrom(vals, n) = RMAOver(n, Total(SubSeq(vals, 1, n)) \div n, SubSeq(vals, n + 1, Len(vals)))
    BY <1>1, <1>3 DEF RMAFrom, RMAOver, FoldLeft, MapThenFoldSet
  <2> QED BY <1>3, <2>1, <2>2, <2>3 DEF RMAAll
<1> QED BY <1>2, <1>3

\* calcRMAFromChrono starts from the mean of n values; over one more it is one step more.
LEMMA RMAAppends ==
  ASSUME NEW n \in Nat \ {0}, NEW m \in Nat, m + 1 >= n, NEW vals \in [1 .. m + 1 -> Int]
  PROVE  /\ RMAAll(n, vals) \in Int
         /\ m + 1 = n => RMAAll(n, vals) = Total(vals) \div n
         /\ m >= n => RMAAll(n, vals) = RMAStep(RMAAll(n, First(vals, m)), vals[m + 1], n)
<1>0. PICK left \in Nat : left + n = m + 1
  <2>1. m + 1 - n \in Nat /\ (m + 1 - n) + n = m + 1
    OBVIOUS
  <2> QED BY <2>1
<1>1. PICK rest \in [1 .. left -> Int], mean \in Int :
        /\ left + n = m + 1 /\ rest = [i \in 1 .. left |-> vals[i + n]]
        /\ mean = Total(First(vals, n)) \div n
  <2>1. First(vals, n) \in [1 .. n -> Int]
    BY DEF First
  <2>2. Total(First(vals, n)) \in Int
    BY <2>1, PartialSums
  <2>3. ASSUME NEW a \in Int, NEW b \in Nat \ {0} PROVE a \div b \in Int
    OBVIOUS
  <2>4. Total(First(vals, n)) \div n \in Int
    BY <2>2, <2>3
  <2>5. [i \in 1 .. left |-> vals[i + n]] \in [1 .. left -> Int]
    <3>1. \A i \in 1 .. left : i + n \in 1 .. m + 1
      BY <1>0
    <3> QED BY <3>1
  <2> QED BY <1>0, <2>4, <2>5
<1>2. RMAAll(n, vals) = RMAOver(n, mean, rest)
  <2>1. Len(vals) - n = left
    BY <1>1
  <2> QED BY <1>1, <2>1 DEF RMAAll
<1>3. RMAOver(n, mean, rest) \in Int /\ (left = 0 => RMAOver(n, mean, rest) = mean)
  BY <1>0, <1>1, RMALoop
<1>4. ASSUME m >= n PROVE RMAAll(n, vals) = RMAStep(RMAAll(n, First(vals, m)), vals[m + 1], n)
  <2>1. PICK l \in Nat : left = l + 1 /\ m = l + n
    <3>1. left - 1 \in Nat /\ left = (left - 1) + 1 /\ m = (left - 1) + n
      BY <1>0, <1>4
    <3> QED BY <3>1
  <2>2. rest \in [1 .. l + 1 -> Int]
    BY <1>1, <2>1
  <2>3. RMAOver(n, mean, rest) = RMAStep(RMAOver(n, mean, First(rest, l)), rest[l + 1], n)
    BY <1>1, <2>1, <2>2, RMALoopAppends
  <2>4. rest[l + 1] = vals[m + 1]
    <3>1. l + 1 \in 1 .. left /\ (l + 1) + n = m + 1
      BY <1>0, <2>1
    <3> QED BY <1>1, <3>1
  <2>5. RMAAll(n, First(vals, m)) = RMAOver(n, mean, First(rest, l))
    <3>1. Len(First(vals, m)) - n = l
      BY <2>1 DEF First
    <3>2. First(First(vals, m), n) = First(vals, n)
      BY <1>4 DEF First
    <3>3. [i \in 1 .. l |-> First(vals, m)[i + n]] = First(rest, l)
      <4>1. \A i \in 1 .. l : i \in 1 .. left /\ i + n \in 1 .. m
        BY <2>1
      <4> QED BY <1>1, <4>1 DEF First
    <3> QED BY <1>1, <3>1, <3>2, <3>3 DEF RMAAll
  <2> QED BY <1>2, <2>3, <2>4, <2>5
<1>5. ASSUME m + 1 = n PROVE RMAAll(n, vals) = Total(vals) \div n
  <2>1. left = 0 /\ First(vals, n) = vals
    BY <1>0, <1>5 DEF First
  <2> QED BY <1>1, <1>2, <1>3, <2>1
<1> QED BY <1>2, <1>3, <1>4, <1>5

\* The first c values of a series that counts its bars from 0, the oldest first.
Hist(v, c) == [i \in 1 .. c |-> v[i - 1]]
LEMMA HistoryGrows ==
  ASSUME NEW c \in Nat, NEW v, \A b \in 0 .. c : v[b] \in Int
  PROVE  /\ Hist(v, c) \in [1 .. c -> Int] /\ Hist(v, c + 1) \in [1 .. c + 1 -> Int]
         /\ First(Hist(v, c + 1), c) = Hist(v, c) /\ Hist(v, c + 1)[c + 1] = v[c]
<1>1. \A i \in 1 .. c + 1 : i - 1 \in 0 .. c
  OBVIOUS
<1>2. Hist(v, c) \in [1 .. c -> Int] /\ Hist(v, c + 1) \in [1 .. c + 1 -> Int]
  BY <1>1 DEF Hist
<1>3. First(Hist(v, c + 1), c) = Hist(v, c)
  BY DEF First, Hist
<1>4. c + 1 \in 1 .. c + 1 /\ (c + 1) - 1 = c
  OBVIOUS
<1> QED BY <1>2, <1>3, <1>4 DEF Hist

\* The provider's series holds the prices.
LEMMA LoadedTells ==
  ASSUME data \in [0 .. LastBar -> Int]
  PROVE  LengthOf(Loaded) = LastBar + 1 /\ \A i \in 0 .. LastBar : LastOf(Loaded, i) = data[LastBar - i]
<1>0. PICK n \in IntSizes : n = LastBar + 1 /\ n \in Nat
  <2>1. LastBar + 1 \in 0 .. LastBar + 1 /\ LastBar + 1 \in Nat
    BY LastBarAssumption
  <2> QED BY <2>1, LastBarAssumption
<1>1. PICK vals : vals = [k \in 1 .. n |-> data[k - 1]]
  OBVIOUS
<1>2. PICK q : q = Fed(NewQueue(n), vals)
  OBVIOUS
<1>3. LengthOf(q) = n /\ \A i \in 0 .. n - 1 : LastOf(q, i) = vals[n - i]
  <2>1. vals = [k \in 1 .. n |-> vals[k]]
    BY <1>1
  <2> HIDE <1>1
  <2> QED BY <1>2, <2>1, FedHasAll
<1>4. ASSUME NEW i \in 0 .. LastBar PROVE LastOf(q, i) = data[LastBar - i]
  <2>1. i \in 0 .. n - 1 /\ n - i \in 1 .. n /\ (n - i) - 1 = LastBar - i
    BY <1>0, LastBarAssumption
  <2> QED BY <1>1, <1>3, <2>1
<1>5. Loaded = q
  BY <1>0, <1>1, <1>2 DEF Loaded
<1> QED BY <1>0, <1>3, <1>4, <1>5

\* What is read of it at a bar is its history: all of it, or the newest values.
LEMMA HistoryIsRead ==
  ASSUME data \in [0 .. LastBar -> Int], NEW e \in 0 .. LastBar
  PROVE  UpTo(e) = Hist(data, e + 1) /\ WindowAt(Loaded, e, Length) = Span(data, e + 1, Length)
<1>0. LastBar \in Nat /\ Length \in Nat \ {0}
  BY LastBarAssumption, LengthAssumption
<1>1. PICK ser : ser = Loaded
  OBVIOUS
<1>2. LengthOf(ser) = LastBar + 1 /\ \A i \in 0 .. LastBar : LastOf(ser, i) = data[LastBar - i]
  BY <1>1, LoadedTells
<1>3. PICK n \in IntSizes : n = e + 1 /\ n \in Nat
  <2>1. e + 1 \in 0 .. LastBar + 1 /\ e + 1 \in Nat
    BY <1>0
  <2> QED BY <2>1, LastBarAssumption
<1>4. PICK vals : vals = [k \in 1 .. n |-> data[k - 1]]
  OBVIOUS
<1>5. PICK q : q = Fed(NewQueue(n), vals)
  OBVIOUS
<1>6. LengthOf(q) = n /\ \A i \in 0 .. n - 1 : LastOf(q, i) = vals[n - i]
  <2>1. vals = [k \in 1 .. n |-> vals[k]]
    BY <1>4
  <2> HIDE <1>4
  <2> QED BY <1>5, <2>1, FedHasAll
<1>7. AtEvalPoint(ser, e) = q
  <2>1. (IF e + 1 > LengthOf(ser) THEN LengthOf(ser) ELSE e + 1) = n
    BY <1>0, <1>2, <1>3
  <2>2. ASSUME NEW k \in 1 .. n PROVE LastOf(ser, n - k + (LengthOf(ser) - n)) = data[k - 1]
    <3>1. n - k + (LastBar + 1 - n) = LastBar + 1 - k /\ LastBar + 1 - k \in 0 .. LastBar
          /\ LastBar - (LastBar + 1 - k) = k - 1
      BY <1>0, <1>3
    <3>2. LastOf(ser, LastBar + 1 - k) = data[k - 1]
      BY <1>2, <3>1
    <3>3. n - k + (LengthOf(ser) - n) = LastBar + 1 - k
      BY <1>0, <1>2, <1>3
    <3> QED BY <3>2, <3>3
  <2>3. [k \in 1 .. n |-> LastOf(ser, n - k + (LengthOf(ser) - n))] = vals
    BY <1>4, <2>2
  <2> QED BY <1>5, <2>1, <2>3 DEF AtEvalPoint
<1>8. Chrono(q) = Hist(data, e + 1)
  <2>1. ASSUME NEW i \in 1 .. n PROVE LastOf(q, n - i) = data[i - 1]
    <3>1. n - i \in 0 .. n - 1 /\ n - (n - i) = i
      BY <1>3
    <3> QED BY <1>4, <1>6, <3>1
  <2> QED BY <1>3, <1>6, <2>1 DEF Chrono, Hist
<1>9. WindowAt(ser, e, Length) = Span(data, e + 1, Length)
  <2>1. PICK m : m = Fewer(e + 1, Length)
    OBVIOUS
  <2>2. m \in 0 .. e + 1
    BY <1>0, <2>1 DEF Fewer
  <2>3. Max({0, Min({Length, e + 1, LengthOf(ser)})}) = m
    <3>1. Min({Length, e + 1, LastBar + 1}) = m
      BY <1>0, <2>1 DEF Fewer, Min
    <3>2. Max({0, m}) = m
      BY <2>2 DEF Max
    <3> QED BY <1>2, <3>1, <3>2
  <2>4. ASSUME NEW i \in 1 .. m PROVE LastOf(ser, LengthOf(ser) - 1 - e + m - i) = data[(e + 1) - m + i - 1]
    <3>1. (LastBar + 1) - 1 - e + m - i = LastBar - ((e + 1) - m + i - 1)
      BY <1>0, <2>2
    <3>2. LastBar - ((e + 1) - m + i - 1) \in 0 .. LastBar
          /\ LastBar - (LastBar - ((e + 1) - m + i - 1)) = (e + 1) - m + i - 1
      BY <1>0, <2>2
    <3> QED BY <1>2, <3>1, <3>2
  <2>5. WindowAt(ser, e, Length) = [i \in 1 .. m |-> LastOf(ser, LengthOf(ser) - 1 - e + m - i)]
    BY <2>3 DEF WindowAt
  <2>6. Span(data, e + 1, Length) = [i \in 1 .. m |-> data[(e + 1) - m + i - 1]]
    BY <2>1 DEF Span
  <2> QED BY <2>4, <2>5, <2>6
<1> QED BY <1>1, <1>7, <1>8, <1>9 DEF UpTo

-----------------------------------------------------------------------------
(* sma and bb. *)

Squares(v) == [b \in Nat |-> v[b] * v[b]]
SumsAfter(s, v, c, n) ==
  /\ s = [window |-> s.window, sum |-> Total(Span(v, c, n)), sumSq |-> Total(Span(Squares(v), c, n))]
  /\ Holding(s.window, v, c, n)

\* Nothing adds up to nothing.
LEMMA NothingTotals == ASSUME NEW f, NEW n \in Nat PROVE Total(Span(f, 0, n)) = 0
<1>1. Span(f, 0, n) = [i \in 1 .. 0 |-> 0]
  BY DEF Span, Fewer
<1>2. Total([i \in 1 .. 0 |-> 0]) = [k \in 0 .. 0 |-> 0][0]
  <2> PICK vals, t : vals = [i \in 1 .. 0 |-> 0] /\ t = [k \in 0 .. 0 |-> 0]
    OBVIOUS
  <2>1. vals \in [1 .. 0 -> Int] /\ t[0] = 0 /\ 0 \in Nat
    OBVIOUS
  <2>2. Total(vals) = t[0]
    BY <2>1, TotalRuns
  <2> QED BY <2>2
<1> QED BY <1>1, <1>2

\* What is known of the size of a window.
LEMMA WindowFills ==
  ASSUME NEW n \in Nat \ {0}, NEW c \in Nat, NEW v, NEW w, Holding(w, v, c, n)
  PROVE  w.cap = n /\ w.count = (IF c < n THEN c ELSE n) /\ (Full(w) <=> c >= n)
<1>1. w.cap = n /\ w.count = IF c < n THEN c ELSE n
  BY DEF Holding
<1> QED BY <1>1 DEF Full

\* newIndicatorState: no value is in the window and the sums are 0.
LEMMA SumsStart ==
  ASSUME NEW n \in Nat \ {0}, n <= MaxIndicatorWindowLength, NEW v
  PROVE  SumsAfter(NewSums(n), v, 0, n)
<1>1. Holding(NewWindow(n), v, 0, n)
  BY NewWindowHolds
<1>2. Total(Span(v, 0, n)) = 0 /\ Total(Span(Squares(v), 0, n)) = 0
  BY NothingTotals
<1> QED BY <1>1, <1>2 DEF SumsAfter, NewSums

\* The sums of sma and bb stay the totals of their window.
LEMMA SumsStep ==
  ASSUME NEW n \in Nat \ {0}, NEW c \in Nat, NEW v, \A b \in 0 .. c : v[b] \in Int,
         NEW s, SumsAfter(s, v, c, n)
  PROVE  SumsAfter(SumsUpdated(s, v[c]), v, c + 1, n)
<1>0. PICK x \in Int : x = v[c]
  <2>1. v[c] \in Int
    OBVIOUS
  <2> QED BY <2>1
<1>w. PICK w : w = s.window
  OBVIOUS
<1>1. Holding(w, v, c, n)
  BY <1>0, <1>w DEF SumsAfter
<1>2. /\ Holding(Pushed(w, x), v, c + 1, n)
      /\ Replaced(w) = IF c < n THEN 0 ELSE v[c - n]
  BY <1>0, <1>w, <1>1, PushHolds
<1>3. PICK sq : sq = Squares(v)
  OBVIOUS
<1>4. \A b \in 0 .. c : sq[b] = v[b] * v[b] /\ sq[b] \in Int
  BY <1>3 DEF Squares
<1>5. Total(Span(v, c + 1, n)) = Total(Span(v, c, n)) + v[c] - (IF c < n THEN 0 ELSE v[c - n])
  BY SpanSlides
<1>6. Total(Span(sq, c + 1, n)) = Total(Span(sq, c, n)) + sq[c] - (IF c < n THEN 0 ELSE sq[c - n])
  BY <1>4, SpanSlides
<1>7. sq[c] = x * x /\ (IF c < n THEN 0 ELSE sq[c - n]) = Replaced(w) * Replaced(w)
  <2>1. CASE c < n
    BY <1>0, <1>w, <1>2, <1>4, <2>1
  <2>2. CASE ~ (c < n)
    <3>1. c - n \in 0 .. c /\ c \in 0 .. c
      BY <2>2
    <3> QED BY <1>0, <1>w, <1>2, <1>4, <2>2, <3>1
  <2> QED BY <2>1, <2>2
<1>8. s.sum = Total(Span(v, c, n)) /\ s.sumSq = Total(Span(sq, c, n))
  BY <1>3 DEF SumsAfter
<1>9. SumsUpdated(s, x) = [window |-> Pushed(w, x), sum |-> Total(Span(v, c + 1, n)),
                           sumSq |-> Total(Span(sq, c + 1, n))]
  BY <1>0, <1>w, <1>2, <1>5, <1>6, <1>7, <1>8 DEF SumsUpdated
<1> QED BY <1>0, <1>w, <1>2, <1>3, <1>9 DEF SumsAfter

\* The window read from the series is the end of its history.
LEMMA FewIsSpan ==
  ASSUME NEW n \in Nat \ {0}, NEW c \in Nat, c >= n, NEW v, \A b \in 0 .. c - 1 : v[b] \in Int
  PROVE  /\ LastFew(Hist(v, c), n) = Span(v, c, n)
         /\ Span(v, c, n) \in [1 .. n -> Int] /\ Len(Span(v, c, n)) = n
         /\ \A i \in 1 .. n : Span(v, c, n)[i] = v[c - n + i - 1]
<1>1. Span(v, c, n) = [i \in 1 .. n |-> v[c - n + i - 1]]
  BY DEF Span, Fewer
<1>2. \A i \in 1 .. n : c - n + i - 1 \in 0 .. c - 1
  OBVIOUS
<1>3. Span(v, c, n) \in [1 .. n -> Int]
  BY <1>1, <1>2
<1>4. Hist(v, c) \in [1 .. c -> Int]
  BY DEF Hist
<1>5. SubSeq(Hist(v, c), c - n + 1, c) = [i \in 1 .. n |-> v[c - n + i - 1]]
  <2>1. c - n + 1 \in 1 .. c
    OBVIOUS
  <2>2. SubSeq(Hist(v, c), c - n + 1, c) = [i \in 1 .. c - (c - n + 1) + 1 |-> Hist(v, c)[c - n + 1 + i - 1]]
    BY <1>4, <2>1
  <2>3. \A i \in 1 .. n : c - n + 1 + i - 1 \in 1 .. c /\ (c - n + 1 + i - 1) - 1 = c - n + i - 1
    OBVIOUS
  <2>4. \A i \in 1 .. n : Hist(v, c)[c - n + 1 + i - 1] = v[c - n + i - 1]
    BY <2>3 DEF Hist
  <2>5. c - (c - n + 1) + 1 = n
    OBVIOUS
  <2> QED BY <2>2, <2>4, <2>5
<1>6. Len(Hist(v, c)) = c
  BY <1>4
<1>7. LastFew(Hist(v, c), n) = SubSeq(Hist(v, c), c - n + 1, c)
  BY <1>6 DEF LastFew
<1>8. LastFew(Hist(v, c), n) = Span(v, c, n)
  BY <1>1, <1>5, <1>7
<1>9. Len(Span(v, c, n)) = n
  BY <1>3
<1> QED BY <1>1, <1>3, <1>8, <1>9

\* Once there are n values, the sums give the mean and the variance of the window, and
\* before that neither way gives any.
LEMMA SumsMeet ==
  ASSUME NEW n \in Nat \ {0}, NEW c \in Nat, NEW v, \A b \in 0 .. c - 1 : v[b] \in Int,
         NEW s, SumsAfter(s, v, c, n)
  PROVE  SMAOf(s) = SMAOver(Span(v, c, n), n) /\ BBOf(s) = BBFrom(Hist(v, c), n)
<1>1. Holding(s.window, v, c, n)
  BY DEF SumsAfter
<1>2. s.window.cap = n /\ (Full(s.window) <=> c >= n)
  <2> PICK w : w = s.window
    OBVIOUS
  <2>1. Holding(w, v, c, n)
    BY <1>1
  <2>2. w.cap = n /\ (Full(w) <=> c >= n)
    BY <2>1, WindowFills
  <2> QED BY <2>2
<1>3. Hist(v, c) \in [1 .. c -> Int] /\ Len(Hist(v, c)) = c
  <2>1. \A i \in 1 .. c : i - 1 \in 0 .. c - 1
    OBVIOUS
  <2> QED BY <2>1 DEF Hist
<1>4. CASE c < n
  <2>1. Len(Span(v, c, n)) = c
    BY <1>4 DEF Span, Fewer
  <2>2. ~ Full(s.window)
    BY <1>2, <1>4
  <2>3. SMAOf(s) = NaN /\ BBOf(s) = <<NaN, NaN>>
    BY <2>2 DEF SMAOf, BBOf
  <2>4. SMAOver(Span(v, c, n), n) = NaN
    BY <1>4, <2>1 DEF SMAOver
  <2>5. BBFrom(Hist(v, c), n) = <<NaN, NaN>>
    BY <1>3, <1>4 DEF BBFrom
  <2> QED BY <2>3, <2>4, <2>5
<1>5. CASE c >= n
  <2>1. PICK win \in [1 .. n -> Int] :
          /\ win = Span(v, c, n) /\ LastFew(Hist(v, c), n) = win /\ Len(win) = n
          /\ \A i \in 1 .. n : win[i] = v[c - n + i - 1]
    <3>1. /\ LastFew(Hist(v, c), n) = Span(v, c, n)
          /\ Span(v, c, n) \in [1 .. n -> Int] /\ Len(Span(v, c, n)) = n
          /\ \A i \in 1 .. n : Span(v, c, n)[i] = v[c - n + i - 1]
      BY <1>5, FewIsSpan
    <3> QED BY <3>1
  <2>2. PICK sum, squares : sum = Total(win) /\ squares = Total(SquaresOf(win, n))
    OBVIOUS
  <2>3. s.sum = sum /\ s.sumSq = squares
    <3>1. \A i \in 1 .. n : c - n + i - 1 \in Nat
      BY <1>5
    <3>2. Span(Squares(v), c, n) = [i \in 1 .. n |-> Squares(v)[c - n + i - 1]]
      BY <1>5 DEF Span, Fewer
    <3>3. Span(Squares(v), c, n) = [i \in 1 .. n |-> win[i] * win[i]]
      BY <2>1, <3>1, <3>2 DEF Squares
    <3> QED BY <2>1, <2>2, <3>3 DEF SumsAfter, SquaresOf
  <2>4. Full(s.window)
    BY <1>2, <1>5
  <2>5. SMAOf(s) = sum \div n /\ BBOf(s) = <<sum \div n, n * squares - sum * sum>>
    BY <1>2, <2>3, <2>4 DEF SMAOf, BBOf
  <2>6. SMAOver(win, n) = sum \div n
    BY <2>1, <2>2 DEF SMAOver
  <2>7. /\ Total(DeviationsOf(win, n, sum)) = n * (n * squares - sum * sum)
        /\ (n * (n * squares - sum * sum)) \div n = n * squares - sum * sum
    BY <2>1, <2>2, DeviationsAddUp
  <2>8. BBFrom(Hist(v, c), n) = <<sum \div n, n * squares - sum * sum>>
    <3> DEFINE deviations == [i \in 1 .. n |-> n * win[i] - Total(win)]
    <3>1. BBFrom(Hist(v, c), n)
            = <<SMAOver(win, n), Total([i \in 1 .. n |-> deviations[i] * deviations[i]]) \div n>>
      <4>1. ~ (Len(Hist(v, c)) < n)
        BY <1>3, <1>5
      <4> QED BY <2>1, <4>1, Zenon DEF BBFrom
    <3>2. [i \in 1 .. n |-> deviations[i] * deviations[i]]
            = DeviationsOf(win, n, sum)
      <4>1. \A i \in 1 .. n : deviations[i] = n * win[i] - sum
        BY <2>2
      <4> HIDE DEF deviations
      <4> QED BY <4>1 DEF DeviationsOf
    <3> HIDE DEF deviations
    <3> QED BY <2>6, <2>7, <3>1, <3>2
  <2> QED BY <2>1, <2>5, <2>6, <2>8
<1> QED BY <1>4, <1>5

-----------------------------------------------------------------------------
(* mom and roc, highest and lowest: the window alone. *)

\* mom and roc read the ends of their window, or the same two values of the history.
LEMMA EndsMeet ==
  ASSUME NEW n \in Nat \ {0}, NEW c \in Nat, NEW v, NEW w, Holding(w, v, c, n + 1)
  PROVE  MOMOf(w, n) = MOMFrom(Hist(v, c), n) /\ ROCOf(w, n) = ROCFrom(Hist(v, c), n)
<1>0. PICK k \in Nat \ {0} : k = n + 1
  OBVIOUS
<1>1. Holding(w, v, c, k)
  BY <1>0
<1>2. w.cap = k /\ w.count = IF c < k THEN c ELSE k
  BY <1>1, WindowFills
<1>3. Len(Hist(v, c)) = c
  BY DEF Hist
<1>4. CASE c <= n
  <2>1. w.count < n + 1
    BY <1>0, <1>2, <1>4
  <2> QED BY <1>3, <1>4, <2>1 DEF MOMOf, MOMFrom, ROCOf, ROCFrom
<1>5. CASE ~ (c <= n)
  <2>1. ~ (w.count < n + 1)
    BY <1>0, <1>2, <1>5
  <2>2. Oldest(w) = v[c - k] /\ Newest(w) = v[c - 1]
    <3>1. c >= k
      BY <1>0, <1>5
    <3> QED BY <1>1, <3>1, ReadOff
  <2>3. Hist(v, c)[c] = v[c - 1] /\ Hist(v, c)[c - n] = v[c - k]
    <3>1. c \in 1 .. c /\ c - n \in 1 .. c /\ (c - n) - 1 = c - k
      BY <1>0, <1>5
    <3> QED BY <3>1 DEF Hist
  <2>4. Hist(v, c)[Len(Hist(v, c))] = Newest(w) /\ Hist(v, c)[Len(Hist(v, c)) - n] = Oldest(w)
        /\ ~ (Len(Hist(v, c)) <= n)
    BY <1>3, <1>5, <2>2, <2>3
  <2> QED BY <2>1, <2>4 DEF MOMOf, MOMFrom, ROCOf, ROCFrom
<1> QED BY <1>4, <1>5

\* highest and lowest look through their window, or the end of the history.
LEMMA ExtremaMeet ==
  ASSUME NEW n \in Nat \ {0}, NEW c \in Nat, NEW v, \A b \in 0 .. c - 1 : v[b] \in Int,
         NEW w, Holding(w, v, c, n), NEW isMax \in BOOLEAN
  PROVE  ExtremaOf(w, isMax) = ExtremaOver(Span(v, c, n), n, isMax)
<1>1. Full(w) <=> c >= n
  BY WindowFills
<1>2. CASE c < n
  <2>1. Len(Span(v, c, n)) = c
    BY <1>2 DEF Span, Fewer
  <2>2. ~ Full(w)
    BY <1>1, <1>2
  <2> QED BY <1>2, <2>1, <2>2 DEF ExtremaOf, ExtremaOver
<1>3. CASE c >= n
  <2>1. {w.buf[i] : i \in 0 .. w.cap - 1} = {v[b] : b \in c - n .. c - 1}
    <3>1. SeenIn(w) = Between(v, c - n, c - 1)
      BY <1>3, ReadOff
    <3> QED BY <3>1 DEF SeenIn, Between
  <2>2. /\ Span(v, c, n) \in [1 .. n -> Int] /\ Len(Span(v, c, n)) = n
        /\ \A i \in 1 .. n : Span(v, c, n)[i] = v[c - n + i - 1]
    BY <1>3, FewIsSpan
  <2>3. ToSet(Span(v, c, n)) = {v[b] : b \in c - n .. c - 1}
    <3>1. ToSet(Span(v, c, n)) = {Span(v, c, n)[i] : i \in 1 .. n}
      BY <2>2 DEF ToSet
    <3>2. ASSUME NEW i \in 1 .. n PROVE \E b \in c - n .. c - 1 : Span(v, c, n)[i] = v[b]
      <4>1. c - n + i - 1 \in c - n .. c - 1
        BY <1>3
      <4> QED BY <2>2, <4>1
    <3>3. ASSUME NEW b \in c - n .. c - 1 PROVE \E i \in 1 .. n : v[b] = Span(v, c, n)[i]
      <4>1. PICK i \in 1 .. n : c - n + i - 1 = b
        <5>1. b - (c - n) + 1 \in 1 .. n /\ c - n + (b - (c - n) + 1) - 1 = b
          BY <1>3
        <5> QED BY <5>1
      <4> QED BY <2>2, <4>1
    <3> QED BY <3>1, <3>2, <3>3
  <2>4. Full(w) /\ ~ (Len(Span(v, c, n)) < n)
    BY <1>1, <1>3, <2>2
  <2> QED BY <2>1, <2>3, <2>4 DEF ExtremaOf, ExtremaOver
<1> QED BY <1>2, <1>3

-----------------------------------------------------------------------------
(* ema. *)

EMAAfter(s, vals, c, n) ==
  s = [window |-> n, count |-> c, value |-> IF c = 0 THEN 0 ELSE EMAAll(n, vals)]

\* The state of an ema before the first value,
LEMMA EMAStart == ASSUME NEW n, NEW vals PROVE EMAAfter(NewEMA(n), vals, 0, n)
BY DEF EMAAfter, NewEMA

\* after one value more,
LEMMA EMAStepOn ==
  ASSUME NEW n \in Nat \ {0}, NEW c \in Nat, NEW vals \in [1 .. c + 1 -> Int],
         NEW s, EMAAfter(s, First(vals, c), c, n)
  PROVE  EMAAfter(EMAUpdated(s, vals[c + 1]), vals, c + 1, n)
<1>1. EMAUpdated(s, vals[c + 1]) = [window |-> n, count |-> c + 1,
        value |-> IF c = 0 THEN vals[c + 1] ELSE EMAStep(EMAAll(n, First(vals, c)), vals[c + 1], n)]
  <2>1. PICK z, x, av : /\ z = (IF c = 0 THEN 0 ELSE EMAAll(n, First(vals, c))) /\ x = vals[c + 1]
                        /\ av = EMAStep(z, x, n)
    OBVIOUS
  <2>2. s = [window |-> n, count |-> c, value |-> z]
    BY <2>1 DEF EMAAfter
  <2>3. EMAUpdated(s, x) = [window |-> n, count |-> c + 1, value |-> IF c = 0 THEN x ELSE av]
    <3>1. s.count = c /\ EMAStep(s.value, x, s.window) = av
      BY <2>1, <2>2
    <3>2. EMAUpdated(s, x) = [s EXCEPT !.count = c + 1, !.value = IF c = 0 THEN x ELSE av]
      BY <3>1, Zenon DEF EMAUpdated
    <3> QED BY <2>2, <3>2
  <2> QED BY <2>1, <2>3
<1>2. EMAAll(n, vals) = IF c = 0 THEN vals[c + 1] ELSE EMAStep(EMAAll(n, First(vals, c)), vals[c + 1], n)
  <2>1. c = 0 => EMAAll(n, vals) = vals[1]
    BY EMAAppends
  <2>2. c # 0 => EMAAll(n, vals) = EMAStep(EMAAll(n, First(vals, c)), vals[c + 1], n)
    BY EMAAppends
  <2> QED BY <2>1, <2>2
<1>3. c + 1 # 0
  OBVIOUS
<1> QED BY <1>1, <1>2, <1>3 DEF EMAAfter

\* and what it answers: the ema of the values it has had, once there are n.
LEMMA EMAMeets ==
  ASSUME NEW n \in Nat \ {0}, NEW c \in Nat, NEW vals \in [1 .. c -> Int], NEW s, EMAAfter(s, vals, c, n)
  PROVE  EMAOf(s) = EMAFrom(vals, n) /\ EMAOf(s) \in Int \cup {NaN} /\ (EMAOf(s) = NaN <=> c < n)
<1>1. EMAFrom(vals, n) = IF c < n THEN NaN ELSE EMAAll(n, vals)
  BY EMAFromIsAll
<1>2. s.count = c /\ s.window = n /\ (c # 0 => s.value = EMAAll(n, vals))
  BY DEF EMAAfter
<1>3. c >= n => EMAAll(n, vals) \in Int
  <2> SUFFICES ASSUME c >= n PROVE EMAAll(n, vals) \in Int
    OBVIOUS
  <2>1. PICK m \in Nat : c = m + 1
    <3>1. c - 1 \in Nat /\ c = (c - 1) + 1
      OBVIOUS
    <3> QED BY <3>1
  <2>2. vals \in [1 .. m + 1 -> Int]
    BY <2>1
  <2> QED BY <2>2, EMAAppends
<1> QED BY <1>1, <1>2, <1>3, NaNAssumption DEF EMAOf

-----------------------------------------------------------------------------
(* rma. *)

RMAAfter(s, vals, c, n) ==
  s = [window |-> n, count |-> c, sum |-> Total(First(vals, Fewer(c, n))),
       value |-> IF c < n THEN 0 ELSE RMAAll(n, vals)]

\* No values add up to 0.
LEMMA NoTotal == ASSUME NEW vals PROVE Total(First(vals, 0)) = 0
<1>1. First(vals, 0) = Span(vals, 0, 1)
  BY DEF First, Span, Fewer
<1>2. Total(Span(vals, 0, 1)) = 0
  BY NothingTotals
<1> QED BY <1>1, <1>2

\* The state of an rma before the first value,
LEMMA RMAStart == ASSUME NEW n \in Nat \ {0}, NEW vals PROVE RMAAfter(NewRMA(n), vals, 0, n)
<1>1. Fewer(0, n) = 0 /\ 0 < n
  BY DEF Fewer
<1> QED BY <1>1, NoTotal DEF RMAAfter, NewRMA
\* One value more to add.
LEMMA TotalAppends ==
  ASSUME NEW c \in Nat, NEW vals \in [1 .. c + 1 -> Int]
  PROVE  Total(First(vals, c)) \in Int /\ Total(vals) = Total(First(vals, c)) + vals[c + 1]
<1>0. PICK k \in Nat : k = c + 1
  OBVIOUS
<1>1. PICK t \in [0 .. k -> Int] : t[0] = 0 /\ \A i \in 0 .. k - 1 : t[i + 1] = t[i] + vals[i + 1]
  <2>1. vals \in [1 .. k -> Int]
    BY <1>0
  <2> HIDE <1>0
  <2> QED BY <2>1, PartialSums
<1>2. Total(vals) = t[k]
  <2>1. vals \in [1 .. k -> Int]
    BY <1>0
  <2> QED BY <1>1, <2>1, TotalRuns
<1>3. Total(First(vals, c)) = t[c]
  <2>1. PICK fewer \in [1 .. c -> Int] : fewer = First(vals, c)
    <3>1. First(vals, c) \in [1 .. c -> Int]
      BY DEF First
    <3> QED BY <3>1
  <2>2. \A i \in 0 .. c - 1 : t[i + 1] = t[i] + fewer[i + 1]
    <3>1. ASSUME NEW i \in 0 .. c - 1 PROVE t[i + 1] = t[i] + fewer[i + 1]
      <4>1. i \in 0 .. k - 1 /\ fewer[i + 1] = vals[i + 1]
        BY <1>0, <2>1 DEF First
      <4> QED BY <1>1, <4>1
    <3> QED BY <3>1
  <2>3. Total(fewer) = t[c]
    BY <1>1, <2>1, <2>2, TotalRuns
  <2> QED BY <2>1, <2>3
<1>4. c \in 0 .. k - 1 /\ c \in 0 .. k
  BY <1>0
<1> QED BY <1>0, <1>1, <1>2, <1>3, <1>4

\* after one value more: the mean when it has n, and then a step,
LEMMA RMAStepOn ==
  ASSUME NEW n \in Nat \ {0}, NEW c \in Nat, NEW vals \in [1 .. c + 1 -> Int],
         NEW s, RMAAfter(s, First(vals, c), c, n)
  PROVE  RMAAfter(RMAUpdated(s, vals[c + 1]), vals, c + 1, n)
<1>1. s = [window |-> n, count |-> c, sum |-> Total(First(First(vals, c), Fewer(c, n))),
           value |-> IF c < n THEN 0 ELSE RMAAll(n, First(vals, c))]
  BY DEF RMAAfter
<1>2. CASE c < n
  <2>1. First(First(vals, c), Fewer(c, n)) = First(vals, c)
    BY <1>2 DEF First, Fewer
  <2>2. RMAUpdated(s, vals[c + 1])
        = [window |-> n, count |-> c + 1, sum |-> Total(First(vals, c)) + vals[c + 1],
           value |-> IF c + 1 = n THEN (Total(First(vals, c)) + vals[c + 1]) \div n ELSE 0]
    BY <1>1, <1>2, <2>1 DEF RMAUpdated
  <2>3. First(vals, Fewer(c + 1, n)) = vals
    <3>1. Fewer(c + 1, n) = c + 1
      BY <1>2 DEF Fewer
    <3> QED BY <3>1 DEF First
  <2>4. Total(vals) = Total(First(vals, c)) + vals[c + 1]
    BY TotalAppends
  <2>5. c + 1 = n => RMAAll(n, vals) = Total(vals) \div n
    <3> SUFFICES ASSUME c + 1 = n PROVE RMAAll(n, vals) = Total(vals) \div n
      OBVIOUS
    <3>1. c + 1 >= n
      OBVIOUS
    <3> QED BY <3>1, RMAAppends
  <2>6. c + 1 < n <=> c + 1 # n
    BY <1>2
  <2> QED BY <2>2, <2>3, <2>4, <2>5, <2>6 DEF RMAAfter
<1>3. CASE c >= n
  <2>1. RMAUpdated(s, vals[c + 1])
        = [window |-> n, count |-> c + 1, sum |-> Total(First(First(vals, c), Fewer(c, n))),
           value |-> RMAStep(RMAAll(n, First(vals, c)), vals[c + 1], n)]
    <3>1. PICK z, x, av, sum : /\ z = RMAAll(n, First(vals, c)) /\ x = vals[c + 1]
                               /\ av = RMAStep(z, x, n) /\ sum = Total(First(First(vals, c), Fewer(c, n)))
      OBVIOUS
    <3>2. s = [window |-> n, count |-> c, sum |-> sum, value |-> z]
      BY <1>1, <1>3, <3>1
    <3>3. RMAUpdated(s, x) = [window |-> n, count |-> c + 1, sum |-> sum, value |-> av]
      <4>1. s.count = c /\ ~ (s.count < s.window) /\ RMAStep(s.value, x, s.window) = av
        BY <1>3, <3>1, <3>2
      <4>2. RMAUpdated(s, x) = [s EXCEPT !.count = c + 1, !.value = av]
        BY <4>1, Zenon DEF RMAUpdated
      <4> QED BY <3>2, <4>2
    <3> QED BY <3>1, <3>3
  <2>2. First(First(vals, c), Fewer(c, n)) = First(vals, Fewer(c + 1, n))
    BY <1>3 DEF First, Fewer
  <2>3. RMAAll(n, vals) = RMAStep(RMAAll(n, First(vals, c)), vals[c + 1], n)
    <3>1. c + 1 >= n
      BY <1>3
    <3> QED BY <1>3, <3>1, RMAAppends
  <2>4. ~ (c + 1 < n)
    BY <1>3
  <2> QED BY <2>1, <2>2, <2>3, <2>4 DEF RMAAfter
<1> QED BY <1>2, <1>3

\* and what it answers.
LEMMA RMAMeets ==
  ASSUME NEW n \in Nat \ {0}, NEW c \in Nat, NEW vals \in [1 .. c -> Int], NEW s, RMAAfter(s, vals, c, n)
  PROVE  RMAOf(s) = RMAFrom(vals, n)
<1>1. RMAFrom(vals, n) = IF c < n THEN NaN ELSE RMAAll(n, vals)
  BY RMAFromIsAll
<1>2. s.count = c /\ s.window = n /\ s.value = IF c < n THEN 0 ELSE RMAAll(n, vals)
  BY DEF RMAAfter
<1> QED BY <1>1, <1>2 DEF RMAOf

-----------------------------------------------------------------------------
(* rsi: the window holds the differences of neighbouring prices. *)

Deltas(v) == [b \in Nat |-> v[b + 1] - v[b]]
Gains(v) == [b \in Nat |-> Gain(v[b + 1] - v[b])]
Losses(v) == [b \in Nat |-> Loss(v[b + 1] - v[b])]
RSIAfter(s, v, c, n) ==
  IF c = 0 THEN s = NewRSI(n)
  ELSE /\ s = [window |-> n, priceSeen |-> c, prev |-> v[c - 1], diffs |-> s.diffs,
               sumGain |-> Total(Span(Gains(v), c - 1, n)), sumLoss |-> Total(Span(Losses(v), c - 1, n))]
       /\ Holding(s.diffs, Deltas(v), c - 1, n)

\* The first price gives no difference.
LEMMA RSIFirst ==
  ASSUME NEW n \in Nat \ {0}, n <= MaxIndicatorWindowLength, NEW v
  PROVE  RSIAfter(RSIUpdated(NewRSI(n), v[0]), v, 1, n)
<1>0. PICK w, x : w = NewWindow(n) /\ x = v[0]
  OBVIOUS
<1>1. NewRSI(n) = [window |-> n, priceSeen |-> 0, prev |-> 0, diffs |-> w, sumGain |-> 0, sumLoss |-> 0]
  BY <1>0 DEF NewRSI
<1>2. RSIUpdated(NewRSI(n), x)
      = [window |-> n, priceSeen |-> 1, prev |-> x, diffs |-> w, sumGain |-> 0, sumLoss |-> 0]
  <2>1. PICK r : r = NewRSI(n)
    OBVIOUS
  <2>2. r.priceSeen = 0
    BY <1>1, <2>1
  <2>3. RSIUpdated(r, x) = [r EXCEPT !.priceSeen = 1, !.prev = x]
    BY <2>2, Zenon DEF RSIUpdated
  <2>4. r = [window |-> n, priceSeen |-> 0, prev |-> 0, diffs |-> w, sumGain |-> 0, sumLoss |-> 0]
    BY <1>1, <2>1
  <2>5. PICK t : t = [r EXCEPT !.priceSeen = 1]
    OBVIOUS
  <2>6. t = [window |-> n, priceSeen |-> 1, prev |-> 0, diffs |-> w, sumGain |-> 0, sumLoss |-> 0]
    BY <2>4, <2>5
  <2>7. [t EXCEPT !.prev = x]
        = [window |-> n, priceSeen |-> 1, prev |-> x, diffs |-> w, sumGain |-> 0, sumLoss |-> 0]
    BY <2>6
  <2>8. [r EXCEPT !.priceSeen = 1, !.prev = x] = [t EXCEPT !.prev = x]
    BY <2>5
  <2> QED BY <2>1, <2>3, <2>7, <2>8
<1>3. Holding(w, Deltas(v), 0, n)
  BY <1>0, NewWindowHolds
<1>4. Total(Span(Gains(v), 0, n)) = 0 /\ Total(Span(Losses(v), 0, n)) = 0
  BY NothingTotals
<1>5. 1 - 1 = 0 /\ 1 # 0
  OBVIOUS
<1> QED BY <1>0, <1>2, <1>3, <1>4, <1>5 DEF RSIAfter

\* Every later one gives one, which enters the window and one of the sums.
LEMMA RSIStepOn ==
  ASSUME NEW n \in Nat \ {0}, NEW c \in Nat, NEW v, \A b \in 0 .. c + 1 : v[b] \in Int,
         NEW s, RSIAfter(s, v, c + 1, n)
  PROVE  RSIAfter(RSIUpdated(s, v[c + 1]), v, (c + 1) + 1, n)
<1>0. PICK w, prev, x : w = s.diffs /\ prev = v[c] /\ x = v[c + 1]
  OBVIOUS
<1>1. PICK d \in Int : w = s.diffs /\ prev = v[c] /\ x = v[c + 1] /\ d = x - prev
  <2>1. c \in 0 .. c + 1 /\ c + 1 \in 0 .. c + 1
    OBVIOUS
  <2>2. v[c + 1] - v[c] \in Int
    BY <2>1
  <2> QED BY <1>0, <2>2
<1>2. PICK dl, ga, lo : dl = Deltas(v) /\ ga = Gains(v) /\ lo = Losses(v)
  OBVIOUS
<1>3. \A b \in 0 .. c : /\ dl[b] \in Int /\ ga[b] = Gain(dl[b]) /\ lo[b] = Loss(dl[b])
                        /\ ga[b] \in Int /\ lo[b] \in Int
  <2> SUFFICES ASSUME NEW b \in 0 .. c
               PROVE  /\ dl[b] \in Int /\ ga[b] = Gain(dl[b]) /\ lo[b] = Loss(dl[b])
                      /\ ga[b] \in Int /\ lo[b] \in Int
    OBVIOUS
  <2>1. b \in Nat /\ b \in 0 .. c + 1 /\ b + 1 \in 0 .. c + 1
    OBVIOUS
  <2>2. v[b + 1] - v[b] \in Int
    BY <2>1
  <2>3. dl[b] = v[b + 1] - v[b] /\ ga[b] = Gain(v[b + 1] - v[b]) /\ lo[b] = Loss(v[b + 1] - v[b])
    BY <1>2, <2>1 DEF Deltas, Gains, Losses
  <2>4. ASSUME NEW y \in Int PROVE Gain(y) \in Int /\ Loss(y) \in Int
    BY DEF Gain, Loss
  <2> QED BY <2>2, <2>3, <2>4
<1>4. c \in 0 .. c /\ dl[c] = d
  <2>1. c \in Nat
    OBVIOUS
  <2> QED BY <1>1, <1>2, <2>1 DEF Deltas
<1>5. PICK gain, loss : gain = Total(Span(ga, c, n)) /\ loss = Total(Span(lo, c, n))
  OBVIOUS
<1>6. /\ s = [window |-> n, priceSeen |-> c + 1, prev |-> prev, diffs |-> w, sumGain |-> gain, sumLoss |-> loss]
      /\ Holding(w, dl, c, n)
  <2>1. c + 1 # 0 /\ (c + 1) - 1 = c
    OBVIOUS
  <2> QED BY <1>1, <1>2, <1>5, <2>1 DEF RSIAfter
<1>7. PICK old : old = Replaced(w)
  OBVIOUS
<1>8. /\ Holding(Pushed(w, d), dl, c + 1, n)
      /\ old = IF c < n THEN 0 ELSE dl[c - n]
  BY <1>4, <1>6, <1>7, PushHolds
<1>9. /\ Gain(old) = IF c < n THEN 0 ELSE ga[c - n]
      /\ Loss(old) = IF c < n THEN 0 ELSE lo[c - n]
  <2>1. CASE c < n
    BY <1>8, <2>1 DEF Gain, Loss
  <2>2. CASE ~ (c < n)
    <3>1. c - n \in 0 .. c
      BY <2>2
    <3> QED BY <1>3, <1>8, <2>2, <3>1
  <2> QED BY <2>1, <2>2
<1>10. /\ gain \in Int /\ Total(Span(ga, c + 1, n)) = gain + Gain(d) - Gain(old)
       /\ loss \in Int /\ Total(Span(lo, c + 1, n)) = loss + Loss(d) - Loss(old)
  <2>1. \A b \in 0 .. c : ga[b] \in Int
    BY <1>3
  <2>2. /\ Total(Span(ga, c, n)) \in Int
        /\ Total(Span(ga, c + 1, n)) = Total(Span(ga, c, n)) + ga[c] - (IF c < n THEN 0 ELSE ga[c - n])
    BY <2>1, SpanSlides
  <2>3. \A b \in 0 .. c : lo[b] \in Int
    BY <1>3
  <2>4. /\ Total(Span(lo, c, n)) \in Int
        /\ Total(Span(lo, c + 1, n)) = Total(Span(lo, c, n)) + lo[c] - (IF c < n THEN 0 ELSE lo[c - n])
    BY <2>3, SpanSlides
  <2>5. ga[c] = Gain(d) /\ lo[c] = Loss(d)
    BY <1>3, <1>4
  <2> QED BY <1>5, <1>9, <2>2, <2>4, <2>5
<1>11. PICK more, less, nextGain, nextLoss :
         /\ more = Gain(d) /\ less = Loss(d)
         /\ nextGain = gain - Gain(old) + more /\ nextLoss = loss - Loss(old) + less
  OBVIOUS
<1>12. nextGain = Total(Span(ga, c + 1, n)) /\ nextLoss = Total(Span(lo, c + 1, n))
  <2>1. Gain(old) \in Int /\ Loss(old) \in Int /\ Gain(d) \in Int /\ Loss(d) \in Int
    <3>1. old \in Int
      <4>1. c >= n => c - n \in 0 .. c
        OBVIOUS
      <4> QED BY <1>3, <1>8, <4>1
    <3>2. ASSUME NEW y \in Int PROVE Gain(y) \in Int /\ Loss(y) \in Int
      BY DEF Gain, Loss
    <3> QED BY <3>1, <3>2
  <2> QED BY <1>10, <1>11, <2>1
<1>13. RSIUpdated(s, x)
       = [window |-> n, priceSeen |-> (c + 1) + 1, prev |-> x, diffs |-> Pushed(w, d),
          sumGain |-> nextGain, sumLoss |-> nextLoss]
  <2>1. /\ s.priceSeen = c + 1 /\ s.priceSeen # 0 /\ s.prev = prev /\ s.diffs = w
        /\ s.sumGain = gain /\ s.sumLoss = loss
    BY <1>6
  <2>2. RSIUpdated(s, x)
        = [s EXCEPT !.priceSeen = (c + 1) + 1, !.prev = x, !.diffs = Pushed(w, d),
                    !.sumGain = nextGain, !.sumLoss = nextLoss]
    BY <1>1, <1>7, <1>11, <2>1, Zenon DEF RSIUpdated
  <2> QED BY <1>6, <2>2
<1>14. (c + 1) + 1 # 0 /\ ((c + 1) + 1) - 1 = c + 1
  OBVIOUS
<1> QED BY <1>1, <1>2, <1>8, <1>12, <1>13, <1>14 DEF RSIAfter

\* Both ways divide the gains by the moves of the last n differences; where there was
\* no move the state answers 50 and the series 100.
LEMMA RSIMeets ==
  ASSUME NEW n \in Nat \ {0}, NEW k \in Nat, NEW v, NEW s, RSIAfter(s, v, k + 1, n)
  PROVE  \/ RSIOf(s) = RSIFrom(Hist(v, k + 1), n)
         \/ RSIOf(s) = 50 /\ RSIFrom(Hist(v, k + 1), n) = 100
<1>0. PICK vals, w : vals = Hist(v, k + 1) /\ w = s.diffs
  OBVIOUS
<1>1. Len(vals) = k + 1
  BY <1>0 DEF Hist
<1>2. PICK gain, loss : gain = Total(Span(Gains(v), k, n)) /\ loss = Total(Span(Losses(v), k, n))
  OBVIOUS
<1>3. /\ s.window = n /\ s.priceSeen = k + 1 /\ s.sumGain = gain /\ s.sumLoss = loss
      /\ Holding(w, Deltas(v), k, n)
  <2>1. k + 1 # 0 /\ (k + 1) - 1 = k
    OBVIOUS
  <2> QED BY <1>0, <1>2, <2>1 DEF RSIAfter
<1>4. w.count = IF k < n THEN k ELSE n
  BY <1>3, WindowFills
<1>5. CASE k < n
  <2>1. Len(vals) <= n /\ s.priceSeen <= s.window
    BY <1>1, <1>3, <1>5
  <2>2. RSIOf(s) = NaN
    BY <2>1 DEF RSIOf
  <2>3. RSIFrom(vals, n) = NaN
    BY <2>1 DEF RSIFrom
  <2> QED BY <1>0, <2>2, <2>3
<1>6. CASE k >= n
  <2>1. ~ (Len(vals) <= n) /\ ~ (s.priceSeen <= s.window \/ s.diffs.count < s.window)
    BY <1>0, <1>1, <1>3, <1>4, <1>6
  <2>2. RSIOf(s) = IF loss = 0 THEN IF gain = 0 THEN 50 ELSE 100 ELSE (100 * gain) \div (gain + loss)
    BY <1>3, <2>1 DEF RSIOf
  <2> DEFINE deltas == [i \in 1 .. n |-> vals[Len(vals) - n + i] - vals[Len(vals) - n + i - 1]]
  <2>3. RSIFrom(vals, n)
        = IF Total([i \in 1 .. n |-> Loss(deltas[i])]) = 0 THEN 100
          ELSE (100 * Total([i \in 1 .. n |-> Gain(deltas[i])]))
               \div (Total([i \in 1 .. n |-> Gain(deltas[i])]) + Total([i \in 1 .. n |-> Loss(deltas[i])]))
    BY <2>1, Zenon DEF RSIFrom
  <2>4. ASSUME NEW i \in 1 .. n PROVE /\ k - n + i - 1 \in Nat
                                      /\ deltas[i] = v[k - n + i - 1 + 1] - v[k - n + i - 1]
    <3>1. /\ Len(vals) - n + i = k - n + i + 1 /\ Len(vals) - n + i - 1 = k - n + i
          /\ k - n + i + 1 \in 1 .. k + 1 /\ k - n + i \in 1 .. k + 1
          /\ (k - n + i + 1) - 1 = k - n + i - 1 + 1 /\ (k - n + i) - 1 = k - n + i - 1
          /\ k - n + i - 1 \in Nat
      BY <1>1, <1>6
    <3>2. vals[k - n + i + 1] = v[k - n + i - 1 + 1] /\ vals[k - n + i] = v[k - n + i - 1]
      BY <1>0, <3>1 DEF Hist
    <3> QED BY <3>1, <3>2
  <2> HIDE DEF deltas
  <2>5. [i \in 1 .. n |-> Gain(deltas[i])] = Span(Gains(v), k, n)
    <3>1. Span(Gains(v), k, n) = [i \in 1 .. n |-> Gains(v)[k - n + i - 1]]
      BY <1>6 DEF Span, Fewer
    <3>2. ASSUME NEW i \in 1 .. n PROVE Gains(v)[k - n + i - 1] = Gain(deltas[i])
      BY <2>4 DEF Gains
    <3> QED BY <3>1, <3>2
  <2>6. [i \in 1 .. n |-> Loss(deltas[i])] = Span(Losses(v), k, n)
    <3>1. Span(Losses(v), k, n) = [i \in 1 .. n |-> Losses(v)[k - n + i - 1]]
      BY <1>6 DEF Span, Fewer
    <3>2. ASSUME NEW i \in 1 .. n PROVE Losses(v)[k - n + i - 1] = Loss(deltas[i])
      BY <2>4 DEF Losses
    <3> QED BY <3>1, <3>2
  <2>7. RSIFrom(vals, n) = IF loss = 0 THEN 100 ELSE (100 * gain) \div (gain + loss)
    BY <1>2, <2>3, <2>5, <2>6
  <2> QED BY <1>0, <2>2, <2>7
<1> QED BY <1>5, <1>6

-----------------------------------------------------------------------------
(* macd: its signal is the ema of the differences of the other two. *)

Many(c, n) == IF c < n THEN 0 ELSE c - n + 1
Macds(v, c, n) ==
  [i \in 1 .. Many(c, n) |-> EMAFrom(Hist(v, n + i - 1), 1) - EMAFrom(Hist(v, n + i - 1), n)]
MACDAfter(s, v, c, n) ==
  /\ s = [fast |-> s.fast, slow |-> s.slow, signal |-> s.signal]
  /\ EMAAfter(s.fast, Hist(v, c), c, 1) /\ EMAAfter(s.slow, Hist(v, c), c, n)
  /\ EMAAfter(s.signal, Macds(v, c, n), Many(c, n), n)

\* The three averages before the first value.
LEMMA MACDStart ==
  ASSUME NEW n \in Nat \ {0}, NEW v PROVE MACDAfter(NewMACD(1, n, n), v, 0, n)
<1>1. Many(0, n) = 0
  BY DEF Many
<1> QED BY <1>1, EMAStart DEF MACDAfter, NewMACD

\* The average of enough values is an integer.
LEMMA AverageIsWhole ==
  ASSUME NEW n \in Nat \ {0}, NEW c \in Nat, c >= n, NEW vals \in [1 .. c -> Int]
  PROVE  EMAFrom(vals, n) \in Int
<1>1. PICK m \in Nat : c = m + 1
  <2>1. c - 1 \in Nat /\ c = (c - 1) + 1
    OBVIOUS
  <2> QED BY <2>1
<1>2. EMAFrom(vals, n) = EMAAll(n, vals)
  <2>1. EMAFrom(vals, n) = IF c < n THEN NaN ELSE EMAAll(n, vals)
    BY EMAFromIsAll
  <2> QED BY <2>1
<1>3. vals \in [1 .. m + 1 -> Int]
  BY <1>1
<1>4. EMAAll(n, vals) \in Int
  BY <1>3, EMAAppends
<1> QED BY <1>2, <1>4
\* The differences so far are integers, and the next bar's comes after them.
LEMMA MacdsGrow ==
  ASSUME NEW n \in Nat \ {0}, NEW c \in Nat, c + 1 >= n, NEW v, \A b \in 0 .. c : v[b] \in Int
  PROVE  /\ Many(c, n) \in Nat /\ Many(c + 1, n) = Many(c, n) + 1
         /\ Macds(v, c + 1, n) \in [1 .. Many(c, n) + 1 -> Int]
         /\ First(Macds(v, c + 1, n), Many(c, n)) = Macds(v, c, n)
         /\ Macds(v, c + 1, n)[Many(c, n) + 1] = EMAFrom(Hist(v, c + 1), 1) - EMAFrom(Hist(v, c + 1), n)
<1>1. PICK m \in Nat : m = Many(c, n) /\ Many(c + 1, n) = m + 1 /\ n + m = c + 1
  <2>1. Many(c, n) \in Nat /\ Many(c + 1, n) = Many(c, n) + 1 /\ n + Many(c, n) = c + 1
    BY DEF Many
  <2> QED BY <2>1
<1>2. ASSUME NEW i \in 1 .. m + 1
      PROVE  EMAFrom(Hist(v, n + i - 1), 1) - EMAFrom(Hist(v, n + i - 1), n) \in Int
  <2>1. PICK l \in Nat : l = n + i - 1 /\ l >= n /\ l >= 1 /\ l <= c + 1
    <3>1. n + i - 1 \in Nat /\ n + i - 1 >= n /\ n + i - 1 >= 1 /\ n + i - 1 <= c + 1
      BY <1>1
    <3> QED BY <3>1
  <2>2. Hist(v, l) \in [1 .. l -> Int]
    <3>1. \A j \in 1 .. l : j - 1 \in 0 .. c
      BY <2>1
    <3> QED BY <3>1 DEF Hist
  <2>3. EMAFrom(Hist(v, l), n) \in Int
    BY <2>1, <2>2, AverageIsWhole
  <2>4. EMAFrom(Hist(v, l), 1) \in Int
    <3>1. 1 \in Nat \ {0}
      OBVIOUS
    <3> QED BY <2>1, <2>2, <3>1, AverageIsWhole
  <2> QED BY <2>1, <2>3, <2>4
<1>3. Macds(v, c + 1, n)
      = [i \in 1 .. m + 1 |-> EMAFrom(Hist(v, n + i - 1), 1) - EMAFrom(Hist(v, n + i - 1), n)]
  BY <1>1 DEF Macds
<1>4. Macds(v, c + 1, n) \in [1 .. m + 1 -> Int]
  BY <1>2, <1>3
<1>5. First(Macds(v, c + 1, n), m) = Macds(v, c, n)
  BY <1>1, <1>3 DEF First, Macds
<1>6. Macds(v, c + 1, n)[m + 1] = EMAFrom(Hist(v, c + 1), 1) - EMAFrom(Hist(v, c + 1), n)
  <2>1. m + 1 \in 1 .. m + 1 /\ n + (m + 1) - 1 = c + 1
    BY <1>1
  <2> QED BY <1>3, <2>1
<1> QED BY <1>1, <1>4, <1>5, <1>6

\* The signal takes in nothing until the slow average has a value, and then every bar.
LEMMA MACDStepOn ==
  ASSUME NEW n \in Nat \ {0}, NEW c \in Nat, NEW v, \A b \in 0 .. c : v[b] \in Int,
         NEW s, MACDAfter(s, v, c, n)
  PROVE  MACDAfter(MACDUpdated(s, v[c]), v, c + 1, n)
<1>0. PICK x, vals, fast, slow, signal :
        /\ x = v[c] /\ vals = Hist(v, c + 1)
        /\ fast = EMAUpdated(s.fast, x) /\ slow = EMAUpdated(s.slow, x) /\ signal = s.signal
  OBVIOUS
<1>1. vals \in [1 .. c + 1 -> Int] /\ First(vals, c) = Hist(v, c) /\ vals[c + 1] = x
  BY <1>0, HistoryGrows
<1>2. EMAAfter(fast, vals, c + 1, 1) /\ EMAAfter(slow, vals, c + 1, n)
  <2>1. EMAAfter(s.fast, First(vals, c), c, 1) /\ EMAAfter(s.slow, First(vals, c), c, n)
    BY <1>1 DEF MACDAfter
  <2>2. 1 \in Nat \ {0}
    OBVIOUS
  <2>3. EMAAfter(EMAUpdated(s.fast, vals[c + 1]), vals, c + 1, 1)
    BY <1>1, <2>1, <2>2, EMAStepOn
  <2>4. EMAAfter(EMAUpdated(s.slow, vals[c + 1]), vals, c + 1, n)
    BY <1>1, <2>1, EMAStepOn
  <2> QED BY <1>0, <1>1, <2>3, <2>4
<1>3. /\ EMAOf(fast) = EMAFrom(vals, 1) /\ EMAOf(fast) \in Int /\ EMAOf(fast) # NaN
      /\ EMAOf(slow) = EMAFrom(vals, n) /\ EMAOf(slow) \in Int \cup {NaN} /\ (EMAOf(slow) = NaN <=> c + 1 < n)
  <2>1. 1 \in Nat \ {0} /\ c + 1 \in Nat /\ ~ (c + 1 < 1)
    OBVIOUS
  <2>2. EMAOf(fast) = EMAFrom(vals, 1) /\ EMAOf(fast) \in Int \cup {NaN} /\ (EMAOf(fast) = NaN <=> c + 1 < 1)
    BY <1>1, <1>2, <2>1, EMAMeets
  <2>3. EMAOf(slow) = EMAFrom(vals, n) /\ EMAOf(slow) \in Int \cup {NaN} /\ (EMAOf(slow) = NaN <=> c + 1 < n)
    BY <1>1, <1>2, <2>1, EMAMeets
  <2> QED BY <2>1, <2>2, <2>3
<1>4. PICK next : next = [fast |-> fast, slow |-> slow, signal |-> signal]
  OBVIOUS
<1>5. MACDUpdated(s, x) = IF MACDOf(next)[1] = NaN THEN next
                          ELSE [next EXCEPT !.signal = EMAUpdated(@, MACDOf(next)[1])]
  <2>1. s = [fast |-> s.fast, slow |-> s.slow, signal |-> s.signal]
    BY DEF MACDAfter
  <2>2. next = [s EXCEPT !.fast = EMAUpdated(@, x), !.slow = EMAUpdated(@, x)]
    <3>1. PICK f, g : f = s.fast /\ g = s.slow
      OBVIOUS
    <3>2. s = [fast |-> f, slow |-> g, signal |-> signal]
      BY <1>0, <2>1, <3>1
    <3>3. PICK t : t = [s EXCEPT !.fast = fast]
      OBVIOUS
    <3>4. t = [fast |-> fast, slow |-> g, signal |-> signal]
      BY <3>2, <3>3
    <3>5. [t EXCEPT !.slow = slow] = next
      BY <1>4, <3>4
    <3>6. [s EXCEPT !.fast = fast, !.slow = slow] = [t EXCEPT !.slow = slow]
      BY <3>3
    <3>7. [s EXCEPT !.fast = EMAUpdated(@, x), !.slow = EMAUpdated(@, x)]
          = [s EXCEPT !.fast = fast, !.slow = slow]
      BY <1>0, Zenon
    <3> QED BY <3>5, <3>6, <3>7
  <2> QED BY <2>2, Zenon DEF MACDUpdated
<1>6. EMAAfter(signal, Macds(v, c, n), Many(c, n), n)
  BY <1>0 DEF MACDAfter
<1>7. next.fast = fast /\ next.slow = slow /\ next.signal = signal
  BY <1>4
<1>8. CASE c + 1 < n
  <2>1. MACDOf(next)[1] = NaN
    <3>1. MACDOf(next) = <<NaN, NaN>>
      BY <1>3, <1>7, <1>8 DEF MACDOf
    <3> QED BY <3>1
  <2>2. MACDUpdated(s, x) = next
    BY <1>5, <2>1
  <2>3. EMAAfter(signal, Macds(v, c + 1, n), Many(c + 1, n), n)
    <3>1. Many(c, n) = 0 /\ Many(c + 1, n) = 0
      BY <1>8 DEF Many
    <3> QED BY <1>6, <3>1 DEF EMAAfter
  <2> QED BY <1>0, <1>2, <1>4, <1>7, <2>2, <2>3 DEF MACDAfter
<1>9. CASE c + 1 >= n
  <2>1. PICK d : d = EMAOf(fast) - EMAOf(slow)
    OBVIOUS
  <2>2. d \in Int /\ NaN \notin {EMAOf(fast), EMAOf(slow)}
    BY <1>3, <1>9, <2>1
  <2>3. MACDOf(next)[1] = d /\ d # NaN
    <3>1. MACDOf(next) = <<d, EMAOf(signal)>>
      BY <1>7, <2>1, <2>2 DEF MACDOf
    <3> QED BY <2>2, <3>1, NaNAssumption
  <2>4. PICK m, macds :
          /\ m \in Nat /\ macds \in [1 .. m + 1 -> Int] /\ m = Many(c, n)
          /\ Many(c + 1, n) = m + 1 /\ macds = Macds(v, c + 1, n)
          /\ First(macds, m) = Macds(v, c, n) /\ macds[m + 1] = d
    <3>1. /\ Many(c, n) \in Nat /\ Many(c + 1, n) = Many(c, n) + 1
          /\ Macds(v, c + 1, n) \in [1 .. Many(c, n) + 1 -> Int]
          /\ First(Macds(v, c + 1, n), Many(c, n)) = Macds(v, c, n)
          /\ Macds(v, c + 1, n)[Many(c, n) + 1] = EMAFrom(Hist(v, c + 1), 1) - EMAFrom(Hist(v, c + 1), n)
      BY <1>9, MacdsGrow
    <3> QED BY <1>0, <1>3, <2>1, <3>1
  <2>5. PICK sig : sig = EMAUpdated(signal, d)
    OBVIOUS
  <2>6. EMAAfter(sig, macds, m + 1, n)
    <3>1. EMAAfter(signal, First(macds, m), m, n)
      BY <1>6, <2>4
    <3>2. EMAAfter(EMAUpdated(signal, macds[m + 1]), macds, m + 1, n)
      BY <2>4, <3>1, EMAStepOn
    <3> QED BY <2>4, <2>5, <3>2
  <2>7. MACDUpdated(s, x) = [fast |-> fast, slow |-> slow, signal |-> sig]
    <3>1. MACDUpdated(s, x) = [next EXCEPT !.signal = EMAUpdated(@, d)]
      BY <1>5, <2>3
    <3>2. [next EXCEPT !.signal = EMAUpdated(@, d)] = [next EXCEPT !.signal = sig]
      BY <1>7, <2>5, Zenon
    <3>3. [next EXCEPT !.signal = sig] = [fast |-> fast, slow |-> slow, signal |-> sig]
      BY <1>4
    <3> QED BY <3>1, <3>2, <3>3
  <2> QED BY <1>0, <1>2, <2>4, <2>6, <2>7 DEF MACDAfter
<1> QED BY <1>8, <1>9

\* What the state answers is the macd of the history and the ema of all its differences.
LEMMA MACDMeets ==
  ASSUME NEW n \in Nat \ {0}, NEW c \in Nat, NEW v, \A b \in 0 .. c : v[b] \in Int,
         NEW s, MACDAfter(s, v, c + 1, n)
  PROVE  MACDOf(s) = MACDFrom(Hist(v, c + 1), 1, n, n)
<1>0. PICK k, vals : k \in Nat /\ vals \in [1 .. k -> Int] /\ k = c + 1 /\ vals = Hist(v, k)
  <2>1. Hist(v, c + 1) \in [1 .. c + 1 -> Int]
    BY HistoryGrows
  <2>2. c + 1 \in Nat
    OBVIOUS
  <2> QED BY <2>1, <2>2
<1>1. EMAOf(s.fast) = EMAFrom(vals, 1) /\ EMAOf(s.fast) # NaN
  <2>1. 1 \in Nat \ {0} /\ ~ (k < 1)
    BY <1>0
  <2>2. EMAAfter(s.fast, vals, k, 1)
    BY <1>0 DEF MACDAfter
  <2>3. EMAOf(s.fast) = EMAFrom(vals, 1) /\ (EMAOf(s.fast) = NaN <=> k < 1)
    BY <1>0, <2>1, <2>2, EMAMeets
  <2> QED BY <2>1, <2>3
<1>2. EMAOf(s.slow) = EMAFrom(vals, n) /\ (EMAOf(s.slow) = NaN <=> k < n)
  <2>1. EMAAfter(s.slow, vals, k, n)
    BY <1>0 DEF MACDAfter
  <2> QED BY <1>0, <2>1, EMAMeets
<1>3. Len(vals) = k /\ Max({1, n}) = n
  <2>1. Len(vals) = k
    BY <1>0
  <2>2. Max({1, n}) = n
    BY DEF Max
  <2> QED BY <2>1, <2>2
<1>4. CASE k < n
  <2>1. MACDOf(s) = <<NaN, NaN>>
    BY <1>2, <1>4 DEF MACDOf
  <2>2. MACDFrom(vals, 1, n, n) = <<NaN, NaN>>
    BY <1>3, <1>4 DEF MACDFrom
  <2> QED BY <1>0, <2>1, <2>2
<1>5. CASE k >= n
  <2>1. PICK m, macds :
          /\ m \in Nat /\ macds \in [1 .. m + 1 -> Int] /\ Many(k, n) = m + 1 /\ macds = Macds(v, k, n)
          /\ macds[m + 1] = EMAFrom(vals, 1) - EMAFrom(vals, n)
    <3>1. /\ Many(c, n) \in Nat /\ Many(c + 1, n) = Many(c, n) + 1
          /\ Macds(v, c + 1, n) \in [1 .. Many(c, n) + 1 -> Int]
          /\ Macds(v, c + 1, n)[Many(c, n) + 1] = EMAFrom(Hist(v, c + 1), 1) - EMAFrom(Hist(v, c + 1), n)
      BY <1>0, <1>5, MacdsGrow
    <3> QED BY <1>0, <3>1
  <2>2. EMAOf(s.signal) = EMAFrom(macds, n)
    <3>1. EMAAfter(s.signal, macds, m + 1, n)
      BY <1>0, <2>1 DEF MACDAfter
    <3>2. m + 1 \in Nat
      BY <2>1
    <3> QED BY <2>1, <3>1, <3>2, EMAMeets
  <2>3. MACDOf(s) = <<EMAFrom(vals, 1) - EMAFrom(vals, n), EMAFrom(macds, n)>>
    <3>1. NaN \notin {EMAOf(s.fast), EMAOf(s.slow)}
      <4>1. ~ (k < n)
        BY <1>0, <1>5
      <4> QED BY <1>1, <1>2, <4>1
    <3> QED BY <1>1, <1>2, <2>2, <3>1 DEF MACDOf
  <2>4. [i \in 1 .. Len(vals) - n + 1 |-> EMAFrom(SubSeq(vals, 1, n + i - 1), 1) - EMAFrom(SubSeq(vals, 1, n + i - 1), n)]
        = macds
    <3>1. Many(k, n) = Len(vals) - n + 1
      BY <1>3, <1>5 DEF Many
    <3>2. ASSUME NEW i \in 1 .. Many(k, n) PROVE SubSeq(vals, 1, n + i - 1) = Hist(v, n + i - 1)
      <4>1. PICK l \in Nat : l = n + i - 1 /\ l <= k
        <5>1. n + i - 1 \in Nat /\ n + i - 1 <= k
          BY <1>0, <1>5 DEF Many
        <5> QED BY <5>1
      <4>2. SubSeq(vals, 1, l) = [j \in 1 .. l |-> vals[j]]
        BY <1>0, <4>1
      <4>3. \A j \in 1 .. l : vals[j] = v[j - 1]
        BY <1>0, <4>1 DEF Hist
      <4> QED BY <4>1, <4>2, <4>3 DEF Hist
    <3> QED BY <2>1, <3>1, <3>2 DEF Macds
  <2>5. Len(macds) = m + 1
    BY <2>1
  <2>6. MACDFrom(vals, 1, n, n) = <<macds[Len(macds)], EMAFrom(macds, n)>>
    <3>1. ~ (Len(vals) < n)
      BY <1>3, <1>5
    <3> QED BY <1>3, <2>4, <3>1, Zenon DEF MACDFrom
  <2>7. MACDFrom(vals, 1, n, n) = <<EMAFrom(vals, 1) - EMAFrom(vals, n), EMAFrom(macds, n)>>
    BY <2>1, <2>5, <2>6
  <2>8. MACDOf(s) = MACDFrom(vals, 1, n, n)
    BY <2>3, <2>7
  <2> QED BY <1>0, <2>8
<1> QED BY <1>0, <1>4, <1>5

-----------------------------------------------------------------------------
(* The two ways meet. *)

\* What the state of the call is after the first c bars of the prices.
After(s, c) ==
  CASE site \in {"sma", "bb"} -> SumsAfter(s, data, c, Length)
    [] site = "ema" -> EMAAfter(s, Hist(data, c), c, Length)
    [] site = "rma" -> RMAAfter(s, Hist(data, c), c, Length)
    [] site = "rsi" -> RSIAfter(s, data, c, Length)
    [] site = "macd" -> MACDAfter(s, data, c, Length)
    [] site \in {"mom", "roc"} -> Holding(s, data, c, Length + 1)
    [] OTHER -> Holding(s, data, c, Length)

\* One case for each kind of state.
LEMMA Kinds ==
  ASSUME site \in Streams
  PROVE  \/ site \in {"sma", "bb"} \/ site = "ema" \/ site = "rma" \/ site = "rsi" \/ site = "macd"
         \/ site \in {"mom", "roc"} \/ site \in {"highest", "lowest"}
BY DEF Streams

\* A call that has not been evaluated has taken in no bar.
LEMMA StreamStarts == ASSUME site \in Streams PROVE After(New, 0)
<1>0. Length \in Nat \ {0} /\ Length + 1 \in Nat \ {0}
      /\ Length <= MaxIndicatorWindowLength /\ Length + 1 <= MaxIndicatorWindowLength
  BY LengthAssumption, WindowAssumption
<1>1. CASE site \in {"sma", "bb"}
  <2>1. SumsAfter(NewSums(Length), data, 0, Length)
    BY <1>0, SumsStart
  <2> QED BY <1>1, <2>1 DEF After, New
<1>2. CASE site = "ema"
  <2>1. EMAAfter(NewEMA(Length), Hist(data, 0), 0, Length)
    BY EMAStart
  <2> QED BY <1>2, <2>1 DEF After, New
<1>3. CASE site = "rma"
  <2>1. RMAAfter(NewRMA(Length), Hist(data, 0), 0, Length)
    BY <1>0, RMAStart
  <2> QED BY <1>3, <2>1 DEF After, New
<1>4. CASE site = "rsi"
  <2>1. RSIAfter(NewRSI(Length), data, 0, Length)
    BY DEF RSIAfter
  <2> QED BY <1>4, <2>1 DEF After, New
<1>5. CASE site = "macd"
  <2>1. MACDAfter(NewMACD(1, Length, Length), data, 0, Length)
    BY <1>0, MACDStart
  <2> QED BY <1>5, <2>1 DEF After, New
<1>6. CASE site \in {"mom", "roc"}
  <2>1. Holding(NewWindow(Length + 1), data, 0, Length + 1)
    BY <1>0, NewWindowHolds
  <2> QED BY <1>6, <2>1 DEF After, New
<1>7. CASE site \in {"highest", "lowest"}
  <2>1. Holding(NewWindow(Length), data, 0, Length)
    BY <1>0, NewWindowHolds
  <2> QED BY <1>7, <2>1 DEF After, New
<1> QED BY <1>1, <1>2, <1>3, <1>4, <1>5, <1>6, <1>7, Kinds

\* An update takes in the next bar.
LEMMA StreamFollows ==
  ASSUME site \in Streams, data \in [0 .. LastBar -> Int], NEW c \in 0 .. LastBar, After(stream, c)
  PROVE  After(StreamUpdated(data[c]), c + 1)
<1>0. c \in Nat /\ Length \in Nat \ {0} /\ Length + 1 \in Nat \ {0} /\ \A b \in 0 .. c : data[b] \in Int
  BY LengthAssumption, LastBarAssumption
<1>h. /\ Hist(data, c + 1) \in [1 .. c + 1 -> Int]
      /\ First(Hist(data, c + 1), c) = Hist(data, c) /\ Hist(data, c + 1)[c + 1] = data[c]
  BY <1>0, HistoryGrows
<1>x. PICK x \in Int : x = data[c]
  BY <1>0
<1>w. PICK vals : vals = Hist(data, c + 1)
  OBVIOUS
<1>1. CASE site \in {"sma", "bb"}
  <2>1. SumsAfter(stream, data, c, Length)
    BY <1>1 DEF After
  <2>2. SumsAfter(SumsUpdated(stream, data[c]), data, c + 1, Length)
    BY <1>0, <2>1, SumsStep
  <2> QED BY <1>1, <2>2 DEF After, StreamUpdated
<1>2. CASE site = "ema"
  <2>1. EMAAfter(stream, First(vals, c), c, Length)
    BY <1>2, <1>h, <1>x, <1>w DEF After
  <2>2. EMAAfter(EMAUpdated(stream, vals[c + 1]), vals, c + 1, Length)
    BY <1>0, <1>h, <1>x, <1>w, <2>1, EMAStepOn
  <2> QED BY <1>2, <1>h, <1>x, <1>w, <2>2 DEF After, StreamUpdated
<1>3. CASE site = "rma"
  <2>1. RMAAfter(stream, First(vals, c), c, Length)
    BY <1>3, <1>h, <1>x, <1>w DEF After
  <2>2. RMAAfter(RMAUpdated(stream, vals[c + 1]), vals, c + 1, Length)
    BY <1>0, <1>h, <1>x, <1>w, <2>1, RMAStepOn
  <2> QED BY <1>3, <1>h, <1>x, <1>w, <2>2 DEF After, StreamUpdated
<1>4. CASE site = "rsi"
  <2>1. RSIAfter(stream, data, c, Length)
    BY <1>4 DEF After
  <2>2. RSIAfter(RSIUpdated(stream, data[c]), data, c + 1, Length)
    <3>1. CASE c = 0
      <4>1. stream = NewRSI(Length)
        BY <2>1, <3>1 DEF RSIAfter
      <4>2. Length <= MaxIndicatorWindowLength
        BY LengthAssumption, WindowAssumption
      <4>3. RSIAfter(RSIUpdated(NewRSI(Length), data[0]), data, 1, Length)
        BY <1>0, <4>2, RSIFirst
      <4> QED BY <3>1, <4>1, <4>3
    <3>2. CASE c # 0
      <4>1. PICK k \in Nat : c = k + 1
        <5>1. c - 1 \in Nat /\ c = (c - 1) + 1
          BY <1>0, <3>2
        <5> QED BY <5>1
      <4>2. \A b \in 0 .. k + 1 : data[b] \in Int
        BY <1>0, <4>1
      <4>3. RSIAfter(stream, data, k + 1, Length)
        BY <2>1, <4>1
      <4>4. RSIAfter(RSIUpdated(stream, data[k + 1]), data, (k + 1) + 1, Length)
        BY <1>0, <4>2, <4>3, RSIStepOn
      <4> QED BY <4>1, <4>4
    <3> QED BY <3>1, <3>2
  <2> QED BY <1>4, <2>2 DEF After, StreamUpdated
<1>5. CASE site = "macd"
  <2>1. MACDAfter(stream, data, c, Length)
    BY <1>5 DEF After
  <2>2. MACDAfter(MACDUpdated(stream, data[c]), data, c + 1, Length)
    BY <1>0, <2>1, MACDStepOn
  <2> QED BY <1>5, <2>2 DEF After, StreamUpdated
<1>6. CASE site \in {"mom", "roc"}
  <2>1. Holding(stream, data, c, Length + 1)
    BY <1>6 DEF After
  <2>2. Holding(Pushed(stream, x), data, c + 1, Length + 1)
    BY <1>0, <1>x, <1>w, <2>1, PushHolds
  <2> QED BY <1>6, <1>x, <1>w, <2>2 DEF After, StreamUpdated
<1>7. CASE site \in {"highest", "lowest"}
  <2>1. Holding(stream, data, c, Length)
    BY <1>7 DEF After
  <2>2. Holding(Pushed(stream, x), data, c + 1, Length)
    BY <1>0, <1>x, <1>w, <2>1, PushHolds
  <2> QED BY <1>7, <1>x, <1>w, <2>2 DEF After, StreamUpdated
<1> QED BY <1>1, <1>2, <1>3, <1>4, <1>5, <1>6, <1>7, Kinds

\* The state's answer and the series' for the bar the state has taken in last.
Agree(now, back) == now = back \/ (site = "rsi" /\ now = 50 /\ back = 100)
LEMMA StreamMeets ==
  ASSUME site \in Streams, data \in [0 .. LastBar -> Int], NEW e \in 0 .. LastBar,
         NEW s, After(s, e + 1)
  PROVE  Agree(StreamValue(s), SeriesValue(e))
<1>0. /\ e \in Nat /\ Length \in Nat \ {0} /\ Length + 1 \in Nat \ {0}
      /\ \A b \in 0 .. e : data[b] \in Int
  BY LengthAssumption, LastBarAssumption
<1>c. PICK c \in Nat : c = e + 1
  <2>1. e + 1 \in Nat
    BY <1>0
  <2> QED BY <2>1
<1>w. PICK vals, span : vals = Hist(data, c) /\ span = Span(data, c, Length)
  OBVIOUS
<1>v. vals \in [1 .. c -> Int] /\ \A b \in 0 .. c - 1 : data[b] \in Int
  <2>1. Hist(data, e + 1) \in [1 .. e + 1 -> Int]
    BY <1>0, HistoryGrows
  <2> QED BY <1>0, <1>c, <1>w, <2>1
<1>r. UpTo(e) = vals /\ WindowAt(Loaded, e, Length) = span
  BY <1>c, <1>w, HistoryIsRead
<1>a. After(s, c)
  BY <1>c, <1>w
<1>1. CASE site \in {"sma", "bb"}
  <2>1. SumsAfter(s, data, c, Length)
    BY <1>1, <1>a DEF After
  <2>2. SMAOf(s) = SMAOver(span, Length) /\ BBOf(s) = BBFrom(vals, Length)
    BY <1>0, <1>c, <1>w, <1>v, <2>1, SumsMeet
  <2>3. site = "sma" => StreamValue(s) = SMAOf(s) /\ SeriesValue(e) = SMAOver(span, Length)
    <3> SUFFICES ASSUME site = "sma" PROVE StreamValue(s) = SMAOf(s) /\ SeriesValue(e) = SMAOver(span, Length)
      OBVIOUS
    <3>1. StreamValue(s) = SMAOf(s)
      BY DEF StreamValue
    <3>2. SeriesValue(e) = SMAOver(span, Length)
      BY <1>r DEF SeriesValue
    <3> QED BY <3>1, <3>2
  <2>4. site = "bb" => StreamValue(s) = BBOf(s) /\ SeriesValue(e) = BBFrom(vals, Length)
    <3> SUFFICES ASSUME site = "bb" PROVE StreamValue(s) = BBOf(s) /\ SeriesValue(e) = BBFrom(vals, Length)
      OBVIOUS
    <3>1. StreamValue(s) = BBOf(s)
      BY DEF StreamValue
    <3>2. SeriesValue(e) = BBFrom(vals, Length)
      BY <1>r DEF SeriesValue
    <3> QED BY <3>1, <3>2
  <2> QED BY <1>1, <2>2, <2>3, <2>4 DEF Agree
<1>2. CASE site = "ema"
  <2>1. EMAAfter(s, vals, c, Length)
    BY <1>2, <1>a, <1>c, <1>w DEF After
  <2>2. EMAOf(s) = EMAFrom(vals, Length)
    BY <1>0, <1>v, <2>1, EMAMeets
  <2>3. StreamValue(s) = EMAOf(s)
    BY <1>2 DEF StreamValue
  <2>4. SeriesValue(e) = EMAFrom(vals, Length)
    BY <1>2, <1>r DEF SeriesValue
  <2> QED BY <2>2, <2>3, <2>4 DEF Agree
<1>3. CASE site = "rma"
  <2>1. RMAAfter(s, vals, c, Length)
    BY <1>3, <1>a, <1>c, <1>w DEF After
  <2>2. RMAOf(s) = RMAFrom(vals, Length)
    BY <1>0, <1>v, <2>1, RMAMeets
  <2>3. StreamValue(s) = RMAOf(s)
    BY <1>3 DEF StreamValue
  <2>4. SeriesValue(e) = RMAFrom(vals, Length)
    BY <1>3, <1>r DEF SeriesValue
  <2> QED BY <2>2, <2>3, <2>4 DEF Agree
<1>4. CASE site = "rsi"
  <2>1. RSIAfter(s, data, e + 1, Length)
    BY <1>4, <1>a, <1>c, <1>w DEF After
  <2>2. \/ RSIOf(s) = RSIFrom(Hist(data, e + 1), Length)
        \/ RSIOf(s) = 50 /\ RSIFrom(Hist(data, e + 1), Length) = 100
    BY <1>0, <2>1, RSIMeets
  <2>3. StreamValue(s) = RSIOf(s)
    BY <1>4 DEF StreamValue
  <2>4. SeriesValue(e) = RSIFrom(vals, Length)
    BY <1>4, <1>r DEF SeriesValue
  <2> QED BY <1>4, <1>c, <1>w, <2>2, <2>3, <2>4 DEF Agree
<1>5. CASE site = "macd"
  <2>1. MACDAfter(s, data, e + 1, Length)
    BY <1>5, <1>a, <1>c, <1>w DEF After
  <2>2. MACDOf(s) = MACDFrom(Hist(data, e + 1), 1, Length, Length)
    BY <1>0, <2>1, MACDMeets
  <2>3. StreamValue(s) = MACDOf(s)
    BY <1>5 DEF StreamValue
  <2>4. SeriesValue(e) = MACDFrom(vals, 1, Length, Length)
    BY <1>5, <1>r DEF SeriesValue
  <2> QED BY <1>5, <1>c, <1>w, <2>2, <2>3, <2>4 DEF Agree
<1>6. CASE site \in {"mom", "roc"}
  <2>1. Holding(s, data, c, Length + 1)
    BY <1>6, <1>a DEF After
  <2>2. MOMOf(s, Length) = MOMFrom(vals, Length) /\ ROCOf(s, Length) = ROCFrom(vals, Length)
    BY <1>0, <1>c, <1>w, <2>1, EndsMeet
  <2>3. CASE site = "mom"
    <3>1. StreamValue(s) = MOMOf(s, Length)
      BY <2>3 DEF StreamValue
    <3>2. SeriesValue(e) = MOMFrom(vals, Length)
      BY <2>3, <1>r DEF SeriesValue
    <3> QED BY <2>2, <3>1, <3>2 DEF Agree
  <2>4. CASE site = "roc"
    <3>1. StreamValue(s) = ROCOf(s, Length)
      BY <2>4 DEF StreamValue
    <3>2. SeriesValue(e) = ROCFrom(vals, Length)
      BY <2>4, <1>r DEF SeriesValue
    <3> QED BY <2>2, <3>1, <3>2 DEF Agree
  <2> QED BY <1>6, <2>3, <2>4
<1>7. CASE site \in {"highest", "lowest"}
  <2>1. Holding(s, data, c, Length)
    BY <1>7, <1>a DEF After
  <2>2. ExtremaOf(s, TRUE) = ExtremaOver(span, Length, TRUE)
    BY <1>0, <1>c, <1>w, <1>v, <2>1, ExtremaMeet
  <2>3. ExtremaOf(s, FALSE) = ExtremaOver(span, Length, FALSE)
    BY <1>0, <1>c, <1>w, <1>v, <2>1, ExtremaMeet
  <2>4. CASE site = "highest"
    <3>1. StreamValue(s) = ExtremaOf(s, TRUE)
      BY <2>4 DEF StreamValue
    <3>2. SeriesValue(e) = ExtremaOver(span, Length, TRUE)
      BY <2>4, <1>r DEF SeriesValue
    <3> QED BY <2>2, <3>1, <3>2 DEF Agree
  <2>5. CASE site = "lowest"
    <3>1. StreamValue(s) = ExtremaOf(s, FALSE)
      BY <2>5 DEF StreamValue
    <3>2. SeriesValue(e) = ExtremaOver(span, Length, FALSE)
      BY <2>5, <1>r DEF SeriesValue
    <3> QED BY <2>3, <3>1, <3>2 DEF Agree
  <2> QED BY <1>7, <2>4, <2>5
<1> QED BY <1>1, <1>2, <1>3, <1>4, <1>5, <1>6, <1>7, Kinds

\* A stream that has been evaluated on the first d bars: on those before the current one
\* at least, it has gone on, and can still; on fewer, it has missed one.
Said(d) ==
  /\ DOMAIN said = 0 .. d - 1
  /\ d >= barIndex => After(stream, d) /\ lastBar = d - 1
  /\ \A b \in 0 .. d - 1 : Agree(said[b], SeriesValue(b))
Followed ==
  /\ barIndex \in 0 .. LastBar /\ data \in [0 .. LastBar -> Int]
  /\ IF site \in Streams
     THEN /\ \E d \in 0 .. barIndex + 1 : Said(d)
          /\ answer.back => answer.eff \in Int /\ answer.value = SeriesValue(answer.eff)
     ELSE DOMAIN said = {}

\* What the series say does not change, for the prices do not.
LEMMA SeriesStays ==
  ASSUME UNCHANGED <<site, data>>
  PROVE  /\ \A b : SeriesValue(b)' = SeriesValue(b)
         /\ \A s, c : After(s, c)' = After(s, c)
         /\ \A x, y : Agree(x, y)' = Agree(x, y)
<1>1. ASSUME NEW b PROVE SeriesValue(b)' = SeriesValue(b)
  BY DEF SeriesValue, UpTo, Loaded
<1>2. ASSUME NEW s, NEW c PROVE After(s, c)' = After(s, c)
  BY DEF After, SumsAfter, EMAAfter, RMAAfter, RSIAfter, MACDAfter
<1>3. ASSUME NEW x, NEW y PROVE Agree(x, y)' = Agree(x, y)
  BY DEF Agree
<1> QED BY <1>1, <1>2, <1>3

\* The invariant holds before the first bar.
LEMMA SitesStart == SitesInit => Followed
<1> SUFFICES ASSUME SitesInit PROVE Followed
  OBVIOUS
<1>1. barIndex = 0 /\ lastBar = -1 /\ stream = New /\ ~ answer.back /\ said = [b \in {} |-> NaN]
  BY DEF SitesInit, Init
<1>2. barIndex \in 0 .. LastBar
  BY <1>1, LastBarAssumption
<1>3. data \in [0 .. LastBar -> Int]
  <2>1. data \in {[b \in 0 .. LastBar |-> 0]} \/ data \in [0 .. LastBar -> Prices]
    BY DEF SitesInit
  <2>2. CASE data \in {[b \in 0 .. LastBar |-> 0]}
    BY <2>2
  <2>3. CASE data \in [0 .. LastBar -> Prices]
    <3>1. Prices \subseteq Int
      BY PricesAssumption
    <3> QED BY <2>3, <3>1
  <2> QED BY <2>1, <2>2, <2>3
<1>4. DOMAIN said = {}
  BY <1>1
<1>5. ASSUME site \in Streams PROVE Said(0)
  <2>1. 0 .. 0 - 1 = {}
    OBVIOUS
  <2>2. After(stream, 0)
    BY <1>1, <1>5, StreamStarts
  <2> QED BY <1>1, <1>4, <2>1, <2>2 DEF Said
<1>6. site \in Streams => \E d \in 0 .. barIndex + 1 : Said(d)
  <2>1. 0 \in 0 .. barIndex + 1
    BY <1>1
  <2> QED BY <1>5, <2>1
<1> QED BY <1>1, <1>2, <1>3, <1>4, <1>6 DEF Followed

\* A step that leaves the stream and what it has said alone.
LEMMA OthersKeepSaid ==
  ASSUME UNCHANGED <<site, data, stream, lastBar, said>>, barIndex' \in Nat, barIndex \in Nat,
         barIndex' >= barIndex, NEW d \in Int, Said(d)
  PROVE  Said(d)'
<1>1. /\ \A b : SeriesValue(b)' = SeriesValue(b)
      /\ \A s, c : After(s, c)' = After(s, c)
      /\ \A x, y : Agree(x, y)' = Agree(x, y)
  BY SeriesStays
<1>2. DOMAIN said' = 0 .. d - 1
  BY DEF Said
<1>3. d >= barIndex' => After(stream, d)' /\ lastBar' = d - 1
  <2>1. d >= barIndex' => d >= barIndex
    OBVIOUS
  <2>2. d >= barIndex => After(stream, d) /\ lastBar = d - 1
    BY DEF Said
  <2>3. After(stream, d)' = After(stream, d)
    BY <1>1
  <2> QED BY <2>1, <2>2, <2>3
<1>4. ASSUME NEW b \in 0 .. d - 1 PROVE Agree(said[b], SeriesValue(b))'
  <2>1. Agree(said[b], SeriesValue(b))
    BY DEF Said
  <2> QED BY <1>1, <2>1
<1> QED BY <1>2, <1>3, <1>4 DEF Said

\* There is no less room later.
LEMMA LaterHasMore == \A i, j \in Nat : i <= j => \A d \in 0 .. i + 1 : d \in Int /\ d \in 0 .. j + 1
OBVIOUS

\* The steps of the other builtins and of the bars.
LEMMA OthersKeepFollowed ==
  ASSUME Followed, UNCHANGED <<site, data, stream, lastBar, said>>,
         barIndex' \in 0 .. LastBar, barIndex' >= barIndex,
         UNCHANGED answer \/ site \notin Streams
  PROVE  Followed'
<1>1. barIndex \in 0 .. LastBar /\ barIndex \in Nat /\ data \in [0 .. LastBar -> Int]
  BY LastBarAssumption DEF Followed
<1>2. barIndex' \in Nat
  BY LastBarAssumption
<1>3. CASE site \notin Streams
  BY <1>1, <1>2, <1>3 DEF Followed
<1>4. CASE site \in Streams
  <2>1. PICK d \in 0 .. barIndex + 1 : Said(d)
    BY <1>4 DEF Followed
  <2>2. d \in Int /\ d \in 0 .. barIndex' + 1
    <3>1. barIndex <= barIndex'
      BY <1>1, <1>2
    <3> QED BY <1>1, <1>2, <2>1, <3>1, LaterHasMore, Zenon
  <2>3. Said(d)'
    BY <1>1, <1>2, <2>1, <2>2, OthersKeepSaid
  <2>4. (answer.back => answer.eff \in Int /\ answer.value = SeriesValue(answer.eff))'
    <3>1. answer.back => answer.eff \in Int /\ answer.value = SeriesValue(answer.eff)
      BY <1>4 DEF Followed
    <3>2. PICK x : x = answer.eff
      OBVIOUS
    <3>3. SeriesValue(x)' = SeriesValue(x)
      BY SeriesStays
    <3> QED BY <1>4, <3>1, <3>2, <3>3
  <2> QED BY <1>1, <1>2, <1>4, <2>2, <2>3, <2>4 DEF Followed
<1> QED BY <1>3, <1>4

\* Evaluated at the current bar, a stream that missed none takes it in once, and says
\* what the series do.
LEMMA AskNowFollows == ASSUME Followed, AskNow PROVE Followed'
<1>0. /\ site \in Streams /\ UNCHANGED <<vars, site, data>>
      /\ IF lastBar # barIndex
         THEN stream' = StreamUpdated(data[barIndex]) /\ lastBar' = barIndex
         ELSE UNCHANGED <<stream, lastBar>>
      /\ answer' = [value |-> StreamValue(stream'), eff |-> barIndex, back |-> FALSE]
      /\ said' = IF DOMAIN said = 0 .. barIndex - 1
                 THEN [b \in 0 .. barIndex |-> IF b = barIndex THEN answer'.value ELSE said[b]]
                 ELSE said
  BY DEF AskNow
<1>1. barIndex \in 0 .. LastBar /\ barIndex \in Nat /\ data \in [0 .. LastBar -> Int] /\ barIndex' = barIndex
  BY <1>0, LastBarAssumption DEF Followed, vars
<1>2. PICK d \in 0 .. barIndex + 1 : Said(d)
  BY <1>0 DEF Followed
<1>3. /\ \A b : SeriesValue(b)' = SeriesValue(b)
      /\ \A s, c : After(s, c)' = After(s, c)
      /\ \A x, y : Agree(x, y)' = Agree(x, y)
  BY <1>0, SeriesStays
<1>4. /\ DOMAIN said = 0 .. d - 1
      /\ d >= barIndex => After(stream, d) /\ lastBar = d - 1
      /\ \A b \in 0 .. d - 1 : Agree(said[b], SeriesValue(b))
  BY <1>2 DEF Said
<1>5. CASE d = barIndex
  <2>1. After(stream, barIndex) /\ lastBar # barIndex /\ DOMAIN said = 0 .. barIndex - 1
    BY <1>1, <1>4, <1>5
  <2>2. stream' = StreamUpdated(data[barIndex]) /\ lastBar' = barIndex
    BY <1>0, <2>1
  <2>3. After(stream', barIndex + 1)
    BY <1>0, <1>1, <2>1, <2>2, StreamFollows
  <2>4. PICK s : s = stream'
    OBVIOUS
  <2>5. Agree(StreamValue(s), SeriesValue(barIndex))
    BY <1>0, <1>1, <2>3, <2>4, StreamMeets
  <2>6. StreamValue(stream') = StreamValue(s)
    BY <2>4
  <2>7. said' = [b \in 0 .. barIndex |-> IF b = barIndex THEN StreamValue(s) ELSE said[b]]
    BY <1>0, <2>1, <2>6
  <2>8. DOMAIN said' = 0 .. (barIndex + 1) - 1
    BY <1>1, <2>7
  <2>9. ASSUME NEW b \in 0 .. (barIndex + 1) - 1 PROVE Agree(said[b], SeriesValue(b))'
    <3>1. b \in 0 .. barIndex
      BY <1>1
    <3>2. Agree(said'[b], SeriesValue(b))
      <4>1. CASE b = barIndex
        BY <2>5, <2>7, <3>1, <4>1
      <4>2. CASE b # barIndex
        <5>1. b \in 0 .. d - 1 /\ said'[b] = said[b]
          BY <1>1, <1>5, <2>7, <3>1, <4>2
        <5> QED BY <1>4, <5>1
      <4> QED BY <4>1, <4>2
    <3> QED BY <1>3, <3>2
  <2>10. PICK k \in Int : k = barIndex + 1 /\ k \in 0 .. barIndex' + 1
    BY <1>1
  <2>11. After(stream, k)' /\ lastBar' = k - 1
    <3>1. After(s, k)' = After(s, k)
      BY <1>3
    <3>2. After(s, k)
      BY <2>3, <2>4, <2>10
    <3> QED BY <1>1, <2>2, <2>4, <2>10, <3>1, <3>2
  <2>12. Said(k)'
    BY <2>8, <2>9, <2>10, <2>11 DEF Said
  <2> QED BY <1>0, <1>1, <2>10, <2>12 DEF Followed
<1>6. CASE d = barIndex + 1
  <2>1. lastBar = barIndex /\ DOMAIN said # 0 .. barIndex - 1
    <3>1. barIndex \in DOMAIN said /\ barIndex \notin 0 .. barIndex - 1
      BY <1>1, <1>4, <1>6
    <3> QED BY <1>1, <1>4, <1>6, <3>1
  <2>2. UNCHANGED <<stream, lastBar, said>>
    BY <1>0, <2>1
  <2>3. Said(d)'
    BY <1>0, <1>1, <1>2, <2>2, OthersKeepSaid
  <2> QED BY <1>0, <1>1, <2>3 DEF Followed
<1>7. CASE d < barIndex
  <2>1. DOMAIN said # 0 .. barIndex - 1
    <3>1. d \notin DOMAIN said /\ d \in 0 .. barIndex - 1
      BY <1>1, <1>4, <1>7
    <3> QED BY <3>1
  <2>2. UNCHANGED said
    BY <1>0, <2>1
  <2>3. Said(d)'
    <3>1. DOMAIN said' = 0 .. d - 1 /\ ~ (d >= barIndex')
      BY <1>1, <1>4, <1>7, <2>2
    <3>2. ASSUME NEW b \in 0 .. d - 1 PROVE Agree(said[b], SeriesValue(b))'
      BY <1>3, <1>4, <2>2
    <3> QED BY <3>1, <3>2 DEF Said
  <2> QED BY <1>0, <1>1, <2>3 DEF Followed
<1>8. d = barIndex \/ d = barIndex + 1 \/ d < barIndex
  BY <1>1
<1> QED BY <1>5, <1>6, <1>7, <1>8

\* Evaluated at an earlier bar it answers from the series and its state stays.
LEMMA AskBackFollows == ASSUME Followed, NEW offset \in 0 .. barIndex + 1, AskBack(offset) PROVE Followed'
<1>0. /\ site \in Streams /\ UNCHANGED <<vars, site, data, remembered, said>>
      /\ answer' = [value |-> SeriesValue(Effective(offset)), eff |-> Effective(offset), back |-> TRUE]
  BY DEF AskBack
<1>1. /\ barIndex \in 0 .. LastBar /\ barIndex \in Nat /\ data \in [0 .. LastBar -> Int]
      /\ UNCHANGED <<barIndex, stream, lastBar>>
  BY <1>0, LastBarAssumption DEF Followed, vars, remembered
<1>2. PICK e : e = Effective(offset)
  OBVIOUS
<1>3. e \in Int
  BY <1>1, <1>2 DEF Effective
<1>4. answer'.eff = e /\ answer'.value = SeriesValue(e) /\ SeriesValue(e)' = SeriesValue(e)
  BY <1>0, <1>2, SeriesStays
<1>5. PICK d \in 0 .. barIndex + 1 : Said(d)
  BY <1>0 DEF Followed
<1>6. Said(d)'
  BY <1>0, <1>1, <1>5, OthersKeepSaid
<1>7. (answer.value = SeriesValue(answer.eff))'
  BY <1>4
<1> QED BY <1>0, <1>1, <1>3, <1>4, <1>5, <1>6, <1>7 DEF Followed

\* One step of any kind.
LEMMA StepsFollow == ASSUME Followed, [SitesNext]_allVars PROVE Followed'
<1>0. barIndex \in 0 .. LastBar /\ LastBar \in Nat /\ "derived" \notin Streams
      /\ (site \in Conditional => site \notin Streams)
  BY LastBarAssumption DEF Followed, Streams, Conditional
<1>1. CASE UNCHANGED allVars
  <2>1. UNCHANGED <<site, data, stream, lastBar, said, answer, barIndex>>
    BY <1>1 DEF allVars, vars, siteVars, remembered, asked
  <2> QED BY <1>0, <2>1, OthersKeepFollowed
<1>2. CASE NextBar /\ UNCHANGED siteVars
  <2>1. UNCHANGED <<site, data, stream, lastBar, said, answer>>
    BY <1>2 DEF siteVars, remembered, asked
  <2>2. barIndex' \in 0 .. LastBar /\ barIndex' >= barIndex
    <3>1. barIndex < LastBar /\ barIndex' = barIndex + 1
      BY <1>2 DEF NextBar
    <3> QED BY <1>0, <3>1
  <2> QED BY <2>1, <2>2, OthersKeepFollowed
<1>3. ASSUME NEW offset \in 0 .. barIndex + 1, site = "derived", Derive(offset), UNCHANGED siteVars
      PROVE  Followed'
  <2>1. UNCHANGED <<site, data, stream, lastBar, said, answer, barIndex>>
    BY <1>3 DEF Derive, siteVars, remembered, asked
  <2> QED BY <1>0, <2>1, OthersKeepFollowed
<1>4. ASSUME NEW offset \in 0 .. barIndex + 1, AskBack(offset) PROVE Followed'
  BY <1>4, AskBackFollows
<1>5. ASSUME NEW offset \in 0 .. barIndex + 1, NEW n \in Occurrences, AskSince(offset, n) PROVE Followed'
  <2>1. site \in Conditional /\ UNCHANGED <<vars, site, data, stream, lastBar, said>>
    BY <1>5 DEF AskSince
  <2>2. UNCHANGED barIndex
    BY <2>1 DEF vars
  <2> QED BY <1>0, <2>1, <2>2, OthersKeepFollowed
<1>6. CASE AskNow
  BY <1>6, AskNowFollows
<1> QED BY <1>1, <1>2, <1>3, <1>4, <1>5, <1>6 DEF SitesNext

\* What an indicator that missed no bar said at a bar is what the series say of that bar
\* later, whatever the prices, the length and the bars it is asked about.
THEOREM PathsMeet == SitesSpec => []PathsAgree
<1>1. Followed => PathsAgree
  <2> SUFFICES ASSUME Followed, answer.back, answer.eff \in DOMAIN said
               PROVE  \/ answer.value = said[answer.eff]
                      \/ site = "rsi" /\ said[answer.eff] = 50 /\ answer.value = 100
    BY DEF PathsAgree
  <2>1. site \in Streams
    BY DEF Followed
  <2>2. PICK d : Said(d)
    BY <2>1 DEF Followed
  <2>3. PICK b, x : b = answer.eff /\ x = said[b]
    OBVIOUS
  <2>4. Agree(x, SeriesValue(b))
    BY <2>2, <2>3 DEF Said
  <2>5. answer.value = SeriesValue(b)
    BY <2>1, <2>3 DEF Followed
  <2> QED BY <2>3, <2>4, <2>5 DEF Agree
<1> QED BY <1>1, SitesStart, StepsFollow, PTL DEF SitesSpec
=============================================================================
