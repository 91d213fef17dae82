---------------------------- MODULE InterpProofs ----------------------------
(***************************************************************************)
(* For every script, whatever it nests and for however many bars it runs:  *)
(* the stacks of the interpreter agree, a call leaves the frames of its    *)
(* callers alone, no bar is missing in a history, and x[n] reads back what *)
(* was committed.                                                          *)
(***************************************************************************)
EXTENDS InterpProps, SumTheorems, SequenceTheorems

Frame == UNION {[D -> Entry] : D \in SUBSET Names}
Binding == [name : Names, value : Numeric]
Construct == [is : Kinds, var : Names, i : Int, last : Int, by : Int,
              items : Seq(Values), n : Nat, before : Frame, offset : Nat, saved : Seq(Frame)]

Calls(cs) == {k \in DOMAIN cs : cs[k].is = "call"}
Fors(cs) == {k \in DOMAIN cs : cs[k].is = "for"}

\* The sets the state ranges over.
Types ==
  /\ bar \in Nat /\ phase \in {"script", "commit", "done", "failed"} /\ offset \in Nat
  /\ frames \in Seq(Frame) /\ control \in Seq(Construct) /\ loops \in Seq(Binding)
  /\ \A k \in DOMAIN control : DOMAIN control[k].before \subseteq {control[k].var}
  /\ consts \subseteq Names /\ bools \subseteq Names /\ rootVars \subseteq Names
  /\ kind \in [Names -> {"unknown", "numeric", "generic"}]
  /\ numHist \in [Names -> Seq(Values)] /\ genHist \in [Names -> Seq(Values)]
  /\ committed \in [Names -> Seq(Values)]

\* There is a frame for each call and the root's, and a binding for each loop over numbers.
Stacks ==
  /\ Len(frames) = 1 + Cardinality(Calls(control))
  /\ Len(loops) = Cardinality(Fors(control))
  /\ phase = "commit" => control = <<>>

\* The frames a call found are still there, all below its own; an inner call found more.
Saved ==
  \A k \in Calls(control) :
    /\ Len(control[k].saved) < Len(frames)
    /\ \A n \in 1 .. Len(control[k].saved) : frames[n] = control[k].saved[n]
    /\ \A j \in Calls(control) : j < k => Len(control[j].saved) < Len(control[k].saved)

\* A variable that has been recorded is in the root's frame, and a loop of the root that
\* borrows its name will put it back.
Borrows(c, x) == c.is \in {"for", "for in"} /\ c.var = x
Kept ==
  \A x \in Names : committed[x] # <<>> =>
    /\ x \in DOMAIN frames[1]
    /\ \A k \in DOMAIN control :
         Borrows(control[k], x) /\ (\A j \in 1 .. k : control[j].is # "call") =>
           x \in DOMAIN control[k].before

\* Where the history of a variable is kept.
Recording(x) ==
  \/ kind[x] = "unknown" /\ committed[x] = <<>> /\ numHist[x] = <<>> /\ genHist[x] = <<>>
  \/ /\ kind[x] = "numeric" /\ numHist[x] = committed[x] /\ genHist[x] = <<>>
     /\ committed[x] # <<>> /\ \A i \in DOMAIN committed[x] : committed[x][i] \in Numeric
  \/ kind[x] = "generic" /\ numHist[x] = <<>> /\ genHist[x] = committed[x]
Recordings == \A x \in Names : NoBoolAfterNumber(committed[x]) => Recording(x)

\* The inductive invariant.
IInv == Types /\ Stacks /\ Saved /\ Kept /\ Recordings

-----------------------------------------------------------------------------
(* Greatest elements, stacks and counts. *)

\* Max and Min pick an element of a bounded set of numbers.
LEMMA MaxIs ==
  ASSUME NEW B, B \subseteq Nat, B # {}, NEW b \in Nat, \A n \in B : n <= b
  PROVE  Max(B) \in B /\ \A n \in B : n <= Max(B)
<1> DEFINE C == {b - n : n \in B}
<1>1. C \subseteq Nat /\ C # {}
  <2>1. \A n \in B : b - n \in Nat
    OBVIOUS
  <2> QED BY <2>1
<1>2. PICK c \in C : \A d \in C : c <= d
  <2> HIDE DEF C
  <2> QED BY <1>1, LeastNatural
<1>3. PICK m \in B : c = b - m
  OBVIOUS
<1>4. \A n \in B : n <= m
  <2> TAKE n \in B
  <2>1. b - m <= b - n
    BY <1>2, <1>3
  <2> QED BY <2>1
<1>5. \A n \in B : m >= n
  BY <1>4
<1>6. Max(B) \in B /\ \A n \in B : Max(B) >= n
  BY <1>5 DEF Max
<1> QED BY <1>6

LEMMA MinIs ==
  ASSUME NEW B, B \subseteq Nat, B # {}
  PROVE  Min(B) \in B /\ \A n \in B : Min(B) <= n
<1>1. PICK m \in B : \A n \in B : m <= n
  BY LeastNatural
<1> QED BY <1>1 DEF Min

\* A stack whose top is replaced.
LEMMA TopReplaced ==
  ASSUME NEW T, NEW s \in Seq(T), s # <<>>, NEW e \in T
  PROVE  /\ Len(s) \in Nat /\ Len(s) >= 1 /\ Top(s) \in T
         /\ WithTop(s, e) \in Seq(T) /\ Len(WithTop(s, e)) = Len(s)
         /\ WithTop(s, e)[Len(s)] = e
         /\ \A k \in 1 .. Len(s) - 1 : WithTop(s, e)[k] = s[k]
BY DEF Top, WithTop

\* A stack cut down to its first n elements.
LEMMA Cut ==
  ASSUME NEW T, NEW s \in Seq(T), NEW n \in 0 .. Len(s)
  PROVE  /\ SubSeq(s, 1, n) \in Seq(T) /\ Len(SubSeq(s, 1, n)) = n
         /\ \A k \in 1 .. n : SubSeq(s, 1, n)[k] = s[k]
OBVIOUS

\* A stack with one more element.
LEMMA Pushed ==
  ASSUME NEW T, NEW s \in Seq(T), NEW e \in T
  PROVE  /\ Append(s, e) \in Seq(T) /\ Len(Append(s, e)) = Len(s) + 1
         /\ Append(s, e)[Len(s) + 1] = e
         /\ \A k \in 1 .. Len(s) : Append(s, e)[k] = s[k]
OBVIOUS

\* How many constructs are calls, and loops over numbers.
LEMMA Counted ==
  ASSUME NEW cs \in Seq(Construct)
  PROVE  /\ IsFiniteSet(Calls(cs)) /\ Cardinality(Calls(cs)) \in Nat
         /\ IsFiniteSet(Fors(cs)) /\ Cardinality(Fors(cs)) \in Nat
         /\ Calls(cs) \subseteq 1 .. Len(cs) /\ Fors(cs) \subseteq 1 .. Len(cs)
<1>1. IsFiniteSet(1 .. Len(cs))
  BY FS_Interval
<1>2. Calls(cs) \subseteq 1 .. Len(cs) /\ Fors(cs) \subseteq 1 .. Len(cs)
  BY DEF Calls, Fors
<1> QED BY <1>1, <1>2, FS_Subset, FS_CardinalityType

\* What a construct holds.
LEMMA ConstructIs ==
  ASSUME NEW cs \in Seq(Construct), NEW k \in 1 .. Len(cs)
  PROVE  /\ cs[k] \in Construct /\ cs[k].saved \in Seq(Frame) /\ Len(cs[k].saved) \in Nat
         /\ cs[k].before \in Frame /\ cs[k].var \in Names /\ cs[k].offset \in Nat
<1>1. cs[k] \in Construct
  OBVIOUS
<1>2. cs[k].saved \in Seq(Frame) /\ cs[k].before \in Frame /\ cs[k].var \in Names /\ cs[k].offset \in Nat
  BY <1>1 DEF Construct
<1> QED BY <1>1, <1>2

\* One more construct.
LEMMA CountedPush ==
  ASSUME NEW cs \in Seq(Construct), NEW c \in Construct
  PROVE  /\ Cardinality(Calls(Append(cs, c))) = Cardinality(Calls(cs)) + IF c.is = "call" THEN 1 ELSE 0
         /\ Cardinality(Fors(Append(cs, c))) = Cardinality(Fors(cs)) + IF c.is = "for" THEN 1 ELSE 0
<1> DEFINE n == Len(cs) + 1
<1>1. /\ DOMAIN Append(cs, c) = DOMAIN cs \cup {n} /\ n \notin DOMAIN cs
      /\ Append(cs, c)[n] = c /\ \A k \in DOMAIN cs : Append(cs, c)[k] = cs[k]
  OBVIOUS
<1> HIDE DEF n
<1>2. Calls(Append(cs, c)) = Calls(cs) \cup IF c.is = "call" THEN {n} ELSE {}
  BY <1>1 DEF Calls
<1>3. Fors(Append(cs, c)) = Fors(cs) \cup IF c.is = "for" THEN {n} ELSE {}
  BY <1>1 DEF Fors
<1>4. n \notin Calls(cs) /\ n \notin Fors(cs)
  BY <1>1 DEF Calls, Fors
<1>5. Cardinality(Calls(cs) \cup {n}) = Cardinality(Calls(cs)) + 1
  BY <1>4, Counted, FS_AddElement
<1>6. Cardinality(Fors(cs) \cup {n}) = Cardinality(Fors(cs)) + 1
  BY <1>4, Counted, FS_AddElement
<1>7. \A B : B \cup {} = B
  OBVIOUS
<1>8. Cardinality(Calls(Append(cs, c))) = Cardinality(Calls(cs)) + IF c.is = "call" THEN 1 ELSE 0
  <2>1. CASE c.is = "call"
    BY <1>2, <1>5, <2>1
  <2>2. CASE c.is # "call"
    <3>1. Calls(Append(cs, c)) = Calls(cs)
      BY <1>2, <1>7, <2>2
    <3> QED BY <3>1, <2>2, Counted
  <2> QED BY <2>1, <2>2
<1>9. Cardinality(Fors(Append(cs, c))) = Cardinality(Fors(cs)) + IF c.is = "for" THEN 1 ELSE 0
  <2>1. CASE c.is = "for"
    BY <1>3, <1>6, <2>1
  <2>2. CASE c.is # "for"
    <3>1. Fors(Append(cs, c)) = Fors(cs)
      BY <1>3, <1>7, <2>2
    <3> QED BY <3>1, <2>2, Counted
  <2> QED BY <2>1, <2>2
<1> QED BY <1>8, <1>9

\* The constructs up to the n-th.
LEMMA CountedCut ==
  ASSUME NEW cs \in Seq(Construct), NEW n \in 0 .. Len(cs)
  PROVE  /\ Calls(SubSeq(cs, 1, n)) = {k \in Calls(cs) : k <= n}
         /\ Fors(SubSeq(cs, 1, n)) = {k \in Fors(cs) : k <= n}
         /\ Cardinality(Fors(SubSeq(cs, 1, n))) \in 0 .. Cardinality(Fors(cs))
<1> DEFINE less == SubSeq(cs, 1, n)
<1>1. /\ n \in Nat /\ Len(cs) \in Nat /\ n <= Len(cs) /\ DOMAIN cs = 1 .. Len(cs)
      /\ less \in Seq(Construct) /\ DOMAIN less = 1 .. n /\ \A k \in 1 .. n : less[k] = cs[k]
  OBVIOUS
<1> HIDE DEF less
<1>2. Calls(less) = {k \in Calls(cs) : k <= n} /\ Fors(less) = {k \in Fors(cs) : k <= n}
  BY <1>1 DEF Calls, Fors
<1>3. Cardinality(Fors(less)) <= Cardinality(Fors(cs))
  <2>1. Fors(less) \in SUBSET Fors(cs)
    BY <1>2
  <2> QED BY <2>1, Counted, FS_Subset
<1>4. Cardinality(Fors(less)) \in Nat /\ Cardinality(Fors(cs)) \in Nat
  BY <1>1, Counted
<1> QED BY <1>2, <1>3, <1>4 DEF less

\* The innermost call.
LEMMA InnermostCall ==
  ASSUME Types
  PROVE  /\ CallAt \in 0 .. Len(control)
         /\ CallAt = 0 => Calls(control) = {}
         /\ CallAt # 0 => CallAt \in Calls(control)
         /\ \A k \in Calls(control) : k <= CallAt
<1> DEFINE B == Calls(control) \cup {0}
<1>1. Calls(control) \subseteq 1 .. Len(control) /\ Len(control) \in Nat
  BY Counted DEF Types
<1>2. B \subseteq Nat /\ B # {} /\ \A n \in B : n <= Len(control)
  BY <1>1
<1>3. CallAt = Max(B)
  BY DEF CallAt, Calls
<1> HIDE DEF B
<1>4. CallAt \in B /\ \A n \in B : n <= CallAt
  BY <1>1, <1>2, <1>3, MaxIs
<1> QED BY <1>1, <1>4 DEF B

-----------------------------------------------------------------------------
(* Frames and values. *)

\* What a frame is made of.
LEMMA FrameIs ==
  /\ \A f \in Frame : DOMAIN f \subseteq Names /\ \A y \in DOMAIN f : f[y] \in Entry
  /\ \A D \in SUBSET Names : \A f \in [D -> Entry] : f \in Frame
BY DEF Frame

\* The stack of frames is never empty, and is the root's alone outside every call.
LEMMA TopFrame ==
  ASSUME Types, Stacks
  PROVE  /\ Len(frames) \in Nat /\ Len(frames) >= 1 /\ frames # <<>>
         /\ Top(frames) \in Frame /\ frames[1] \in Frame
         /\ Calls(control) = {} <=> Len(frames) = 1
<1>1. Cardinality(Calls(control)) \in Nat /\ (Cardinality(Calls(control)) = 0 <=> Calls(control) = {})
  BY Counted, FS_EmptySet DEF Types
<1>2. frames \in Seq(Frame) /\ Len(frames) \in Nat /\ Len(frames) >= 1
  BY <1>1 DEF Types, Stacks
<1> QED BY <1>1, <1>2 DEF Stacks, Top

\* The innermost binding and the innermost frame of a name, where there are any.
LEMMA BindingIs ==
  ASSUME Types, NEW y \in Names
  PROVE  BindingOf(y) # 0 => BindingOf(y) \in 1 .. Len(loops) /\ loops[BindingOf(y)].name = y
<1> DEFINE B == {k \in DOMAIN loops : loops[k].name = y} \cup {0}
<1>1. B \subseteq Nat /\ B # {} /\ Len(loops) \in Nat /\ \A n \in B : n <= Len(loops)
  BY DEF Types
<1>2. BindingOf(y) \in B
  <2> HIDE DEF B
  <2>1. Max(B) \in B
    BY <1>1, MaxIs
  <2> QED BY <2>1 DEF BindingOf, B
<1>3. DOMAIN loops = 1 .. Len(loops)
  BY DEF Types
<1> QED BY <1>2, <1>3

LEMMA FrameOfIs ==
  ASSUME Types, NEW y \in Names
  PROVE  FrameOf(y) # 0 => FrameOf(y) \in 1 .. Len(frames) /\ y \in DOMAIN frames[FrameOf(y)]
<1> DEFINE B == {k \in DOMAIN frames : y \in DOMAIN frames[k]} \cup {0}
<1>1. B \subseteq Nat /\ B # {} /\ Len(frames) \in Nat /\ \A n \in B : n <= Len(frames)
  BY DEF Types
<1>2. FrameOf(y) \in B
  <2> HIDE DEF B
  <2>1. Max(B) \in B
    BY <1>1, MaxIs
  <2> QED BY <2>1 DEF FrameOf, B
<1>3. DOMAIN frames = 1 .. Len(frames)
  BY DEF Types
<1> QED BY <1>2, <1>3

\* What a variable held, and holds, is a value.
LEMMA PastIsValue ==
  ASSUME Types, NEW y \in Names, NEW back \in Nat \ {0}
  PROVE  Past(y, back) \in Values
<1>1. NaN \in Values /\ False \in Values
  BY DEF Values, Numeric, Bools
<1>2. numHist[y] \in Seq(Values) /\ genHist[y] \in Seq(Values)
  BY DEF Types
<1> QED BY <1>1, <1>2 DEF Past

LEMMA ResolvedIsValue ==
  ASSUME Types, NEW y \in Names, NEW off \in Nat
  PROVE  Resolve(y, off) \in Values
<1>1. CASE off > 0
  BY <1>1, PastIsValue DEF Resolve
<1>2. CASE off = 0 /\ BindingOf(y) # 0
  <2>1. loops[BindingOf(y)] \in Binding
    BY <1>2, BindingIs DEF Types
  <2> QED BY <1>2, <2>1 DEF Resolve, Binding, Values
<1>3. CASE off = 0 /\ BindingOf(y) = 0 /\ FrameOf(y) # 0
  <2>1. frames[FrameOf(y)] \in Frame /\ y \in DOMAIN frames[FrameOf(y)]
    BY <1>3, FrameOfIs DEF Types
  <2>2. frames[FrameOf(y)][y] \in Entry
    BY <2>1, FrameIs
  <2> QED BY <1>3, <2>2 DEF Resolve, Entry
<1>4. CASE off = 0 /\ BindingOf(y) = 0 /\ FrameOf(y) = 0
  BY <1>4, PastIsValue DEF Resolve
<1> QED BY <1>1, <1>2, <1>3, <1>4

\* A plain value is an entry, and a number becomes a number.
LEMMA PlainIsEntry == \A v \in Values : Plain(v) \in Entry
BY DEF Plain, Entry, Arg

LEMMA ToFloatIsNumeric == \A v \in Values : IsNumber(v) => ToFloat(v) \in Numeric
BY DEF IsNumber, ToFloat, Numeric, Bools

\* A variable is set in the innermost frame, and no name leaves it.
LEMMA StoredIs ==
  ASSUME Types, Stacks, NEW y \in Names, NEW v \in Values
  PROVE  /\ Stored(y, v) \in Seq(Frame) /\ Len(Stored(y, v)) = Len(frames)
         /\ \A k \in 1 .. Len(frames) - 1 : Stored(y, v)[k] = frames[k]
         /\ DOMAIN Stored(y, v)[Len(frames)] = DOMAIN Top(frames) \cup {y}
<1> DEFINE f == Put(Top(frames), y, Plain(v))
<1>1. DOMAIN f = DOMAIN Top(frames) \cup {y}
  BY DEF Put
<1>2. f \in Frame
  <2>1. DOMAIN f \subseteq Names
    BY <1>1, TopFrame, FrameIs
  <2>2. f = [z \in DOMAIN f |-> f[z]] /\ \A z \in DOMAIN f : f[z] \in Entry
    BY <1>1, TopFrame, FrameIs, PlainIsEntry DEF Put
  <2>3. f \in [DOMAIN f -> Entry]
    BY <2>2
  <2> QED BY <2>1, <2>3, FrameIs
<1>3. frames \in Seq(Frame) /\ frames # <<>>
  BY TopFrame DEF Types
<1>4. Stored(y, v) = WithTop(frames, f)
  BY DEF Stored
<1> HIDE DEF f
<1>5. /\ WithTop(frames, f) \in Seq(Frame) /\ Len(WithTop(frames, f)) = Len(frames)
      /\ WithTop(frames, f)[Len(frames)] = f
      /\ \A k \in 1 .. Len(frames) - 1 : WithTop(frames, f)[k] = frames[k]
  BY <1>2, <1>3, TopReplaced
<1> QED BY <1>1, <1>4, <1>5

-----------------------------------------------------------------------------
(* What the steps have in common. *)

\* A step inside a construct: it may change the innermost frame, of which no name is
\* lost, and how far the constructs have come.
LEMMA BodyStep ==
  ASSUME IInv, UNCHANGED histories,
         frames' \in Seq(Frame), Len(frames') = Len(frames),
         \A k \in 1 .. Len(frames) - 1 : frames'[k] = frames[k],
         DOMAIN Top(frames) \subseteq DOMAIN frames'[Len(frames)],
         control' \in Seq(Construct), Len(control') = Len(control),
         \A k \in 1 .. Len(control) : /\ control'[k].is = control[k].is /\ control'[k].var = control[k].var
                                      /\ control'[k].before = control[k].before
                                      /\ control'[k].saved = control[k].saved
  PROVE  /\ Saved' /\ Kept' /\ Recordings'
         /\ Calls(control') = Calls(control) /\ Fors(control') = Fors(control)
<1>1. control \in Seq(Construct) /\ DOMAIN control = 1 .. Len(control) /\ DOMAIN control' = 1 .. Len(control)
  BY DEF IInv, Types
<1>2. Calls(control') = Calls(control) /\ Fors(control') = Fors(control) /\ Calls(control) \subseteq 1 .. Len(control)
  BY <1>1 DEF Calls, Fors
<1>3. Len(frames) \in Nat /\ Len(frames) >= 1
  BY TopFrame DEF IInv
<1>4. Saved'
  <2>1. \A k \in Calls(control) : Len(control[k].saved) \in Nat /\ control'[k].saved = control[k].saved
    BY <1>1, <1>2, ConstructIs
  <2>2. ASSUME NEW k \in Calls(control)
        PROVE  /\ Len(control[k].saved) < Len(frames')
               /\ \A n \in 1 .. Len(control[k].saved) : frames'[n] = control[k].saved[n]
               /\ \A j \in Calls(control) : j < k => Len(control[j].saved) < Len(control[k].saved)
    BY <1>3, <2>1 DEF IInv, Saved
  <2> QED BY <1>2, <2>1, <2>2 DEF Saved
<1>5. DOMAIN frames[1] \subseteq DOMAIN frames'[1]
  BY <1>3 DEF Top
<1>6. Kept'
  <2>1. committed' = committed
    BY DEF histories
  <2>2. ASSUME NEW y \in Names, committed[y] # <<>>, NEW k \in 1 .. Len(control),
               Borrows(control'[k], y), \A j \in 1 .. k : control'[j].is # "call"
        PROVE  y \in DOMAIN control'[k].before
    <3>1. Borrows(control[k], y)
      BY <2>2 DEF Borrows
    <3>2. \A j \in 1 .. k : control[j].is # "call"
      BY <1>1, <2>2
    <3> QED BY <1>1, <2>2, <3>1, <3>2 DEF IInv, Kept
  <2> QED BY <1>1, <1>5, <2>1, <2>2 DEF IInv, Kept
<1>7. Recordings'
  BY DEF IInv, Recordings, Recording, NoBoolAfterNumber, histories
<1> QED BY <1>2, <1>4, <1>6, <1>7

\* A loop is entered, and remembers what its variable was.
LEMMA LoopEntered ==
  ASSUME IInv, UNCHANGED histories,
         frames' \in Seq(Frame), Len(frames') = Len(frames),
         \A k \in 1 .. Len(frames) - 1 : frames'[k] = frames[k],
         DOMAIN Top(frames) \subseteq DOMAIN frames'[Len(frames)],
         NEW c \in Construct, c.is # "call", DOMAIN c.before = {c.var} \cap DOMAIN Top(frames),
         control' = Append(control, c)
  PROVE  Saved' /\ Kept' /\ Recordings'
<1>1. control \in Seq(Construct) /\ DOMAIN control = 1 .. Len(control) /\ Len(control) \in Nat
  BY DEF IInv, Types
<1>2. /\ DOMAIN control' = DOMAIN control \cup {Len(control) + 1}
      /\ control'[Len(control) + 1] = c /\ \A k \in DOMAIN control : control'[k] = control[k]
  BY <1>1
<1>3. Calls(control') = Calls(control) /\ Calls(control) \subseteq 1 .. Len(control)
  BY <1>1, <1>2 DEF Calls
<1>4. Len(frames) \in Nat /\ Len(frames) >= 1
  BY TopFrame DEF IInv
<1>5. Saved'
  <2>1. \A k \in Calls(control) : Len(control[k].saved) \in Nat /\ control'[k].saved = control[k].saved
    BY <1>1, <1>2, <1>3, ConstructIs
  <2>2. ASSUME NEW k \in Calls(control)
        PROVE  /\ Len(control[k].saved) < Len(frames')
               /\ \A n \in 1 .. Len(control[k].saved) : frames'[n] = control[k].saved[n]
               /\ \A j \in Calls(control) : j < k => Len(control[j].saved) < Len(control[k].saved)
    BY <1>4, <2>1 DEF IInv, Saved
  <2> QED BY <1>3, <2>1, <2>2 DEF Saved
<1>6. DOMAIN frames[1] \subseteq DOMAIN frames'[1]
  BY <1>4 DEF Top
<1>7. ASSUME NEW y \in Names, committed'[y] # <<>>, NEW k \in DOMAIN control',
             Borrows(control'[k], y), \A j \in 1 .. k : control'[j].is # "call"
      PROVE  y \in DOMAIN control'[k].before
  <2>1. CASE k \in DOMAIN control
    <3>1. Borrows(control[k], y) /\ \A j \in 1 .. k : control[j].is # "call"
      BY <1>1, <1>2, <1>7, <2>1
    <3>2. committed[y] # <<>> /\ control'[k] = control[k]
      BY <1>2, <1>7, <2>1 DEF histories
    <3> QED BY <2>1, <3>1, <3>2 DEF IInv, Kept
  <2>2. CASE k = Len(control) + 1
    <3>1. Calls(control) = {}
      BY <1>1, <1>2, <1>7, <2>2 DEF Calls
    <3>2. Top(frames) = frames[1]
      BY <3>1, TopFrame DEF IInv, Top
    <3> QED BY <1>2, <1>7, <2>2, <3>2 DEF IInv, Kept, Borrows, histories
  <2> QED BY <1>2, <2>1, <2>2
<1>8. Kept'
  BY <1>6, <1>7 DEF IInv, Kept, histories
<1>9. Recordings'
  BY DEF IInv, Recordings, Recording, NoBoolAfterNumber, histories
<1> QED BY <1>5, <1>8, <1>9

\* A step that fails.
LEMMA FailKeeps == ASSUME IInv, Fail PROVE IInv'
<1>1. /\ phase' = "failed" /\ UNCHANGED <<bar, frames, loops, control, offset, consts, bools, rootVars>>
      /\ UNCHANGED <<kind, numHist, genHist, committed>>
  BY DEF Fail, script, histories
<1>2. Types' /\ Stacks'
  BY <1>1 DEF IInv, Types, Stacks
<1>3. Saved' /\ Kept'
  BY <1>1 DEF IInv, Saved, Kept
<1>4. Recordings'
  BY <1>1 DEF IInv, Recordings, Recording
<1> QED BY <1>2, <1>3, <1>4 DEF IInv

\* The frame after loops have ended: a name that all of them put back is still there.
LEMMA UnwoundIs ==
  ASSUME NEW f \in Frame, NEW cs \in Seq(Construct)
  PROVE  /\ Unwound(f, cs) \in Frame
         /\ \A y \in DOMAIN f :
              (\A k \in 1 .. Len(cs) : Borrows(cs[k], y) => y \in DOMAIN cs[k].before) =>
                y \in DOMAIN Unwound(f, cs)
<1> DEFINE loopsOf(y) == {k \in DOMAIN cs : cs[k].is \in {"for", "for in"} /\ cs[k].var = y}
           before(y) == IF loopsOf(y) = {} THEN f ELSE cs[Min(loopsOf(y))].before
           D == {z \in Names : z \in DOMAIN before(z)}
<1>1. Unwound(f, cs) = [y \in D |-> before(y)[y]]
  BY DEF Unwound
<1>2. ASSUME NEW y, loopsOf(y) # {}
      PROVE  /\ Min(loopsOf(y)) \in loopsOf(y) /\ Min(loopsOf(y)) \in 1 .. Len(cs)
  <2>0. DOMAIN cs = 1 .. Len(cs) /\ 1 .. Len(cs) \subseteq Nat
    OBVIOUS
  <2>1. loopsOf(y) \subseteq 1 .. Len(cs)
    <3>1. loopsOf(y) \subseteq DOMAIN cs
      OBVIOUS
    <3> QED BY <2>0, <3>1
  <2> HIDE DEF loopsOf
  <2> QED BY <1>2, <2>0, <2>1, MinIs
<1>3. ASSUME NEW y PROVE before(y) \in Frame
  BY <1>2, ConstructIs
<1>4. D \subseteq Names /\ \A y \in D : before(y)[y] \in Entry
  BY <1>3, FrameIs
<1>5. Unwound(f, cs) \in [D -> Entry]
  BY <1>1, <1>4
<1>6. ASSUME NEW y \in DOMAIN f, \A k \in 1 .. Len(cs) : Borrows(cs[k], y) => y \in DOMAIN cs[k].before
      PROVE  y \in D
  <2>1. y \in Names
    BY FrameIs
  <2>2. CASE loopsOf(y) = {}
    BY <2>1, <2>2
  <2>3. CASE loopsOf(y) # {}
    <3>1. Min(loopsOf(y)) \in 1 .. Len(cs) /\ Borrows(cs[Min(loopsOf(y))], y)
      BY <1>2, <2>3 DEF Borrows
    <3> QED BY <1>6, <2>1, <2>3, <3>1
  <2> QED BY <2>2, <2>3
<1>7. DOMAIN Unwound(f, cs) = D
  BY <1>1
<1> QED BY <1>4, <1>5, <1>6, <1>7, FrameIs

\* The loops above the n-th construct end.
LEMMA UnwindKeeps ==
  ASSUME IInv, NEW n \in 0 .. Len(control), \A k \in n + 1 .. Len(control) : control[k].is # "call",
         Unwind(n), UNCHANGED histories
  PROVE  /\ frames' \in Seq(Frame) /\ loops' \in Seq(Binding) /\ control' \in Seq(Construct)
         /\ \A k \in DOMAIN control' : DOMAIN control'[k].before \subseteq {control'[k].var}
         /\ Len(control') = n
         /\ Len(frames') = 1 + Cardinality(Calls(control'))
         /\ Len(loops') = Cardinality(Fors(control'))
         /\ Saved' /\ Kept' /\ Recordings'
<1> DEFINE ended == SubSeq(control, n + 1, Len(control))
           f == Unwound(Top(frames), ended)
<1>1. /\ control \in Seq(Construct) /\ Len(control) \in Nat /\ DOMAIN control = 1 .. Len(control)
      /\ frames \in Seq(Frame) /\ loops \in Seq(Binding)
      /\ Len(frames) = 1 + Cardinality(Calls(control)) /\ Len(loops) = Cardinality(Fors(control))
  BY DEF IInv, Types, Stacks
<1>2. /\ control' = SubSeq(control, 1, n) /\ frames' = WithTop(frames, f)
      /\ loops' = SubSeq(loops, 1, Cardinality(Fors(SubSeq(control, 1, n))))
  BY DEF Unwind, Bindings, Fors
<1>3. /\ control' \in Seq(Construct) /\ Len(control') = n /\ DOMAIN control' = 1 .. n
      /\ \A k \in 1 .. n : control'[k] = control[k]
  BY <1>1, <1>2
<1>4. ended \in Seq(Construct) /\ \A k \in 1 .. Len(ended) : k + n \in 1 .. Len(control) /\ ended[k] = control[k + n]
  BY <1>1
<1>5. /\ Len(frames) \in Nat /\ Len(frames) >= 1 /\ frames # <<>> /\ Top(frames) \in Frame
      /\ Calls(control) = {} <=> Len(frames) = 1
  BY TopFrame DEF IInv
<1>6. f \in Frame
  <2> HIDE DEF ended
  <2> QED BY <1>4, <1>5, UnwoundIs
<1>7. /\ frames' \in Seq(Frame) /\ Len(frames') = Len(frames) /\ frames'[Len(frames)] = f
      /\ \A k \in 1 .. Len(frames) - 1 : frames'[k] = frames[k]
  <2> HIDE DEF f
  <2>0. frames \in Seq(Frame) /\ frames # <<>> /\ f \in Frame
    BY <1>1, <1>5, <1>6
  <2>1. /\ WithTop(frames, f) \in Seq(Frame) /\ Len(WithTop(frames, f)) = Len(frames)
        /\ WithTop(frames, f)[Len(frames)] = f
        /\ \A k \in 1 .. Len(frames) - 1 : WithTop(frames, f)[k] = frames[k]
    BY <2>0, TopReplaced
  <2> QED BY <1>2, <2>1
<1>8. Calls(control') = Calls(control)
  <2>1. \A k \in Calls(control) : k <= n
    BY <1>1 DEF Calls
  <2>2. Calls(control') = {k \in Calls(control) : k <= n}
    BY <1>1, <1>2, CountedCut
  <2> QED BY <2>1, <2>2
<1>9. loops' \in Seq(Binding) /\ Len(loops') = Cardinality(Fors(control'))
  <2>1. Cardinality(Fors(control')) \in 0 .. Len(loops)
    BY <1>1, <1>2, CountedCut
  <2>2. loops' = SubSeq(loops, 1, Cardinality(Fors(control')))
    BY <1>2
  <2> QED BY <1>1, <2>1, <2>2, Cut
<1>10. \A k \in DOMAIN control' : DOMAIN control'[k].before \subseteq {control'[k].var}
  BY <1>1, <1>3 DEF IInv, Types
<1>11. Saved'
  <2>1. \A k \in Calls(control) : k \in 1 .. n /\ Len(control[k].saved) \in Nat /\ control'[k].saved = control[k].saved
    BY <1>1, <1>3, <1>8, ConstructIs DEF Calls
  <2>2. ASSUME NEW k \in Calls(control)
        PROVE  /\ Len(control[k].saved) < Len(frames')
               /\ \A i \in 1 .. Len(control[k].saved) : frames'[i] = control[k].saved[i]
               /\ \A j \in Calls(control) : j < k => Len(control[j].saved) < Len(control[k].saved)
    BY <1>5, <1>7, <2>1 DEF IInv, Saved
  <2> QED BY <1>8, <2>1, <2>2 DEF Saved
<1>12. ASSUME NEW y \in Names, committed[y] # <<>>
       PROVE  /\ y \in DOMAIN frames'[1]
              /\ \A k \in DOMAIN control' :
                   Borrows(control'[k], y) /\ (\A j \in 1 .. k : control'[j].is # "call") =>
                     y \in DOMAIN control'[k].before
  <2>1. \A k \in 1 .. Len(control) :
          Borrows(control[k], y) /\ (\A j \in 1 .. k : control[j].is # "call") => y \in DOMAIN control[k].before
    BY <1>1, <1>12 DEF IInv, Kept
  <2>2. y \in DOMAIN frames[1]
    BY <1>12 DEF IInv, Kept
  <2>3. CASE Len(frames) = 1
    <3>1. \A k \in 1 .. Len(control) : control[k].is # "call"
      BY <1>1, <1>5, <2>3 DEF Calls
    <3>2. \A k \in 1 .. Len(ended) : Borrows(ended[k], y) => y \in DOMAIN ended[k].before
      BY <1>4, <2>1, <3>1
    <3>3. y \in DOMAIN f
      <4> HIDE DEF ended
      <4> QED BY <1>4, <1>5, <2>2, <2>3, <3>2, UnwoundIs DEF Top
    <3> QED BY <1>3, <1>7, <2>1, <2>3, <3>3
  <2>4. CASE Len(frames) # 1
    BY <1>3, <1>5, <1>7, <2>1, <2>2, <2>4
  <2> QED BY <2>3, <2>4
<1>13. Kept'
  BY <1>12 DEF Kept, histories
<1>14. Recordings'
  BY DEF IInv, Recordings, Recording, NoBoolAfterNumber, histories
<1> QED BY <1>1, <1>3, <1>7, <1>8, <1>9, <1>10, <1>11, <1>13, <1>14

\* A value is assigned, to a loop variable or in the innermost frame.
LEMMA AssignKeeps ==
  ASSUME IInv, NEW y \in Names, NEW v \in Values, Assign(y, v), UNCHANGED <<control, histories>>
  PROVE  /\ frames' \in Seq(Frame) /\ Len(frames') = Len(frames)
         /\ loops' \in Seq(Binding) /\ Len(loops') = Len(loops) /\ rootVars' \subseteq Names
         /\ Saved' /\ Kept' /\ Recordings'
<1>1. /\ control \in Seq(Construct) /\ frames \in Seq(Frame) /\ loops \in Seq(Binding) /\ rootVars \subseteq Names
      /\ Types /\ Stacks
  BY DEF IInv, Types
<1>2. /\ Len(frames) \in Nat /\ Len(frames) >= 1
  BY <1>1, TopFrame
<1>3. CASE BindingOf(y) # 0 /\ IsNumber(v)
  <2>1. BindingOf(y) \in 1 .. Len(loops) /\ ToFloat(v) \in Numeric
    BY <1>1, <1>3, BindingIs, ToFloatIsNumeric
  <2>2. loops' = [loops EXCEPT ![BindingOf(y)].value = ToFloat(v)] /\ UNCHANGED <<frames, rootVars>>
    BY <1>3 DEF Assign
  <2>3. loops' \in Seq(Binding) /\ Len(loops') = Len(loops)
    <3>1. loops[BindingOf(y)] \in Binding
      BY <1>1, <2>1
    <3>2. [loops[BindingOf(y)] EXCEPT !.value = ToFloat(v)] \in Binding
      BY <2>1, <3>1 DEF Binding
    <3> QED BY <1>1, <2>1, <2>2, <3>2
  <2>4. Saved' /\ Kept' /\ Recordings'
    BY <1>1, <1>2, <2>2, BodyStep DEF Top
  <2> QED BY <1>1, <2>2, <2>3, <2>4
<1>4. CASE ~ (BindingOf(y) # 0 /\ IsNumber(v))
  <2>1. frames' = Stored(y, v) /\ loops' = loops /\ rootVars' \subseteq Names
    BY <1>1, <1>4 DEF Assign
  <2>2. /\ frames' \in Seq(Frame) /\ Len(frames') = Len(frames)
        /\ \A k \in 1 .. Len(frames) - 1 : frames'[k] = frames[k]
        /\ DOMAIN Top(frames) \subseteq DOMAIN frames'[Len(frames)]
    BY <1>1, <2>1, StoredIs
  <2>3. Saved' /\ Kept' /\ Recordings'
    BY <1>1, <2>2, BodyStep
  <2> QED BY <1>1, <2>1, <2>2, <2>3
<1> QED BY <1>3, <1>4

-----------------------------------------------------------------------------
(* Every step keeps the invariant. *)

\* What a statement is made of.
LEMMA StmtIs ==
  ASSUME NEW s \in Stmts
  PROVE  /\ s.name \in Names /\ s.value \in Values /\ s.from \in Int /\ s.to \in Int /\ s.by \in Int
         /\ s.items \in Seq(Values) /\ s.arg \in Names \cup {Literal} /\ s.offset \in Nat
         /\ s.const \in BOOLEAN
BY StmtsAssumption DEF Stmt

\* The end of an assignment.
LEMMA AssignedKeeps ==
  ASSUME IInv, NEW s \in Stmts, Assign(s.name, Coerced(s.name, s.value)),
         UNCHANGED <<bar, phase, control, offset, histories>>, bools' \subseteq Names, consts' \subseteq Names
  PROVE  IInv'
<1>1. s.name \in Names /\ Coerced(s.name, s.value) \in Values
  BY StmtIs DEF Coerced, Values, Bools
<1>2. UNCHANGED <<bar, phase, control, offset>> /\ UNCHANGED <<control, histories>>
      /\ UNCHANGED <<kind, numHist, genHist, committed>>
  BY DEF histories
<1>3. /\ frames' \in Seq(Frame) /\ Len(frames') = Len(frames)
      /\ loops' \in Seq(Binding) /\ Len(loops') = Len(loops) /\ rootVars' \subseteq Names
      /\ Saved' /\ Kept' /\ Recordings'
  BY <1>1, <1>2, AssignKeeps
<1>4. Types'
  BY <1>2, <1>3 DEF IInv, Types
<1>5. Stacks'
  BY <1>2, <1>3 DEF IInv, Stacks
<1> QED BY <1>3, <1>4, <1>5 DEF IInv

LEMMA DeclKeeps == ASSUME IInv, NEW s \in Stmts, Decl(s) PROVE IInv'
<1>1. bools \subseteq Names /\ consts \subseteq Names
  BY DEF IInv, Types
<1>2. CASE Fail
  BY <1>2, FailKeeps
<1>3. CASE ~ Fail
  <2>1. /\ bools' \in {bools \cup {s.name}, bools, bools \ {s.name}}
        /\ consts' \in {consts \cup {s.name}, consts}
        /\ Assign(s.name, Coerced(s.name, s.value))
        /\ UNCHANGED <<bar, phase, control, offset, histories>>
    BY <1>3 DEF Decl
  <2> QED BY <1>1, <2>1, StmtIs, AssignedKeeps
<1> QED BY <1>2, <1>3

LEMMA ReassignKeeps == ASSUME IInv, NEW s \in Stmts, Reassign(s) PROVE IInv'
<1>1. bools \subseteq Names /\ consts \subseteq Names
  BY DEF IInv, Types
<1>2. CASE Fail
  BY <1>2, FailKeeps
<1>3. CASE ~ Fail
  <2>1. /\ UNCHANGED <<bools, consts>> /\ Assign(s.name, Coerced(s.name, s.value))
        /\ UNCHANGED <<bar, phase, control, offset, histories>>
    BY <1>3 DEF Reassign
  <2> QED BY <1>1, <2>1, AssignedKeeps
<1> QED BY <1>2, <1>3

\* The kinds of constructs.
LEMMA KindsAre == "for" \in Kinds /\ "for in" \in Kinds /\ "while" \in Kinds /\ "call" \in Kinds
BY Zenon DEF Kinds

\* What a loop is when it is entered.
LEMMA LoopIs ==
  ASSUME Types, Stacks, NEW y \in Names, NEW w \in Kinds
  PROVE  /\ Loop(w, y) \in Construct
         /\ DOMAIN Loop(w, y).before = {y} \cap DOMAIN Top(frames)
         /\ Loop(w, y).is = w /\ Loop(w, y).var = y
<1> DEFINE b == [z \in {y} \cap DOMAIN Top(frames) |-> Top(frames)[z]]
<1>1. b \in Frame
  <2>1. DOMAIN b \subseteq Names /\ DOMAIN b = {y} \cap DOMAIN Top(frames)
    OBVIOUS
  <2>2. \A z \in DOMAIN b : Top(frames)[z] \in Entry
    BY <2>1, TopFrame, FrameIs
  <2>3. b \in [DOMAIN b -> Entry]
    BY <2>2
  <2> QED BY <2>1, <2>3, FrameIs
<1>2. <<>> \in Seq(Values) /\ <<>> \in Seq(Frame)
  BY EmptySeq
<1>3. DOMAIN b = {y} \cap DOMAIN Top(frames)
  OBVIOUS
<1> DEFINE c == [is |-> w, var |-> y, i |-> 0, last |-> 0, by |-> 1, items |-> <<>>, n |-> 1,
                 before |-> b, offset |-> 0, saved |-> <<>>]
<1>4. Loop(w, y) = c
  BY DEF Loop
<1> HIDE DEF b
<1>5. c \in Construct /\ c.before = b /\ c.is = w /\ c.var = y
  BY <1>1, <1>2 DEF Construct
<1> HIDE DEF c
<1> QED BY <1>3, <1>4, <1>5

\* The end of entering a loop.
LEMMA EnteredKeeps ==
  ASSUME IInv, NEW c \in Construct, c.is # "call", DOMAIN c.before = {c.var} \cap DOMAIN Top(frames),
         phase = "script", Nest(c), Entering,
         frames' \in Seq(Frame), Len(frames') = Len(frames),
         \A k \in 1 .. Len(frames) - 1 : frames'[k] = frames[k],
         DOMAIN Top(frames) \subseteq DOMAIN frames'[Len(frames)],
         loops' \in Seq(Binding), Len(loops') = Len(loops) + IF c.is = "for" THEN 1 ELSE 0
  PROVE  IInv'
<1>1. UNCHANGED <<bar, phase, offset, consts, bools, rootVars>> /\ UNCHANGED histories
      /\ UNCHANGED <<kind, numHist, genHist, committed>>
  BY DEF Entering, histories
<1>2. control' = Append(control, c) /\ control \in Seq(Construct)
  BY DEF Nest, IInv, Types
<1>3. Saved' /\ Kept' /\ Recordings'
  BY <1>1, <1>2, LoopEntered
<1>4. Cardinality(Calls(control')) = Cardinality(Calls(control)) /\ Cardinality(Calls(control)) \in Nat
      /\ Cardinality(Fors(control')) = Cardinality(Fors(control)) + IF c.is = "for" THEN 1 ELSE 0
  BY <1>2, CountedPush, Counted
<1>5. control' \in Seq(Construct) /\ \A k \in DOMAIN control' : DOMAIN control'[k].before \subseteq {control'[k].var}
  <2>1. /\ control' \in Seq(Construct) /\ DOMAIN control' = DOMAIN control \cup {Len(control) + 1}
        /\ control'[Len(control) + 1] = c /\ \A k \in DOMAIN control : control'[k] = control[k]
    BY <1>2
  <2>2. \A k \in DOMAIN control : DOMAIN control[k].before \subseteq {control[k].var}
    BY DEF IInv, Types
  <2> QED BY <2>1, <2>2
<1>6. Types'
  BY <1>1, <1>5 DEF IInv, Types
<1>7. Stacks'
  BY <1>1, <1>4 DEF IInv, Stacks
<1> QED BY <1>3, <1>6, <1>7 DEF IInv

LEMMA EnterForKeeps == ASSUME IInv, NEW s \in Stmts, EnterFor(s) PROVE IInv'
<1> DEFINE c == [Loop("for", s.name) EXCEPT !.i = s.from, !.last = s.to, !.by = s.by]
<1>1. CASE Fail
  BY <1>1, FailKeeps
<1>2. CASE ~ Fail
  <2>1. /\ phase = "script" /\ Nest(c) /\ Entering /\ frames' = frames
        /\ loops' = Append(loops, [name |-> s.name, value |-> s.from])
    BY <1>2 DEF EnterFor, Executes
  <2>2. Types /\ Stacks /\ s.name \in Names /\ s.from \in Int /\ s.to \in Int /\ s.by \in Int
    BY StmtIs DEF IInv
  <2>3. /\ Loop("for", s.name) \in Construct /\ Loop("for", s.name).is = "for" /\ Loop("for", s.name).var = s.name
        /\ DOMAIN Loop("for", s.name).before = {s.name} \cap DOMAIN Top(frames)
    BY <2>2, KindsAre, LoopIs
  <2>4. c \in Construct /\ c.is = "for" /\ c.var = s.name /\ c.before = Loop("for", s.name).before
    BY <2>2, <2>3 DEF Construct
  <2>5. frames \in Seq(Frame) /\ loops \in Seq(Binding)
    BY <2>2 DEF Types
  <2>6. [name |-> s.name, value |-> s.from] \in Binding
    BY <2>2 DEF Binding, Numeric
  <2>7. loops' \in Seq(Binding) /\ Len(loops') = Len(loops) + 1
    BY <2>1, <2>5, <2>6
  <2> HIDE DEF c
  <2>8. DOMAIN Top(frames) \subseteq DOMAIN frames'[Len(frames)]
    BY <2>1 DEF Top
  <2> QED BY <2>1, <2>3, <2>4, <2>5, <2>7, <2>8, EnteredKeeps
<1> QED BY <1>1, <1>2

LEMMA EnterForInKeeps == ASSUME IInv, NEW s \in Stmts, EnterForIn(s) PROVE IInv'
<1> DEFINE c == [Loop("for in", s.name) EXCEPT !.items = Tail(s.items)]
<1>1. CASE Fail
  BY <1>1, FailKeeps
<1>2. CASE ~ Fail
  <2>1. /\ phase = "script" /\ Nest(c) /\ Entering /\ loops' = loops /\ s.items # <<>>
        /\ frames' = Stored(s.name, Head(s.items))
    BY <1>2 DEF EnterForIn, Executes
  <2>2. Types /\ Stacks /\ s.name \in Names /\ s.items \in Seq(Values)
    BY StmtIs DEF IInv
  <2>3. /\ Loop("for in", s.name) \in Construct /\ Loop("for in", s.name).is = "for in"
        /\ Loop("for in", s.name).var = s.name
        /\ DOMAIN Loop("for in", s.name).before = {s.name} \cap DOMAIN Top(frames)
    BY <2>2, KindsAre, LoopIs, Zenon
  <2>4. Tail(s.items) \in Seq(Values) /\ Head(s.items) \in Values
    BY <2>1, <2>2, HeadTailProperties
  <2>5. c \in Construct /\ c.is = "for in" /\ c.var = s.name /\ c.before = Loop("for in", s.name).before
    BY <2>3, <2>4 DEF Construct
  <2>6. loops \in Seq(Binding) /\ Len(loops) \in Nat
    BY <2>2 DEF Types
  <2>7. /\ frames' \in Seq(Frame) /\ Len(frames') = Len(frames)
        /\ \A k \in 1 .. Len(frames) - 1 : frames'[k] = frames[k]
        /\ DOMAIN Top(frames) \subseteq DOMAIN frames'[Len(frames)]
    BY <2>1, <2>2, <2>4, StoredIs
  <2> HIDE DEF c
  <2>8. c \in Construct /\ c.is # "call" /\ DOMAIN c.before = {c.var} \cap DOMAIN Top(frames)
    BY <2>3, <2>5
  <2>9. loops' \in Seq(Binding) /\ Len(loops') = Len(loops) + IF c.is = "for" THEN 1 ELSE 0
    <3>1. loops' = loops
      BY <2>1
    <3>2. c.is # "for"
      BY <2>5
    <3>3. Len(loops) + 0 = Len(loops)
      BY <2>6
    <3> QED BY <2>6, <3>1, <3>2, <3>3
  <2>10. phase = "script" /\ Nest(c) /\ Entering
    BY <2>1
  <2> QED BY <2>7, <2>8, <2>9, <2>10, EnteredKeeps
<1> QED BY <1>1, <1>2

LEMMA EnterWhileKeeps == ASSUME IInv, NEW s \in Stmts, EnterWhile(s) PROVE IInv'
<1>1. phase = "script" /\ Nest(Loop("while", s.name)) /\ Entering /\ frames' = frames /\ loops' = loops
  BY DEF EnterWhile, Executes
<1>2. Types /\ Stacks /\ s.name \in Names
  BY StmtIs DEF IInv
<1>3. /\ Loop("while", s.name) \in Construct /\ Loop("while", s.name).is = "while"
      /\ Loop("while", s.name).var = s.name
      /\ DOMAIN Loop("while", s.name).before = {s.name} \cap DOMAIN Top(frames)
  BY <1>2, KindsAre, LoopIs
<1>4. frames \in Seq(Frame) /\ loops \in Seq(Binding) /\ Len(loops) \in Nat
  BY <1>2 DEF Types
<1>5. DOMAIN Top(frames) \subseteq DOMAIN frames'[Len(frames)]
  BY <1>1 DEF Top
<1> QED BY <1>1, <1>3, <1>4, <1>5, EnteredKeeps

\* The construct being executed.
LEMMA TopConstruct ==
  ASSUME IInv, control # <<>>
  PROVE  /\ Len(control) \in Nat /\ Len(control) >= 1 /\ Top(control) \in Construct
         /\ Top(control) = control[Len(control)]
         /\ DOMAIN Top(control).before \subseteq {Top(control).var}
         /\ Top(control).is = "for" => Len(loops) >= 1
<1>1. control \in Seq(Construct) /\ Len(control) \in Nat /\ Len(control) >= 1 /\ DOMAIN control = 1 .. Len(control)
  BY DEF IInv, Types
<1>2. Top(control) = control[Len(control)] /\ Len(control) \in DOMAIN control
  BY <1>1 DEF Top
<1>3. Top(control).is = "for" => Len(loops) >= 1
  <2>1. Top(control).is = "for" => Fors(control) # {}
    BY <1>1, <1>2 DEF Fors
  <2>2. Cardinality(Fors(control)) \in Nat /\ IsFiniteSet(Fors(control))
    BY <1>1, Counted
  <2>3. Fors(control) # {} => Cardinality(Fors(control)) # 0
    BY <2>2, FS_EmptySet
  <2> QED BY <2>1, <2>2, <2>3 DEF IInv, Stacks
<1>4. Top(control) \in Construct
  BY <1>1, <1>2
<1>5. DOMAIN Top(control).before \subseteq {Top(control).var}
  BY <1>2 DEF IInv, Types
<1> QED BY <1>1, <1>2, <1>3, <1>4, <1>5

\* A construct that comes further.
Moved(c, m, i, items) == [c EXCEPT !.n = m, !.i = i, !.items = items]
LEMMA Advanced ==
  ASSUME NEW c \in Construct, NEW m \in Nat, NEW i \in Int, NEW items \in Seq(Values)
  PROVE  /\ Moved(c, m, i, items) \in Construct
         /\ Moved(c, m, i, items).is = c.is /\ Moved(c, m, i, items).var = c.var
         /\ Moved(c, m, i, items).before = c.before /\ Moved(c, m, i, items).saved = c.saved
         /\ Moved(c, m, i, items).i = i
BY DEF Construct, Moved

\* An iteration advances its loop.
LEMMA IterateIs ==
  ASSUME IInv, Iterate, ~ Fail
  PROVE  /\ phase = "script" /\ control # <<>> /\ Entering
         /\ Top(control).is = "for in" => Top(control).items # <<>>
         /\ frames' = IF Top(control).is = "for in" THEN Stored(Top(control).var, Head(Top(control).items))
                      ELSE frames
         /\ \E d \in Construct :
              /\ d.is = Top(control).is /\ d.var = Top(control).var /\ d.before = Top(control).before
              /\ d.saved = Top(control).saved /\ d.i \in Int
              /\ control' = WithTop(control, d)
              /\ loops' = IF Top(control).is = "for" THEN WithTop(loops, [Top(loops) EXCEPT !.value = d.i])
                         ELSE loops
<1> DEFINE c == Top(control)
           i == IF c.is = "for" THEN c.i + c.by ELSE c.i
           items == IF c.is = "for in" THEN Tail(c.items) ELSE c.items
           d == Moved(c, c.n + 1, i, items)
<1>1. /\ phase = "script" /\ control # <<>> /\ Entering
      /\ c.is = "for in" => c.items # <<>>
      /\ frames' = IF c.is = "for in" THEN Stored(c.var, Head(c.items)) ELSE frames
      /\ control' = WithTop(control, d)
      /\ loops' = IF c.is = "for" THEN WithTop(loops, [Top(loops) EXCEPT !.value = d.i]) ELSE loops
  BY Zenon DEF Iterate, InLoop, Moved
<1>2. c \in Construct
  BY <1>1, TopConstruct
<1>3. c.n \in Nat /\ c.i \in Int /\ c.by \in Int /\ c.items \in Seq(Values)
  BY <1>2 DEF Construct
<1>4. c.n + 1 \in Nat /\ i \in Int
  BY <1>3
<1>5. items \in Seq(Values)
  <2>1. CASE c.is = "for in"
    <3>1. Tail(c.items) \in Seq(Values)
      BY <1>1, <1>3, <2>1, HeadTailProperties, Zenon
    <3> QED BY <2>1, <3>1, Zenon
  <2>2. CASE c.is # "for in"
    BY <1>3, <2>2, Zenon
  <2> QED BY <2>1, <2>2
<1>6. d \in Construct /\ d.is = c.is /\ d.var = c.var /\ d.before = c.before /\ d.saved = c.saved /\ d.i = i
  <2> HIDE DEF i, items, c
  <2> QED BY <1>2, <1>4, <1>5, Advanced, Zenon
<1> HIDE DEF d
<1> QED BY <1>1, <1>4, <1>6, Zenon

LEMMA IterateKeeps == ASSUME IInv, Iterate PROVE IInv'
<1> DEFINE c == Top(control)
<1>1. CASE Fail
  BY <1>1, FailKeeps
<1>2. CASE ~ Fail
  <2>1. /\ phase = "script" /\ control # <<>> /\ Entering
        /\ c.is = "for in" => c.items # <<>>
        /\ frames' = IF c.is = "for in" THEN Stored(c.var, Head(c.items)) ELSE frames
    BY <1>2, IterateIs, Zenon
  <2>4. PICK d \in Construct :
          /\ d.is = c.is /\ d.var = c.var /\ d.before = c.before /\ d.saved = c.saved /\ d.i \in Int
          /\ control' = WithTop(control, d)
          /\ loops' = IF c.is = "for" THEN WithTop(loops, [Top(loops) EXCEPT !.value = d.i]) ELSE loops
    BY <1>2, IterateIs, Zenon
  <2>2. /\ control \in Seq(Construct) /\ frames \in Seq(Frame) /\ loops \in Seq(Binding)
        /\ Types /\ Stacks
    BY DEF IInv, Types
  <2>3. c \in Construct /\ Len(control) \in Nat /\ c = control[Len(control)]
        /\ DOMAIN c.before \subseteq {c.var} /\ (c.is = "for" => Len(loops) >= 1)
    BY <2>1, TopConstruct
  <2>5. /\ control' \in Seq(Construct) /\ Len(control') = Len(control) /\ control'[Len(control)] = d
        /\ \A k \in 1 .. Len(control) - 1 : control'[k] = control[k]
    <3>1. control \in Seq(Construct) /\ control # <<>> /\ d \in Construct
      BY <2>1, <2>2, <2>4
    <3>2. control' = WithTop(control, d)
      BY <2>4
    <3>3. /\ WithTop(control, d) \in Seq(Construct) /\ Len(WithTop(control, d)) = Len(control)
          /\ WithTop(control, d)[Len(control)] = d
          /\ \A k \in 1 .. Len(control) - 1 : WithTop(control, d)[k] = control[k]
      BY <3>1 DEF WithTop
    <3> QED BY <3>2, <3>3
  <2>6. loops' \in Seq(Binding) /\ Len(loops') = Len(loops)
    <3>1. CASE c.is = "for"
      <4> DEFINE b == [Top(loops) EXCEPT !.value = d.i]
      <4>1. loops \in Seq(Binding) /\ loops # <<>> /\ Top(loops) \in Binding
        BY <2>2, <2>3, <3>1 DEF Top
      <4>2. b \in Binding
        BY <2>4, <4>1 DEF Binding, Numeric
      <4>3. loops' = WithTop(loops, b)
        BY <2>4, <3>1
      <4> HIDE DEF b
      <4> QED BY <4>1, <4>2, <4>3, TopReplaced
    <3>2. CASE c.is # "for"
      <4>1. loops' = loops
        BY <2>4, <3>2
      <4> QED BY <2>2, <4>1
    <3> QED BY <3>1, <3>2
  <2>7. /\ frames' \in Seq(Frame) /\ Len(frames') = Len(frames)
        /\ \A k \in 1 .. Len(frames) - 1 : frames'[k] = frames[k]
        /\ DOMAIN Top(frames) \subseteq DOMAIN frames'[Len(frames)]
    <3>1. CASE c.is = "for in"
      <4>1. c.items \in Seq(Values) /\ c.var \in Names
        BY <2>3 DEF Construct
      <4>2. Head(c.items) \in Values
        BY <2>1, <3>1, <4>1, HeadTailProperties, Zenon
      <4>3. frames' = Stored(c.var, Head(c.items))
        BY <2>1, <3>1, Zenon
      <4> QED BY <2>2, <4>1, <4>2, <4>3, StoredIs
    <3>2. CASE c.is # "for in"
      <4>1. frames' = frames
        BY <2>1, <3>2, Zenon
      <4> QED BY <2>2, <4>1 DEF Top
    <3> QED BY <3>1, <3>2, Zenon
  <2>8. \A k \in 1 .. Len(control) : /\ control'[k].is = control[k].is /\ control'[k].var = control[k].var
                                     /\ control'[k].before = control[k].before
                                     /\ control'[k].saved = control[k].saved
    <3>1. TAKE k \in 1 .. Len(control)
    <3>2. CASE k = Len(control)
      BY <2>3, <2>4, <2>5, <3>2
    <3>3. CASE k # Len(control)
      BY <2>3, <2>5, <3>3
    <3> QED BY <3>2, <3>3
  <2>9. UNCHANGED <<bar, phase, offset, consts, bools, rootVars>> /\ UNCHANGED histories
        /\ UNCHANGED <<kind, numHist, genHist, committed>>
    BY <2>1 DEF Entering, histories
  <2> HIDE DEF c
  <2>10. /\ Saved' /\ Kept' /\ Recordings'
         /\ Calls(control') = Calls(control) /\ Fors(control') = Fors(control)
    BY <2>5, <2>7, <2>8, <2>9, BodyStep
  <2>11. \A k \in DOMAIN control' : DOMAIN control'[k].before \subseteq {control'[k].var}
    <3>1. DOMAIN control' = 1 .. Len(control) /\ DOMAIN control = 1 .. Len(control)
      BY <2>2, <2>5
    <3> QED BY <2>2, <2>8, <3>1 DEF Types
  <2>12. Types'
    BY <2>2, <2>5, <2>6, <2>7, <2>9, <2>11 DEF Types
  <2>13. Stacks'
    BY <2>1, <2>2, <2>6, <2>7, <2>9, <2>10 DEF Stacks
  <2> QED BY <2>10, <2>12, <2>13 DEF IInv
<1> QED BY <1>1, <1>2

LEMMA LeaveLoopKeeps == ASSUME IInv, LeaveLoop PROVE IInv'
<1>1. /\ phase = "script" /\ control # <<>> /\ Top(control).is # "call"
      /\ Unwind(Len(control) - 1) /\ Entering
  BY DEF LeaveLoop, InLoop, IsLoop
<1>2. Len(control) \in Nat /\ Len(control) >= 1 /\ Top(control) = control[Len(control)]
  BY <1>1, TopConstruct
<1>3. Len(control) - 1 \in 0 .. Len(control) /\ \A k \in Len(control) - 1 + 1 .. Len(control) : control[k].is # "call"
  BY <1>1, <1>2
<1>4. UNCHANGED <<bar, phase, offset, consts, bools, rootVars>> /\ UNCHANGED histories
      /\ UNCHANGED <<kind, numHist, genHist, committed>>
  BY <1>1 DEF Entering, histories
<1>5. /\ frames' \in Seq(Frame) /\ loops' \in Seq(Binding) /\ control' \in Seq(Construct)
      /\ \A k \in DOMAIN control' : DOMAIN control'[k].before \subseteq {control'[k].var}
      /\ Len(frames') = 1 + Cardinality(Calls(control'))
      /\ Len(loops') = Cardinality(Fors(control'))
      /\ Saved' /\ Kept' /\ Recordings'
  BY <1>1, <1>3, <1>4, UnwindKeeps
<1>6. Types'
  BY <1>4, <1>5 DEF IInv, Types
<1>7. Stacks'
  BY <1>1, <1>4, <1>5 DEF Stacks
<1> QED BY <1>5, <1>6, <1>7 DEF IInv

LEMMA EndScriptKeeps == ASSUME IInv, EndScript PROVE IInv'
<1>1. /\ phase' = "commit" /\ Unwind(0) /\ CallAt = 0
      /\ UNCHANGED <<bar, offset, consts, bools, rootVars>> /\ UNCHANGED histories
  BY DEF EndScript
<1>2. control \in Seq(Construct) /\ Len(control) \in Nat /\ Calls(control) = {}
  BY <1>1, InnermostCall DEF IInv, Types
<1>3. 0 \in 0 .. Len(control) /\ \A k \in 0 + 1 .. Len(control) : control[k].is # "call"
  BY <1>2 DEF Calls
<1>4. /\ frames' \in Seq(Frame) /\ loops' \in Seq(Binding) /\ control' \in Seq(Construct)
      /\ \A k \in DOMAIN control' : DOMAIN control'[k].before \subseteq {control'[k].var}
      /\ Len(control') = 0
      /\ Len(frames') = 1 + Cardinality(Calls(control'))
      /\ Len(loops') = Cardinality(Fors(control'))
      /\ Saved' /\ Kept' /\ Recordings'
  BY <1>1, <1>3, UnwindKeeps
<1>5. Types'
  BY <1>1, <1>4 DEF IInv, Types, histories
<1>6. Stacks'
  BY <1>4 DEF Stacks
<1> QED BY <1>4, <1>5, <1>6 DEF IInv

\* A call stacks a frame of its own.
LEMMA CallIs ==
  ASSUME IInv, NEW s \in Stmts, Call(s), ~ Fail
  PROVE  /\ phase = "script" /\ offset' \in Nat
         /\ UNCHANGED <<bar, phase, loops, consts, bools, rootVars, histories>>
         /\ \E c \in Construct, f \in Frame :
              /\ control' = Append(control, c) /\ frames' = Append(frames, f)
              /\ c.is = "call" /\ c.saved = frames /\ DOMAIN c.before \subseteq {c.var}
<1> DEFINE off == offset + s.offset
           v == IF s.arg = Literal THEN s.value ELSE Resolve(s.arg, off)
           f == [y \in {s.name} |-> [value |-> v, arg |-> s.arg]]
           c == [Loop("call", s.name) EXCEPT !.offset = offset, !.saved = frames]
<1>1. /\ phase = "script" /\ Nest(c) /\ frames' = Append(frames, f) /\ offset' = off
      /\ UNCHANGED <<bar, phase, loops, consts, bools, rootVars, histories>>
  BY DEF Call, Executes
<1>2. /\ s.name \in Names /\ s.value \in Values /\ s.arg \in Names \cup {Literal} /\ s.offset \in Nat
      /\ Types /\ Stacks /\ offset \in Nat /\ frames \in Seq(Frame)
  BY StmtIs DEF IInv, Types
<1>3. off \in Nat
  BY <1>2
<1>4. f \in Frame
  <2>1. v \in Values
    <3> HIDE DEF off
    <3> QED BY <1>2, <1>3, ResolvedIsValue
  <2> HIDE DEF v
  <2>2. DOMAIN f = {s.name} /\ f \in [{s.name} -> Entry]
    BY <1>2, <2>1 DEF Entry, Arg
  <2> QED BY <1>2, <2>2, FrameIs
<1>5. /\ Loop("call", s.name) \in Construct /\ Loop("call", s.name).is = "call"
      /\ DOMAIN Loop("call", s.name).before \subseteq {Loop("call", s.name).var}
  <2>1. /\ Loop("call", s.name) \in Construct /\ Loop("call", s.name).is = "call"
        /\ Loop("call", s.name).var = s.name
        /\ DOMAIN Loop("call", s.name).before = {s.name} \cap DOMAIN Top(frames)
    BY <1>2, KindsAre, LoopIs
  <2> QED BY <2>1
<1>6. /\ c \in Construct /\ c.is = "call" /\ c.saved = frames /\ DOMAIN c.before \subseteq {c.var}
  BY <1>2, <1>5 DEF Construct
<1>7. control' = Append(control, c)
  BY <1>1 DEF Nest
<1> HIDE DEF c, f, off
<1> QED BY <1>1, <1>3, <1>4, <1>6, <1>7

LEMMA CallKeeps == ASSUME IInv, NEW s \in Stmts, Call(s) PROVE IInv'
<1>1. CASE Fail
  BY <1>1, FailKeeps
<1>2. CASE ~ Fail
  <2>1. PICK c \in Construct, f \in Frame :
          /\ control' = Append(control, c) /\ frames' = Append(frames, f)
          /\ c.is = "call" /\ c.saved = frames /\ DOMAIN c.before \subseteq {c.var}
    BY <1>2, CallIs
  <2>2. /\ phase = "script" /\ offset' \in Nat
        /\ UNCHANGED <<bar, phase, loops, consts, bools, rootVars>>
        /\ UNCHANGED <<kind, numHist, genHist, committed>>
    BY <1>2, CallIs DEF histories
  <2>3. /\ control \in Seq(Construct) /\ Len(control) \in Nat /\ frames \in Seq(Frame)
        /\ Len(frames) \in Nat /\ Len(frames) >= 1
    BY TopFrame DEF IInv, Types
  <2>4. /\ control' \in Seq(Construct) /\ DOMAIN control' = DOMAIN control \cup {Len(control) + 1}
        /\ DOMAIN control = 1 .. Len(control)
        /\ control'[Len(control) + 1] = c /\ \A k \in DOMAIN control : control'[k] = control[k]
    BY <2>1, <2>3
  <2>5. /\ frames' \in Seq(Frame) /\ Len(frames') = Len(frames) + 1
        /\ \A k \in 1 .. Len(frames) : frames'[k] = frames[k]
    BY <2>1, <2>3
  <2>6. Calls(control') = Calls(control) \cup {Len(control) + 1} /\ Calls(control) \subseteq DOMAIN control
    BY <2>1, <2>4 DEF Calls
  <2>7. Types'
    <3>1. \A k \in DOMAIN control' : DOMAIN control'[k].before \subseteq {control'[k].var}
      BY <2>1, <2>4 DEF IInv, Types
    <3> QED BY <2>2, <2>4, <2>5, <3>1 DEF IInv, Types
  <2>8. Stacks'
    <3>1. /\ Cardinality(Calls(control')) = Cardinality(Calls(control)) + 1
          /\ Cardinality(Fors(control')) = Cardinality(Fors(control))
          /\ Cardinality(Calls(control)) \in Nat /\ Cardinality(Fors(control)) \in Nat
      <4>1. /\ Cardinality(Calls(Append(control, c))) = Cardinality(Calls(control)) + 1
            /\ Cardinality(Fors(Append(control, c))) = Cardinality(Fors(control)) + 0
        BY <2>1, <2>3, CountedPush
      <4> QED BY <2>1, <2>3, <4>1, Counted
    <3>2. phase' # "commit"
      BY <2>2
    <3> QED BY <2>2, <2>5, <3>1, <3>2 DEF IInv, Stacks
  <2>9. Saved'
    <3>1. \A k \in Calls(control) : Len(control[k].saved) \in Nat /\ control'[k].saved = control[k].saved
      BY <2>3, <2>4, <2>6, ConstructIs
    <3>2. ASSUME NEW k \in Calls(control)
          PROVE  /\ Len(control'[k].saved) < Len(frames')
                 /\ \A n \in 1 .. Len(control'[k].saved) : frames'[n] = control'[k].saved[n]
                 /\ \A j \in Calls(control') : j < k => Len(control'[j].saved) < Len(control'[k].saved)
      <4>1. /\ Len(control[k].saved) < Len(frames)
            /\ \A n \in 1 .. Len(control[k].saved) : frames[n] = control[k].saved[n]
            /\ \A j \in Calls(control) : j < k => Len(control[j].saved) < Len(control[k].saved)
        BY DEF IInv, Saved
      <4>2. k \in Nat /\ k <= Len(control)
        BY <2>3, <2>4, <2>6
      <4> QED BY <2>3, <2>5, <2>6, <3>1, <4>1, <4>2
    <3>3. ASSUME NEW k, k = Len(control) + 1
          PROVE  /\ Len(control'[k].saved) < Len(frames')
                 /\ \A n \in 1 .. Len(control'[k].saved) : frames'[n] = control'[k].saved[n]
                 /\ \A j \in Calls(control') : j < k => Len(control'[j].saved) < Len(control'[k].saved)
      <4>1. control'[k].saved = frames
        BY <2>1, <2>4, <3>3
      <4>2. \A j \in Calls(control) : Len(control'[j].saved) < Len(frames)
        BY <3>1 DEF IInv, Saved
      <4> QED BY <2>3, <2>5, <2>6, <3>3, <4>1, <4>2
    <3> QED BY <2>6, <3>2, <3>3 DEF Saved
  <2>10. Kept'
    <3>1. ASSUME NEW y \in Names, committed[y] # <<>>, NEW k \in DOMAIN control',
                 Borrows(control'[k], y), \A j \in 1 .. k : control'[j].is # "call"
          PROVE  y \in DOMAIN control'[k].before
      <4>1. k # Len(control) + 1
        BY <2>1, <2>3, <2>4, <3>1
      <4>2. k \in DOMAIN control /\ control'[k] = control[k]
        BY <2>4, <4>1
      <4>3. \A j \in 1 .. k : control[j].is # "call"
        BY <2>4, <3>1, <4>2
      <4> QED BY <3>1, <4>2, <4>3 DEF IInv, Kept
    <3> QED BY <2>2, <2>3, <2>5, <3>1 DEF IInv, Kept
  <2>11. Recordings'
    BY <2>2 DEF IInv, Recordings, Recording
  <2> QED BY <2>7, <2>8, <2>9, <2>10, <2>11 DEF IInv
<1> QED BY <1>1, <1>2

\* A return takes the frame of its call away, and no other.
LEMMA ReturnKeeps == ASSUME IInv, Return PROVE IInv'
<1> DEFINE a == CallAt
<1>1. /\ phase = "script" /\ a # 0
      /\ control' = SubSeq(control, 1, a - 1)
      /\ loops' = SubSeq(loops, 1, Cardinality(Fors(SubSeq(control, 1, a - 1))))
      /\ frames' = SubSeq(frames, 1, Len(frames) - 1)
      /\ offset' = control[a].offset
      /\ UNCHANGED <<bar, phase, consts, bools, rootVars>> /\ UNCHANGED <<kind, numHist, genHist, committed>>
  BY DEF Return, Bindings, Fors, FrontOf, histories
<1>2. a \in Calls(control) /\ a \in 1 .. Len(control) /\ \A k \in Calls(control) : k <= a
  BY <1>1, InnermostCall DEF IInv
<1> HIDE DEF a
<1>3. /\ control \in Seq(Construct) /\ Len(control) \in Nat /\ frames \in Seq(Frame) /\ loops \in Seq(Binding)
      /\ DOMAIN control = 1 .. Len(control) /\ Calls(control) \subseteq 1 .. Len(control)
      /\ Len(frames) = 1 + Cardinality(Calls(control)) /\ Len(loops) = Cardinality(Fors(control))
  BY Counted DEF IInv, Types, Stacks
<1>4. a - 1 \in 0 .. Len(control)
  BY <1>2, <1>3
<1>5. /\ control' \in Seq(Construct) /\ DOMAIN control' = 1 .. a - 1
      /\ \A k \in 1 .. a - 1 : control'[k] = control[k] /\ k \in DOMAIN control
  BY <1>1, <1>3, <1>4
<1>6. Calls(control') = Calls(control) \ {a}
  <2>1. Calls(control') = {k \in Calls(control) : k <= a - 1}
    BY <1>1, <1>3, <1>4, CountedCut
  <2>2. \A k \in Calls(control) : k <= a - 1 <=> k # a
    BY <1>2, <1>3
  <2> QED BY <2>1, <2>2
<1>7. /\ Cardinality(Calls(control')) = Cardinality(Calls(control)) - 1 /\ Cardinality(Calls(control')) \in Nat
      /\ Cardinality(Calls(control)) \in Nat
  <2>1. IsFiniteSet(Calls(control)) /\ IsFiniteSet(Calls(control'))
    BY <1>3, <1>5, Counted
  <2>2. Cardinality(Calls(control)) \in Nat /\ Cardinality(Calls(control')) \in Nat
    BY <2>1, FS_CardinalityType
  <2> QED BY <1>2, <1>6, <2>1, <2>2, FS_RemoveElement
<1>8. Len(frames) \in Nat /\ Len(frames) >= 2
  <2>1. Len(frames) = 1 + Cardinality(Calls(control))
    BY <1>3
  <2> QED BY <1>7, <2>1
<1>9. /\ frames' \in Seq(Frame) /\ Len(frames') = Len(frames) - 1
      /\ \A k \in 1 .. Len(frames) - 1 : frames'[k] = frames[k]
  BY <1>1, <1>3, <1>8
<1>10. loops' \in Seq(Binding) /\ Len(loops') = Cardinality(Fors(control'))
  <2>1. Cardinality(Fors(control')) \in 0 .. Len(loops)
    BY <1>1, <1>3, <1>4, CountedCut
  <2>2. loops' = SubSeq(loops, 1, Cardinality(Fors(control')))
    BY <1>1
  <2> QED BY <1>3, <2>1, <2>2, Cut
<1>11. Types'
  <2>1. \A k \in DOMAIN control' : DOMAIN control'[k].before \subseteq {control'[k].var}
    BY <1>5 DEF IInv, Types
  <2>2. offset' \in Nat
    BY <1>1, <1>2, <1>3, ConstructIs
  <2> QED BY <1>1, <1>5, <1>9, <1>10, <2>1, <2>2 DEF IInv, Types
<1>12. Stacks'
  <2>1. Len(frames') = 1 + Cardinality(Calls(control'))
    <3>1. Len(frames) = 1 + Cardinality(Calls(control)) /\ Len(frames') = Len(frames) - 1
      BY <1>3, <1>9
    <3> QED BY <1>7, <3>1
  <2> QED BY <1>1, <1>10, <2>1 DEF Stacks
<1>13. Saved'
  <2>1. \A k \in Calls(control) : Len(control[k].saved) \in Nat
    BY <1>3, ConstructIs
  <2>2. ASSUME NEW k \in Calls(control'), control'[k].saved = control[k].saved
        PROVE  /\ Len(control[k].saved) < Len(frames')
               /\ \A n \in 1 .. Len(control[k].saved) : frames'[n] = control[k].saved[n]
               /\ \A j \in Calls(control') : j < k => Len(control[j].saved) < Len(control[k].saved)
    <3>1. k \in Calls(control) /\ k < a
      BY <1>2, <1>3, <1>6
    <3>2. Len(control[k].saved) < Len(control[a].saved) /\ Len(control[a].saved) < Len(frames)
      BY <1>2, <3>1 DEF IInv, Saved
    <3>3. /\ \A n \in 1 .. Len(control[k].saved) : frames[n] = control[k].saved[n]
          /\ \A j \in Calls(control) : j < k => Len(control[j].saved) < Len(control[k].saved)
      BY <3>1 DEF IInv, Saved
    <3> QED BY <1>2, <1>6, <1>8, <1>9, <2>1, <3>1, <3>2, <3>3
  <2>3. \A k \in Calls(control') : control'[k].saved = control[k].saved
    BY <1>5 DEF Calls
  <2> QED BY <2>2, <2>3 DEF Saved
<1>14. Kept'
  <2>1. ASSUME NEW y \in Names, committed[y] # <<>>, NEW k \in DOMAIN control',
               Borrows(control'[k], y), \A j \in 1 .. k : control'[j].is # "call"
        PROVE  y \in DOMAIN control'[k].before
    <3>1. k \in DOMAIN control /\ control'[k] = control[k] /\ \A j \in 1 .. k : control[j].is # "call"
      BY <1>2, <1>3, <1>5, <2>1
    <3> QED BY <2>1, <3>1 DEF IInv, Kept
  <2>2. committed' = committed /\ frames'[1] = frames[1]
    BY <1>1, <1>8, <1>9
  <2> QED BY <2>1, <2>2 DEF IInv, Kept
<1>15. Recordings'
  BY <1>1 DEF IInv, Recordings, Recording
<1> QED BY <1>11, <1>12, <1>13, <1>14, <1>15 DEF IInv

\* recordHistory keeps every value: as numbers while there are only numbers, then as
\* values, with the numbers before.
LEMMA RecordedIs ==
  ASSUME Types, NEW x \in Names, NEW v \in Values
  PROVE  /\ Recorded(x, v).kind \in {"numeric", "generic"}
         /\ Recorded(x, v).num \in Seq(Values) /\ Recorded(x, v).gen \in Seq(Values)
<1>1. numHist[x] \in Seq(Values) /\ genHist[x] \in Seq(Values)
  BY DEF Types
<1>2. /\ Append(numHist[x], v) \in Seq(Values) /\ Append(genHist[x], v) \in Seq(Values)
      /\ <<>> \in Seq(Values)
  BY <1>1, EmptySeq
<1> QED BY <1>1, <1>2 DEF Recorded

LEMMA RecordedKeeps ==
  ASSUME Types, NEW x \in Names, NEW v \in Values,
         NoBoolAfterNumber(committed[x]) => Recording(x), NoBoolAfterNumber(Append(committed[x], v))
  PROVE  \/ /\ Recorded(x, v).kind = "numeric" /\ Recorded(x, v).num = Append(committed[x], v)
            /\ Recorded(x, v).gen = <<>>
            /\ \A i \in DOMAIN Append(committed[x], v) : Append(committed[x], v)[i] \in Numeric
         \/ /\ Recorded(x, v).kind = "generic" /\ Recorded(x, v).num = <<>>
            /\ Recorded(x, v).gen = Append(committed[x], v)
<1> DEFINE c == committed[x]
           d == Append(c, v)
<1>1. c \in Seq(Values) /\ Len(c) \in Nat /\ DOMAIN c = 1 .. Len(c)
  BY DEF Types
<1>2. DOMAIN d = 1 .. Len(c) + 1 /\ d[Len(c) + 1] = v /\ \A i \in 1 .. Len(c) : d[i] = c[i]
  BY <1>1
<1>3. NoBoolAfterNumber(c) /\ (v \in Bools => \A i \in 1 .. Len(c) : c[i] \notin Numeric)
  BY <1>1, <1>2 DEF NoBoolAfterNumber
<1>4. Recording(x)
  BY <1>3
<1>5. v \in Bools => v \notin Numeric
  BY ValuesAssumption
<1>6. CASE kind[x] = "unknown"
  <2>1. c = <<>> /\ numHist[x] = <<>> /\ genHist[x] = <<>> /\ Len(c) = 0
    BY <1>4, <1>6 DEF Recording
  <2>2. v \in Numeric => \A i \in DOMAIN d : d[i] \in Numeric
    BY <1>2, <2>1
  <2> QED BY <1>5, <1>6, <2>1, <2>2 DEF Recorded
<1>7. CASE kind[x] = "numeric"
  <2>1. numHist[x] = c /\ genHist[x] = <<>> /\ c # <<>> /\ \A i \in DOMAIN c : c[i] \in Numeric
    BY <1>4, <1>7 DEF Recording
  <2>2. v \notin Bools
    <3>1. 1 \in 1 .. Len(c)
      BY <1>1, <2>1
    <3> QED BY <1>1, <1>3, <2>1, <3>1
  <2>3. v \in Numeric => \A i \in DOMAIN d : d[i] \in Numeric
    BY <1>1, <1>2, <2>1
  <2> QED BY <1>7, <2>1, <2>2, <2>3 DEF Recorded
<1>8. CASE kind[x] = "generic"
  <2>1. numHist[x] = <<>> /\ genHist[x] = c
    BY <1>4, <1>8 DEF Recording
  <2> QED BY <1>8, <2>1 DEF Recorded
<1> QED BY <1>4, <1>6, <1>7, <1>8 DEF Recording

\* What a commit does to one variable.
LEMMA CommitIs ==
  ASSUME IInv, Commit
  PROVE  /\ phase = "commit" /\ control = <<>> /\ phase' \in {"script", "done"} /\ bar' \in Nat
         /\ UNCHANGED <<frames, loops, control, offset, consts, bools, rootVars>>
         /\ kind' \in [Names -> {"unknown", "numeric", "generic"}]
         /\ numHist' \in [Names -> Seq(Values)] /\ genHist' \in [Names -> Seq(Values)]
         /\ committed' \in [Names -> Seq(Values)]
         /\ \A x \in Names :
              \/ /\ kind'[x] = kind[x] /\ numHist'[x] = numHist[x] /\ genHist'[x] = genHist[x]
                 /\ committed'[x] = committed[x]
              \/ \E v \in Values :
                   /\ x \in DOMAIN frames[1]
                   /\ kind'[x] = Recorded(x, v).kind /\ numHist'[x] = Recorded(x, v).num
                   /\ genHist'[x] = Recorded(x, v).gen /\ committed'[x] = Append(committed[x], v)
<1> DEFINE known == {x \in rootVars : x \in DOMAIN frames[1]}
           v(x) == frames[1][x].value
<1>1. /\ kind' = [x \in Names |-> IF x \in known THEN Recorded(x, v(x)).kind ELSE kind[x]]
      /\ numHist' = [x \in Names |-> IF x \in known THEN Recorded(x, v(x)).num ELSE numHist[x]]
      /\ genHist' = [x \in Names |-> IF x \in known THEN Recorded(x, v(x)).gen ELSE genHist[x]]
      /\ committed' = [x \in Names |-> IF x \in known THEN Append(committed[x], v(x)) ELSE committed[x]]
  BY DEF Commit
<1>2. /\ phase = "commit" /\ phase' \in {"script", "done"} /\ (bar' = bar + 1 \/ bar' = bar)
      /\ UNCHANGED <<frames, loops, control, offset, consts, bools, rootVars>>
  BY DEF Commit, script
<1>3. control = <<>> /\ bar' \in Nat
  BY <1>2 DEF IInv, Types, Stacks
<1>4. \A x \in known : x \in Names /\ v(x) \in Values
  <2>1. frames[1] \in Frame
    BY TopFrame DEF IInv
  <2>2. \A x \in known : frames[1][x] \in Entry
    BY <2>1, FrameIs
  <2>3. \A e \in Entry : e.value \in Values
    BY DEF Entry
  <2> QED BY <2>2, <2>3 DEF IInv, Types
<1>5. \A x \in known : x \in DOMAIN frames[1]
  OBVIOUS
<1> HIDE DEF known, v
<1>6. \A x \in known : /\ Recorded(x, v(x)).kind \in {"numeric", "generic"}
                       /\ Recorded(x, v(x)).num \in Seq(Values) /\ Recorded(x, v(x)).gen \in Seq(Values)
  BY <1>4, RecordedIs DEF IInv
<1>7. \A x \in known : Append(committed[x], v(x)) \in Seq(Values)
  BY <1>4, AppendProperties DEF IInv, Types
<1>8. kind' \in [Names -> {"unknown", "numeric", "generic"}]
  BY <1>1, <1>6 DEF IInv, Types
<1>9. numHist' \in [Names -> Seq(Values)] /\ genHist' \in [Names -> Seq(Values)]
  BY <1>1, <1>6 DEF IInv, Types
<1>10. committed' \in [Names -> Seq(Values)]
  BY <1>1, <1>7 DEF IInv, Types
<1>11. ASSUME NEW x \in Names
       PROVE  \/ /\ kind'[x] = kind[x] /\ numHist'[x] = numHist[x] /\ genHist'[x] = genHist[x]
                 /\ committed'[x] = committed[x]
              \/ \E w \in Values :
                   /\ x \in DOMAIN frames[1]
                   /\ kind'[x] = Recorded(x, w).kind /\ numHist'[x] = Recorded(x, w).num
                   /\ genHist'[x] = Recorded(x, w).gen /\ committed'[x] = Append(committed[x], w)
  <2>1. CASE x \in known
    BY <1>1, <1>4, <1>5, <2>1
  <2>2. CASE x \notin known
    BY <1>1, <2>2
  <2> QED BY <2>1, <2>2
<1> QED BY <1>2, <1>3, <1>8, <1>9, <1>10, <1>11

LEMMA CommitKeeps == ASSUME IInv, Commit PROVE IInv'
<1>1. /\ control = <<>> /\ control' = <<>> /\ phase' # "commit" /\ frames' = frames /\ loops' = loops
      /\ control' = control
  BY CommitIs
<1>2. Types'
  <2>1. phase' \in {"script", "commit", "done", "failed"}
    BY CommitIs
  <2>2. /\ bar' \in Nat /\ UNCHANGED <<frames, loops, control, offset, consts, bools, rootVars>>
        /\ kind' \in [Names -> {"unknown", "numeric", "generic"}]
        /\ numHist' \in [Names -> Seq(Values)] /\ genHist' \in [Names -> Seq(Values)]
        /\ committed' \in [Names -> Seq(Values)]
    BY CommitIs
  <2> QED BY <2>1, <2>2 DEF IInv, Types
<1>3. Stacks' /\ Saved'
  BY <1>1 DEF IInv, Stacks, Saved
<1>4. Kept'
  <2>1. ASSUME NEW x \in Names, committed'[x] # <<>>
        PROVE  x \in DOMAIN frames[1]
    <3>1. committed'[x] = committed[x] \/ x \in DOMAIN frames[1]
      BY CommitIs
    <3> QED BY <2>1, <3>1 DEF IInv, Kept
  <2>2. DOMAIN control' = {}
    BY <1>1
  <2> QED BY <1>1, <2>1, <2>2 DEF Kept
<1>5. ASSUME NEW x \in Names, NoBoolAfterNumber(committed'[x])
      PROVE  Recording(x)'
  <2>1. CASE /\ kind'[x] = kind[x] /\ numHist'[x] = numHist[x] /\ genHist'[x] = genHist[x]
             /\ committed'[x] = committed[x]
    BY <1>5, <2>1 DEF IInv, Recordings, Recording
  <2>2. CASE \E v \in Values :
               /\ x \in DOMAIN frames[1]
               /\ kind'[x] = Recorded(x, v).kind /\ numHist'[x] = Recorded(x, v).num
               /\ genHist'[x] = Recorded(x, v).gen /\ committed'[x] = Append(committed[x], v)
    <3>1. PICK v \in Values :
               /\ kind'[x] = Recorded(x, v).kind /\ numHist'[x] = Recorded(x, v).num
               /\ genHist'[x] = Recorded(x, v).gen /\ committed'[x] = Append(committed[x], v)
      BY <2>2
    <3>2. Types /\ (NoBoolAfterNumber(committed[x]) => Recording(x))
      BY DEF IInv, Recordings
    <3>3. NoBoolAfterNumber(Append(committed[x], v))
      BY <1>5, <3>1
    <3>4. \/ /\ kind'[x] = "numeric" /\ numHist'[x] = committed'[x] /\ genHist'[x] = <<>>
             /\ \A i \in DOMAIN committed'[x] : committed'[x][i] \in Numeric
          \/ kind'[x] = "generic" /\ numHist'[x] = <<>> /\ genHist'[x] = committed'[x]
      BY <3>1, <3>2, <3>3, RecordedKeeps
    <3>5. committed'[x] # <<>>
      <4>1. committed[x] \in Seq(Values)
        BY DEF IInv, Types
      <4> QED BY <3>1, <4>1
    <3> QED BY <3>4, <3>5 DEF Recording
  <2> QED BY <2>1, <2>2, CommitIs
<1>6. Recordings'
  BY <1>5 DEF Recordings
<1> QED BY <1>2, <1>3, <1>4, <1>6 DEF IInv

-----------------------------------------------------------------------------
(* The theorems. *)

LEMMA InitKeeps == ASSUME Init PROVE IInv
<1>1. frames = <<[x \in {} |-> Plain(NaN)]>> /\ loops = <<>> /\ control = <<>>
  BY DEF Init
<1>2. frames \in Seq(Frame) /\ Len(frames) = 1
  <2>1. [x \in {} |-> Plain(NaN)] \in [{} -> Entry]
    OBVIOUS
  <2>2. [x \in {} |-> Plain(NaN)] \in Frame
    BY <2>1, FrameIs
  <2> QED BY <1>1, <2>2
<1>3. control \in Seq(Construct) /\ loops \in Seq(Binding) /\ DOMAIN control = {} /\ Len(loops) = 0
  BY <1>1, EmptySeq
<1>4. Calls(control) = {} /\ Fors(control) = {} /\ Cardinality({}) = 0
  BY <1>3, FS_EmptySet DEF Calls, Fors
<1>5. <<>> \in Seq(Values)
  BY EmptySeq
<1>6. Types
  BY <1>2, <1>3, <1>5 DEF Init, Types
<1>7. Stacks /\ Saved
  <2>1. phase # "commit"
    BY DEF Init
  <2>2. Cardinality(Calls(control)) = 0 /\ Cardinality(Fors(control)) = 0
    BY <1>4
  <2> QED BY <1>2, <1>3, <1>4, <2>1, <2>2 DEF Stacks, Saved
<1>8. Kept /\ Recordings
  BY DEF Init, Kept, Recordings, Recording
<1> QED BY <1>6, <1>7, <1>8 DEF IInv

\* The invariant holds of every reachable state.
LEMMA IInvHolds == Spec => []IInv
<1>1. ASSUME IInv, [Next]_vars
      PROVE  IInv'
  <2>1. CASE Execute
    <3>1. PICK s \in Stmts :
            Decl(s) \/ Reassign(s) \/ EnterFor(s) \/ EnterForIn(s) \/ EnterWhile(s) \/ Call(s)
      BY <2>1 DEF Execute
    <3> QED BY <1>1, <3>1, DeclKeeps, ReassignKeeps, EnterForKeeps, EnterForInKeeps, EnterWhileKeeps, CallKeeps
  <2>2. CASE Iterate
    BY <1>1, <2>2, IterateKeeps
  <2>3. CASE LeaveLoop
    BY <1>1, <2>3, LeaveLoopKeeps
  <2>4. CASE Return
    BY <1>1, <2>4, ReturnKeeps
  <2>5. CASE EndScript
    BY <1>1, <2>5, EndScriptKeeps
  <2>6. CASE Commit
    BY <1>1, <2>6, CommitKeeps
  <2>7. CASE UNCHANGED vars
    <3>1. /\ UNCHANGED <<bar, phase, frames, loops, control, offset, consts, bools, rootVars>>
          /\ UNCHANGED <<kind, numHist, genHist, committed>>
      BY <2>7 DEF vars, script, histories
    <3>2. Types' /\ Stacks'
      BY <1>1, <3>1 DEF IInv, Types, Stacks
    <3>3. Saved' /\ Kept'
      BY <1>1, <3>1 DEF IInv, Saved, Kept
    <3>4. Recordings'
      BY <1>1, <3>1 DEF IInv, Recordings, Recording
    <3> QED BY <3>2, <3>3, <3>4 DEF IInv
  <2> QED BY <1>1, <2>1, <2>2, <2>3, <2>4, <2>5, <2>6, <2>7 DEF Next, Ended
<1> QED BY <1>1, InitKeeps, PTL DEF Spec

\* Every reachable state is well typed, and the stack of environments and the loop
\* bindings agree with the constructs being executed, however they are left.
THEOREM WellTyped == Spec => []TypeOK
<1>1. ASSUME IInv PROVE TypeOK
  <2>1. \A f \in Frame : IsFrame(f)
    <3>1. \A f : f \in Frame => \E D \in SUBSET Names : f \in [D -> Entry]
      BY DEF Frame
    <3>2. \A f, D : f \in [D -> Entry] => DOMAIN f = D
      OBVIOUS
    <3> QED BY <3>1, <3>2 DEF IsFrame
  <2>2. \A k \in DOMAIN frames : IsFrame(frames[k])
    BY <1>1, <2>1 DEF IInv, Types
  <2>3. \A k \in DOMAIN control : IsConstruct(control[k])
    <3>1. TAKE k \in DOMAIN control
    <3>2. control[k] \in Construct /\ DOMAIN control[k].before \subseteq {control[k].var}
      BY <1>1 DEF IInv, Types
    <3>3. IsFrame(control[k].before)
      BY <2>1, <3>2 DEF Construct
    <3>4. \A c \in Construct :
            c \in [is : Kinds, var : Names, i : Int, last : Int, by : Int, items : Seq(Values), n : Nat,
                  before : {c.before}, offset : Nat, saved : {c.saved}]
      BY DEF Construct
    <3> QED BY <3>2, <3>3, <3>4 DEF IsConstruct
  <2>4. \A k \in DOMAIN loops : loops[k] \in [name : Names, value : Numeric]
    <3>1. loops \in Seq(Binding)
      BY <1>1 DEF IInv, Types
    <3>2. \A k \in DOMAIN loops : loops[k] \in Binding
      BY <3>1
    <3> QED BY <3>2 DEF Binding
  <2>5. Len(frames) = 1 + Cardinality({k \in DOMAIN control : control[k].is = "call"}) /\ Len(loops) = Bindings(control)
    BY <1>1 DEF IInv, Stacks, Bindings, Calls, Fors
  <2> QED BY <1>1, <2>2, <2>3, <2>4, <2>5 DEF IInv, Types, Stacks, TypeOK
<1> QED BY <1>1, IInvHolds, PTL

\* The frames a call found are as it found them for as long as it runs.
THEOREM CallersAreKept == Spec => []CallersKept
<1>1. ASSUME IInv PROVE CallersKept
  <2>1. ASSUME NEW k \in DOMAIN control, control[k].is = "call"
        PROVE  SubSeq(frames, 1, Len(control[k].saved)) = control[k].saved
    <3> DEFINE t == control[k].saved
    <3>1. k \in Calls(control) /\ control \in Seq(Construct) /\ frames \in Seq(Frame)
      BY <1>1, <2>1 DEF IInv, Types, Calls
    <3>2. t \in Seq(Frame) /\ Len(t) \in Nat
      BY <3>1, ConstructIs
    <3>3. Len(t) < Len(frames) /\ \A n \in 1 .. Len(t) : frames[n] = t[n]
      BY <1>1, <3>1 DEF IInv, Saved
    <3> HIDE DEF t
    <3>4. Len(t) \in 0 .. Len(frames)
      BY <3>1, <3>2, <3>3
    <3>5. /\ SubSeq(frames, 1, Len(t)) \in Seq(Frame) /\ Len(SubSeq(frames, 1, Len(t))) = Len(t)
          /\ \A n \in 1 .. Len(t) : SubSeq(frames, 1, Len(t))[n] = t[n]
      BY <3>1, <3>3, <3>4, Cut
    <3>6. SubSeq(frames, 1, Len(t)) = t
      BY <3>2, <3>5, SeqEqual
    <3> QED BY <3>6 DEF t
  <2> QED BY <2>1 DEF CallersKept
<1> QED BY <1>1, IInvHolds, PTL

\* commitBar misses no bar of a variable it has recorded once.
THEOREM NoGapsInHistory == Spec => []NoGaps
<1>1. ASSUME IInv PROVE NoGaps
  BY <1>1 DEF IInv, Kept, NoGaps
<1> QED BY <1>1, IInvHolds, PTL

\* x[n] is what was committed n bars ago.
THEOREM HistoryReadsBack == Spec => []HistoryIsCommitted
<1>1. ASSUME IInv PROVE HistoryIsCommitted
  <2>1. ASSUME NEW x \in Names, ArgOf(x) = NoArg, NoBoolAfterNumber(committed[x]),
               NEW n \in 1 .. Len(committed[x]) - offset
        PROVE  Index(x, n) = committed[x][Len(committed[x]) - offset - n + 1]
    <3>1. committed[x] \in Seq(Values) /\ Len(committed[x]) \in Nat /\ offset \in Nat
      BY <1>1 DEF IInv, Types
    <3>2. /\ n \in Nat /\ n # 0 /\ offset + n <= Len(committed[x])
          /\ Len(committed[x]) - offset - n + 1 = Len(committed[x]) - (offset + n) + 1
          /\ committed[x] # <<>>
      BY <2>1, <3>1
    <3>3. Index(x, n) = Past(x, offset + n)
      BY <2>1, <3>2 DEF Index
    <3>4. Recording(x)
      BY <1>1, <2>1 DEF IInv, Recordings
    <3>5. \/ numHist[x] = committed[x]
          \/ numHist[x] = <<>> /\ genHist[x] = committed[x]
      BY <3>2, <3>4 DEF Recording
    <3>6. Past(x, offset + n) = committed[x][Len(committed[x]) - (offset + n) + 1]
      BY <3>2, <3>5 DEF Past
    <3> QED BY <3>2, <3>3, <3>6
  <2> QED BY <2>1 DEF HistoryIsCommitted, ReadsBack
<1> QED BY <1>1, IInvHolds, PTL
=============================================================================
