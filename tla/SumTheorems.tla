---------------------------- MODULE SumTheorems ----------------------------
(***************************************************************************)
(* Facts about SumOf, by induction on finite sets.  The library states     *)
(* induction for an operator, which cannot be instantiated here, so it is  *)
(* restated for a set of good sets.                                        *)
(***************************************************************************)
EXTENDS Sums, FiniteSets, FiniteSetTheorems, WellFoundedInduction, TLAPS

\* A nonempty set of natural numbers has a least element.
LEMMA LeastNatural ==
  ASSUME NEW B, B \subseteq Nat, B # {}
  PROVE  \E n \in B : \A m \in B : n <= m
<1>1. PICK n \in B : \A m \in B : ~ (<<m, n>> \in OpToRel(<, Nat))
  BY WFMin, NatLessThanWellFounded
<1>2. \A m \in B : ~ (m < n)
  BY <1>1 DEF OpToRel
<1> QED BY <1>2

\* Induction over a finite set S: if the empty set is good, and adding an
\* element of S to a good subset of S keeps it good, then S is good.
LEMMA FiniteInduction ==
  ASSUME NEW S, IsFiniteSet(S), NEW Good, {} \in Good,
         \A T \in SUBSET S : \A x \in S \ T : T \in Good => T \cup {x} \in Good
  PROVE  S \in Good
<1> SUFFICES ASSUME S \notin Good PROVE FALSE
  OBVIOUS
<1> DEFINE Bad == {T \in SUBSET S : T \notin Good}
           B == {Cardinality(T) : T \in Bad}
<1>1. \A T \in SUBSET S : IsFiniteSet(T) /\ Cardinality(T) \in Nat
  BY FS_Subset, FS_CardinalityType
<1>2. B # {} /\ B \subseteq Nat
  BY <1>1
<1>3. PICK T \in Bad : \A U \in Bad : Cardinality(T) <= Cardinality(U)
  <2>1. PICK n \in B : \A m \in B : n <= m
    BY <1>2, LeastNatural
  <2> QED BY <2>1
<1>4. PICK x \in T : TRUE
  OBVIOUS
<1>5. Cardinality(T \ {x}) = Cardinality(T) - 1
  BY <1>1, FS_RemoveElement
<1>6. T \ {x} \in Good
  BY <1>1, <1>3, <1>5
<1>7. (T \ {x}) \cup {x} \in Good
  BY <1>6
<1> QED BY <1>7

-----------------------------------------------------------------------------
(* The function the fold recurs on. *)

Unfolding(g, iter) ==
  iter = [s \in SUBSET (DOMAIN g) |->
            IF s = {} THEN 0
            ELSE LET x == CHOOSE x \in s : TRUE IN g[x] + iter[s \ {x}]]

Iteration(g) == CHOOSE iter : Unfolding(g, iter)

\* SumOf (Sim.PositionSize and the totals of realize) is what the recursion over the
\* subsets of its domain gives.
LEMMA SumIsIteration ==
  ASSUME NEW g PROVE SumOf(g) = Iteration(g)[DOMAIN g]
BY DEF SumOf, FoldFunction, FoldFunctionOnSet, MapThenFoldSet, Iteration, Unfolding

\* The recursion has a solution: one for the subsets of T extends to one for the
\* subsets of T with an element more.
LEMMA IterationUnfolds ==
  ASSUME NEW g, IsFiniteSet(DOMAIN g)
  PROVE  Unfolding(g, Iteration(g))
<1> DEFINE S == DOMAIN g
           Step(h, s) == IF s = {} THEN 0
                         ELSE LET x == CHOOSE x \in s : TRUE IN g[x] + h[s \ {x}]
           Level(n) == {s \in SUBSET S : Cardinality(s) <= n}
           Good == {n \in Nat : \E h : h = [s \in Level(n) |-> Step(h, s)]}
<1>1. \A s \in SUBSET S : IsFiniteSet(s) /\ Cardinality(s) \in Nat
  BY FS_Subset, FS_CardinalityType
<1>2. 0 \in Good
  <2> DEFINE h == [s \in Level(0) |-> 0]
  <2>1. \A s \in Level(0) : s = {}
    BY <1>1, FS_EmptySet
  <2>2. h = [s \in Level(0) |-> Step(h, s)]
    BY <2>1
  <2> QED BY <2>2
<1>3. ASSUME NEW n \in Nat, n \in Good PROVE n + 1 \in Good
  <2>1. PICK h : h = [s \in Level(n) |-> Step(h, s)]
    BY <1>3
  <2> DEFINE k == [s \in Level(n + 1) |-> IF s \in Level(n) THEN h[s] ELSE Step(h, s)]
  <2>2. ASSUME NEW s \in Level(n + 1) PROVE k[s] = Step(k, s)
    <3>1. CASE s = {}
      <4>1. s \in Level(n)
        BY <3>1, <1>1, FS_EmptySet
      <4> QED BY <4>1, <2>1, <3>1
    <3>2. CASE s # {}
      <4> DEFINE x == CHOOSE x \in s : TRUE
      <4>1. x \in s /\ s \ {x} \in SUBSET S
        BY <3>2
      <4>2. Cardinality(s \ {x}) = Cardinality(s) - 1
        BY <4>1, <1>1, FS_RemoveElement
      <4>3. s \ {x} \in Level(n) /\ s \ {x} \in Level(n + 1)
        BY <4>1, <4>2, <1>1
      <4>4. k[s \ {x}] = h[s \ {x}]
        BY <4>3
      <4>5. Step(k, s) = g[x] + h[s \ {x}]
        BY <3>2, <4>4
      <4>6. k[s] = g[x] + h[s \ {x}]
        <5>1. Step(h, s) = g[x] + h[s \ {x}]
          BY <3>2
        <5>2. s \in Level(n) => h[s] = Step(h, s)
          BY <2>1
        <5> QED BY <5>1, <5>2
      <4> QED BY <4>5, <4>6
    <3> QED BY <3>1, <3>2
  <2> HIDE DEF Step
  <2>3. k = [s \in Level(n + 1) |-> k[s]]
    OBVIOUS
  <2> HIDE DEF k
  <2>4. k = [s \in Level(n + 1) |-> Step(k, s)]
    BY <2>2, <2>3
  <2> QED BY <2>4
<1>4. \A n \in Nat : n \in Good
  <2> HIDE DEF Good
  <2> DEFINE Bad == Nat \ Good
  <2> SUFFICES ASSUME Bad # {} PROVE FALSE
    OBVIOUS
  <2>1. PICK n \in Bad : \A m \in Bad : n <= m
    BY LeastNatural
  <2>2. n # 0
    BY <1>2
  <2>3. n - 1 \in Good
    BY <2>1, <2>2
  <2>4. (n - 1) + 1 \in Good
    BY <2>2, <2>3, <1>3
  <2> QED BY <2>4
<1>5. Level(Cardinality(S)) = SUBSET S
  BY <1>1, FS_Subset
<1>6. \E h : Unfolding(g, h)
  <2>1. Cardinality(S) \in Good
    BY <1>1, <1>4
  <2>2. PICK h : h = [s \in Level(Cardinality(S)) |-> Step(h, s)]
    BY <2>1
  <2>3. h = [s \in SUBSET S |-> Step(h, s)]
    BY <2>2, <1>5
  <2> QED BY <2>3 DEF Unfolding
<1> QED BY <1>6 DEF Iteration

-----------------------------------------------------------------------------
\* The part of g on T.
On(g, T) == [i \in T |-> g[i]]

\* Two iterations agree on a set on which their functions agree.
LEMMA IterationsAgree ==
  ASSUME NEW f, IsFiniteSet(DOMAIN f), NEW g, IsFiniteSet(DOMAIN g),
         NEW T, T \subseteq DOMAIN f, T \subseteq DOMAIN g, \A i \in T : f[i] = g[i]
  PROVE  Iteration(f)[T] = Iteration(g)[T]
<1> DEFINE Good == {U \in SUBSET T : Iteration(f)[U] = Iteration(g)[U]}
           LeastOut(U) == CHOOSE x \in U : TRUE
<1>0. Unfolding(f, Iteration(f)) /\ Unfolding(g, Iteration(g))
  BY IterationUnfolds
<1>1. ASSUME NEW U \in SUBSET T
      PROVE  /\ U = {} => Iteration(f)[U] = 0 /\ Iteration(g)[U] = 0
             /\ U # {} => /\ Iteration(f)[U] = f[LeastOut(U)] + Iteration(f)[U \ {LeastOut(U)}]
                          /\ Iteration(g)[U] = g[LeastOut(U)] + Iteration(g)[U \ {LeastOut(U)}]
  BY <1>0 DEF Unfolding
<1> QED
  <2> SUFFICES ASSUME T \notin Good PROVE FALSE
    OBVIOUS
  <2> DEFINE Bad == {U \in SUBSET T : U \notin Good}
             B == {Cardinality(U) : U \in Bad}
  <2>1. \A U \in SUBSET T : IsFiniteSet(U) /\ Cardinality(U) \in Nat
    BY FS_Subset, FS_CardinalityType
  <2>2. PICK n \in B : \A m \in B : n <= m
    <3>1. B # {} /\ B \subseteq Nat
      BY <2>1
    <3> HIDE DEF B
    <3> QED BY <3>1, LeastNatural
  <2>3. PICK U \in Bad : \A V \in Bad : Cardinality(U) <= Cardinality(V)
    BY <2>2
  <2>4. U # {}
    BY <1>1
  <2> DEFINE x == LeastOut(U)
  <2>5. x \in U /\ U \ {x} \in SUBSET T
    BY <2>4
  <2>6. Cardinality(U \ {x}) = Cardinality(U) - 1
    BY <2>1, <2>5, FS_RemoveElement
  <2>7. Iteration(f)[U \ {x}] = Iteration(g)[U \ {x}]
    BY <2>1, <2>3, <2>5, <2>6
  <2> QED BY <1>1, <2>4, <2>5, <2>7

\* A flat account has size 0: the sum over nothing is 0.
LEMMA SumOfEmpty == ASSUME NEW g, DOMAIN g = {} PROVE SumOf(g) = 0
<1>1. IsFiniteSet(DOMAIN g)
  BY FS_EmptySet
<1>2. Unfolding(g, Iteration(g))
  BY <1>1, IterationUnfolds
<1> QED BY <1>2, SumIsIteration DEF Unfolding

\* The sum with the element the fold takes first.
LEMMA SumTakesFirst ==
  ASSUME NEW g, IsFiniteSet(DOMAIN g), DOMAIN g # {}
  PROVE  LET x == CHOOSE x \in DOMAIN g : TRUE
         IN  x \in DOMAIN g /\ SumOf(g) = g[x] + SumOf(On(g, DOMAIN g \ {x}))
<1> DEFINE x == CHOOSE x \in DOMAIN g : TRUE
           h == On(g, DOMAIN g \ {x})
<1>1. x \in DOMAIN g
  OBVIOUS
<1>2. SumOf(g) = g[x] + Iteration(g)[DOMAIN g \ {x}]
  BY SumIsIteration, IterationUnfolds DEF Unfolding
<1>3. DOMAIN h = DOMAIN g \ {x} /\ \A i \in DOMAIN h : h[i] = g[i]
  BY DEF On
<1>4. IsFiniteSet(DOMAIN h)
  BY <1>3, FS_Subset
<1>5. Iteration(g)[DOMAIN h] = Iteration(h)[DOMAIN h]
  BY <1>3, <1>4, IterationsAgree
<1>6. SumOf(h) = Iteration(h)[DOMAIN h]
  BY SumIsIteration
<1> QED BY <1>1, <1>2, <1>3, <1>5, <1>6

\* The sum with any element taken out: the order does not matter.
LEMMA SumRemove ==
  ASSUME NEW S, IsFiniteSet(S), NEW g \in [S -> Int]
  PROVE  /\ SumOf(g) \in Int
         /\ \A x \in S : SumOf(g) = g[x] + SumOf(On(g, S \ {x}))
<1> DEFINE OneOut(T, x) == SumOf(On(g, T)) = g[x] + SumOf(On(g, T \ {x}))
           Good == {T \in SUBSET S : /\ SumOf(On(g, T)) \in Int
                                     /\ \A x \in T : OneOut(T, x)}
<1>0. \A T \in SUBSET S : IsFiniteSet(T) /\ Cardinality(T) \in Nat
  BY FS_Subset, FS_CardinalityType
<1>1. \A T : DOMAIN On(g, T) = T /\ \A U \in SUBSET T : On(On(g, T), U) = On(g, U)
  BY DEF On
<1>2. {} \in Good
  BY <1>1, SumOfEmpty
<1>3. ASSUME NEW T \in SUBSET S, T # {}, \A U \in SUBSET T : U # T => U \in Good
      PROVE  T \in Good
  <2> DEFINE c == CHOOSE c \in T : TRUE
  <2>1. c \in T /\ OneOut(T, c)
    <3>1. IsFiniteSet(DOMAIN On(g, T)) /\ DOMAIN On(g, T) # {}
      BY <1>0, <1>1, <1>3
    <3>2. SumOf(On(g, T)) = On(g, T)[c] + SumOf(On(On(g, T), T \ {c})) /\ c \in T
      BY <3>1, <1>1, SumTakesFirst
    <3>3. On(g, T)[c] = g[c]
      BY <3>2 DEF On
    <3> QED BY <3>2, <3>3, <1>1
  <2>2. T \ {c} \in Good
    BY <2>1, <1>3
  <2>3. SumOf(On(g, T)) \in Int
    BY <2>1, <2>2
  <2>4. ASSUME NEW x \in T PROVE OneOut(T, x)
    <3>1. CASE x = c
      BY <3>1, <2>1
    <3>2. CASE x # c
      <4>1. OneOut(T \ {c}, x)
        BY <2>2, <3>2
      <4>2. T \ {x} \in Good /\ c \in T \ {x}
        BY <3>2, <2>1, <1>3
      <4>3. OneOut(T \ {x}, c)
        BY <4>2
      <4>4. (T \ {c}) \ {x} = (T \ {x}) \ {c}
        OBVIOUS
      <4>5. (T \ {x}) \ {c} \in Good
        BY <2>1, <1>3
      <4>6. /\ g[x] \in Int /\ g[c] \in Int /\ SumOf(On(g, (T \ {x}) \ {c})) \in Int
        BY <2>1, <4>5
      <4>7. SumOf(On(g, T)) = g[c] + (g[x] + SumOf(On(g, (T \ {x}) \ {c})))
        BY <2>1, <4>1, <4>4
      <4>8. SumOf(On(g, T \ {x})) = g[c] + SumOf(On(g, (T \ {x}) \ {c}))
        BY <4>3
      <4>9. SumOf(On(g, T)) = g[x] + SumOf(On(g, T \ {x}))
        <5> HIDE DEF c
        <5> QED BY <4>6, <4>7, <4>8
      <4> QED BY <4>9
    <3> QED BY <3>1, <3>2
  <2> QED BY <2>3, <2>4
<1>4. S \in Good
  <2> HIDE DEF Good
  <2> SUFFICES ASSUME S \notin Good PROVE FALSE
    OBVIOUS
  <2> DEFINE Bad == {U \in SUBSET S : U \notin Good}
             B == {Cardinality(U) : U \in Bad}
  <2>1. PICK n \in B : \A m \in B : n <= m
    <3>1. B # {} /\ B \subseteq Nat
      BY <1>0
    <3> HIDE DEF B
    <3> QED BY <3>1, LeastNatural
  <2>2. PICK T \in Bad : \A V \in Bad : Cardinality(T) <= Cardinality(V)
    BY <2>1
  <2>3. \A U \in SUBSET T : U # T => Cardinality(U) < Cardinality(T)
    BY <1>0, FS_Subset
  <2>4. \A U \in SUBSET T : U # T => U \in Good
    <3> SUFFICES ASSUME NEW U \in SUBSET T, U # T, U \notin Good PROVE FALSE
      OBVIOUS
    <3>1. Cardinality(T) <= Cardinality(U) /\ Cardinality(U) < Cardinality(T)
      BY <2>2, <2>3
    <3> QED BY <3>1, <1>0
  <2> QED BY <1>2, <1>3, <2>2, <2>4
<1>5. On(g, S) = g
  BY DEF On
<1> QED BY <1>4, <1>5

-----------------------------------------------------------------------------
(* What is used of sums. *)

\* A sum of integers is an integer.
LEMMA SumType ==
  ASSUME NEW S, IsFiniteSet(S), NEW g \in [S -> Int] PROVE SumOf(g) \in Int
BY SumRemove

\* A new element adds its value.
LEMMA SumInsert ==
  ASSUME NEW S, IsFiniteSet(S), NEW g \in [S -> Int], NEW x, x \notin S, NEW v \in Int
  PROVE  SumOf([i \in S \cup {x} |-> IF i = x THEN v ELSE g[i]]) = v + SumOf(g)
<1> DEFINE h == [i \in S \cup {x} |-> IF i = x THEN v ELSE g[i]]
<1>1. IsFiniteSet(S \cup {x})
  BY FS_AddElement
<1>2. h \in [S \cup {x} -> Int] /\ h[x] = v
  OBVIOUS
<1>3. On(h, (S \cup {x}) \ {x}) = g
  BY DEF On
<1> HIDE DEF h
<1>4. SumOf(h) = h[x] + SumOf(On(h, (S \cup {x}) \ {x}))
  BY <1>1, <1>2, SumRemove
<1> QED BY <1>2, <1>3, <1>4 DEF h

\* The sum over a subset, and the sum with one element more.
LEMMA SumOn ==
  ASSUME NEW S, IsFiniteSet(S), NEW g \in [S -> Int], NEW T \in SUBSET S
  PROVE  /\ SumOf(On(g, T)) \in Int
         /\ T = {} => SumOf(On(g, T)) = 0
         /\ \A x \in S \ T : SumOf(On(g, T \cup {x})) = g[x] + SumOf(On(g, T))
<1>1. ASSUME NEW U \in SUBSET S PROVE IsFiniteSet(U) /\ On(g, U) \in [U -> Int]
  BY FS_Subset DEF On
<1>2. SumOf(On(g, T)) \in Int
  BY <1>1, SumType
<1>3. T = {} => SumOf(On(g, T)) = 0
  <2>1. DOMAIN On(g, T) = T
    BY DEF On
  <2> QED BY <2>1, SumOfEmpty
<1>4. ASSUME NEW x \in S \ T PROVE SumOf(On(g, T \cup {x})) = g[x] + SumOf(On(g, T))
  <2> DEFINE U == T \cup {x}
  <2>1. U \in SUBSET S /\ x \in U /\ U \ {x} = T
    OBVIOUS
  <2>2. On(g, U)[x] = g[x] /\ On(On(g, U), T) = On(g, T)
    BY DEF On
  <2> HIDE DEF U
  <2>3. SumOf(On(g, U)) = On(g, U)[x] + SumOf(On(On(g, U), U \ {x}))
    BY <1>1, <2>1, SumRemove
  <2>4. SumOf(On(g, U)) = g[x] + SumOf(On(g, T))
    BY <2>1, <2>2, <2>3
  <2> QED BY <2>4 DEF U
<1> QED BY <1>2, <1>3, <1>4

\* Changing one value changes the sum by the difference.
LEMMA SumReplace ==
  ASSUME NEW S, IsFiniteSet(S), NEW g \in [S -> Int], NEW x \in S, NEW v \in Int
  PROVE  SumOf([i \in S |-> IF i = x THEN v ELSE g[i]]) = SumOf(g) - g[x] + v
<1> DEFINE h == [i \in S |-> IF i = x THEN v ELSE g[i]]
<1>1. h \in [S -> Int] /\ h[x] = v
  OBVIOUS
<1>2. On(h, S \ {x}) = On(g, S \ {x})
  BY DEF On
<1> HIDE DEF h
<1>3. SumOf(h) = h[x] + SumOf(On(h, S \ {x}))
  BY <1>1, SumRemove
<1>4. SumOf(g) = g[x] + SumOf(On(g, S \ {x}))
  BY SumRemove
<1>5. SumOf(On(g, S \ {x})) \in Int
  <2>1. IsFiniteSet(S \ {x}) /\ On(g, S \ {x}) \in [S \ {x} -> Int]
    BY FS_Subset DEF On
  <2> QED BY <2>1, SumType
<1>6. SumOf(h) = v + SumOf(On(g, S \ {x}))
  BY <1>1, <1>2, <1>3
<1>7. g[x] \in Int
  OBVIOUS
<1>8. SumOf(h) = SumOf(g) - g[x] + v
  BY <1>4, <1>5, <1>6, <1>7
<1> QED BY <1>8 DEF h

\* The sum of a sum of functions.
LEMMA SumPointwise ==
  ASSUME NEW S, IsFiniteSet(S), NEW f \in [S -> Int], NEW g \in [S -> Int]
  PROVE  SumOf([i \in S |-> f[i] + g[i]]) = SumOf(f) + SumOf(g)
<1> DEFINE h == [i \in S |-> f[i] + g[i]]
           Good == {T \in SUBSET S : SumOf(On(h, T)) = SumOf(On(f, T)) + SumOf(On(g, T))}
<1>0. h \in [S -> Int] /\ \A i \in S : h[i] = f[i] + g[i]
  OBVIOUS
<1> HIDE DEF h
<1>1. ASSUME NEW k \in [S -> Int], NEW T \in SUBSET S
      PROVE  /\ SumOf(On(k, T)) \in Int
             /\ T = {} => SumOf(On(k, T)) = 0
             /\ \A x \in S \ T : SumOf(On(k, T \cup {x})) = k[x] + SumOf(On(k, T))
  BY SumOn
<1>2. {} \in Good
  BY <1>0, <1>1
<1>3. ASSUME NEW T \in SUBSET S, NEW x \in S \ T, T \in Good PROVE T \cup {x} \in Good
  <2>1. SumOf(On(h, T \cup {x})) = h[x] + SumOf(On(h, T))
    BY <1>0, <1>1
  <2>2. SumOf(On(f, T \cup {x})) = f[x] + SumOf(On(f, T))
    BY <1>1
  <2>3. SumOf(On(g, T \cup {x})) = g[x] + SumOf(On(g, T))
    BY <1>1
  <2>4. SumOf(On(f, T)) \in Int /\ SumOf(On(g, T)) \in Int /\ f[x] \in Int /\ g[x] \in Int
    BY <1>1
  <2> QED BY <1>0, <1>3, <2>1, <2>2, <2>3, <2>4
<1>4. S \in Good
  <2> HIDE DEF Good
  <2> QED BY <1>2, <1>3, FiniteInduction
<1>5. On(h, S) = h /\ On(f, S) = f /\ On(g, S) = g
  BY <1>0 DEF On
<1> QED BY <1>4, <1>5 DEF h

\* Elements whose value is zero do not count.
LEMMA SumSupport ==
  ASSUME NEW S, IsFiniteSet(S), NEW g \in [S -> Int], NEW T \in SUBSET S,
         \A i \in S \ T : g[i] = 0
  PROVE  SumOf(g) = SumOf(On(g, T))
<1> DEFINE R == S \ T
           Good == {U \in SUBSET R : SumOf(On(g, T \cup U)) = SumOf(On(g, T))}
<1>1. {} \in Good
  OBVIOUS
<1>2. ASSUME NEW U \in SUBSET R, NEW x \in R \ U, U \in Good PROVE U \cup {x} \in Good
  <2>1. T \cup U \in SUBSET S /\ x \in S \ (T \cup U)
    OBVIOUS
  <2>2. (T \cup U) \cup {x} = T \cup (U \cup {x})
    OBVIOUS
  <2> DEFINE V == T \cup U
  <2>3. V \in SUBSET S /\ x \in S \ V
    BY <2>1
  <2>4. SumOf(On(g, V \cup {x})) = g[x] + SumOf(On(g, V)) /\ SumOf(On(g, V)) \in Int
    <3> HIDE DEF V
    <3> QED BY <2>3, SumOn
  <2>5. g[x] = 0 /\ SumOf(On(g, V)) = SumOf(On(g, T))
    BY <1>2
  <2>6. SumOf(On(g, V \cup {x})) = SumOf(On(g, T))
    <3> HIDE DEF V
    <3> QED BY <2>4, <2>5
  <2>7. V \cup {x} = T \cup (U \cup {x})
    BY <2>2
  <2> QED BY <2>6, <2>7
<1>3. R \in Good
  <2>1. IsFiniteSet(R)
    BY FS_Subset
  <2> HIDE DEF Good, R
  <2> QED BY <1>1, <1>2, <2>1, FiniteInduction
<1>4. On(g, T \cup R) = g
  BY DEF On
<1> QED BY <1>3, <1>4

\* The sum of values of one sign has that sign.
LEMMA SumPositive ==
  ASSUME NEW S, IsFiniteSet(S), S # {}, NEW g \in [S -> Int], \A i \in S : g[i] > 0
  PROVE  SumOf(g) > 0
<1> DEFINE Good == {T \in SUBSET S : T = {} \/ SumOf(On(g, T)) > 0}
<1>1. {} \in Good
  OBVIOUS
<1>2. ASSUME NEW T \in SUBSET S, NEW x \in S \ T, T \in Good PROVE T \cup {x} \in Good
  <2>1. SumOf(On(g, T \cup {x})) = g[x] + SumOf(On(g, T))
    BY SumOn
  <2>2. SumOf(On(g, T)) \in Int /\ (T = {} => SumOf(On(g, T)) = 0)
    BY SumOn
  <2>3. g[x] \in Int /\ g[x] > 0
    OBVIOUS
  <2> QED BY <1>2, <2>1, <2>2, <2>3
<1>3. S \in Good
  <2> HIDE DEF Good
  <2> QED BY <1>1, <1>2, FiniteInduction
<1>4. On(g, S) = g
  BY DEF On
<1> QED BY <1>3, <1>4

\* A sum of opposites is the opposite of the sum.
LEMMA SumNegated ==
  ASSUME NEW S, IsFiniteSet(S), NEW g \in [S -> Int]
  PROVE  SumOf([i \in S |-> -g[i]]) = -SumOf(g)
<1> DEFINE h == [i \in S |-> -g[i]]
           z == [i \in S |-> g[i] + h[i]]
<1>1. h \in [S -> Int]
  OBVIOUS
<1>2. z = [i \in S |-> 0]
  OBVIOUS
<1>3. SumOf(z) = 0
  <2>1. z \in [S -> Int] /\ \A i \in S \ {} : z[i] = 0
    BY <1>2
  <2>2. On(z, {}) = [i \in {} |-> 0]
    BY DEF On
  <2> HIDE DEF z
  <2>3. SumOf(z) = SumOf(On(z, {}))
    BY <2>1, SumSupport
  <2>4. DOMAIN On(z, {}) = {}
    BY <2>2
  <2> QED BY <2>3, <2>4, SumOfEmpty
<1>4. SumOf(z) = SumOf(g) + SumOf(h)
  <2> HIDE DEF h
  <2> QED BY <1>1, SumPointwise
<1>5. SumOf(g) \in Int /\ SumOf(h) \in Int
  <2> HIDE DEF h
  <2> QED BY <1>1, SumType
<1>6. SumOf(h) = -SumOf(g)
  <2> HIDE DEF h, z
  <2> QED BY <1>3, <1>4, <1>5
<1> QED BY <1>6
=============================================================================
