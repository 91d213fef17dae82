---------------------------- MODULE EngineProofs ----------------------------
(***************************************************************************)
(* For every set of slices and programs, whatever the providers are: a run *)
(* executes the bytes it was given and keeps to its budget; its series are *)
(* of its timeframe, those the providers offer and those they are meant to *)
(* be; and what a program spells out is missed before the bars or never.   *)
(***************************************************************************)
EXTENDS Engine, SumTheorems

\* A runtime that has been made has all its fields.
Fields ==
  InRun => rt = [phase |-> rt.phase, program |-> rt.program, given |-> rt.given, aliased |-> rt.aliased,
                 timeframe |-> rt.timeframe, store |-> rt.store, todo |-> rt.todo, bar |-> rt.bar,
                 late |-> rt.late, lateBars |-> rt.lateBars, refused |-> rt.refused]

\* The slice the cache holds on to still has the bytes of the cached program, unless
\* the host has written into it.
Cached ==
  /\ memory = [b \in Buffers |-> memory[b]]
  /\ overwritten \in BOOLEAN
  /\ cache # None => /\ cache.buf \in Buffers
                     /\ memory[cache.buf] = cache.program \/ overwritten

\* The bars begun since the deadline are those since the last look at the clock at most.
SinceLook ==
  InRun => /\ rt.bar \in Nat /\ rt.late \in BOOLEAN /\ rt.lateBars \in Nat
           /\ ~ rt.late => rt.lateBars = 0
           /\ rt.lateBars <= rt.bar % BudgetStride

\* The inductive invariant.
IInv == Fields /\ Cached /\ SinceLook /\ RunsItsBytecode

\* The remainder of the next number, unless it starts over.
LEMMA NextRemainder ==
  ASSUME NEW k \in Nat \ {0}, NEW n \in Nat
  PROVE  /\ n % k \in 0 .. k - 1 /\ n % k \in Nat /\ (n + 1) % k \in Nat
         /\ n % k = k - 1 \/ (n + 1) % k = (n % k) + 1
<1>1. n % k \in 0 .. k - 1 /\ n % k \in Nat
  OBVIOUS
<1>2. n \div k \in Int
  OBVIOUS
<1>3. n = k * (n \div k) + (n % k)
  BY Z3
<1>4. (n + 1) % k \in 0 .. k - 1
  OBVIOUS
<1>5. ASSUME n % k # k - 1 PROVE (n + 1) % k = (n % k) + 1
  <2>1. ASSUME NEW q \in Int, NEW r \in 0 .. k - 1 PROVE (k * q + r) % k = r
    OBVIOUS
  <2>2. n + 1 = k * (n \div k) + ((n % k) + 1) /\ (n % k) + 1 \in 0 .. k - 1
    BY <1>1, <1>5, <1>2, <1>3
  <2> QED BY <1>2, <2>1, <2>2
<1> QED BY <1>1, <1>4, <1>5

\* Every engine starts in the invariant.
LEMMA StartsInIInv == ASSUME Init PROVE IInv
BY DEF Init, IInv, Fields, Cached, SinceLook, RunsItsBytecode, InRun

\* A step that loads series lets the run fail, or go on with other series.
GoesOn(phase, store, todo, refused) ==
  rt' = [rt EXCEPT !.phase = phase, !.store = store, !.todo = todo, !.refused = refused]
Continues ==
  \/ rt'.phase = "failed"
  \/ InRun /\ \E phase, store, todo, refused : GoesOn(phase, store, todo, refused)

\* The steps that load series leave the rest of the runtime alone.
LEMMA LoadingKeeps ==
  ASSUME IInv, UNCHANGED <<memory, cache, overwritten>>, Continues
  PROVE  IInv'
<1>1. CASE rt'.phase = "failed"
  BY <1>1 DEF IInv, Fields, Cached, SinceLook, RunsItsBytecode, InRun
<1>2. ASSUME InRun, NEW phase, NEW store, NEW todo, NEW refused,
             GoesOn(phase, store, todo, refused)
      PROVE  IInv'
  <2>1. rt' = [phase |-> phase, program |-> rt.program, given |-> rt.given, aliased |-> rt.aliased,
               timeframe |-> rt.timeframe, store |-> store, todo |-> todo, bar |-> rt.bar,
               late |-> rt.late, lateBars |-> rt.lateBars, refused |-> refused]
    BY <1>2 DEF IInv, Fields, GoesOn
  <2>2. /\ rt'.program = rt.program /\ rt'.given = rt.given /\ rt'.aliased = rt.aliased
        /\ rt'.bar = rt.bar /\ rt'.late = rt.late /\ rt'.lateBars = rt.lateBars
    BY <2>1
  <2>3. Fields'
    BY <2>1, <2>2 DEF Fields
  <2>4. Cached' /\ SinceLook' /\ RunsItsBytecode'
    BY <1>2, <2>2 DEF IInv, Cached, SinceLook, RunsItsBytecode, InRun
  <2> QED BY <2>3, <2>4 DEF IInv
<1> QED BY <1>1, <1>2 DEF Continues

-----------------------------------------------------------------------------
(* The steps. *)

\* The steps of the host, between runs.
LEMMA HostKeeps == ASSUME IInv, Host PROVE IInv'
<1>1. UNCHANGED rt
  BY DEF Host, Compile, Write, SetTimeframe
<1>2. Fields' /\ SinceLook' /\ RunsItsBytecode'
  BY <1>1 DEF IInv, Fields, SinceLook, RunsItsBytecode, InRun
<1>3. ASSUME NEW b \in Buffers, NEW program, Compile(b, program) PROVE Cached'
  BY <1>3 DEF IInv, Cached, Compile
<1>4. ASSUME NEW b \in Buffers, NEW bytes, Write(b, bytes) PROVE Cached'
  BY <1>4 DEF IInv, Cached, Write
<1>5. ASSUME NEW tf, SetTimeframe(tf) PROVE Cached'
  BY <1>5 DEF IInv, Cached, SetTimeframe
<1>6. Cached'
  BY <1>3, <1>4, <1>5 DEF Host
<1> QED BY <1>2, <1>6 DEF IInv

\* Execute takes the cached program only for the bytes it is the program of.
LEMMA ExecuteKeeps ==
  ASSUME IInv, NEW b \in Buffers, NEW down, Execute(b, down)
  PROVE  IInv'
<1> DEFINE program == IF Hit(b) THEN cache.program ELSE memory[b]
<1>1. program = memory[b] \/ overwritten
  BY DEF IInv, Cached, Hit
<1>2. Cached' /\ (overwritten' => overwritten) /\ (program = memory[b] \/ overwritten')
  <2>1. UNCHANGED memory /\ memory[b] # None
    BY DEF Execute
  <2>2. CASE UNCHANGED <<cache, overwritten>>
    BY <1>1, <2>1, <2>2 DEF IInv, Cached
  <2>3. CASE ~ Hit(b) /\ cache' = [buf |-> b, program |-> program] /\ overwritten' = FALSE
    BY <2>1, <2>3 DEF IInv, Cached
  <2> QED BY <2>2, <2>3 DEF Execute
<1>3. CASE rt' = Failed(memory[b])
  BY <1>2, <1>3 DEF IInv, Failed, Fields, SinceLook, RunsItsBytecode, InRun
<1>4. CASE rt' = NewRuntime(program, b)
  <2>1. \E store, todo : rt' =
          [phase |-> "loading", program |-> program, given |-> memory[b], aliased |-> overwritten,
           timeframe |-> timeframe, store |-> store, todo |-> todo, bar |-> 0, late |-> FALSE,
           lateBars |-> 0, refused |-> {}]
    BY <1>4 DEF NewRuntime
  <2> HIDE DEF program
  <2>2. Fields' /\ RunsItsBytecode'
    BY <1>1, <2>1 DEF Fields, RunsItsBytecode, InRun
  <2>3. SinceLook'
    BY <2>1, BudgetAssumption DEF SinceLook
  <2> QED BY <1>2, <2>2, <2>3 DEF IInv
<1> QED BY <1>3, <1>4 DEF Execute

\* The steps of a run that load series.
LEMMA PreloadKeeps ==
  ASSUME IInv, NEW key, NEW down, Preload(key, down)
  PROVE  IInv'
<1> DEFINE answer == GetSeries(rt.store, key[1], key[2], down)
<1>1. /\ Running("loading") /\ UNCHANGED <<memory, cache, overwritten>>
      /\ rt' = IF ~ answer.ok THEN Failed(rt.given)
               ELSE [Kept(answer.store, down) EXCEPT
                       !.store.byKey = WithKey(@, key, answer.series), !.todo = @ \ {key},
                       !.phase = IF rt.todo = {key} THEN "bars" ELSE @]
  BY DEF Preload
<1>2. InRun
  BY <1>1 DEF Running, InRun
<1> HIDE DEF answer
<1>3. CASE rt' = Failed(rt.given)
  <2>1. rt'.phase = "failed"
    BY <1>3 DEF Failed
  <2> QED BY <1>1, <2>1, LoadingKeeps DEF Continues
<1>4. ASSUME NEW series, NEW phase,
             rt' = [Kept(answer.store, down) EXCEPT !.store.byKey = series, !.todo = @ \ {key}, !.phase = phase]
      PROVE  Continues
  <2> DEFINE store == [answer.store EXCEPT !.byKey = series]
  <2>1. GoesOn(phase, store, rt.todo \ {key}, rt.refused \cup down)
    BY <1>2, <1>4 DEF IInv, Fields, Kept, GoesOn
  <2> QED BY <1>2, <2>1 DEF Continues
<1> QED BY <1>1, <1>3, <1>4, LoadingKeeps

\* A step that keeps other series, and more refusals.
LEMMA KeptContinues ==
  ASSUME IInv, InRun, NEW store, NEW down, rt' = Kept(store, down)
  PROVE  Continues
<1>1. GoesOn(rt.phase, store, rt.todo, rt.refused \cup down)
  BY DEF IInv, Fields, Kept, GoesOn
<1> QED BY <1>1 DEF Continues

\* The steps of the script.
LEMMA EvaluateKeeps ==
  ASSUME IInv, NEW r, NEW down, Evaluate(r, down)
  PROVE  IInv'
<1>1. InRun /\ UNCHANGED <<memory, cache, overwritten>>
  BY DEF Evaluate, Running, InRun
<1>2. CASE rt' = Failed(rt.given)
  <2>1. rt'.phase = "failed"
    BY <1>2 DEF Failed
  <2> QED BY <1>1, <2>1, LoadingKeeps DEF Continues
<1>3. ASSUME NEW store, rt' = Kept(store, down) PROVE Continues
  BY <1>1, <1>3, KeptContinues
<1> QED BY <1>1, <1>2, <1>3, LoadingKeeps DEF Evaluate

\* A host that asks for a series after the run.
LEMMA SeriesKeeps ==
  ASSUME IInv, NEW s, NEW vt, NEW down, Series(s, vt, down)
  PROVE  IInv'
<1>1. InRun /\ UNCHANGED <<memory, cache, overwritten>>
  BY DEF Series, Running, InRun
<1>2. Continues
  BY <1>1, KeptContinues DEF Series
<1> QED BY <1>1, <1>2, LoadingKeeps

\* A bar that fails.
LEMMA AbortKeeps == ASSUME IInv, Abort PROVE IInv'
<1>1. rt'.phase = "failed" /\ UNCHANGED <<memory, cache, overwritten>>
  BY DEF Abort, Failed
<1> QED BY <1>1, LoadingKeeps DEF Continues

\* A bar ends: the clock is looked at in one bar of BudgetStride.
LEMMA EndBarKeeps == ASSUME IInv, EndBar PROVE IInv'
<1>1. InRun /\ rt.phase = "bars" /\ UNCHANGED <<memory, cache, overwritten>>
  BY DEF EndBar, Running, InRun
<1>2. CASE rt' = Failed(rt.given)
  BY <1>1, <1>2, LoadingKeeps DEF Continues, Failed
<1>3. CASE rt' = [rt EXCEPT !.phase = "done"]
  <2>1. GoesOn("done", rt.store, rt.todo, rt.refused)
    BY <1>1, <1>3 DEF IInv, Fields, GoesOn
  <2> QED BY <1>1, <2>1, LoadingKeeps DEF Continues
<1>4. CASE /\ ~ (rt.late /\ Tested(rt.bar))
           /\ rt' = [rt EXCEPT !.bar = @ + 1, !.lateBars = @ + IF rt.late THEN 1 ELSE 0]
  <2>1. rt' = [phase |-> rt.phase, program |-> rt.program, given |-> rt.given, aliased |-> rt.aliased,
               timeframe |-> rt.timeframe, store |-> rt.store, todo |-> rt.todo, bar |-> rt.bar + 1,
               late |-> rt.late, lateBars |-> rt.lateBars + IF rt.late THEN 1 ELSE 0, refused |-> rt.refused]
    BY <1>1, <1>4 DEF IInv, Fields
  <2>2. Fields' /\ Cached' /\ RunsItsBytecode'
    BY <1>1, <2>1 DEF IInv, Fields, Cached, RunsItsBytecode, InRun
  <2>3. SinceLook'
    <3>1. /\ rt.bar \in Nat /\ rt.late \in BOOLEAN /\ rt.lateBars \in Nat
          /\ ~ rt.late => rt.lateBars = 0
          /\ rt.lateBars <= rt.bar % BudgetStride
      BY <1>1 DEF IInv, SinceLook
    <3>2. /\ rt'.bar = rt.bar + 1 /\ rt'.late = rt.late
          /\ rt'.lateBars = rt.lateBars + IF rt.late THEN 1 ELSE 0
      BY <2>1
    <3>3. \/ rt.bar % BudgetStride = BudgetStride - 1
          \/ (rt.bar + 1) % BudgetStride = (rt.bar % BudgetStride) + 1
      BY <3>1, NextRemainder, BudgetAssumption
    <3>4. (rt.bar + 1) % BudgetStride \in Nat
      BY <3>1, NextRemainder, BudgetAssumption
    <3>5. CASE rt.late
      <4>1. (rt.bar + 1) % BudgetStride = (rt.bar % BudgetStride) + 1
        BY <1>4, <3>3, <3>5 DEF Tested
      <4>2. rt'.bar \in Nat /\ rt'.lateBars \in Nat /\ rt'.lateBars <= rt'.bar % BudgetStride
        <5>1. rt'.bar % BudgetStride = (rt.bar % BudgetStride) + 1 /\ rt'.lateBars = rt.lateBars + 1
          BY <3>2, <3>5, <4>1
        <5>2. rt.bar % BudgetStride \in Nat
          BY <3>1, NextRemainder, BudgetAssumption
        <5> QED BY <3>1, <3>2, <5>1, <5>2
      <4> QED BY <3>1, <3>2, <3>5, <4>2 DEF SinceLook
    <3>6. CASE ~ rt.late
      BY <3>1, <3>2, <3>4, <3>6 DEF SinceLook
    <3> QED BY <3>5, <3>6
  <2> QED BY <2>2, <2>3 DEF IInv
<1> QED BY <1>2, <1>3, <1>4 DEF EndBar

\* The deadline passes.
LEMMA DeadlineKeeps == ASSUME IInv, Deadline PROVE IInv'
<1>1. InRun /\ rt' = [rt EXCEPT !.late = TRUE] /\ UNCHANGED <<memory, cache, overwritten>>
  BY DEF Deadline, Running, InRun
<1>2. rt' = [phase |-> rt.phase, program |-> rt.program, given |-> rt.given, aliased |-> rt.aliased,
             timeframe |-> rt.timeframe, store |-> rt.store, todo |-> rt.todo, bar |-> rt.bar,
             late |-> TRUE, lateBars |-> rt.lateBars, refused |-> rt.refused]
  BY <1>1 DEF IInv, Fields
<1>3. Fields' /\ Cached' /\ SinceLook' /\ RunsItsBytecode'
  BY <1>1, <1>2 DEF IInv, Fields, Cached, SinceLook, RunsItsBytecode, InRun
<1> QED BY <1>3 DEF IInv

\* Every step preserves the invariant.
LEMMA StepsKeepIInv == ASSUME IInv, [Next]_vars PROVE IInv'
<1>1. CASE UNCHANGED vars
  BY <1>1 DEF vars, IInv, Fields, Cached, SinceLook, RunsItsBytecode, InRun
<1>2. CASE Next
  BY <1>2, HostKeeps, ExecuteKeeps, PreloadKeeps, EvaluateKeeps, SeriesKeeps,
     AbortKeeps, EndBarKeeps, DeadlineKeeps DEF Next
<1> QED BY <1>1, <1>2

\* The invariant holds in every state.
LEMMA IInvHolds == Spec => []IInv
<1> QED BY StartsInIInv, StepsKeepIInv, PTL DEF Spec

-----------------------------------------------------------------------------
\* Whatever was compiled, cached or run before, a run executes the bytes that Execute
\* was given (the cached program of engine.go), or the host has written into the slice
\* the cache holds on to.
THEOREM RunsAreOfTheirBytes == Spec => []RunsItsBytecode
<1>1. IInv => RunsItsBytecode
  BY DEF IInv
<1> QED BY <1>1, IInvHolds, PTL

\* However long the run and whenever the deadline passes, fewer bars are begun after it
\* than lie between two looks at the clock (checkExecBudget in engine.go).
THEOREM BudgetIsHeld == Spec => []BudgetHeld
<1>1. ASSUME IInv PROVE BudgetHeld
  <2>1. \A n \in Nat : n % BudgetStride \in Nat /\ n % BudgetStride < BudgetStride
    BY NextRemainder, BudgetAssumption
  <2>2. InRun => rt.lateBars < BudgetStride
    BY <1>1, <2>1, BudgetAssumption DEF IInv, SinceLook
  <2> QED BY <2>2 DEF BudgetHeld
<1> QED BY <1>1, IInvHolds, PTL
-----------------------------------------------------------------------------
(* The series of a run. *)

Base == <<defaultSymbol, defaultValueType>>
Raw(s, vt, tf) == [symbol |-> s, vt |-> vt, frames |-> {tf}]

\* The price of a symbol with a close, when nothing fails: its own series if its
\* provider has one, or that of the default type.
DefaultOf(s) == IF s = defaultSymbol THEN defaultValueType ELSE "close"
Canon(s, p, tf) == Raw(s, IF p \in Catalog[s] /\ <<s, p>> \in Holds THEN p ELSE DefaultOf(s), tf)
Canons(s, tf) == [p \in Prices |-> Canon(s, p, tf)]

\* Every close that a provider lists can be had.
ClosesServed == \A s \in Symbols : "close" \in Catalog[s] => <<s, "close">> \in Holds
Smooth(refused) == refused = {} /\ ClosesServed

\* What a run of the timeframe tf, which has been refused some keys and has asked for
\* the needed ones before its bars, may hold under a key: a series of its timeframe, the
\* provider's if it offers one, and what the key means if nothing has failed.
Right(key, v, tf, refused, needed) ==
  /\ key = <<key[1], key[2]>> /\ key[1] \in Symbols
  /\ v.frames \subseteq {tf}
  /\ key = Base => v = Raw(key[1], key[2], tf)
  /\ key[2] \in Catalog[key[1]] \ Derived /\ key \in Holds \ refused => v = Raw(key[1], key[2], tf)
  /\ Smooth(refused) /\ "close" \in Catalog[key[1]] =>
       /\ key[2] \notin Derived => v = Canon(key[1], key[2], tf)
       /\ key[2] \in Derived \ Catalog[key[1]] /\ key \notin needed => v = Compute(key[2], Canons(key[1], tf))

\* A store has the types of the catalog and those of the derived series it holds.
Shape(store) ==
  /\ store = [byKey |-> store.byKey, types |-> store.types]
  /\ store.types = [s \in Symbols |-> store.types[s]]
  /\ \A s \in Symbols : Catalog[s] \subseteq store.types[s]
  /\ \A s \in Symbols : \A vt \in store.types[s] \ Catalog[s] : vt \in Derived /\ <<s, vt>> \in DOMAIN store.byKey
Selected(store) ==
  /\ defaultSymbol \in Symbols /\ defaultValueType \in Catalog[defaultSymbol]
  /\ Base \in DOMAIN store.byKey
Good(store, tf, refused, needed) ==
  /\ Shape(store) /\ Selected(store)
  /\ \A key \in DOMAIN store.byKey : Right(key, store.byKey[key], tf, refused, needed)

\* A run has what it needs, or has still to ask for it.
Asked ==
  /\ rt.todo \subseteq NeededKeys(rt.program)
  /\ NeededKeys(rt.program) \subseteq rt.todo \cup DOMAIN rt.store.byKey
  /\ rt.phase # "loading" => rt.todo = {}
Stocked ==
  InRun => /\ \A i \in DOMAIN Providers : feed[i] = rt.timeframe
           /\ Good(rt.store, rt.timeframe, rt.refused, NeededKeys(rt.program))
           /\ Asked /\ rt.program \in Programs
Compiled ==
  /\ \A b \in Buffers : memory[b] \in Programs \cup {Garbage, None}
  /\ cache # None => cache.program \in Programs

\* The first provider that lists a symbol is one of the providers.
LEMMA ProviderOfSymbol == \A s \in Symbols : ProviderOf(s) \in DOMAIN Providers
<1> SUFFICES ASSUME NEW s \in Symbols PROVE ProviderOf(s) \in DOMAIN Providers
  OBVIOUS
<1> DEFINE B == {i \in DOMAIN Providers : s \in Providers[i].symbols}
<1>1. Len(Providers) \in Nat /\ DOMAIN Providers = 1 .. Len(Providers)
  BY ProvidersAssumption
<1>2. B \subseteq Nat /\ B # {}
  BY <1>1 DEF Symbols
<1>3. PICK n \in B : \A m \in B : n <= m
  BY <1>2, LeastNatural
<1>4. \A j \in 1 .. n - 1 : s \notin Providers[j].symbols
  BY <1>1, <1>3
<1> QED BY <1>3, <1>4 DEF ProviderOf

\* What is fetched in a run is of its timeframe.
LEMMA FetchedIsRaw ==
  ASSUME NEW tf, \A i \in DOMAIN Providers : feed[i] = tf, NEW s \in Symbols, NEW vt
  PROVE  Fetched(s, vt) = Raw(s, vt, tf)
BY ProviderOfSymbol DEF Fetched, Raw

\* An answer is the series of the type asked for or, if it is not available, of the
\* default type: one that is held, or fetched and stored.
Held(store, s, c, answer) ==
  /\ <<s, c>> \in DOMAIN store.byKey
  /\ answer.store = store /\ answer.ok = TRUE /\ answer.series = store.byKey[<<s, c>>]
Got(store, s, c, down, answer) ==
  /\ <<s, c>> \notin DOMAIN store.byKey /\ Fetchable(store.types, s, c, down)
  /\ answer.store = Stored(store, <<s, c>>, Fetched(s, c)) /\ answer.ok = TRUE /\ answer.series = Fetched(s, c)
Answers(store, s, c, down, answer) ==
  \/ ~ Available(store, s, c, down) /\ answer.store = store /\ answer.ok = FALSE
  \/ Available(store, s, c, down) /\ (Held(store, s, c, answer) \/ Got(store, s, c, down, answer))
LEMMA AnswerCases ==
  ASSUME NEW store, NEW s, NEW vt, NEW down,
         NEW c, c = IF Available(store, s, vt, down) THEN vt ELSE DefaultType(store, s),
         NEW answer, answer = GetSeries(store, s, vt, down)
  PROVE  Answers(store, s, c, down, answer)
<1>1. answer = IF ~ Available(store, s, c, down) THEN [store |-> store, ok |-> FALSE, series |-> None]
               ELSE IF <<s, c>> \in DOMAIN store.byKey
               THEN [store |-> store, ok |-> TRUE, series |-> store.byKey[<<s, c>>]]
               ELSE [store |-> Stored(store, <<s, c>>, Fetched(s, c)), ok |-> TRUE, series |-> Fetched(s, c)]
  BY DEF GetSeries, Candidates
<1>2. CASE ~ Available(store, s, c, down)
  <2>1. answer = [store |-> store, ok |-> FALSE, series |-> None]
    BY <1>1, <1>2
  <2> QED BY <1>2, <2>1 DEF Answers
<1>3. CASE Available(store, s, c, down) /\ <<s, c>> \in DOMAIN store.byKey
  <2>1. answer = [store |-> store, ok |-> TRUE, series |-> store.byKey[<<s, c>>]]
    BY <1>1, <1>3
  <2> QED BY <1>3, <2>1 DEF Answers, Held
<1>4. CASE Available(store, s, c, down) /\ <<s, c>> \notin DOMAIN store.byKey
  <2>1. Fetchable(store.types, s, c, down)
    BY <1>4 DEF Available
  <2>2. answer = [store |-> Stored(store, <<s, c>>, Fetched(s, c)), ok |-> TRUE, series |-> Fetched(s, c)]
    BY <1>1, <1>4
  <2>3. Got(store, s, c, down, answer)
    BY <1>4, <2>1, <2>2 DEF Got
  <2> QED BY <1>4, <2>3 DEF Answers
<1> QED BY <1>2, <1>3, <1>4

\* A right series under its key leaves a store good.
Typed(store, key, types) ==
  \/ types = store.types
  \/ /\ key[2] \in Catalog[key[1]] \cup Derived
     /\ types = [store.types EXCEPT ![key[1]] = @ \cup {key[2]}]
LEMMA KeyStaysGood ==
  ASSUME NEW store, NEW tf, NEW refused, NEW needed, Good(store, tf, refused, needed),
         NEW key, NEW v, Right(key, v, tf, refused, needed), NEW types, Typed(store, key, types),
         NEW next, next = [byKey |-> WithKey(store.byKey, key, v), types |-> types]
  PROVE  /\ Good(next, tf, refused, needed)
         /\ DOMAIN next.byKey = DOMAIN store.byKey \cup {key} /\ next.byKey[key] = v
<1>1. next.byKey = WithKey(store.byKey, key, v) /\ next.types = types
  OBVIOUS
<1>2. /\ DOMAIN next.byKey = DOMAIN store.byKey \cup {key}
      /\ \A k \in DOMAIN next.byKey : next.byKey[k] = IF k = key THEN v ELSE store.byKey[k]
  BY <1>1 DEF WithKey
<1>3. \A k \in DOMAIN next.byKey : Right(k, next.byKey[k], tf, refused, needed)
  <2> SUFFICES ASSUME NEW k \in DOMAIN next.byKey PROVE Right(k, next.byKey[k], tf, refused, needed)
    OBVIOUS
  <2>1. CASE k = key
    BY <1>2, <2>1
  <2>2. CASE k # key
    <3>1. k \in DOMAIN store.byKey /\ next.byKey[k] = store.byKey[k]
      BY <1>2, <2>2
    <3> QED BY <3>1 DEF Good
  <2> QED BY <2>1, <2>2
<1>4. key = <<key[1], key[2]>> /\ key[1] \in Symbols
  BY DEF Right
<1>5. Shape(store) /\ Selected(store)
  BY DEF Good
<1>6. /\ types = [s \in Symbols |-> types[s]]
      /\ \A s \in Symbols : store.types[s] \subseteq types[s]
      /\ \A s \in Symbols : \A vt \in types[s] :
           vt \in store.types[s] \/ (s = key[1] /\ vt = key[2] /\ key[2] \in Catalog[key[1]] \cup Derived)
  <2>1. CASE types = store.types
    BY <1>5, <2>1 DEF Shape
  <2>2. CASE key[2] \in Catalog[key[1]] \cup Derived /\ types = [store.types EXCEPT ![key[1]] = @ \cup {key[2]}]
    BY <1>4, <1>5, <2>2 DEF Shape
  <2> QED BY <2>1, <2>2 DEF Typed
<1>7. Shape(next)
  <2>1. next = [byKey |-> next.byKey, types |-> next.types]
    BY <1>1
  <2>2. \A s \in Symbols : Catalog[s] \subseteq next.types[s]
    BY <1>1, <1>5, <1>6 DEF Shape
  <2>3. \A s \in Symbols : \A vt \in next.types[s] \ Catalog[s] : vt \in Derived /\ <<s, vt>> \in DOMAIN next.byKey
    <3> SUFFICES ASSUME NEW s \in Symbols, NEW vt \in next.types[s] \ Catalog[s]
                 PROVE  vt \in Derived /\ <<s, vt>> \in DOMAIN next.byKey
      OBVIOUS
    <3>1. CASE vt \in store.types[s]
      <4>1. vt \in Derived /\ <<s, vt>> \in DOMAIN store.byKey
        BY <1>5, <3>1 DEF Shape
      <4> QED BY <1>2, <4>1
    <3>2. CASE s = key[1] /\ vt = key[2] /\ key[2] \in Catalog[key[1]] \cup Derived
      <4>1. vt \in Derived /\ <<s, vt>> = key
        BY <1>4, <3>2
      <4> QED BY <1>2, <4>1
    <3> QED BY <1>1, <1>6, <3>1, <3>2
  <2> QED BY <1>1, <1>6, <2>1, <2>2, <2>3 DEF Shape
<1>8. Selected(next)
  BY <1>2, <1>5 DEF Selected
<1> QED BY <1>2, <1>3, <1>7, <1>8 DEF Good

\* Right is asked less of the more a run has been refused.
LEMMA RefusedStaysGood ==
  ASSUME NEW store, NEW tf, NEW refused, NEW more, NEW needed, Good(store, tf, refused, needed)
  PROVE  Good(store, tf, refused \cup more, needed)
<1>1. \A key \in DOMAIN store.byKey : Right(key, store.byKey[key], tf, refused \cup more, needed)
  <2> SUFFICES ASSUME NEW key \in DOMAIN store.byKey
               PROVE  Right(key, store.byKey[key], tf, refused \cup more, needed)
    OBVIOUS
  <2>1. Right(key, store.byKey[key], tf, refused, needed)
    BY DEF Good
  <2>2. Smooth(refused \cup more) => Smooth(refused)
    BY DEF Smooth
  <2> QED BY <2>1, <2>2 DEF Right
<1> QED BY <1>1 DEF Good

\* A value type that a provider lists is not None.
LEMMA ListedIsSome == \A s \in Symbols : \A vt \in Catalog[s] : vt # None
BY ProviderOfSymbol, NoneAssumption DEF Catalog

\* What the default type of a symbol is.
LEMMA Defaults ==
  ASSUME NEW store, NEW tf, NEW refused, NEW needed, Good(store, tf, refused, needed), NEW s, NEW down
  PROVE  /\ s = defaultSymbol => /\ DefaultType(store, s) = defaultValueType
                                 /\ Available(store, s, defaultValueType, down)
         /\ s \notin Symbols => DefaultType(store, s) = None
         /\ s \in Symbols /\ "close" \in Catalog[s] => DefaultType(store, s) = DefaultOf(s)
<1>1. Selected(store) /\ Shape(store)
  BY DEF Good
<1>2. s = defaultSymbol => Available(store, s, defaultValueType, down)
  BY <1>1, ListedIsSome DEF Selected, Base, Available
<1>3. s \in Symbols => Catalog[s] \subseteq store.types[s]
  BY <1>1 DEF Shape
<1> QED BY <1>1, <1>2, <1>3 DEF DefaultType, DefaultOf, Selected

\* A series that is fetched is right under its key, and so the store stays good.
LEMMA FetchStaysGood ==
  ASSUME NEW store, NEW tf, NEW refused, NEW needed, Good(store, tf, refused, needed),
         \A i \in DOMAIN Providers : feed[i] = tf, NEW s, NEW c, NEW down,
         <<s, c>> \notin DOMAIN store.byKey, Fetchable(store.types, s, c, down)
  PROVE  /\ s \in Symbols /\ c \in Catalog[s] /\ Fetched(s, c) = Raw(s, c, tf)
         /\ Right(<<s, c>>, Raw(s, c, tf), tf, refused, needed)
         /\ Good(Stored(store, <<s, c>>, Raw(s, c, tf)), tf, refused, needed)
         /\ DOMAIN store.byKey \subseteq DOMAIN Stored(store, <<s, c>>, Raw(s, c, tf)).byKey
<1>1. s \in Symbols /\ c \in store.types[s] /\ <<s, c>> \in Holds
  BY DEF Fetchable
<1>2. c \in Catalog[s]
  BY <1>1 DEF Good, Shape
<1>3. Fetched(s, c) = Raw(s, c, tf)
  BY <1>1, FetchedIsRaw
<1>4. Right(<<s, c>>, Raw(s, c, tf), tf, refused, needed)
  <2>1. Raw(s, c, tf).frames \subseteq {tf}
    BY DEF Raw
  <2>2. Canon(s, c, tf) = Raw(s, c, tf)
    BY <1>1, <1>2 DEF Canon
  <2> QED BY <1>1, <1>2, <2>1, <2>2 DEF Right
<1> DEFINE next == Stored(store, <<s, c>>, Raw(s, c, tf))
           types == [store.types EXCEPT ![s] = @ \cup {c}]
<1>5. next = [byKey |-> WithKey(store.byKey, <<s, c>>, Raw(s, c, tf)), types |-> types]
  BY DEF Stored
<1>6. Typed(store, <<s, c>>, types)
  BY <1>2 DEF Typed
<1> HIDE DEF next, types
<1>7. Good(next, tf, refused, needed) /\ DOMAIN next.byKey = DOMAIN store.byKey \cup {<<s, c>>}
  BY <1>4, <1>5, <1>6, KeyStaysGood
<1> QED BY <1>1, <1>2, <1>3, <1>4, <1>7 DEF next

\* The answer to a question is right: of the timeframe, the provider's series if it
\* offers one, and the price it means if nothing has failed.
AnswerIs(answer, s, vt, tf, refused) ==
  /\ answer.ok => s \in Symbols /\ answer.series.frames \subseteq {tf}
  /\ answer.ok /\ <<s, vt>> = Base => answer.series = Raw(s, vt, tf)
  /\ s = defaultSymbol => answer.ok
  /\ s \in Symbols /\ vt \in Catalog[s] \ Derived /\ <<s, vt>> \in Holds \ refused =>
       answer.ok /\ answer.series = Raw(s, vt, tf)
  /\ Smooth(refused) /\ s \in Symbols /\ vt \notin Derived =>
       ("close" \in Catalog[s] => answer.ok /\ answer.series = Canon(s, vt, tf))
LEMMA AnswersAreRight ==
  ASSUME NEW store, NEW tf, NEW refused, NEW needed, Good(store, tf, refused, needed),
         \A i \in DOMAIN Providers : feed[i] = tf, NEW s, NEW vt, NEW down, down \subseteq refused,
         NEW answer, answer = GetSeries(store, s, vt, down)
  PROVE  /\ Good(answer.store, tf, refused, needed) /\ DOMAIN store.byKey \subseteq DOMAIN answer.store.byKey
         /\ AnswerIs(answer, s, vt, tf, refused)
<1>0. PICK c : c = IF Available(store, s, vt, down) THEN vt ELSE DefaultType(store, s)
  OBVIOUS
<1>1. /\ c = IF Available(store, s, vt, down) THEN vt ELSE DefaultType(store, s)
      /\ Answers(store, s, c, down, answer)
  BY <1>0, AnswerCases
<1>2. /\ s = defaultSymbol => /\ DefaultType(store, s) = defaultValueType
                              /\ Available(store, s, defaultValueType, down)
      /\ s \notin Symbols => DefaultType(store, s) = None
      /\ s \in Symbols /\ "close" \in Catalog[s] => DefaultType(store, s) = DefaultOf(s)
  BY Defaults
<1>3. \A key \in DOMAIN store.byKey : Right(key, store.byKey[key], tf, refused, needed)
  BY DEF Good
<1>4. /\ Good(answer.store, tf, refused, needed) /\ DOMAIN store.byKey \subseteq DOMAIN answer.store.byKey
      /\ answer.ok => /\ Available(store, s, c, down) /\ Right(<<s, c>>, answer.series, tf, refused, needed)
                      /\ <<s, c>> \notin DOMAIN store.byKey => answer.series = Raw(s, c, tf) /\ c \in Catalog[s]
      /\ answer.ok <=> Available(store, s, c, down)
  <2>1. CASE ~ Available(store, s, c, down) /\ answer.store = store /\ answer.ok = FALSE
    BY <2>1
  <2>2. CASE Available(store, s, c, down) /\ Held(store, s, c, answer)
    BY <1>3, <2>2 DEF Held, Available
  <2>3. CASE Available(store, s, c, down) /\ Got(store, s, c, down, answer)
    <3>1. /\ <<s, c>> \notin DOMAIN store.byKey /\ Fetchable(store.types, s, c, down)
          /\ answer.store = Stored(store, <<s, c>>, Fetched(s, c)) /\ answer.ok = TRUE
          /\ answer.series = Fetched(s, c)
      BY <2>3 DEF Got
    <3>2. /\ s \in Symbols /\ c \in Catalog[s] /\ Fetched(s, c) = Raw(s, c, tf)
          /\ Right(<<s, c>>, Raw(s, c, tf), tf, refused, needed)
          /\ Good(Stored(store, <<s, c>>, Raw(s, c, tf)), tf, refused, needed)
          /\ DOMAIN store.byKey \subseteq DOMAIN Stored(store, <<s, c>>, Raw(s, c, tf)).byKey
      BY <3>1, FetchStaysGood
    <3> QED BY <2>3, <3>1, <3>2
  <2> QED BY <1>1, <2>1, <2>2, <2>3 DEF Answers
<1>5. answer.ok => s \in Symbols /\ answer.series.frames \subseteq {tf}
  BY <1>4 DEF Right
<1>6. Base \in DOMAIN store.byKey /\ defaultSymbol \in Symbols /\ Catalog[defaultSymbol] \subseteq store.types[defaultSymbol]
  BY DEF Good, Selected, Shape
<1>7. s = defaultSymbol => answer.ok
  BY <1>1, <1>2, <1>4
<1>8. answer.ok /\ <<s, vt>> = Base => answer.series = Raw(s, vt, tf)
  <2>1. ASSUME <<s, vt>> = Base PROVE s = defaultSymbol /\ vt = defaultValueType /\ c = vt
    <3>1. s = defaultSymbol /\ vt = defaultValueType
      BY <2>1 DEF Base
    <3> QED BY <1>1, <1>2, <3>1
  <2> QED BY <1>4, <2>1 DEF Right
<1>9. \A t : s \in Symbols /\ t \in Catalog[s] /\ <<s, t>> \in Holds \ refused => Available(store, s, t, down)
  <2> SUFFICES ASSUME NEW t, s \in Symbols, t \in Catalog[s], <<s, t>> \in Holds \ refused
               PROVE  Available(store, s, t, down)
    OBVIOUS
  <2>1. t # None
    BY ListedIsSome
  <2>2. t \in store.types[s]
    BY DEF Good, Shape
  <2> QED BY <2>1, <2>2 DEF Available, Fetchable
<1>10. s \in Symbols /\ vt \in Catalog[s] \ Derived /\ <<s, vt>> \in Holds \ refused =>
         answer.ok /\ answer.series = Raw(s, vt, tf)
  <2> SUFFICES ASSUME s \in Symbols, vt \in Catalog[s] \ Derived, <<s, vt>> \in Holds \ refused
               PROVE  answer.ok /\ answer.series = Raw(s, vt, tf)
    OBVIOUS
  <2>1. c = vt /\ Available(store, s, c, down)
    BY <1>1, <1>9
  <2>2. Right(<<s, vt>>, answer.series, tf, refused, needed)
    BY <1>4, <2>1
  <2> QED BY <1>4, <2>1, <2>2 DEF Right
<1>11. ASSUME Smooth(refused), s \in Symbols, vt \notin Derived, "close" \in Catalog[s]
       PROVE  answer.ok /\ answer.series = Canon(s, vt, tf)
  <2>1. refused = {} /\ <<s, "close">> \in Holds
    BY <1>11 DEF Smooth, ClosesServed
  <2>2. Available(store, s, DefaultOf(s), down) /\ DefaultType(store, s) = DefaultOf(s)
    BY <1>2, <1>9, <1>11, <2>1 DEF DefaultOf
  <2>3. answer.ok
    BY <1>1, <1>4, <2>2
  <2>4. CASE Available(store, s, vt, down)
    <3>1. Right(<<s, vt>>, answer.series, tf, refused, needed)
      BY <1>1, <1>4, <2>3, <2>4
    <3> QED BY <1>11, <2>3, <3>1 DEF Right
  <2>5. CASE ~ Available(store, s, vt, down)
    <3>1. c = DefaultOf(s) /\ Right(<<s, c>>, answer.series, tf, refused, needed)
      BY <1>1, <1>4, <2>2, <2>3, <2>5
    <3>2. Canon(s, vt, tf) = Raw(s, c, tf)
      BY <1>9, <1>11, <2>1, <2>5, <3>1 DEF Canon
    <3>3. CASE s = defaultSymbol
      BY <2>3, <3>1, <3>2, <3>3 DEF Right, Base, DefaultOf
    <3>4. CASE s # defaultSymbol
      <4>1. c = "close" /\ c \notin Derived
        BY <3>1, <3>4 DEF DefaultOf, Derived
      <4>2. Canon(s, c, tf) = Raw(s, c, tf)
        BY <1>11, <2>1, <4>1 DEF Canon
      <4> QED BY <1>11, <2>3, <3>1, <3>2, <4>1, <4>2 DEF Right
    <3> QED BY <3>3, <3>4
  <2> QED BY <2>4, <2>5
<1> QED BY <1>4, <1>5, <1>7, <1>8, <1>10, <1>11 DEF AnswerIs

\* The answer for a key that is needed is right under it.
LEMMA AskedIsRight ==
  ASSUME NEW tf, NEW refused, NEW needed, NEW key \in needed, key = <<key[1], key[2]>>,
         NEW answer, answer.ok, AnswerIs(answer, key[1], key[2], tf, refused)
  PROVE  Right(key, answer.series, tf, refused, needed)
BY DEF AnswerIs, Right

\* Some prices of one symbol that were asked for, and the store after that.
Plain(s, refused) == Smooth(refused) /\ s \in Symbols /\ "close" \in Catalog[s]
Priced(g, store, asked, s, tf, refused, needed) ==
  /\ Good(g.store, tf, refused, needed) /\ DOMAIN store.byKey \subseteq DOMAIN g.store.byKey
  /\ \A p \in DOMAIN g.of : g.of[p].frames \subseteq {tf}
  /\ g.ok /\ asked # {} => s \in Symbols
  /\ s = defaultSymbol => g.ok
  /\ Plain(s, refused) => g.ok /\ g.of = [p \in asked |-> Canon(s, p, tf)]
LEMMA PriceStaysPriced ==
  ASSUME NEW store, NEW asked, NEW s, NEW tf, NEW refused, NEW needed,
         NEW g, Priced(g, store, asked, s, tf, refused, needed),
         \A i \in DOMAIN Providers : feed[i] = tf, NEW down, down \subseteq refused,
         NEW p \in Prices, NEW all, NEW next, next = WithPrice(g, s, p, down, all)
  PROVE  Priced(next, store, asked \cup {p}, s, tf, refused, needed)
<1>1. PICK answer : answer = GetSeries(g.store, s, p, down)
  OBVIOUS
<1>2. next = IF all /\ ~ g.ok THEN g
             ELSE [store |-> answer.store, ok |-> g.ok /\ answer.ok,
                   of |-> IF answer.ok THEN WithKey(g.of, p, answer.series) ELSE g.of]
  BY <1>1 DEF WithPrice
<1>3. Good(g.store, tf, refused, needed) /\ DOMAIN store.byKey \subseteq DOMAIN g.store.byKey
  BY DEF Priced
<1>4. /\ Good(answer.store, tf, refused, needed) /\ DOMAIN g.store.byKey \subseteq DOMAIN answer.store.byKey
      /\ AnswerIs(answer, s, p, tf, refused)
  BY <1>1, <1>3, AnswersAreRight
<1>5. p \notin Derived
  BY DEF Prices, Derived
<1>6. CASE all /\ ~ g.ok
  <2>1. next = g
    BY <1>2, <1>6
  <2> QED BY <1>6, <2>1 DEF Priced
<1>7. CASE ~ (all /\ ~ g.ok)
  <2>1. next = [store |-> answer.store, ok |-> g.ok /\ answer.ok,
                of |-> IF answer.ok THEN WithKey(g.of, p, answer.series) ELSE g.of]
    BY <1>2, <1>7
  <2>2. /\ next.store = answer.store
        /\ next.of = IF answer.ok THEN WithKey(g.of, p, answer.series) ELSE g.of
    BY <2>1
  <2>0. next.ok = (g.ok /\ answer.ok)
    BY <2>1
  <2>3. \A q \in DOMAIN next.of : next.of[q].frames \subseteq {tf}
    BY <1>4, <2>2 DEF Priced, AnswerIs, WithKey
  <2>4. next.ok => s \in Symbols
    BY <1>4, <2>0 DEF AnswerIs
  <2>5. s = defaultSymbol => next.ok
    BY <1>4, <2>0 DEF AnswerIs, Priced
  <2>6. ASSUME Plain(s, refused) PROVE next.ok /\ next.of = [q \in asked \cup {p} |-> Canon(s, q, tf)]
    <3>1. g.ok /\ g.of = [q \in asked |-> Canon(s, q, tf)]
      BY <2>6 DEF Priced
    <3>2. answer.ok /\ answer.series = Canon(s, p, tf)
      BY <1>4, <1>5, <2>6 DEF AnswerIs, Plain
    <3>3. next.of = WithKey(g.of, p, Canon(s, p, tf))
      BY <2>2, <3>2
    <3>4. WithKey(g.of, p, Canon(s, p, tf)) = [q \in asked \cup {p} |-> Canon(s, q, tf)]
      BY <3>1 DEF WithKey
    <3> QED BY <2>0, <3>1, <3>2, <3>3, <3>4
  <2> QED BY <1>3, <1>4, <2>2, <2>3, <2>4, <2>5, <2>6 DEF Priced
<1> QED BY <1>6, <1>7

\* The four prices of a symbol.
LEMMA PricesArePriced ==
  ASSUME NEW store, NEW s, NEW tf, NEW refused, NEW needed, Good(store, tf, refused, needed),
         \A i \in DOMAIN Providers : feed[i] = tf, NEW down, down \subseteq refused,
         NEW all, NEW g, g = GetPrices(store, s, down, all)
  PROVE  /\ Priced(g, store, Prices, s, tf, refused, needed)
         /\ g.ok => s \in Symbols
<1> DEFINE With(h, p) == WithPrice(h, s, p, down, all)
           nothing == [store |-> store, ok |-> TRUE, of |-> [p \in {} |-> None]]
           Is(h, asked) == Priced(h, store, asked, s, tf, refused, needed)
<1>1. g = With(With(With(With(nothing, "open"), "high"), "low"), "close")
  <2> DEFINE Step(h, n) == IF n = 0 THEN nothing ELSE WithPrice(h[n - 1], s, InTurn[n], down, all)
             Solves(h) == h = [n \in 0 .. 4 |-> Step(h, n)]
             one == WithPrice(nothing, s, InTurn[1], down, all)
             two == WithPrice(one, s, InTurn[2], down, all)
             three == WithPrice(two, s, InTurn[3], down, all)
             four == WithPrice(three, s, InTurn[4], down, all)
             some == [n \in 0 .. 4 |-> IF n = 0 THEN nothing ELSE IF n = 1 THEN one ELSE
                                       IF n = 2 THEN two ELSE IF n = 3 THEN three ELSE four]
             h == CHOOSE h : Solves(h)
  <2>1. Solves(some)
    <3> HIDE DEF one, two, three, four, nothing
    <3>1. /\ some[0] = nothing /\ some[1] = one /\ some[2] = two /\ some[3] = three /\ some[4] = four
      OBVIOUS
    <3> HIDE DEF some
    <3>2. /\ Step(some, 0) = nothing
          /\ Step(some, 1) = one /\ Step(some, 2) = two /\ Step(some, 3) = three /\ Step(some, 4) = four
      BY <3>1 DEF one, two, three, four
    <3> HIDE DEF Step
    <3>3. \A n \in 0 .. 4 : n = 0 \/ n = 1 \/ n = 2 \/ n = 3 \/ n = 4
      OBVIOUS
    <3>4. \A n \in 0 .. 4 : some[n] = Step(some, n)
      BY <3>1, <3>2, <3>3
    <3>5. some = [n \in 0 .. 4 |-> some[n]]
      BY DEF some
    <3> QED BY <3>4, <3>5
  <2>2. Solves(h)
    <3> HIDE DEF Solves
    <3> QED BY <2>1
  <2>3. g = h[4]
    BY DEF GetPrices
  <2> HIDE DEF h, nothing
  <2>4. /\ h[0] = nothing
        /\ \A n \in 1 .. 4 : h[n] = WithPrice(h[n - 1], s, InTurn[n], down, all)
    BY <2>2
  <2>5. /\ h[1] = WithPrice(nothing, s, "open", down, all)
        /\ h[2] = WithPrice(h[1], s, "high", down, all)
        /\ h[3] = WithPrice(h[2], s, "low", down, all)
        /\ h[4] = WithPrice(h[3], s, "close", down, all)
    BY <2>4 DEF InTurn
  <2> QED BY <2>3, <2>5
<1>2. Is(nothing, {})
  BY DEF Priced
<1>3. \A h, asked : \A p \in Prices : Is(h, asked) => Is(With(h, p), asked \cup {p})
  BY PriceStaysPriced
<1> HIDE DEF With, nothing, Is
<1>4. Is(With(nothing, "open"), {} \cup {"open"})
  BY <1>2, <1>3 DEF Prices
<1>5. Is(With(With(nothing, "open"), "high"), ({} \cup {"open"}) \cup {"high"})
  BY <1>3, <1>4 DEF Prices
<1>6. Is(With(With(With(nothing, "open"), "high"), "low"), (({} \cup {"open"}) \cup {"high"}) \cup {"low"})
  BY <1>3, <1>5 DEF Prices
<1>7. Is(g, ((({} \cup {"open"}) \cup {"high"}) \cup {"low"}) \cup {"close"})
  BY <1>1, <1>3, <1>6 DEF Prices
<1>8. ((({} \cup {"open"}) \cup {"high"}) \cup {"low"}) \cup {"close"} = Prices
  BY DEF Prices
<1>9. Is(g, Prices) /\ Prices # {}
  BY <1>7, <1>8 DEF Prices
<1> QED BY <1>9 DEF Is, Priced

\* A derived series is of the timeframe if the prices are.
LEMMA ComputedOfFrame ==
  ASSUME NEW of, NEW tf, \A p \in DOMAIN of : of[p].frames \subseteq {tf}, NEW vt
  PROVE  Compute(vt, of).frames \subseteq {tf}
<1> DEFINE from == [p \in Used(vt) \cap DOMAIN of |-> of[p]]
<1>1. Compute(vt, of).frames = UNION {from[p].frames : p \in DOMAIN from}
  BY DEF Compute
<1>2. \A p \in DOMAIN from : from[p].frames \subseteq {tf}
  OBVIOUS
<1> HIDE DEF from
<1> QED BY <1>1, <1>2

\* A series by its identifier: the store stays good, and a derived series that can be
\* had is the one of the prices.
IdentifierIs(answer, s, vt, tf, refused, needed) ==
  /\ s = defaultSymbol => answer.ok
  /\ Plain(s, refused) /\ vt \in Derived \ Catalog[s] /\ <<s, vt>> \notin needed =>
       answer.series = Compute(vt, Canons(s, tf))
LEMMA IdentifiersAreRight ==
  ASSUME NEW store, NEW tf, NEW refused, NEW needed, Good(store, tf, refused, needed),
         \A i \in DOMAIN Providers : feed[i] = tf, NEW s, NEW vt, NEW down, down \subseteq refused,
         NEW answer, answer = GetSeriesByIdentifier(store, s, vt, down)
  PROVE  /\ Good(answer.store, tf, refused, needed) /\ DOMAIN store.byKey \subseteq DOMAIN answer.store.byKey
         /\ IdentifierIs(answer, s, vt, tf, refused, needed)
<1>1. PICK g, series, key : g = GetPrices(store, s, down, TRUE) /\ series = Compute(vt, g.of) /\ key = <<s, vt>>
  OBVIOUS
<1>2. answer = IF vt \notin Derived THEN GetSeries(store, s, vt, down)
               ELSE IF key \in DOMAIN store.byKey THEN [store |-> store, ok |-> TRUE, series |-> store.byKey[key]]
               ELSE IF ~ g.ok THEN [store |-> g.store, ok |-> FALSE, series |-> None]
               ELSE [store |-> Stored(g.store, key, series), ok |-> TRUE, series |-> series]
  BY <1>1 DEF GetSeriesByIdentifier, DerivedKey
<1>3. Priced(g, store, Prices, s, tf, refused, needed) /\ (g.ok => s \in Symbols)
  BY <1>1, PricesArePriced
<1>4. Plain(s, refused) => g.ok /\ series = Compute(vt, Canons(s, tf))
  BY <1>1, <1>3 DEF Priced, Canons
<1>5. CASE vt \notin Derived
  <2>1. answer = GetSeries(store, s, vt, down)
    BY <1>2, <1>5
  <2> QED BY <1>5, <2>1, AnswersAreRight DEF AnswerIs, IdentifierIs
<1>6. CASE vt \in Derived /\ key \in DOMAIN store.byKey
  <2>1. answer = [store |-> store, ok |-> TRUE, series |-> store.byKey[key]]
    BY <1>2, <1>6
  <2>2. Right(key, store.byKey[key], tf, refused, needed)
    BY <1>6 DEF Good
  <2> QED BY <1>1, <2>1, <2>2 DEF Right, Plain, IdentifierIs
<1>7. CASE vt \in Derived /\ key \notin DOMAIN store.byKey /\ ~ g.ok
  <2>1. answer = [store |-> g.store, ok |-> FALSE, series |-> None]
    BY <1>2, <1>7
  <2>2. answer.store = g.store
    BY <2>1
  <2>3. s # defaultSymbol /\ ~ Plain(s, refused)
    BY <1>3, <1>4, <1>7 DEF Priced
  <2> QED BY <1>3, <2>2, <2>3 DEF Priced, IdentifierIs
<1>8. CASE vt \in Derived /\ key \notin DOMAIN store.byKey /\ g.ok
  <2>1. answer = [store |-> Stored(g.store, key, series), ok |-> TRUE, series |-> series]
    BY <1>2, <1>8
  <2>2. Right(key, series, tf, refused, needed)
    <3>1. key = <<key[1], key[2]>> /\ key[1] = s /\ key[2] = vt /\ s \in Symbols
      BY <1>1, <1>3, <1>8
    <3>2. series.frames \subseteq {tf}
      BY <1>1, <1>3, ComputedOfFrame DEF Priced
    <3>3. key # Base
      BY <1>8 DEF Good, Selected
    <3> QED BY <1>4, <1>8, <3>1, <3>2, <3>3 DEF Right, Plain
  <2>3. PICK types : types = [g.store.types EXCEPT ![key[1]] = @ \cup {key[2]}]
    OBVIOUS
  <2>4. Typed(g.store, key, types)
    BY <1>1, <1>8, <2>3 DEF Typed
  <2>5. answer.store = [byKey |-> WithKey(g.store.byKey, key, series), types |-> types]
    BY <2>1, <2>3 DEF Stored
  <2>6. Good(g.store, tf, refused, needed) /\ DOMAIN store.byKey \subseteq DOMAIN g.store.byKey
    BY <1>3 DEF Priced
  <2>7. Good(answer.store, tf, refused, needed) /\ DOMAIN answer.store.byKey = DOMAIN g.store.byKey \cup {key}
    BY <2>2, <2>4, <2>5, <2>6, KeyStaysGood
  <2> QED BY <1>4, <2>1, <2>6, <2>7 DEF IdentifierIs
<1> QED BY <1>5, <1>6, <1>7, <1>8

\* The value of one bar: the store stays good, and a derived value is that of the prices.
LEMMA ValuesAreRight ==
  ASSUME NEW store, NEW tf, NEW refused, NEW needed, Good(store, tf, refused, needed),
         \A i \in DOMAIN Providers : feed[i] = tf, NEW s, NEW vt, NEW down, down \subseteq refused,
         NEW answer, answer = ValueAt(store, s, vt, down)
  PROVE  /\ Good(answer.store, tf, refused, needed) /\ DOMAIN store.byKey \subseteq DOMAIN answer.store.byKey
         /\ Plain(s, refused) /\ vt \in Derived => answer.series = Compute(vt, Canons(s, tf))
<1>1. PICK g : g = GetPrices(store, s, down, FALSE)
  OBVIOUS
<1>2. answer = IF vt \in Derived THEN [store |-> g.store, ok |-> g.ok, series |-> Compute(vt, g.of)]
               ELSE GetSeries(store, s, vt, down)
  BY <1>1 DEF ValueAt
<1>3. Priced(g, store, Prices, s, tf, refused, needed)
  BY <1>1, PricesArePriced
<1>4. CASE vt \in Derived
  <2>1. answer = [store |-> g.store, ok |-> g.ok, series |-> Compute(vt, g.of)]
    BY <1>2, <1>4
  <2>2. answer.store = g.store /\ answer.series = Compute(vt, g.of)
    BY <2>1
  <2> QED BY <1>3, <2>2 DEF Priced, Canons
<1>5. CASE vt \notin Derived
  <2>1. answer = GetSeries(store, s, vt, down)
    BY <1>2, <1>5
  <2> QED BY <1>5, <2>1, AnswersAreRight
<1> QED BY <1>4, <1>5

-----------------------------------------------------------------------------
(* The steps, of the series of a run. *)

\* The inductive invariant.
SInv == IInv /\ Compiled /\ Stocked

\* The keys that a program needs are pairs.
LEMMA NeededArePairs == \A program : \A key \in NeededKeys(program) : key = <<key[1], key[2]>>
BY DEF NeededKeys, SeriesKeys, KeysOf

\* Another store of a run that goes on.
LEMMA StoreStaysStocked ==
  ASSUME IInv, Stocked, InRun, UNCHANGED feed, NEW phase, NEW store, NEW todo, NEW more,
         GoesOn(phase, store, todo, rt.refused \cup more), phase = "loading" \/ todo = {},
         Good(store, rt.timeframe, rt.refused \cup more, NeededKeys(rt.program)),
         todo \subseteq rt.todo, rt.todo \cup DOMAIN rt.store.byKey \subseteq todo \cup DOMAIN store.byKey
  PROVE  Stocked'
<1>1. rt' = [phase |-> phase, program |-> rt.program, given |-> rt.given, aliased |-> rt.aliased,
             timeframe |-> rt.timeframe, store |-> store, todo |-> todo, bar |-> rt.bar,
             late |-> rt.late, lateBars |-> rt.lateBars, refused |-> rt.refused \cup more]
  BY DEF IInv, Fields, GoesOn
<1>2. /\ rt'.phase = phase /\ rt'.program = rt.program /\ rt'.timeframe = rt.timeframe /\ rt'.store = store
      /\ rt'.todo = todo /\ rt'.refused = rt.refused \cup more
  BY <1>1
<1>3. (\A i \in DOMAIN Providers : feed[i] = rt.timeframe)'
  BY <1>2 DEF Stocked
<1>4. Good(rt'.store, rt'.timeframe, rt'.refused, NeededKeys(rt'.program))
  BY <1>2
<1>5. Asked'
  <2>1. Asked
    BY DEF Stocked
  <2> QED BY <1>2, <2>1 DEF Asked
<1>6. rt'.program \in Programs
  BY <1>2 DEF Stocked
<1> QED BY <1>3, <1>4, <1>5, <1>6 DEF Stocked

\* A step that keeps another store of the run.
LEMMA KeptStaysStocked ==
  ASSUME IInv, Stocked, InRun, UNCHANGED feed, NEW store, NEW down, rt' = Kept(store, down),
         Good(store, rt.timeframe, rt.refused \cup down, NeededKeys(rt.program)),
         DOMAIN rt.store.byKey \subseteq DOMAIN store.byKey
  PROVE  Stocked'
<1>1. GoesOn(rt.phase, store, rt.todo, rt.refused \cup down)
  BY DEF IInv, Fields, Kept, GoesOn
<1>2. rt.phase = "loading" \/ rt.todo = {}
  BY DEF Stocked, Asked
<1> QED BY <1>1, <1>2, StoreStaysStocked

\* What a run holds is good also for one that is refused more.
LEMMA HeldIsGood ==
  ASSUME Stocked, InRun, NEW down
  PROVE  /\ \A i \in DOMAIN Providers : feed[i] = rt.timeframe
         /\ Good(rt.store, rt.timeframe, rt.refused \cup down, NeededKeys(rt.program))
         /\ down \subseteq rt.refused \cup down
BY RefusedStaysGood DEF Stocked

\* A run that fails holds nothing.
LEMMA FailedIsStocked == ASSUME rt'.phase = "failed" PROVE Stocked'
BY DEF Stocked, InRun

\* A run starts with the series it selects.
LEMMA ExecuteStocks ==
  ASSUME Compiled, NEW b \in Buffers, NEW down, Execute(b, down)
  PROVE  Stocked' /\ Compiled'
<1> DEFINE program == IF Hit(b) THEN cache.program ELSE memory[b]
<1>1. memory[b] \in Programs \cup {Garbage} /\ UNCHANGED memory
  BY DEF Execute, Compiled
<1>2. program \in Programs \cup {Garbage}
  BY <1>1 DEF Compiled, Hit
<1>3. Compiled'
  <2>1. CASE UNCHANGED cache
    BY <1>1, <2>1 DEF Compiled
  <2>2. CASE program # Garbage /\ cache' = [buf |-> b, program |-> program]
    BY <1>1, <1>2, <2>2 DEF Compiled
  <2> QED BY <2>1, <2>2 DEF Execute
<1>4. CASE rt' = Failed(memory[b])
  BY <1>3, <1>4, FailedIsStocked DEF Failed
<1>5. CASE /\ rt' = NewRuntime(program, b) /\ program # Garbage
           /\ feed' = Configured(timeframe) /\ Accepted(timeframe)
           /\ Fetchable(Catalog, defaultSymbol, defaultValueType, down)
  <2> HIDE DEF program
  <2>1. PICK store : store = [byKey |-> [k \in {Base} |-> Raw(defaultSymbol, defaultValueType, timeframe)],
                              types |-> Catalog]
    OBVIOUS
  <2>2. rt' = [phase |-> "loading", program |-> program, given |-> memory[b], aliased |-> overwritten,
               timeframe |-> timeframe, store |-> store, todo |-> NeededKeys(program), bar |-> 0,
               late |-> FALSE, lateBars |-> 0, refused |-> {}]
    BY <1>5, <2>1 DEF NewRuntime, Base, Raw
  <2>3. /\ rt'.phase = "loading" /\ rt'.program = program /\ rt'.timeframe = timeframe /\ rt'.store = store
        /\ rt'.todo = NeededKeys(program) /\ rt'.refused = {}
    BY <2>2
  <2>4. \A i \in DOMAIN Providers : feed'[i] = rt'.timeframe
    <3>1. Len(Providers) \in Nat /\ DOMAIN Providers = 1 .. Len(Providers)
      BY ProvidersAssumption
    <3>2. \A i \in DOMAIN Providers : \A j \in 1 .. i : j \in DOMAIN Providers
      BY <3>1
    <3> QED BY <1>5, <2>3, <3>2 DEF Configured, Accepted
  <2>5. /\ defaultSymbol \in Symbols /\ defaultValueType \in Catalog[defaultSymbol]
        /\ <<defaultSymbol, defaultValueType>> \in Holds
    BY <1>5 DEF Fetchable
  <2>6. store.byKey = [k \in {Base} |-> Raw(defaultSymbol, defaultValueType, timeframe)] /\ store.types = Catalog
    BY <2>1
  <2>7. Shape(store)
    BY <2>1, <2>6 DEF Shape, Catalog
  <2>8. Selected(store)
    BY <2>5, <2>6 DEF Selected
  <2>9. Right(Base, Raw(defaultSymbol, defaultValueType, timeframe), timeframe, {}, NeededKeys(program))
    <3>1. Raw(defaultSymbol, defaultValueType, timeframe).frames \subseteq {timeframe}
      BY DEF Raw
    <3>2. Canon(defaultSymbol, defaultValueType, timeframe) = Raw(defaultSymbol, defaultValueType, timeframe)
      BY <2>5 DEF Canon
    <3>3. Base[1] = defaultSymbol /\ Base[2] = defaultValueType /\ Base = <<Base[1], Base[2]>>
      BY DEF Base
    <3> QED BY <2>5, <3>1, <3>2, <3>3 DEF Right
  <2>10. Good(store, timeframe, {}, NeededKeys(program))
    BY <2>6, <2>7, <2>8, <2>9 DEF Good
  <2>11. Asked'
    BY <2>3 DEF Asked
  <2> QED BY <1>2, <1>3, <1>5, <2>3, <2>4, <2>10, <2>11 DEF Stocked
<1> QED BY <1>3, <1>4, <1>5 DEF Execute

\* A needed key is asked for before the first bar.
LEMMA PreloadStocks ==
  ASSUME IInv, Stocked, NEW key, NEW down, Preload(key, down)
  PROVE  Stocked'
<1>1. PICK answer : answer = GetSeries(rt.store, key[1], key[2], down)
  OBVIOUS
<1>2. /\ Running("loading") /\ key \in rt.todo /\ UNCHANGED feed
      /\ rt' = IF ~ answer.ok THEN Failed(rt.given)
               ELSE [Kept(answer.store, down) EXCEPT
                       !.store.byKey = WithKey(@, key, answer.series), !.todo = @ \ {key},
                       !.phase = IF rt.todo = {key} THEN "bars" ELSE @]
  BY <1>1 DEF Preload
<1>3. InRun /\ rt.phase = "loading"
  BY <1>2 DEF Running, InRun
<1>4. CASE ~ answer.ok
  <2>1. rt'.phase = "failed"
    BY <1>2, <1>4 DEF Failed
  <2> QED BY <2>1, FailedIsStocked
<1>5. CASE answer.ok
  <2>1. PICK tf, refused, needed :
          tf = rt.timeframe /\ refused = rt.refused \cup down /\ needed = NeededKeys(rt.program)
    OBVIOUS
  <2>2. /\ \A i \in DOMAIN Providers : feed[i] = tf
        /\ Good(rt.store, tf, refused, needed) /\ down \subseteq refused
    BY <1>3, <2>1, HeldIsGood
  <2>3. /\ Good(answer.store, tf, refused, needed) /\ DOMAIN rt.store.byKey \subseteq DOMAIN answer.store.byKey
        /\ AnswerIs(answer, key[1], key[2], tf, refused)
    BY <1>1, <2>2, AnswersAreRight
  <2>4. key \in needed /\ key = <<key[1], key[2]>>
    BY <1>2, <1>3, <2>1, NeededArePairs DEF Stocked, Asked
  <2>5. Right(key, answer.series, tf, refused, needed)
    BY <1>5, <2>3, <2>4, AskedIsRight
  <2>6. PICK types, phase : types = answer.store.types /\ phase = IF rt.todo = {key} THEN "bars" ELSE rt.phase
    OBVIOUS
  <2>7. PICK store : store = [byKey |-> WithKey(answer.store.byKey, key, answer.series), types |-> types]
    OBVIOUS
  <2>8. Typed(answer.store, key, types)
    BY <2>6 DEF Typed
  <2>9. Good(store, tf, refused, needed) /\ DOMAIN store.byKey = DOMAIN answer.store.byKey \cup {key}
    BY <2>3, <2>5, <2>7, <2>8, KeyStaysGood
  <2>10. answer.store = [byKey |-> answer.store.byKey, types |-> answer.store.types]
    BY <2>3 DEF Good, Shape
  <2>11. GoesOn(phase, store, rt.todo \ {key}, refused)
    <3>1. PICK series : series = WithKey(answer.store.byKey, key, answer.series)
      OBVIOUS
    <3>2. rt' = [Kept(answer.store, down) EXCEPT !.store.byKey = WithKey(@, key, answer.series),
                                                 !.todo = @ \ {key}, !.phase = phase]
      BY <1>2, <1>5, <2>6 DEF Kept
    <3>3. rt' = [Kept(answer.store, down) EXCEPT !.store.byKey = series, !.todo = @ \ {key}, !.phase = phase]
      BY <1>3, <3>1, <3>2 DEF IInv, Fields, Kept
    <3>4. GoesOn(phase, [answer.store EXCEPT !.byKey = series], rt.todo \ {key}, rt.refused \cup down)
      BY <1>3, <3>3 DEF IInv, Fields, Kept, GoesOn
    <3>5. [answer.store EXCEPT !.byKey = series] = store
      BY <2>6, <2>7, <2>10, <3>1
    <3> QED BY <2>1, <3>4, <3>5
  <2>12. phase = "loading" \/ rt.todo \ {key} = {}
    BY <1>3, <2>6
  <2>13. rt.todo \cup DOMAIN rt.store.byKey \subseteq (rt.todo \ {key}) \cup DOMAIN store.byKey
    BY <2>3, <2>9
  <2> HIDE DEF IInv, Stocked
  <2>14. PICK todo : todo = rt.todo \ {key}
    OBVIOUS
  <2>15. /\ GoesOn(phase, store, todo, rt.refused \cup down) /\ (phase = "loading" \/ todo = {})
         /\ Good(store, rt.timeframe, rt.refused \cup down, NeededKeys(rt.program))
         /\ todo \subseteq rt.todo /\ rt.todo \cup DOMAIN rt.store.byKey \subseteq todo \cup DOMAIN store.byKey
    BY <2>1, <2>9, <2>11, <2>12, <2>13, <2>14
  <2> QED BY <1>2, <1>3, <2>15, StoreStaysStocked
<1> QED BY <1>4, <1>5

\* What the script asks for in a bar.
LEMMA EvaluateStocks ==
  ASSUME IInv, Stocked, NEW r, NEW down, Evaluate(r, down)
  PROVE  Stocked'
<1>1. InRun /\ UNCHANGED feed
  BY DEF Evaluate, Running, InRun
<1>2. /\ \A i \in DOMAIN Providers : feed[i] = rt.timeframe
      /\ Good(rt.store, rt.timeframe, rt.refused \cup down, NeededKeys(rt.program))
      /\ down \subseteq rt.refused \cup down
  BY <1>1, HeldIsGood
<1>3. CASE rt' = Failed(rt.given)
  <2>1. rt'.phase = "failed"
    BY <1>3 DEF Failed
  <2> QED BY <2>1, FailedIsStocked
<1>4. CASE rt' = Kept(AsSeries(rt.store, r, down).store, down)
  <2>1. PICK answer : answer = AsSeries(rt.store, r, down)
    OBVIOUS
  <2>2. \/ answer = GetSeriesByIdentifier(rt.store, SymbolOf(r), r.vt, down)
        \/ answer = GetSeries(rt.store, SymbolOf(r), r.vt, down)
    BY <2>1 DEF AsSeries
  <2>3. /\ Good(answer.store, rt.timeframe, rt.refused \cup down, NeededKeys(rt.program))
        /\ DOMAIN rt.store.byKey \subseteq DOMAIN answer.store.byKey
    <3>1. CASE answer = GetSeriesByIdentifier(rt.store, SymbolOf(r), r.vt, down)
      BY <1>2, <3>1, IdentifiersAreRight
    <3>2. CASE answer = GetSeries(rt.store, SymbolOf(r), r.vt, down)
      BY <1>2, <3>2, AnswersAreRight
    <3> QED BY <2>2, <3>1, <3>2
  <2> QED BY <1>1, <1>4, <2>1, <2>3, KeptStaysStocked
<1>5. CASE rt' = Kept(AsValue(rt.store, r, down).store, down)
  <2>1. PICK answer : answer = ValueAt(rt.store, SymbolOf(r), r.vt, down)
    OBVIOUS
  <2>2. /\ Good(answer.store, rt.timeframe, rt.refused \cup down, NeededKeys(rt.program))
        /\ DOMAIN rt.store.byKey \subseteq DOMAIN answer.store.byKey
    BY <1>2, <2>1, ValuesAreRight
  <2>3. rt' = Kept(answer.store, down)
    BY <1>5, <2>1 DEF AsValue
  <2> QED BY <1>1, <2>2, <2>3, KeptStaysStocked
<1> QED BY <1>3, <1>4, <1>5 DEF Evaluate

\* What the host asks the runtime for after the run.
LEMMA SeriesStocks ==
  ASSUME IInv, Stocked, NEW s, NEW vt, NEW down, Series(s, vt, down)
  PROVE  Stocked'
<1>1. InRun /\ UNCHANGED feed
  BY DEF Series, Running, InRun
<1>2. /\ \A i \in DOMAIN Providers : feed[i] = rt.timeframe
      /\ Good(rt.store, rt.timeframe, rt.refused \cup down, NeededKeys(rt.program))
      /\ down \subseteq rt.refused \cup down
  BY <1>1, HeldIsGood
<1>3. PICK answer : answer = GetSeriesByIdentifier(rt.store, s, vt, down)
  OBVIOUS
<1>4. /\ Good(answer.store, rt.timeframe, rt.refused \cup down, NeededKeys(rt.program))
      /\ DOMAIN rt.store.byKey \subseteq DOMAIN answer.store.byKey
  BY <1>2, <1>3, IdentifiersAreRight
<1>5. rt' = Kept(answer.store, down)
  BY <1>3 DEF Series
<1> QED BY <1>1, <1>4, <1>5, KeptStaysStocked

\* The steps that leave the series of a run alone.
LEMMA RestStaysStocked ==
  ASSUME Stocked, InRun, rt.phase # "loading", UNCHANGED feed, rt'.program = rt.program,
         rt'.timeframe = rt.timeframe, rt'.store = rt.store, rt'.todo = rt.todo, rt'.refused = rt.refused
  PROVE  Stocked'
<1>1. Asked'
  BY DEF Stocked, Asked
<1>2. Good(rt'.store, rt'.timeframe, rt'.refused, NeededKeys(rt'.program))
  BY DEF Stocked
<1> QED BY <1>1, <1>2 DEF Stocked

\* A bar that ends and the deadline are such steps.
LEMMA BarsStayStocked ==
  ASSUME IInv, Stocked, EndBar \/ Deadline
  PROVE  Stocked'
<1>1. InRun /\ rt.phase = "bars" /\ UNCHANGED feed
  BY DEF EndBar, Deadline, Running, InRun
<1>2. \/ rt' = Failed(rt.given)
      \/ rt' = [rt EXCEPT !.phase = "done"]
      \/ \E late \in BOOLEAN : rt' = [rt EXCEPT !.bar = @ + 1, !.lateBars = @ + IF late THEN 1 ELSE 0]
      \/ rt' = [rt EXCEPT !.late = TRUE]
  BY <1>1 DEF EndBar, Deadline, IInv, SinceLook
<1>3. CASE rt' = Failed(rt.given)
  <2>1. rt'.phase = "failed"
    BY <1>3 DEF Failed
  <2> QED BY <2>1, FailedIsStocked
<1>4. CASE rt' # Failed(rt.given)
  <2>1. /\ rt'.program = rt.program /\ rt'.timeframe = rt.timeframe /\ rt'.store = rt.store
        /\ rt'.todo = rt.todo /\ rt'.refused = rt.refused
    BY <1>1, <1>2, <1>4 DEF IInv, Fields
  <2> QED BY <1>1, <2>1, RestStaysStocked
<1> QED BY <1>3, <1>4

\* What the host compiles and writes.
LEMMA HostStaysCompiled == ASSUME Compiled, IInv, Host PROVE Compiled'
<1>1. ASSUME NEW b \in Buffers, NEW program \in Programs, Compile(b, program) PROVE Compiled'
  BY <1>1 DEF IInv, Cached, Compiled, Compile
<1>2. ASSUME NEW b \in Buffers, NEW bytes \in Programs \cup {Garbage}, Write(b, bytes) PROVE Compiled'
  BY <1>2 DEF IInv, Cached, Compiled, Write
<1>3. ASSUME NEW tf, SetTimeframe(tf) PROVE Compiled'
  BY <1>3 DEF Compiled, SetTimeframe
<1> QED BY <1>1, <1>2, <1>3 DEF Host

\* Every step preserves the invariant.
LEMMA StepsKeepSInv == ASSUME SInv, [Next]_vars PROVE SInv'
<1>1. IInv' /\ IInv /\ Compiled /\ Stocked
  BY StepsKeepIInv DEF SInv
<1>2. CASE UNCHANGED vars
  <2>1. Compiled' /\ Stocked'
    BY <1>1, <1>2 DEF vars, Compiled, Stocked, Asked, InRun
  <2> QED BY <1>1, <2>1 DEF SInv
<1>3. ASSUME NEW b \in Buffers, NEW down, Execute(b, down) PROVE Compiled' /\ Stocked'
  BY <1>1, <1>3, ExecuteStocks
<1>4. CASE Host
  <2>1. UNCHANGED <<rt, feed>>
    BY <1>4 DEF Host, Compile, Write, SetTimeframe
  <2>2. Stocked'
    BY <1>1, <2>1 DEF Stocked, Asked, InRun
  <2>3. Compiled'
    BY <1>1, <1>4, HostStaysCompiled
  <2> QED BY <1>1, <2>2, <2>3 DEF SInv
<1>5. ASSUME NEW key, NEW down, Preload(key, down) PROVE Compiled' /\ Stocked'
  <2>1. UNCHANGED <<memory, cache>>
    BY <1>5 DEF Preload
  <2> QED BY <1>1, <1>5, <2>1, PreloadStocks DEF Compiled
<1>6. ASSUME NEW r, NEW down, Evaluate(r, down) PROVE Compiled' /\ Stocked'
  <2>1. UNCHANGED <<memory, cache>>
    BY <1>6 DEF Evaluate
  <2> QED BY <1>1, <1>6, <2>1, EvaluateStocks DEF Compiled
<1>7. ASSUME NEW s, NEW vt, NEW down, Series(s, vt, down) PROVE Compiled' /\ Stocked'
  <2>1. UNCHANGED <<memory, cache>>
    BY <1>7 DEF Series
  <2> QED BY <1>1, <1>7, <2>1, SeriesStocks DEF Compiled
<1>8. CASE EndBar \/ Deadline
  <2>1. UNCHANGED <<memory, cache>>
    BY <1>8 DEF EndBar, Deadline
  <2>2. Compiled'
    BY <1>1, <2>1 DEF Compiled
  <2>3. Stocked'
    BY <1>1, <1>8, BarsStayStocked
  <2> QED BY <1>1, <2>2, <2>3 DEF SInv
<1>9. CASE Abort
  <2>1. UNCHANGED <<memory, cache>> /\ rt'.phase = "failed"
    BY <1>9 DEF Abort, Failed
  <2>2. Compiled'
    BY <1>1, <2>1 DEF Compiled
  <2>3. Stocked'
    BY <2>1, FailedIsStocked
  <2> QED BY <1>1, <2>2, <2>3 DEF SInv
<1> QED BY <1>1, <1>2, <1>3, <1>4, <1>5, <1>6, <1>7, <1>8, <1>9 DEF Next, SInv

\* The invariant holds in every state.
LEMMA SInvHolds == Spec => []SInv
<1>1. Init => SInv
  <2>1. Init => Compiled /\ Stocked
    BY DEF Init, Compiled, Stocked, InRun
  <2> QED BY <2>1, StartsInIInv DEF SInv
<1> QED BY <1>1, StepsKeepSInv, PTL DEF Spec

-----------------------------------------------------------------------------
\* Whatever the engine is set to for other runs and whichever provider refuses, all the
\* series of a run, those made of others included, are of its timeframe
\* (execute in engine.go, getSeries and getSeriesByIdentifier).
THEOREM RunsAreOfOneTimeframe == Spec => []OneTimeframe
<1>1. SInv => OneTimeframe
  BY DEF SInv, Stocked, Good, Right, OneTimeframe
<1> QED BY <1>1, SInvHolds, PTL

\* Whatever a run was asked for before, in whatever order, a series that the provider of
\* a symbol offers is the one that is answered, never that of the default type, unless
\* fetching it has failed in this run (getSeries of runtime_series.go).
THEOREM OffersAreServed == Spec => []ServedAsOffered
<1>1. ASSUME SInv, InRun, NEW s \in Symbols, NEW vt \in Catalog[s] \ Derived, <<s, vt>> \in Holds \ rt.refused,
             NEW answer, answer = GetSeries(rt.store, s, vt, {})
      PROVE  answer.series.vt = vt /\ answer.series.symbol = s
  <2>1. PICK refused, needed : refused = rt.refused /\ needed = NeededKeys(rt.program)
    OBVIOUS
  <2>2. /\ \A i \in DOMAIN Providers : feed[i] = rt.timeframe
        /\ Good(rt.store, rt.timeframe, refused, needed) /\ {} \subseteq refused
    BY <1>1, <2>1 DEF SInv, Stocked
  <2>3. AnswerIs(answer, s, vt, rt.timeframe, refused)
    BY <1>1, <2>2, AnswersAreRight
  <2>4. answer.series = Raw(s, vt, rt.timeframe)
    BY <1>1, <2>1, <2>3 DEF AnswerIs
  <2> QED BY <2>4 DEF Raw
<1>2. SInv => ServedAsOffered
  BY <1>1 DEF ServedAsOffered
<1> QED BY <1>2, SInvHolds, PTL

\* While nothing fails, hl2 and its like mean one thing for a symbol with a close: the
\* series indicators work on and the value the script reads are made of the same prices,
\* whatever was asked for before (getSeriesByIdentifier and valueAt).
THEOREM DerivedMeanOneThing == ASSUME ClosesServed PROVE Spec => []OneMeaning
<1>1. ASSUME SInv, InRun, rt.refused = {}, NEW s \in Symbols, NEW vt \in Derived, "close" \in Catalog[s],
             vt \notin Catalog[s], <<s, vt>> \notin NeededKeys(rt.program),
             NEW one, one = GetSeriesByIdentifier(rt.store, s, vt, {}),
             NEW other, other = ValueAt(rt.store, s, vt, {})
      PROVE  one.series = other.series
  <2>1. PICK refused, needed : refused = rt.refused /\ needed = NeededKeys(rt.program)
    OBVIOUS
  <2>2. /\ \A i \in DOMAIN Providers : feed[i] = rt.timeframe
        /\ Good(rt.store, rt.timeframe, refused, needed) /\ {} \subseteq refused
    BY <1>1, <2>1 DEF SInv, Stocked
  <2>3. Plain(s, refused)
    BY <1>1, <2>1 DEF Plain, Smooth
  <2>4. IdentifierIs(one, s, vt, rt.timeframe, refused, needed)
    BY <1>1, <2>2, IdentifiersAreRight
  <2>5. one.series = Compute(vt, Canons(s, rt.timeframe))
    BY <1>1, <2>1, <2>3, <2>4 DEF IdentifierIs
  <2>6. other.series = Compute(vt, Canons(s, rt.timeframe))
    BY <1>1, <2>2, <2>3, ValuesAreRight
  <2> QED BY <2>5, <2>6
<1>2. SInv => OneMeaning
  BY <1>1 DEF OneMeaning
<1> QED BY <1>2, SInvHolds, PTL

\* What a program spells out was asked for before the first bar, so it can be had on
\* every bar whatever the providers deliver by then (the needed keys of execute in
\* engine.go).
THEOREM NothingFailsLate == Spec => []NoLateFailure
<1>1. ASSUME SInv, InRun, rt.phase = "bars", NEW r \in Visited(rt.program), r.literal
      PROVE  AsSeries(rt.store, r, Holds).ok
  <2>1. PICK tf, refused, needed :
          tf = rt.timeframe /\ refused = rt.refused \cup Holds /\ needed = NeededKeys(rt.program)
    OBVIOUS
  <2>2. /\ \A i \in DOMAIN Providers : feed[i] = tf
        /\ Good(rt.store, tf, refused, needed) /\ Holds \subseteq refused
    BY <1>1, <2>1, HeldIsGood DEF SInv
  <2>3. NeededKeys(rt.program) \subseteq DOMAIN rt.store.byKey /\ rt.program \in Programs
    BY <1>1 DEF SInv, Stocked, Asked
  <2>4. r.form \in Forms /\ r.vt # None
    BY <1>1, <2>3, ProgramsAssumption DEF Visited
  <2>5. PICK s, vt : s = SymbolOf(r) /\ vt = r.vt
    OBVIOUS
  <2>6. s = defaultSymbol \/ <<s, vt>> \in DOMAIN rt.store.byKey
    <3>1. CASE r.form \in {"ident", "sma", "atr"}
      BY <2>5, <3>1 DEF SymbolOf
    <3>2. CASE r.form \in {"close_of", "value_of", "sma_of"}
      <4>1. <<s, vt>> \in KeysOf(r)
        BY <1>1, <2>5, <3>2 DEF KeysOf, SymbolOf
      <4>2. <<s, vt>> \in NeededKeys(rt.program)
        BY <1>1, <4>1 DEF NeededKeys, SeriesKeys
      <4> QED BY <2>3, <4>2
    <3> QED BY <2>4, <3>1, <3>2 DEF Forms
  <2>7. ASSUME NEW answer, answer = GetSeries(rt.store, s, vt, Holds) PROVE answer.ok
    <3>1. AnswerIs(answer, s, vt, tf, refused)
      BY <2>2, <2>7, AnswersAreRight
    <3>2. CASE s = defaultSymbol
      BY <3>1, <3>2 DEF AnswerIs
    <3>3. CASE <<s, vt>> \in DOMAIN rt.store.byKey
      <4>1. Available(rt.store, s, vt, Holds)
        BY <2>4, <2>5, <3>3 DEF Available
      <4>2. Answers(rt.store, s, vt, Holds, answer)
        BY <2>7, <4>1, AnswerCases
      <4> QED BY <4>1, <4>2 DEF Answers, Held, Got
    <3> QED BY <2>6, <3>2, <3>3
  <2>8. ASSUME NEW answer, answer = GetSeriesByIdentifier(rt.store, s, vt, Holds) PROVE answer.ok
    <3>1. CASE s = defaultSymbol
      <4>1. IdentifierIs(answer, s, vt, tf, refused, needed)
        BY <2>2, <2>8, IdentifiersAreRight
      <4> QED BY <3>1, <4>1 DEF IdentifierIs
    <3>2. CASE vt \notin Derived
      <4>1. answer = GetSeries(rt.store, s, vt, Holds)
        BY <2>8, <3>2 DEF GetSeriesByIdentifier
      <4> QED BY <2>7, <4>1
    <3>3. CASE vt \in Derived /\ <<s, vt>> \in DOMAIN rt.store.byKey
      <4>1. answer = [store |-> rt.store, ok |-> TRUE, series |-> rt.store.byKey[<<s, vt>>]]
        BY <2>8, <3>3 DEF GetSeriesByIdentifier, DerivedKey
      <4> QED BY <4>1
    <3> QED BY <2>6, <3>1, <3>2, <3>3
  <2>9. PICK answer : answer = AsSeries(rt.store, r, Holds)
    OBVIOUS
  <2>10. answer = GetSeriesByIdentifier(rt.store, s, vt, Holds) \/ answer = GetSeries(rt.store, s, vt, Holds)
    BY <2>5, <2>9 DEF AsSeries
  <2> QED BY <2>7, <2>8, <2>9, <2>10
<1>2. SInv => NoLateFailure
  BY <1>1 DEF NoLateFailure
<1> QED BY <1>2, SInvHolds, PTL
=============================================================================
