------------------------------- MODULE Engine -------------------------------
(***************************************************************************)
(* One Engine and its host (engine.go): compiling, the program cache, a    *)
(* run with its preloaded series and its bars, the execution budget, and   *)
(* the series a runtime is asked for (runtime_series.go).                  *)
(*                                                                         *)
(* A program is the set of the references it makes to series.  A series is *)
(* what it is made of: [symbol, vt, frames] if a provider gave it, [price, *)
(* from, frames] if it is derived, with the timeframes that went into it.  *)
(***************************************************************************)
EXTENDS Integers, SequencesExt

CONSTANTS
  Buffers,         \* byte slices of the host
  Programs,        \* sets of references: [form, symbol, vt, literal, visited]
  Garbage,         \* bytes that decode to no program
  Providers,       \* a sequence: [symbols, valueTypes, refuses (timeframes)]
  Holds,           \* the <<symbol, value type>> for which a provider has data
  Flaky,           \* those it sometimes fails to deliver
  Timeframes,
  Requests,        \* the <<symbol, value type>> the host asks for after a run
  SortedTypes,     \* all value types in the order of sort.Strings
  defaultSymbol, defaultValueType,
  Bars,            \* baseSeries.Length()
  BudgetStride,    \* 64 in the code
  None

Derived == {"hl2", "hlc3", "hlcc4", "ohlc4"}
Prices == {"open", "high", "low", "close"}
\* A price by its name, an indicator of it, of a symbol's or of the high and low.
Forms == {"ident", "sma", "atr", "close_of", "value_of", "sma_of"}

ASSUME ProvidersAssumption == Providers \in Seq({Providers[i] : i \in DOMAIN Providers})
ASSUME NoneAssumption ==
  None \notin Buffers \cup Prices \cup Derived \cup UNION {Providers[i].valueTypes : i \in DOMAIN Providers}
ASSUME ProgramsAssumption ==
  /\ Garbage \notin Programs /\ None \notin Programs
  /\ \A r \in UNION Programs : r.form \in Forms /\ r.vt # None
ASSUME BudgetAssumption == Bars \in Nat \ {0} /\ BudgetStride \in Nat \ {0}
ASSUME SelectionAssumption ==
  \E i \in DOMAIN Providers : defaultSymbol \in Providers[i].symbols /\ defaultValueType \in Providers[i].valueTypes

VARIABLES
  memory,      \* the bytes of each slice, None if it is not allocated
  cache,       \* cachedBytecode and cachedProgram, None at first
  timeframe,   \* of the engine
  feed,        \* the timeframe of each provider
  rt,          \* the runtime of the latest run
  overwritten  \* for the properties: the host has written into the cached slice

vars == <<memory, cache, timeframe, feed, rt, overwritten>>

-----------------------------------------------------------------------------
(* The catalog: the first provider that lists a symbol serves it. *)

Symbols == UNION {Providers[i].symbols : i \in DOMAIN Providers}
ProviderOf(s) == CHOOSE i \in DOMAIN Providers :
  s \in Providers[i].symbols /\ \A j \in 1 .. i - 1 : s \notin Providers[j].symbols
Catalog == [s \in Symbols |-> Providers[ProviderOf(s)].valueTypes]

\* catalog.fetchSeries, when the keys in down fail.
Fetchable(types, s, vt, down) ==
  s \in Symbols /\ vt \in types[s] /\ <<s, vt>> \in Holds \ down
Fetched(s, vt) == [symbol |-> s, vt |-> vt, frames |-> {feed[ProviderOf(s)]}]

-----------------------------------------------------------------------------
(* The series of a runtime: its store is [byKey, types], and an answer is  *)
(* [store, ok, series].                                                    *)

\* The first type in the order of strings.
First(types) == SortedTypes[SelectInSeq(SortedTypes, LAMBDA vt : vt \in types)]
DefaultType(store, s) ==
  IF s = defaultSymbol THEN defaultValueType
  ELSE IF s \notin Symbols THEN None
  ELSE IF "close" \in store.types[s] THEN "close" ELSE First(store.types[s])

WithKey(byKey, key, series) ==
  [k \in DOMAIN byKey \cup {key} |-> IF k = key THEN series ELSE byKey[k]]
Stored(store, key, series) ==
  [byKey |-> WithKey(store.byKey, key, series), types |-> [store.types EXCEPT ![key[1]] = @ \cup {key[2]}]]

\* Mutant: the default type comes before the one asked for.
CandidatesSwapped(store, s, vt) == <<DefaultType(store, s), vt>>
Candidates(store, s, vt) == <<vt, DefaultType(store, s)>>
Available(store, s, vt, down) ==
  vt # None /\ (<<s, vt>> \in DOMAIN store.byKey \/ Fetchable(store.types, s, vt, down))

GetSeries(store, s, vt, down) ==
  LET candidates == Candidates(store, s, vt)
      c == IF Available(store, s, candidates[1], down) THEN candidates[1] ELSE candidates[2]
  IN  IF ~ Available(store, s, c, down) THEN [store |-> store, ok |-> FALSE, series |-> None]
      ELSE IF <<s, c>> \in DOMAIN store.byKey
      THEN [store |-> store, ok |-> TRUE, series |-> store.byKey[<<s, c>>]]
      ELSE [store |-> Stored(store, <<s, c>>, Fetched(s, c)), ok |-> TRUE, series |-> Fetched(s, c)]

\* Several of one symbol, one after the other; if they must all be had, the first that
\* cannot be ends it.
WithPrice(g, s, p, down, all) ==
  LET answer == GetSeries(g.store, s, p, down)
  IN  IF all /\ ~ g.ok THEN g
      ELSE [store |-> answer.store, ok |-> g.ok /\ answer.ok,
            of |-> IF answer.ok THEN WithKey(g.of, p, answer.series) ELSE g.of]
InTurn == <<"open", "high", "low", "close">>
GetPrices(store, s, down, all) ==
  LET nothing == [store |-> store, ok |-> TRUE, of |-> [p \in {} |-> None]]
      With[n \in 0 .. 4] ==
        IF n = 0 THEN nothing ELSE WithPrice(With[n - 1], s, InTurn[n], down, all)
  IN  With[4]
\* derivedPriceValueFromOHLC and its like on series.
Used(vt) ==
  CASE vt = "hl2" -> {"high", "low"}
    [] vt = "ohlc4" -> Prices
    [] OTHER -> {"high", "low", "close"}
Compute(vt, of) ==
  LET from == [p \in Used(vt) \cap DOMAIN of |-> of[p]]
  IN  [price |-> vt, from |-> from, frames |-> UNION {from[p].frames : p \in DOMAIN from}]

\* Mutant: derived series are stored for the active symbol.
KeyOfActive(s, vt) == <<defaultSymbol, vt>>
DerivedKey(s, vt) == <<s, vt>>

GetSeriesByIdentifier(store, s, vt, down) ==
  LET g == GetPrices(store, s, down, TRUE)
      key == DerivedKey(s, vt)
      series == Compute(vt, g.of)
  IN  IF vt \notin Derived THEN GetSeries(store, s, vt, down)
      ELSE IF key \in DOMAIN store.byKey THEN [store |-> store, ok |-> TRUE, series |-> store.byKey[key]]
      ELSE IF ~ g.ok THEN [store |-> g.store, ok |-> FALSE, series |-> None]
      ELSE [store |-> Stored(g.store, key, series), ok |-> TRUE, series |-> series]

\* valueAt: the value of one bar; a derived one is made of those of the prices, and what
\* cannot be had is na.
ValueAt(store, s, vt, down) ==
  LET g == GetPrices(store, s, down, FALSE)
  IN  IF vt \in Derived THEN [store |-> g.store, ok |-> g.ok, series |-> Compute(vt, g.of)]
      ELSE GetSeries(store, s, vt, down)

-----------------------------------------------------------------------------
(* What a program asks for: collectProgramRequirements finds it in the     *)
(* statements it visits (not in switch and the list of a for-in), and as   *)
(* far as symbols and types are literals.                                  *)

IdentifierTypes(vt) ==
  CASE vt = "hl2" -> {"high", "low"}
    [] vt \in {"hlc3", "hlcc4"} -> {"high", "low", "close"}
    [] vt = "ohlc4" -> Prices
    [] OTHER -> {vt}
TypesOf(r) ==
  CASE r.form = "ident" -> IdentifierTypes(r.vt)
    [] r.form = "sma" -> IdentifierTypes(r.vt) \cup IF r.vt \in Derived THEN {"close"} ELSE {}
    [] r.form = "atr" -> {"high", "low", "close"}
    [] r.form = "close_of" -> {r.vt}
    [] OTHER -> IF r.literal THEN {r.vt} ELSE IF r.form = "sma_of" THEN {"close"} ELSE {}
KeysOf(r) ==
  IF r.form \in {"close_of", "value_of", "sma_of"} /\ r.literal THEN {<<r.symbol, r.vt>>} ELSE {}

Visited(program) == {r \in program : r.visited}
SeriesKeys(program) == UNION {KeysOf(r) : r \in Visited(program)}

\* Mutant: the keys the program spells out are left to the bars.
NeededOfActive(program) ==
  {<<defaultSymbol, vt>> : vt \in {defaultValueType} \cup UNION {TypesOf(r) : r \in Visited(program)}}
NeededKeys(program) ==
  {<<defaultSymbol, vt>> : vt \in {defaultValueType} \cup UNION {TypesOf(r) : r \in Visited(program)}}
    \cup {<<key[1], defaultValueType>> : key \in SeriesKeys(program)}
    \cup SeriesKeys(program)

SymbolOf(r) == IF r.form \in {"ident", "sma", "atr"} THEN defaultSymbol ELSE r.symbol
\* How a reference is evaluated where a series is wanted, and where a value is.
AsSeries(store, r, down) ==
  IF r.form \in {"ident", "sma", "value_of"}
  THEN GetSeriesByIdentifier(store, SymbolOf(r), r.vt, down)
  ELSE GetSeries(store, SymbolOf(r), r.vt, down)
AsValue(store, r, down) == ValueAt(store, SymbolOf(r), r.vt, down)

-----------------------------------------------------------------------------
(* The host. *)

Idle == rt.phase \in {"idle", "done", "failed"}

\* A new slice; the program is parsed, whatever is cached.
Compile(b, program) ==
  /\ Idle /\ memory[b] = None
  /\ memory' = [memory EXCEPT ![b] = program]
  /\ cache' = [buf |-> b, program |-> program] /\ overwritten' = FALSE
  /\ UNCHANGED <<timeframe, feed, rt>>

\* The host writes into a slice, or allocates one for bytes it has read.
Write(b, bytes) ==
  /\ Idle /\ bytes # memory[b]
  /\ memory' = [memory EXCEPT ![b] = bytes]
  /\ overwritten' = (overwritten \/ (cache # None /\ cache.buf = b))
  /\ UNCHANGED <<cache, timeframe, feed, rt>>

SetTimeframe(tf) ==
  /\ Idle /\ timeframe' = tf
  /\ UNCHANGED <<memory, cache, feed, rt, overwritten>>

-----------------------------------------------------------------------------
(* Execute, up to the first needed key. *)

\* Mutant: slices of one length are taken for equal.
HitByLength(b) == cache # None
Hit(b) == cache # None /\ (cache.buf = b \/ memory[cache.buf] = memory[b])

\* The providers up to the first that refuses take the timeframe.
\* Mutant: the first provider alone.
ConfiguredFirst(tf) == [feed EXCEPT ![1] = IF tf \in Providers[1].refuses THEN @ ELSE tf]
Configured(tf) ==
  [i \in DOMAIN Providers |-> IF \A j \in 1 .. i : tf \notin Providers[j].refuses THEN tf ELSE feed[i]]
Accepted(tf) == \A i \in DOMAIN Providers : tf \notin Providers[i].refuses

Failed(given) == [phase |-> "failed", given |-> given]
NewRuntime(program, b) ==
  LET base == <<defaultSymbol, defaultValueType>>
      series == [symbol |-> base[1], vt |-> base[2], frames |-> {timeframe}]
  IN  [phase |-> "loading", program |-> program, given |-> memory[b], aliased |-> overwritten,
       timeframe |-> timeframe, store |-> [byKey |-> [k \in {base} |-> series], types |-> Catalog],
       todo |-> NeededKeys(program), bar |-> 0, late |-> FALSE, lateBars |-> 0, refused |-> {}]

Execute(b, down) ==
  LET program == IF Hit(b) THEN cache.program ELSE memory[b]
  IN  /\ Idle /\ memory[b] # None
      /\ IF program = Garbage
         THEN rt' = Failed(memory[b]) /\ UNCHANGED <<cache, overwritten, feed>>
         ELSE /\ IF Hit(b) THEN UNCHANGED <<cache, overwritten>>
                 ELSE cache' = [buf |-> b, program |-> program] /\ overwritten' = FALSE
              /\ feed' = Configured(timeframe)
              /\ rt' = IF Accepted(timeframe)
                          /\ Fetchable(Catalog, defaultSymbol, defaultValueType, down)
                       THEN NewRuntime(program, b) ELSE Failed(memory[b])
      /\ UNCHANGED <<memory, timeframe>>

-----------------------------------------------------------------------------
(* The run: the needed keys in the order of a Go map, then the bars. *)

Running(phase) == rt.phase = phase
Kept(store, down) == [rt EXCEPT !.store = store, !.refused = @ \cup down]

Preload(key, down) ==
  LET answer == GetSeries(rt.store, key[1], key[2], down)
  IN  /\ Running("loading") /\ key \in rt.todo
      /\ rt' = IF ~ answer.ok THEN Failed(rt.given)
               ELSE [Kept(answer.store, down) EXCEPT
                       !.store.byKey = WithKey(@, key, answer.series), !.todo = @ \ {key}, !.phase = IF rt.todo = {key} THEN "bars" ELSE @]
      /\ UNCHANGED <<memory, cache, timeframe, feed, overwritten>>

\* The script, in the middle of a bar.
Evaluate(r, down) ==
  /\ Running("bars") /\ r \in rt.program
  /\ \/ LET answer == AsSeries(rt.store, r, down)
        IN  rt' = IF ~ answer.ok THEN Failed(rt.given) ELSE Kept(answer.store, down)
     \/ /\ r.form \notin {"sma", "sma_of", "atr"}
        /\ rt' = Kept(AsValue(rt.store, r, down).store, down)
  /\ UNCHANGED <<memory, cache, timeframe, feed, overwritten>>

\* Mutant: the clock is looked at once.
TestedOnce(i) == i = BudgetStride - 1
Tested(i) == i % BudgetStride = BudgetStride - 1

\* A script or a step callback that fails ends the run, too.
EndBar ==
  /\ Running("bars")
  /\ rt' = IF rt.late /\ Tested(rt.bar) THEN Failed(rt.given)
           ELSE IF rt.bar = Bars - 1 THEN [rt EXCEPT !.phase = "done"]
           ELSE [rt EXCEPT !.bar = @ + 1, !.lateBars = @ + IF rt.late THEN 1 ELSE 0]
  /\ UNCHANGED <<memory, cache, timeframe, feed, overwritten>>
Abort ==
  /\ Running("bars") /\ rt' = Failed(rt.given)
  /\ UNCHANGED <<memory, cache, timeframe, feed, overwritten>>

\* The deadline passes, at any moment of the bars.
Deadline ==
  /\ Running("bars") /\ rt' = [rt EXCEPT !.late = TRUE]
  /\ UNCHANGED <<memory, cache, timeframe, feed, overwritten>>

\* Runtime.Series: the host asks the runtime it was given, after the run.
Series(s, vt, down) ==
  /\ Running("done")
  /\ rt' = Kept(GetSeriesByIdentifier(rt.store, s, vt, down).store, down)
  /\ UNCHANGED <<memory, cache, timeframe, feed, overwritten>>

-----------------------------------------------------------------------------
Init ==
  /\ memory = [b \in Buffers |-> None]
  /\ cache = None
  /\ feed \in [DOMAIN Providers -> Timeframes]
  /\ timeframe = feed[1]
  /\ rt = [phase |-> "idle"]
  /\ overwritten = FALSE

Host ==
  \/ \E b \in Buffers :
       \/ \E program \in Programs : Compile(b, program) \/ Write(b, program)
       \/ Write(b, Garbage)
  \/ \E tf \in Timeframes : SetTimeframe(tf)

Next ==
  \/ Host
  \/ \E down \in SUBSET Flaky :
       \/ \E b \in Buffers : Execute(b, down)
       \/ \E key \in IF Running("loading") THEN rt.todo ELSE {} : Preload(key, down)
       \/ \E r \in IF Running("bars") THEN rt.program ELSE {} : Evaluate(r, down)
       \/ \E key \in Requests : Series(key[1], key[2], down)
  \/ EndBar \/ Abort \/ Deadline
Spec == Init /\ [][Next]_vars

-----------------------------------------------------------------------------
InRun == rt.phase \in {"loading", "bars", "done"}

\* What is run is the program whose bytes Execute was given ("Execute runs pre-compiled
\* bytecode", engine.go), whatever was compiled or run before; all but when the host
\* has written into the slice the cache holds on to.
RunsItsBytecode == InRun => rt.program = rt.given \/ rt.aliased

\* A run does not mix timeframes: whatever the engine was set to for earlier runs, and
\* whichever of its providers refused, all the series a runtime holds are of its own.
OneTimeframe ==
  InRun => \A key \in DOMAIN rt.store.byKey : rt.store.byKey[key].frames \subseteq {rt.timeframe}

\* The fallback to the default type is for what cannot be had: a series the provider has
\* is the one that is answered at every point of a run, whatever was asked for before,
\* unless fetching it has failed in this run.
ServedAsOffered ==
  InRun => \A s \in Symbols : \A vt \in Catalog[s] \ Derived : <<s, vt>> \in Holds \ rt.refused =>
             LET series == GetSeries(rt.store, s, vt, {}).series
             IN  series.vt = vt /\ series.symbol = s

\* hl2 and its like mean one thing: the series indicators work on is the series of the
\* values the script reads bar by bar; for the symbols with a close, when nothing has
\* failed and the key was not preloaded, which stores the default type under it.
OneMeaning ==
  InRun /\ rt.refused = {} =>
    LET needed == NeededKeys(rt.program)
    IN  \A s \in Symbols, vt \in Derived :
      "close" \in Catalog[s] /\ vt \notin Catalog[s] /\ <<s, vt>> \notin needed =>
        GetSeriesByIdentifier(rt.store, s, vt, {}).series = ValueAt(rt.store, s, vt, {}).series

\* A series that is missing is missed before the first bar, before any callback of the
\* host has acted on the script: what a program spells out can be had on every bar of a
\* run, even if the providers deliver nothing any more.
NoLateFailure ==
  InRun /\ rt.phase = "bars" =>
    \A r \in Visited(rt.program) :
      r.literal => AsSeries(rt.store, r, Holds).ok

\* "SetExecBudget caps a single Execute/ExecuteStepped run at d of wall-clock time"
\* (engine.go): after the deadline no more bars are begun than lie between two looks
\* at the clock.
BudgetHeld == InRun => rt.lateBars < BudgetStride
=============================================================================
