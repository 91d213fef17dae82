# Pinescription in TLA+

Specifications of [Pinescription](../src/README.md), a Pine Script interpreter in Go with a
backtester: TLA+ modules of its stateful parts, the TLC configurations that check them on small
instances, and theorems about them that the TLA+ proof system has checked.

    tlc -workers 2 -config SimTrading.cfg MCSim     # one run
    tlapm SimProofs.tla                             # the proofs of one module

`PROJECT.json` lists, for machines, what this file explains: the components, the runs, the mutants
that show each property can fail, the source lines behind each definition, the disagreements found,
the hazards and the theorems.

## 1. The system

A script is text. `lexer.go` and `parser.go` make statements of it, `typecheck.go` rejects some programs,
`lowering.go` gives the nodes their opcodes, and `engine.go` executes the rest: once for each
bar of a price series, every statement from the top. The variables of the root frame keep a history,
which `x[n]` reads. Builtins (`builtins.go`) compute indicators, on whole series (`series/`) or
incrementally. The backtester (`backtest/`) repairs scripts that were converted from elsewhere
(`preprocess.go`), registers `strategy.*` hooks, steps an order simulator
after each bar, and runs a few thousand scripts in parallel under a Python supervisor.

| Component | State | Operations | Interacts by |
|---|---|---|---|
| Order simulator `backtest/sim.go` | positions, cash, trades, pending market orders, resting orders, `wiped` | `AddIntent`, `Step` (market orders, exits, entries, trails, mark, margin call) | called by the hooks, and by the callback after every bar |
| Strategy hooks `backtest/hooks.go`, callback in `backtest/main.go` | the runner's current bar, the declaration | one hook per `strategy.*` function | called by the interpreter; calls the simulator |
| Interpreter `runtime_exec.go`, `runtime_state.go`, `runtime_calls.go` | environment stack, loop bindings, constants, declared types, histories, evaluation offset | `execStmt`, `callScriptFunction`, `assign`, `resolve`, `evalIndex`, `commitBar` | recursion; every memo below is read and filled from inside it |
| Derived-series memo `builtins.go` | `seriesExprCache` | `seriesFromExpr` | evaluates expressions of the interpreter at other bars |
| Conditional memos, streaming indicators `builtins.go` | `barssinceMemo`, `indicatorState` | `barssince`, `valuewhen`, `sma`, `ema`, `rsi`, ... | the same |
| Series queue `series/queue.go` | a ring buffer | `Update`, `Last`, `Length` | under every series |
| Series algorithms `series/*.go` | none; the filter caches offsets | views of queues and numbers out of them | called by builtins, and by hosts |
| Engine `engine.go`, `runtime_lifecycle.go` | program cache, providers, settings, the latest runtime; of a runtime, its series | `Compile`, `Execute`, `ExecuteStepped`, `Runtime.Series` | asks providers; makes and keeps a runtime |
| Preprocessing `backtest/preprocess.go` | the text, and what each pass counts as it goes (parentheses, quotes, indentation) | some seventy passes in a fixed order | before `Compile`, in the backtester |
| Lexer, parser, type checker, lowering | lines and indentation stack; cursor; environment of types | one pass each | a pipeline, in `Compile` |
| Calls `runtime_calls.go`, `runtime_exec.go` | none | `evalCall`, `bindNamedCallArgs`, `callScriptFunction`, `instantiateType`, `eval` | recursion; the host's functions |
| Matrices `matrix*.go` | matrices in the heap, whose rows are slices | structural and numeric operations | builtins; names share a matrix |
| Harness `backtest/main.go` | `results.jsonl`, reports, worker pool | `run`, `runOneSafe`, `saveRecord`, `loadRecords` | files, exit codes |
| Supervisor `backtest/supervise.py` | `blacklist.txt`, batch or probing | `main`, `read_records`, `write_blacklist` | processes and files |
| Metrics, reports, extraction | none that lasts | text and number crunching | files |

What is hard in it:

* **Order of events within a bar.** An order placed on bar *b* fills on *b*+1 at the open. In that one
  step market orders, exits, resting entries, trails and the margin call follow each other, and each may
  change what the next one sees. The simulator rebuilds its lists while it walks through them.
* **Orders that outlive their reason**: exits that rest before there is a position, stops submitted again
  on every bar, orders resting when the account is wiped, orders that arrive afterwards.
* **Prices that jump.** Bars that gap over a level; losses larger than the account.
* **State that lives across bars** and is read at an earlier one: `x[n]` inside a function called with
  `[k]`, memos made on one bar and used on another.
* **Names.** A loop borrows a name that may be a variable; a function runs with its callers' frames
  and loop bindings in sight.
* **Text.** Precedence, indentation and wrapped lines decide what a script says, and a wrong tree runs all the same;
  each repair of the preprocessor works on what the ones before it left.
* **Sharing.** Two names may hold one matrix, and no two matrices may share a row.
* **Crashes.** One script takes the process down with the others in flight; the machine is interrupted
  between two writes; the supervisor must make progress all the same.

What makes each part correct is stated in section 3, with the modules that state it. The hazards
(`PROJECT.json`, `hazards`) are these behaviours one by one, each at the line where it bites.

## 2. The modules

| Module | What it is |
|---|---|
| `Sums` | `SumOf`, the sum of a function's values: `PositionSize`, cash, profit |
| `Sim` | the order simulator with its hooks and callback |
| `SimProps` | what the simulator promises |
| `MCSim` | calls, bars and ids for TLC |
| `SumTheorems` | lemmas about `SumOf`, and the inductions the other proofs rest on |
| `SimProofs` | the inductive invariant of `Sim` and its consequences; of a strategy without `strategy.order`: the books balance, pyramiding is capped, stops protect |
| `Queues` | the ring buffer as a value and the functions on it |
| `Queue` | one queue and its updates; the refinement to `Window` |
| `Window` | the abstract specification of a queue: a sliding window |
| `MCQueue`, `QueueProofs` | for TLC, for TLAPS |
| `SeriesMemo` | the memo of a derived series |
| `Indicators` | the indicators with an incremental state, computed both ways |
| `CallSites`, `CallSitesProofs`, `MCCallSites` | one call of a builtin that remembers; composes `SeriesMemo`, `Queues` and `Indicators` |
| `Interp`, `InterpProps`, `InterpProofs`, `MCInterp` | frames, loop bindings, calls and histories of the interpreter |
| `Engine`, `EngineProofs`, `MCEngine` | the engine between its host and its providers: program cache, preloading, series, budget |
| `Supervisor`, `SupervisorProofs`, `MCSupervisor` | supervisor, harness processes, workers and files |
| `Lexer`, `Parser`, `TypeCheck`, `Lowering` | the stages of `Compile`, each a module that extends the one before |
| `Preprocess` | the passes over the lines of a script before `Compile` |
| `Calls` | what a lowered program evaluates to: operators, switches, calls and their arguments |
| `Compiler`, `CompilerProps` | the pipeline, a step per pass or line, and what it promises |
| `Scripts`, `Damage`, `MCCompiler` | references: how a program is printed, and how a converted script is damaged; programs for TLC |
| `Rationals` | float64 without rounding, with NaN, and its conversion to `int` |
| `Views`, `Filter` | the algorithms of the series package; the filter with its cache |
| `Matrices` | the algebra, statistics and predicates of matrices as operators |
| `Matrix`, `MatrixHeap` | the builtins on a heap of matrices and rows; the abstract specification of it |
| `MatrixProofs`, `MCMatrix` | for TLAPS, for TLC |

### Sim

The environment is the script: in each bar it makes any calls of `Calls`, in any order, at most
`MaxCalls` in a run. The rest is the callback, and follows the code phase by phase. Loops whose
iterations can disturb one another are unrolled, an iteration per action.

| Action | Code |
|---|---|
| `Enter`, `Exit`, `Close`, `CloseAll`, `Cancel`, `CancelAll` | the hooks and `AddIntent` with all it calls: a level makes a resting order, `dropPending` replaces the one of the same id, a wiped account takes nothing |
| `BeginStep` | the callback's test for the next bar, and the split of `pendingMarket` by bar |
| `FillMarketOrder` | an iteration of `fillMarketOrders`: `executeEntry` or `executeExit` |
| `ProcessExits` | `processConditionals` up to its entries: which exits apply, arm, rest or are dropped, the bracket of each position, and its execution |
| `TryResting` | an iteration over the resting entries |
| `RestOrders` | the rebuilding of `pendingCond`, then the trailing extremes |
| `Mark` | equity, `checkMarginCall` |

`Realize`, `ApplyFill`, `ExecuteEntry`, `ExitTake`, `StopLevel`, `Targets` and the others are the Go functions
or branches of them. Abstractions:

* Money, prices and quantities are integers, and divisions round down. No property depends on a rounding;
  the `Ledger` is exact because one fill moves cash and cost by the same product.
* A list of orders is a set of numbered orders. The code only appends to its lists and filters them, so
  the numbers give the order back.
* `acct.realized` and `acct.fees` are sums the code does not keep; `ocaHit` marks groups that filled. They are
  there for the properties, and no guard reads them.
* Each bracket closes the whole of its own position, so Go's random walk over the map of brackets makes
  no difference, and `RunBrackets` is one action.
* The `when` of a call is kept where the code keeps it: a hook tests it, and a resting order forgets it.

### Queues, Queue, Window

`Updated` is `Update`, `LastOf` is `Last`. `RealSize` states what the shifting of bits in `getRealSize` does for
the sizes a 64-bit `int` can hold. `Window` says in four lines what a queue is for, and `Queue!IsAWindow` is
`Window!Spec` under the mapping `window[i] = Last(i-1)`.

### SeriesMemo

One expression with a different value on every bar, asked for at any bar and any offset back. `Derive` has the
four branches of `seriesFromExprSlow` (build, slice, reuse, extend), then `seriesAtEvalSeries`.

### Indicators, CallSites

`Indicators` has two halves: the states of builtins.go (`rollingWindowState` and the ten indicator states on it) with their
`Update` and `Value`, and the `...FromSeries` functions and windows that compute the same from a series. `CallSites` is one
call expression: `Sites` says of which builtin. `AskNow` is the branch `evalOffset == 0`, which updates the state once a bar;
`AskBack` is the other, which reads the series. `AskSince` is `barssince` and `valuewhen` with their memo (`Recalled`), and
`Derive` of `SeriesMemo` is the third kind of call. The script evaluates the call on any bars, any number of times, at any
offset. Prices are integers and both halves divide alike, rounding down; `macd` is given a fast length of 1. `said` and
`forward` are for the properties.

### Interp

The environment is the script again: it executes any statements of `Stmts`, nests them up to `MaxDepth`, and leaves a
construct whenever its syntax would let it, by `break`, by an end of iterations or by a `return`. `Decl` and
`Reassign` are `execStmt` with all of `assign`; `EnterFor`, `EnterForIn`, `EnterWhile`, `Iterate` and `LeaveLoop` are the
three loops with their deferred restorations; `Call` and `Return` are `callScriptFunction`, with the wrapped
arguments (`seriesArgument`) and the offset of `f(x)[k]`; `Commit` is `commitBar` with `recordHistory`. `Index` is
`evalIndex` of a name. Results of expressions are not modelled: the statements carry their values. `saved` (in a
call's construct) and `committed` are there for the properties.

### Engine

A program is the set of the references it makes to series (`close`, `value_of("B", "hl2")`, `atr`, ...), each with its
place (seen by `collectProgramRequirements` or not) and with literal arguments or not. A series is what it is made of: a
symbol and a value type, or the prices a derived one is computed from, with the timeframes that went into it (`frames`). The functions
that look for one return an answer: the store with what they have put into it, whether they were successful, and the series.

| Action | Code |
|---|---|
| `Compile`, `Write`, `SetTimeframe` | the host: a slice compiled, a slice written into, a setting |
| `Execute` | `execute` up to its runtime: `decodeProgramCached`, the timeframe given to the providers in turn, the catalog, the base series |
| `Preload` | an iteration over the needed keys; Go walks its maps in any order, and so does the model |
| `Evaluate` | a reference in the script, as a series (`seriesFromRawExpr`, `seriesFromExprFast`) or as a value (`valueAt`) |
| `EndBar`, `Abort`, `Deadline` | the end of a bar with the look at the clock, a failing script or callback, the time passing |
| `Series` | `Runtime.Series`, after the run, for one of `Requests` |

`GetSeries` and `GetSeriesByIdentifier` are the functions of these names with their writes to `seriesByKey` and
`valueTypesBySymbol` (which the catalog shares). `Configured` stops at the provider that refuses. In a step any of the
flaky keys may fail (`down`). Providers are external: they deliver, fail or refuse. `given`, `aliased` with `overwritten`,
`refused` and `lateBars` are there for the properties. A runtime is asked only until the next `Execute`. Sessions, clocks, logs, the
registered functions and what a bar computes are left out.

### Supervisor

`Rest` to `ProbesDone` are the branches of the loop in `main` of `supervise.py`; `Start`, `Take`, `RunReturns`, `Crash`,
`SaveRecord`, `WriteReport` and `Exit` are a harness process with its workers; `Interrupt` stops everything and starts
the supervisor again from its files. Writing the blacklist is two steps, since opening the file empties it. A
strategy is healthy, a crasher, or one for which no data can be fetched. An interrupt may cut the record being written. Cut in the middle (not `whole`), it is
a record no reader can decode, and a harness that finds one loads none. Cut before its newline (not `ended`), it is read until the next record is appended to its line: `loadRecords` decodes one value
after another and reads both, `read_records` parses line by line and skips both (`Alone`). So the two sides can disagree about what is done.

### Lexer, Parser, TypeCheck, Lowering, Calls, Compiler

A line is its leading whitespace and its characters; a run of letters is one character, since only its length could count.
`AfterLine` is an iteration of `lex` with the indentation stack and the group depth, `TokenAt` the branches of `lexLine`.
`Parser` has one rule per parsing function (`ExprAt`, `PrefixAt`, `SuffixesAt`, `IfAt`, `ArmsAt`, ...), with the parser's look-ahead and its
order of attempts; a rule is a function from a position to a node and the position after it, and `Rules` ties them into one
recursive function. `TypeCheck` threads the environment through expressions as the code does. `Lowering` is
`tryLowerClampCall` over the tree. `Calls` evaluates: `CalleeOf` is the order in which `evalCall` asks who knows a name,
`BindArg` an iteration of `bindNamedCallArgs`, `Called` is `callScriptFunction`, `Instance` is `instantiateType`, `EvalArms` is `execSwitch`.

`Compiler` puts them in sequence: `RunPass`, `LexNextLine`, `LexEnd`, `Parse`, `Check`, `Lower`. A text of `Texts` comes with the
statements it is meant to say, which no action reads.

### Preprocess

One operator per pass, over lines: `StripBlockComments`, `SnapIndentation`, `JoinTrailingOperatorLines`, `SplitStatementCommas`,
`DropEmptyBlocks`, `RewriteArrowAssignmentBody` and the others, and `Passes` is the order of `preprocess` (the two joins and the two drops that
it repeats are repeated). Passes that rename words or rewrite calls are left out: the texts have none of the words they look for. So is `declareSelfReferencingSeries`
(3416-3471), which would put a declaration in front of a script that assigns a name and reads its history: in the texts, only names that are not assigned have an index.

### Rationals, Views, Filter

A float64 is a fraction or NaN. Rounding and overflow are left out; zero divisors, NaN and the conversion of NaN to `int`, which the
machine decides, are not. A series is tabulated: its length, and what `Last(i)` answers up to `Reach`, also beyond
its length, where the queue answers from its buffer. `Filter` is the one view with state, over a queue that goes on being updated; the
slice of the offsets it has found, which only ever gets larger ones, is a set.

### Matrices, Matrix, MatrixHeap

`Matrices` follows the algorithms: elimination with the pivot the code takes, powers by squaring, the predicates with their
treatment of NaN, the mode as the set of what the random order of a Go map lets win. `Matrix` is the script: names hold pointers, a matrix holds
slices of rows, and each builtin writes into the rows or makes new ones where the code does (`Write`, `Replace`, `Make`). An argument
that fails a check is `Error`, which ends the run, as an error of a builtin does. What no name reaches is collected (`Keep`). `MatrixHeap` says what
that is for: each name holds a reference, and a change of one value changes no other; `Separate` in `Matrix` is the refinement. Of the constants `Matrix` assumes that there is a
reference for every name, and that the matrices a run starts from are rectangular and fit the heap.

## 3. What the runs check

| Run | Properties | What it shows |
|---|---|---|
| `SimTrading` | `PyramidingCap`, `Ledger`, `StopHonoured`, `FillsInRange`, `UnarmedExitRests` | everything that moves money except `strategy.order`, on bars that gap |
| `SimOrders` | `TypeOK`, `Bankrupt`, `EquityFloor`, `MarketOrdersExpire`, `RestingIdsUnique`, `NoResurrection` | a leveraged account that can be wiped out, `strategy.order`, cancels, OCA names, limit entries, orders filled on their own close |
| `Queue` | `TypeOK`, `IsAWindow`, `FilterExact`, `ViewsAgree` | the ring implements the window, a filter answers right while its queue stands still, and the algorithms on series agree with each other and with their definitions |
| `Compiler` | `ReadsAsWritten`, `RepairedAsMeant`, `InferredTypesHold`, `LocalsShadow`, `LoweringKeepsMeaning`, `NamedLikePositional` | a text is read as written, a damaged one as meant; static types are those of the values; lowering and named arguments change no value |
| `Matrix` | `IsHeap`, `LinearAlgebra`, `Statistics` | matrices share nothing that they should not, and are computed with right |
| `CallSites` | `HistoryUntilExtended`, `PathsAgree`, `SinceForward` | a derived series is right in the past and at the present until its memo is first extended; the incremental state of an indicator and its series agree; `barssince` and `valuewhen` are right while they never look back behind a bar they looked at |
| `Interp` | `TypeOK`, `CallersKept`, `NoGaps`, `HistoryIsCommitted` | frames, loop variables and histories of nested loops and calls |
| `Engine` | `RunsItsBytecode`, `OneTimeframe`, `ServedAsOffered`, `OneMeaning`, `NoLateFailure`, `BudgetHeld` | compiles, writes, settings and runs in any order: a run executes the bytes it was given, in one timeframe and within the budget, and finds before its first bar the series it keeps to |
| `Supervisor` | `CrashersIsolated`, `NeverRedone`, `Completes` | all 81 populations of four strategies, with two interrupts anywhere that may cut a record, in the middle or before its newline: a completed run has every strategy either recorded or blacklisted; a strategy is recorded again only where the supervisor cannot read its record because that shares a line; the run completes unless all that is pending is recorded for the harness, and from there it never does |

Bounds. `SimTrading` and `SimOrders` make up to three calls over four bars. Three calls are an entry, another
one or a second position, and the exit or reversal that should not meet them; four bars are one to
order, one to fill, one to carry and trigger, one to see what was left behind. The thirteen and fifteen
kinds of call and the three or four bars contain every branch of `Sim`. `Queue` takes the sizes 0 to 5: below, at and
above a power of two, with several turns around the ring (its state space is finite and is explored whole).
`CallSites` takes five bars,
enough for every order of the four branches of the derived memo and for a window of two or three values to turn round;
three prices, all their sequences, length 2 and occurrences 0 and 1. Its window cap (4) does not bind, as 262144 does not. `Interp` nests two deep over three bars
with ten statements about two names, one of which is a variable, a parameter and a loop variable at once; a
history needs three commits to change its store and be read on both sides. `Engine` has two slices, which are interchangeable
and declared symmetric: one cached, one to be mistaken for it. There are two programs, whose references take every form and
fallback; two providers that share a symbol, one of which refuses a timeframe and has no highs; one key that may fail to be
delivered; after a run the host asks for a price derived of each symbol, one more, and a type its provider does not list. Five bars with a look at the clock at every second stand for 64, so that the clock is looked at twice and the last
bar is not one of them. `Supervisor` has four strategies, two workers and probes of two: a
crasher with others in flight, finished, waiting or in another batch of probes; the second interrupt comes while the first one's
damage is being dealt with.

`Compiler` compiles some 20000 texts. Expressions: every operator, suffix and list around every one, around every kind of operand, so each pair of
neighbours in the table of precedences meets on both sides. Statements: every statement with a block before every statement of one line, with
bodies of up to two statements and one more level of blocks. Layouts: dense, spaced with comments and blank lines, argument lists wrapped, values on the next line,
tabs. Damages: lines one column off, broken at any operator or before one, followed by what a copied page leaves, headings,
comments, empty blocks, a last character lost. Sixteen texts are no programs. `Matrix` has two names on a heap of two matrices
and three rows, hence one row too few to copy a second matrix of two rows: what the bounds cut off is a builtin that would make
more rows, and every builtin runs on smaller ones; elements written are 0, 1 and NaN, indices 0, 1, 2, -1/2 and NaN. The algebra is
checked on every state, and the initial matrices, up to 3 by 3 with elements of both signs and halves, are there for it.

Fairness. Only `Completes` is a liveness property, under `WF_vars(System)`: the machine goes on executing. That is all
the code needs: its workers are a counter and a wait group, and its loop has no choice of its own. That a script returns
(`RunReturns` is fair) rests on three bounds: a loop ends after `maxLoopIterations` (100000, `runtime_exec.go:13`), recursion
without end exhausts the stack and is a crash, and a run of many slow bars is ended between two of them by the
execution budget (`SetExecBudget`, `backtest/main.go:622`; `BudgetHeld` of `Engine`). Interrupts are bounded by
`MaxInterrupts` and not fair.

Deadlock is checked, except in `Compiler` and `Matrix`, which stop at the end of a compilation and at an error. Where
the other models end (after the last bar, when the run is complete) they stutter explicitly.

Each property has a mutant: a definition of the model changed as a plausible bug would change it, placed just
before the definition, under which TLC finds the property violated.

### Disagreements between the code and what it says of itself

Each of these runs expects a violation: a comment or a document states the property, and TLC shows an
execution of the code that breaks it.

| Run | Property | What the code does |
|---|---|---|
| `SimOCA` | `OCACancelled` | `processConditionals` rebuilds `pendingCond` from local lists after its loop, so the siblings `cancelOCA` removed come back (sim.go:849-851) |
| `SeriesExtend` | `HistoryAlways` | the memo's missing bars are read with bar numbers used as offsets (builtins.go:3754) |
| `InterpCapture` | `AssignsAreLocal` | an assignment in a function finds the caller's loop binding of that name first (runtime_state.go:386) |

Other disagreements met while modelling, read in the code and followed by the model where it reaches them, without a run of their own:

* sim.go:841: a resting limit entry on a bar that gaps through it fills at the limit, outside the bar; the comment
  (837-840) asks for the open. `SimTrading`, which checks `FillsInRange`, has no limit entries.
* builtins.go:2315-2320: `rsi` over a flat stretch is 50 from the state and 100 from the series (4692-4700); `PathsAgree`
  excludes that case.
* sim.go:726: an exit armed for a position that was closed matches the next position of that id; the comment
  (721-722) says an armed exit whose position is gone is dropped.
* sim.go:212-219: a wipe books a `margin_call` trade per open position, hence none when there is no position; the
  test (control_strategies_test.go:86-87) wants one with every wipe.
* sim.go:35-36 says commission is per fill; `realize` (617-649) charges none.
* sim.go:550-551 averages the price when an order reduces a position; the comment at 547 says it keeps it.
* sim.go:543-546: an opposite `strategy.order` that exactly closes a position deletes it and returns before the cash
  moves.
* A resting order forgets `when`; an exit whose only level is negative becomes a market exit; ready market orders
  of one OCA group all fill; entries and exits share one space of ids.
* hooks.go:323-341: `strategy.order` reads arguments at positions its registered parameter list gives other
  names.
* queue.go:55: `Last(i)` with `i` between the logical and the physical length returns discarded values, where
  series/base.go:15 says zero.
* supervise.py:115-117 blacklists a strategy on any failing exit; line 20 says only crashers are.
* main.go:338: a crash of another worker between a record and its report leaves that strategy without a report
  for good, since a recorded strategy is never selected again.
* runtime_state.go:408: a boolean recorded after numbers starts a second history, and reads go on answering from the
  numeric one. `HistoryIsCommitted` excludes that case by `NoBoolAfterNumber`.
* runtime_exec.go:668-680: only the innermost parameter's argument is followed into the past, so the history of a parameter
  passed on to another function is that of a variable of its name.
* parser.go:249: the word `var` is not kept, so a declaration is executed on every bar; docs/features.md:17 says otherwise.
* builtins.go:5254: `barssince(c)[k]` is evaluated at the current bar and then at the earlier one, for which the memo of the later
  bar counts as fresh, and the true bar is forgotten; `SinceForward` is stated for calls that do not look back so.
* engine.go:682-684: a provider that "fails to supply a required series" is said to be an error of `Execute`; `getSeries` falls back
  to the default series without a word (engine_test.go:1568 relies on that for types nobody offers). `ServedAsOffered` excepts what has failed.
* engine.go:649-651: repeated calls of `Compile` "do not re-parse"; it always parses.
* engine.go:831: the cache keeps the slice of the host, so writing into it changes what the cache takes for equal; `RunsItsBytecode`
  excepts that.
* runtime_series.go:248: the default type of a symbol without a close is the first of the types known by then, and a derived
  one becomes known when it is first computed; `OneMeaning` is stated for symbols with a close.
* engine.go:813: an old runtime loads series lazily from providers to which a later run has given another timeframe.
* main.go:108-128: `saveRecord` ignores errors; such a strategy stays pending.
* main.go:336: "persist immediately so an interrupt loses nothing", and supervise.py:10-11, "finished strategies are never redone". If an interrupt cuts only the newline
  of a record (main.go:127), the next record is appended to its line. supervise.py:51 skips the line and has both strategies pending; main.go:61-71 reads both. If nothing else
  is pending, batches with `-skip-existing` select nothing and exit with 0, so that nothing is ever probed and the supervisor loops for ever; that is `Stuck`, and the second half
  of `Completes` says that a run that gets there never completes. If another strategy crashes a batch first, the probes run both again and write second
  records, which `NeverRedone` allows for records that share a line and for no others. TLC reaches both: without the exceptions the two properties are violated.
* main.go:336 again: a record that an interrupt cuts in half is a line `loadRecords` (68) fails
  on, so no harness starts any more, and supervise.py, which skips the line, takes the failing exits for crashes. `CrashersIsolated` says what is left then.
* engine.go:788: a key such as `B|hl2` that a program spells out is preloaded by `getSeries`, which falls back to the close, and is stored as
  hl2; runtime_series.go:167-168 says derived series are computed from the prices. Indicators then work on the close.
* sim.go:833-846 takes the worse of level and open for resting limit entries as for stops.

Of the compiler:

* features.md:31 lists `^`, which the lexer rejects; features.md:46-47 show `x => x * 2` and `function foo(x) {...}`, which the parser rejects.
* lexer.go:94: the indentation is counted in columns and cut off in bytes, so a line indented by tabs loses the start of its code, or makes `lex` panic.
* parser.go:718-745: a switch used as a value ends without a NEWLINE, so a next statement that starts with `[`, `(` or `-` is read as its
  suffix (`Swallows`); so is, within an indented value, the label of a next case.
* parser.go:71, 106: an expression statement cannot start with a value switch; `not x` on a line of its own is read as a declaration of x.
* typecheck.go:87-89: "every name that is declared or assigned within it (recursing into nested bodies)"; arms that are blocks, tuples and loop variables are missed.
* lowering.go:121 makes clamps of calls of `max` and `min` that the script defines itself, where runtime_calls.go:69 says "Script-defined functions shadow same-named builtins"; a clamp
  differs from what it replaces when the bounds cross or are na, and fails when an argument was named.
* runtime_calls.go:607-633: an argument skipped by named ones leaves a parameter na although it has a default; in a type constructor (542-563) it has the default.
* runtime_calls.go:458-476: named arguments of a script's function are bound to the list of a host function of the same name.
* runtime_exec.go:435-446: a case that is a constant is compared by other rules than one that is not.

Of the preprocessor:

* A `switch` without a subject is a line of one word and is dropped by `dropLoneIdentLines`, whose comment (979-987) names keywords it must not amputate; `LosesSwitch`.
* 1137-1142: the slash after a declaration is to be dropped because the next line starts a statement; the join of trailing operators, which comes first, has glued
  that line to it. It works on the last line only.
* `x := y = if ...` emits `x := y` before the `if` (2331-2333 say the opposite); `x := if ... x ...` sets x to na before the condition is read.
* Two lines `f(x) => y = e`: the second rewrite uses the index its line had before the first (1550-1624).
* 1873-1875: a line one column deep after a dedent goes into the inner block; lines inside parentheses count, though the lexer ignores their indentation.
* A heading between `if` and its body makes `dropEmptyBlocks` drop the `if`; an `if` with only comments before an `else` leaves the `else` alone.
* `renameReservedVarNames` turns `var int x` into `var int_ x`; `dedupeNamedArgs` takes `f(a == 1, a == 2)` for an argument given twice;
  a case `not a =>` is joined to the case before it; an array wrapped before its comma loses the line.

Of matrices and series:

* features.md: `matrix.concat` is vertical, but equal row counts make it horizontal; `matrix.fill`'s arguments are in another order; `matrix.sort(mtx, column, order)` sorts all
  elements whatever it is given; `matrix.diff(mtx, axis)` takes two matrices; `matrix.copy` is no shallow copy.
* matrix.go:757-768: with na among the elements the mode depends on the order of a map. An index that is na is what the machine makes of it.
  `set` takes na, `add_row` and `add_col` do not; `reshape` to no rows forgets the columns; `pinv` fails below full rank.
* series_impl.go:238 and base.go:115 say `Reverse` returns the values in reverse order; it puts them into a new queue from the oldest on (248-251), so the newest is the
  newest again and the order is kept. `ViewsAgree` says that of the code: a copy of the newest n values reads as they do.
* series/base.go:14-15, "Accessing beyond Length returns 0", does not hold for sums and quotients with a number, nor for a queue up to its physical length; 225, "the
  number of complete windows", counts a partial one, which sums values that were evicted. `ViewsAgree` excepts these.
* series/filter.go:27: the offsets a filter has found go stale when its queue is updated; `FilterExact` is stated until then.
* `NextCross` over one bar is NaN and says the lines cross; `Kendall` counts ties as discordant.

## 4. What is proved

| Theorem | States | For |
|---|---|---|
| `SimProofs!Invariance` | `Spec => []Inv` | all ids, calls, quotes and declarations the assumptions allow |
| `TypeCorrect`, `BankruptcyIsFinal`, `EquityHasFloor`, `RestingIdsAreUnique`, `MarketOrdersDoExpire`, `NoStepResurrects` | the properties of `SimOrders` | the same |
| `SimProofs!UnarmedExitsRest` | `UnarmedExitRests` | the same |
| `SimProofs!FillsAreInRange` | `FillsInRange` | scripts without limit entries, no `process_orders_on_close` (`StopEntriesOnly`) |
| `SimProofs!EntriesAreCapped`, `BooksBalance`, `StopsAreHonoured` | `PyramidingCap`, `Ledger`, `StopHonoured` | scripts without `strategy.order` (`EntriesOnly`) |
| `QueueProofs!RingWellFormed` | `Spec => []TypeOK` | all sizes a 64-bit `int` holds, all values |
| `QueueProofs!QueueIsWindow` | `Spec => IsWindow!Spec` | the same |
| `QueueProofs!FilterAnswersRight` | `FilterExact` | all queues, predicates and lengths |
| `CallSitesProofs!SinceIsAScan` | `SinceForward` | any number of bars, all prices and occurrences |
| `CallSitesProofs!DerivedIsHistory` | `HistoryUntilExtended` | as many bars as a 64-bit `int` counts |
| `CallSitesProofs!PathsMeet` | `PathsAgree` | all ten indicators, any number of bars, all prices, all lengths below the cap of the windows |
| `InterpProofs!WellTyped`, `CallersAreKept`, `NoGapsInHistory`, `HistoryReadsBack` | `TypeOK`, `CallersKept`, `NoGaps`, `HistoryIsCommitted` | all scripts: any statements, nested to any depth, over any number of bars |
| `SupervisorProofs!ReadableIsNeverRedone`, `OnlyCrashersAreLost` | `NeverRedone`, `CrashersIsolated` | all manifests and populations, any number of workers, probes and interrupts |
| `SupervisorProofs!StuckIsForEver` | `Spec => [](Stuck => [](pc # "complete"))`, the second half of `Completes` | the same |
| `EngineProofs!RunsAreOfTheirBytes`, `BudgetIsHeld` | `RunsItsBytecode`, `BudgetHeld` | all slices, programs and providers, any stride and number of bars |
| `EngineProofs!RunsAreOfOneTimeframe`, `OffersAreServed`, `NothingFailsLate` | `OneTimeframe`, `ServedAsOffered`, `NoLateFailure` | the same |
| `EngineProofs!DerivedMeanOneThing` | `OneMeaning` | providers that have data for every close they list (`ClosesServed`) |
| `MatrixProofs!MatricesAreSeparate` | `Spec => Separate!Spec` | all names, heaps, elements, indices and ranges |

**Sim.** `Inv` is the conjunction of `TypeOK`, `Orderly`, `Bankrupt`, `EquityFloor` and `RestingIdsUnique`. None of the four
properties is inductive alone. `Bankrupt` needs to know that a wiped account never enters the phases that fill
orders, which is in `Orderly`; unique ids need the locals of `processConditionals` to be empty outside it and every resting
number to be at most `seq`; the type invariant needs that an open position is never empty, because the sign of its
quantity goes into the trades. There is a lemma for the account each helper returns (`RealizeType`, `ApplyFillType`,
`ExecuteEntryType`, `RunBracketsType`, ...), one for each action, and `Invariance` puts them together.
`NoResurrection` follows from `Inv` by cases on the actions.

`UnarmedExitRests` is about a list that is taken apart: `processConditionals` moves what rests on into a list of its own, which
becomes `pendingCond` only after the entries. `Carried` says that in between each unarmed exit of the one is in the other, which is what the last step
needs; `FillKeepsExits` and `GroupKeepsExits`, that neither a fill nor the cancelling of a group takes an exit away. `FillsInRange` needs no
invariant but `Inv`: each way to fill is shown fair (`FairFills`) from prices of the bar, and slippage, which rounds, keeps their order
(`SlippedInRange`). It is proved for what the run checks: a limit entry fills outside a bar that gaps through it, and with
`process_orders_on_close` an order fills at the previous close.

**Books.** `Books` says: the positions have one direction, are at most `max(Pyramiding, 1)`, and the ledger
balances. The heart is `RealizeBalances`: closing `take[i]` units of each position at any prices moves the same amount
out of the positions at cost and into cash less profit. It rests on the lemmas of `SumTheorems`: sums over a finite
set split, can be taken term by term, and do not see their zeros. Those are proved from the definition of
`SumOf` by a finite induction (`FiniteInduction`) on explicit sets, since the library's induction theorems take
an operator. The assumption `EntriesOnly` is needed: `strategy.order` can hold opposite positions, and
loses cash when it closes one exactly.

**Stops.** Between the exits and the end of a bar a stop is in `resting`, then in `cond`: `Protected` says of each that the bar stayed
clear of the fixed stops in it. The step that executes the exits establishes it, and the entries keep it, because a
position they open is of this bar and so is not spoken of, and what they do to one carried into the bar leaves its date and side. That the last stop rests on under the same
number wherever it is moved is `Ranked`. `EntriesOnly` is needed here too: an order that turns a position round leaves it dated on
its first bar, with a stop on its wrong side.

**Queue.** `IsRing` says when `start`, `last` and the length of the buffer agree. The refinement proof shows that an
update moves each read by one slot, by the arithmetic of `%` around the ring (`NextSlot`, `SlotBack`, `SlotShift`).

**Filter.** What makes the cache right is that it holds the *first* offsets that match (`FirstOf`): none that matches is nearer than one it holds.
A scan keeps that (`ExtendedIsFirst`) and gets as far as it was asked to (`ExtendedReaches`), by counting what is nearer.

**CallSites.** For `barssince` and `valuewhen`, `Memoed` says that the memo is what a scan would have found at the last bar looked at, and `RecallsTheScan`
that as long as no earlier bar is asked about, the shortcut through it finds what a scan finds; `RankExists` counts the occurrences. For a derived series,
`Told` says that until it is extended the memo tells the history up to the bar it was made on (`Tells`). The heart is
`FedHasAll`, that a queue given no more values than its size has them all: the ring does not turn. `Fed` is a fold, and that the function it recurs
on exists is proved by hand (`FeedingFeeds`), one number at a time.

For the indicators, `Followed` says how far a call has come: for some `d` it has answered on exactly the bars before `d`, and unless the run has gone
past `d` (a bar was missed, and it says nothing any more) its state is the one `After` those `d` bars; and whatever it has said of a bar the series say too
(`Agree`, with rsi's 50 for 100). `After` is a statement of its own for each kind of state. A window is `Holding` the last `n` of `d` values, wherever its
ring starts; the sums of sma and bb are the totals of the window and of its squares; the sums of rsi those of the gains and losses among the
differences in it; an ema or rma is the average of all values so far, after `n` that are summed; and macd's signal is the ema of the differences of the other two averages since both exist.
`StreamFollows` shows that a value more keeps this, `StreamMeets` that what the state then answers is what the series answer. On the series' side `HistoryIsRead` shows that
reading back from a bar gives the history up to it. Two things made it long. The definitions fold over values, so each fold is shown to take them one at a
time (`FoldsExist`, `TotalRuns`, `EMAAppends`, `RMAAppends`); and bb's variance is a sum of squared distances in the series and a difference of two sums in the state, which are
the same number only because the prices of the model are integers: with floating point they are close. `Length` stays below `MaxIndicatorWindowLength`: over a window that is capped, sma, bb,
highest and lowest answer for the cap instead of the length, and mom, roc and rsi never (builtins.go:2086-2090), while the series take the length they are given.

**Interp.** None of the four properties is inductive. `IInv` is the conjunction of `Types`; `Stacks`, that there is one frame per call and one binding per
loop over numbers; `Saved`, that the frames a call found are still there, and that an inner call found more; `Kept`, that a recorded
variable is in the root's frame and that a root's loop that has borrowed its name remembers it; and `Recordings`, which of the two stores a history is in. `Saved` is why
a function cannot reach its caller's frames: leaving a loop restores a name in the top frame, which is the loop's own because the calls above it have returned.

**Supervisor.** Neither property is inductive. `Actors` says who is at work: the batch alone, or the probes the supervisor waits for,
each on its own strategy, and that none runs while a record is cut in the middle. `Unrecorded` says that what a process has still to do is not
read by the supervisor and not blacklisted, which is where the two readings of the records meet: the harness reads all that the supervisor reads, so a batch does
not run it, and a probe is started for nothing else. `Verdicts` says that only healthy strategies are recorded and
that a probe fails for another reason than its strategy only when a record is cut in the middle; `Blacklists` relates the list in memory, its file
(empty while it is written) and the records. Two lemmas say what a step that leaves `results.jsonl` alone, or appends to it, does to all that is read from it: an append makes at most one strategy readable, may make
one unreadable, and never makes a record readable again (`AppendedRecord`). From that `NeverRedone` follows, for a strategy is only recorded while none of its records can be read. That a run which is `Stuck` stays so is a second invariant, `Idling`: what a batch would
select would be pending, so it selects nothing, records nothing and exits with 0; an interrupt has no record to cut.

**Engine.** `Cached` says that the slice the cache holds on to still has the bytes of the cached program, unless the host has
written into it: both ways to a hit, by the slice and by its contents, rest on it. `SinceLook` bounds the bars begun since the deadline by
`bar % BudgetStride`, which starts over exactly where the clock is looked at. `Fields` says which fields a runtime has. What loads series is one lemma
(`LoadingKeeps`), whatever the catalog answers.

What is said of the series rests on `Stocked`: the store of a run is `Good` key by key. `Right` says what may be held under a key: a series
of the run's timeframe; the provider's own if it offers one and it has not failed; and, if nothing has failed, the one the key means.
That is kept by every way to ask (`AnswersAreRight`, `IdentifiersAreRight`, `ValuesAreRight`), with failures that only weaken it (`KeyStaysGood`). The key of the base series is always held,
hence a symbol's default can be had for the active symbol; `Asked` says that what a program needs is held once the bars begin, from which
`NothingFailsLate` follows. `DerivedMeanOneThing` needs `ClosesServed`: where a price and the close it falls back to are both missing, the series of `hl2` fails, and the value
read bar by bar is made of what is left. A key that was preloaded is excepted, as in the property.

**Matrix.** `HeapInv` says that what a name holds is a matrix of the heap, that the rows of two matrices, and two rows of one, are different slices, and that every
matrix that can be reached is a grid (`IsGrid`: rows of one length). It is needed whole: a row that two matrices shared would let a `set` through one change the other, and
a matrix whose rows were of two lengths would let `add_col` fail half way. The proof has two halves. One is about the heap: writing a value whose rows are fresh or
the matrix's own keeps the invariant and changes that one value (`Rebuilt`), and so each way to write is a step of `MatrixHeap` (`MakeImplements`, `WriteImplements`,
`ReplaceImplements`, `AssignImplements`). The other is about shapes: what each builtin returns for grids is a grid (`PowIsGrid`, `InvIsGrid`, `PinvIsGrid`, ...). An inverse
ends in `Submatrix`, whose shape is that of its bounds whatever the elimination made of the numbers; a power is gone through one bit of the exponent at a time. There is always a free reference (`RoomForMatrix`), because
there are no more reachable matrices than names.

Only model-checked: `ViewsAgree`, the first half of `Completes`, which is liveness, all of `Compiler`, and of `Matrix` what the numbers are (`LinearAlgebra`, `Statistics`). Liveness under fairness is out of the prover's reach.
So is anything about a `RECURSIVE` operator, which the modules of the compiler are built from. What a recursive or folded definition computes for every input has no induction theorem to rest on, and is proved
only where it could be done by hand, for `Fed` and the folds of `Indicators`; `Views` and `Matrices` fold over values and rows too. Of `Matrices` the shape of what they return is proved, which is all the refinement needs.

## 5. The plan

Order of work; the most important behaviour first.

1. *Done.* `Sim` with its proofs; `Queues` and the window; `SeriesMemo`, `Indicators` and `CallSites`; `Supervisor` with its proofs; `Interp`; `Engine`.
2. *Done.* `Lexer`, `Parser`, `TypeCheck`, `Lowering`, `Calls` and `Compiler`, with `Preprocess` in front; `Views` and `Filter`; `Matrix`.
3. Proofs. *Done:* all safety properties of `Sim`, `Queue` (but for the algorithms on series), `Interp`, `Engine`, `Supervisor` and `CallSites`, and the refinement of
   `MatrixHeap`. *Left:* `ViewsAgree`, whose algorithms each need their fold gone through by hand as those of `Indicators` were.
4. The rewriting of `if` used as a value (`rewriteIfExprChain` and its relatives), under `RepairedAsMeant`; indicators without a state over `Rationals`.

## 6. What is not modelled

* Indicators without a state: planned above. Dispatch of the other builtins, strings, colours, drawings: formatting.
* Of `backtest/preprocess.go`, `declareSelfReferencingSeries`, the passes that rename words and rewrite calls of Pine v3 and v4, and those that turn `if` used as a value into
  statements: tables of names and regular expressions over them.
* Of the compiler, character classes, escapes and positions; `normalizePineScriptCompat`; the byte format; methods and the forgiving of misspelt argument names.
* Of the series, what needs roots or exponentials (correlations, `Skew`, `Softmax`, `Sigmoid`, `Entropy`); of matrices, eigenvalues. A rational number has neither.
* Metrics, reports, data extraction: folds over finished results, layout, HTTP and CSV.
* In `Sim`: floating-point rounding, `math.NaN` prices, the trade list's times. In `Interp`: dotted names and user types,
  the second variable of a tuple `for ... in`, and `if`, `switch` and blocks, which choose what is executed and keep no state.
  In `Engine`: sessions, clocks, logs, alerts, `ExecuteStepped`'s callback reentering the engine, and the values of the series.
  In `Supervisor`: the command line and a disk that fails.
