----------------------------- MODULE Supervisor -----------------------------
(***************************************************************************)
(* The full backtest run: the supervisor (backtest/supervise.py) and the   *)
(* harness processes it starts (run in backtest/main.go), which meet in    *)
(* three files: results.jsonl, the reports and blacklist.txt.              *)
(*                                                                         *)
(* A harness process is identified by what it was started for: Batch, or   *)
(* the strategy it probes.  Strategies are numbered in manifest order.     *)
(***************************************************************************)
EXTENDS Integers, Sequences, FiniteSets

CONSTANTS
  Slugs,          \* the strategies of the manifest that are not "skipped"
  Populations,    \* what the strategies may be like: see Kinds
  Workers,        \* --workers
  ProbeSize,      \* 6 in the code
  MaxInterrupts   \* bound: times the machine is interrupted and the run restarted

Batch == 0        \* the process started with -skip-existing

ASSUME SlugsAssumption == IsFiniteSet(Slugs) /\ Slugs \subseteq Nat \ {Batch}

\* A crasher takes the whole process down; ensureData fails for a strategy whose
\* symbol has no data.
Kinds == {"healthy", "crasher", "no data"}
ASSUME PopulationsAssumption == Populations \subseteq [Slugs -> Kinds]
ASSUME SizesAssumption == Workers \in Nat \ {0} /\ ProbeSize \in Nat \ {0} /\ MaxInterrupts \in Nat

VARIABLES
  kind,        \* what each strategy is like, which no step changes
  pc,          \* the supervisor: "loop", "batch", "probe", "blacklist" or "complete"
  probing,     \* supervise.py: probing
  black,       \* supervise.py: black
  waiting,     \* supervise.py: the slugs of procs not yet waited for
  blackFile,   \* blacklist.txt
  records,     \* results.jsonl: the records appended, each whole and its line ended unless
               \* an interrupt cut it
  reports,     \* the reports written
  state,       \* of each process: "none", "starting", "running", "crashed", "failed" or "ok"
  todo,        \* of each process: the selected entries no worker has started
  stage,       \* of each strategy: "idle", "running", "finished" or "recorded"
  interrupts   \* how often the machine was interrupted

files == <<blackFile, records, reports>>
supervisor == <<kind, pc, probing, black, waiting>>
harness == <<state, todo, stage>>
vars == <<files, supervisor, harness, interrupts>>

Procs == Slugs \cup {Batch}
FirstOf(S) == CHOOSE s \in S : \A t \in S : s <= t
\* pending[:n]
FirstFew(S, n) == {s \in S : Cardinality({t \in S : t < s}) < n}

\* A record without its newline shares its line with the one that is appended next.
Alone(i) == /\ i > 1 => records[i - 1].ended
            /\ i < Len(records) => records[i].ended
\* read_records: a line that is not one record is skipped.
ReadRecords ==
  {records[i].slug : i \in {j \in DOMAIN records : records[j].whole /\ Alone(j)}}
\* loadRecords: decodes one record after another, whatever the lines; an error if one
\* does not parse.
Loads == \A j \in DOMAIN records : records[j].whole
LoadRecords == IF Loads THEN {records[j].slug : j \in DOMAIN records} ELSE {}

Strategies(k) == {s \in Slugs : kind[s] = k}
Pending == {s \in Slugs : s \notin ReadRecords /\ s \notin black}

\* Mutant: -skip-existing does not skip.
SelectedAgain(p) == IF p = Batch THEN Slugs \ blackFile ELSE {p}
\* run: the batch leaves out what is recorded or blacklisted; a probe runs its own
\* strategy.
Selected(p) == IF p = Batch THEN Slugs \ (LoadRecords \cup blackFile) ELSE {p}

WorkersOf(p) == IF p = Batch THEN Workers ELSE 1
\* The strategies the workers of p are on.
InFlight(p) == {s \in (IF p = Batch THEN Slugs ELSE {p}) : stage[s] # "idle" /\ state[p] = "running"}

Init ==
  /\ kind \in Populations
  /\ pc = "loop" /\ probing = FALSE /\ black = {} /\ waiting = {}
  /\ blackFile = {} /\ records = <<>> /\ reports = {}
  /\ state = [p \in Procs |-> "none"] /\ todo = [p \in Procs |-> {}]
  /\ stage = [s \in Slugs |-> "idle"]
  /\ interrupts = 0

-----------------------------------------------------------------------------
(* The supervisor's loop. *)

\* Nothing is pending: probing ends, or the run does.
Rest ==
  /\ pc = "loop" /\ Pending = {}
  /\ probing' = FALSE
  /\ pc' = IF probing THEN "loop" ELSE "complete"
  /\ UNCHANGED <<kind, black, waiting, files, harness, interrupts>>

StartBatch ==
  /\ pc = "loop" /\ Pending # {} /\ ~ probing
  /\ state' = [state EXCEPT ![Batch] = "starting"]
  /\ pc' = "batch"
  /\ UNCHANGED <<kind, probing, black, waiting, files, todo, stage, interrupts>>

StartProbes ==
  /\ pc = "loop" /\ Pending # {} /\ probing
  /\ waiting' = FirstFew(Pending, ProbeSize)
  /\ state' = [p \in Procs |-> IF p \in waiting' THEN "starting" ELSE state[p]]
  /\ pc' = "probe"
  /\ UNCHANGED <<kind, probing, black, files, todo, stage, interrupts>>

Exited(p) == state[p] \in {"crashed", "failed", "ok"}

BatchExits ==
  /\ pc = "batch" /\ Exited(Batch)
  /\ probing' = (state[Batch] # "ok")
  /\ state' = [state EXCEPT ![Batch] = "none"]
  /\ pc' = "loop"
  /\ UNCHANGED <<kind, black, waiting, files, todo, stage, interrupts>>

\* Mutant: one failed probe blacklists all that are still running.
BlacklistedAll(s) == IF state[s] # "ok" THEN black \cup waiting ELSE black
\* Mutant: a failed probe is forgotten.
BlacklistedNone(s) == black
Blacklisted(s) == IF state[s] # "ok" THEN black \cup {s} ELSE black

\* The loop over procs: p.wait(), and write_blacklist when the exit code is not 0,
\* which opens the file (and so empties it) before it writes.
ProbeExits ==
  /\ pc = "probe" /\ waiting # {}
  /\ LET s == FirstOf(waiting)
     IN  /\ Exited(s)
         /\ waiting' = waiting \ {s}
         /\ black' = Blacklisted(s)
         /\ IF state[s] # "ok"
            THEN pc' = "blacklist" /\ blackFile' = {}
            ELSE UNCHANGED <<pc, blackFile>>
         /\ state' = [state EXCEPT ![s] = "none"]
  /\ UNCHANGED <<kind, probing, records, reports, todo, stage, interrupts>>

WriteBlacklist ==
  /\ pc = "blacklist"
  /\ blackFile' = black
  /\ pc' = "probe"
  /\ UNCHANGED <<kind, probing, black, waiting, records, reports, harness, interrupts>>

ProbesDone ==
  /\ pc = "probe" /\ waiting = {}
  /\ probing' = FALSE
  /\ pc' = "loop"
  /\ UNCHANGED <<kind, black, waiting, files, harness, interrupts>>

-----------------------------------------------------------------------------
(* A harness process. *)

\* run, up to the workers: loads the records, selects the entries, fetches data.
Start(p) ==
  /\ state[p] = "starting"
  /\ LET ready == Loads /\ Selected(p) \cap Strategies("no data") = {}
     IN  /\ state' = [state EXCEPT ![p] = IF ready THEN "running" ELSE "failed"]
         /\ todo' = [todo EXCEPT ![p] = IF ready THEN Selected(p) ELSE {}]
  /\ UNCHANGED <<supervisor, files, stage, interrupts>>

\* A worker takes the next entry: `sem` admits as many as there are workers.
Take(p) ==
  /\ state[p] = "running" /\ todo[p] # {} /\ Cardinality(InFlight(p)) < WorkersOf(p)
  /\ LET s == FirstOf(todo[p])
     IN  /\ todo' = [todo EXCEPT ![p] = @ \ {s}]
         /\ stage' = [stage EXCEPT ![s] = "running"]
  /\ UNCHANGED <<supervisor, files, state, interrupts>>

\* runOneSafe returns: with a result, a compile error, an execution error, a
\* panic it recovered or the execution budget used up.
RunReturns(p, s) ==
  /\ s \in InFlight(p) /\ stage[s] = "running" /\ kind[s] # "crasher"
  /\ stage' = [stage EXCEPT ![s] = "finished"]
  /\ UNCHANGED <<supervisor, files, state, todo, interrupts>>

\* The workers of p stop, wherever they are.
Stopped(p) == [s \in Slugs |-> IF s \in InFlight(p) THEN "idle" ELSE stage[s]]

\* A fatal error takes the process down with all its workers.
Crash(p, s) ==
  /\ s \in InFlight(p) /\ stage[s] = "running" /\ kind[s] = "crasher"
  /\ state' = [state EXCEPT ![p] = "crashed"]
  /\ todo' = [todo EXCEPT ![p] = {}]
  /\ stage' = Stopped(p)
  /\ UNCHANGED <<supervisor, files, interrupts>>

\* saveRecord appends in one write, under recordMu.
SaveRecord(p, s) ==
  /\ s \in InFlight(p) /\ stage[s] = "finished"
  /\ records' = Append(records, [slug |-> s, whole |-> TRUE, ended |-> TRUE])
  /\ stage' = [stage EXCEPT ![s] = "recorded"]
  /\ UNCHANGED <<supervisor, blackFile, reports, state, todo, interrupts>>

WriteReport(p, s) ==
  /\ s \in InFlight(p) /\ stage[s] = "recorded"
  /\ reports' = reports \cup {s}
  /\ stage' = [stage EXCEPT ![s] = "idle"]
  /\ UNCHANGED <<supervisor, blackFile, records, state, todo, interrupts>>

\* wg.Wait() returns.
Exit(p) ==
  /\ state[p] = "running" /\ todo[p] = {} /\ InFlight(p) = {}
  /\ state' = [state EXCEPT ![p] = "ok"]
  /\ UNCHANGED <<supervisor, files, todo, stage, interrupts>>

Harness(p) ==
  \/ Start(p) \/ Take(p) \/ Exit(p)
  \/ \E s \in Slugs : RunReturns(p, s) \/ Crash(p, s) \/ SaveRecord(p, s) \/ WriteReport(p, s)

-----------------------------------------------------------------------------
(* The environment. *)

\* Everything stops, and the supervisor is started again.  A record being written may
\* stay cut, in the middle or before its newline.
Interrupt ==
  /\ pc # "complete" /\ interrupts < MaxInterrupts
  /\ interrupts' = interrupts + 1
  /\ \/ UNCHANGED records
     \/ \E s \in Slugs, whole \in BOOLEAN :
          /\ stage[s] = "finished"
          /\ records' = Append(records, [slug |-> s, whole |-> whole, ended |-> FALSE])
  /\ pc' = "loop" /\ probing' = FALSE /\ waiting' = {} /\ black' = blackFile
  /\ state' = [p \in Procs |-> "none"] /\ todo' = [p \in Procs |-> {}]
  /\ stage' = [s \in Slugs |-> "idle"]
  /\ UNCHANGED <<kind, blackFile, reports>>

Supervise ==
  Rest \/ StartBatch \/ StartProbes \/ BatchExits \/ ProbeExits \/ WriteBlacklist \/ ProbesDone
System == Supervise \/ \E p \in Procs : Harness(p)
Complete == pc = "complete" /\ UNCHANGED vars

Next == System \/ Interrupt \/ Complete
Spec == Init /\ [][Next]_vars
\* The machine goes on executing; the execution budget ends a script that hangs.
FairSpec == Spec /\ WF_vars(System)

-----------------------------------------------------------------------------
\* A crash isolates its own strategy: when the run is complete every healthy
\* strategy has its record, and exactly the others are blacklisted, however many
\* workers went down with the crasher.  A record that an interrupt cut in the middle
\* keeps the harness from starting ever after: then strategies are blacklisted that
\* never crashed, but still none is forgotten, and none is both.
CrashersIsolated ==
  pc = "complete" => /\ ReadRecords = Slugs \ black
                     /\ ReadRecords \subseteq Strategies("healthy")
                     /\ Loads => ReadRecords = Strategies("healthy")

\* Finished strategies are never redone (supervise.py), although the supervisor and
\* the harness each read the records for themselves: if a strategy has two records, the
\* supervisor cannot read the first because it shares its line with another.
NeverRedone ==
  \A i, j \in DOMAIN records : i < j /\ records[i].slug = records[j].slug => ~ Alone(i)

\* A batch is to run what the supervisor cannot read and the harness can.
Stuck == pc = "loop" /\ ~ probing /\ Pending # {} /\ Pending \subseteq LoadRecords

\* The run completes, whatever crashes, however often it is interrupted and whatever
\* record that cuts, unless it gets to where batches that select nothing exit with 0;
\* and from there it never does.
Completes == /\ <>(pc = "complete" \/ Stuck)
             /\ [](Stuck => [](pc # "complete"))
=============================================================================
