-------------------------- MODULE SupervisorProofs --------------------------
(***************************************************************************)
(* For every manifest, whatever its strategies are like, any number of     *)
(* workers and any probe size, and however often the run is interrupted:   *)
(* no strategy is recorded again while the supervisor can read its record, *)
(* a completed run has blacklisted exactly the strategies it could not     *)
(* record, and one that has nothing left but what it cannot read never     *)
(* completes.                                                              *)
(***************************************************************************)
EXTENDS Supervisor, SumTheorems

Record == [slug : Slugs, whole : BOOLEAN, ended : BOOLEAN]
Recorded == {records[i].slug : i \in DOMAIN records}

\* The sets the state ranges over.
Types ==
  /\ kind \in [Slugs -> Kinds]
  /\ records \in Seq(Record)
  /\ state \in [Procs -> {"none", "starting", "running", "crashed", "failed", "ok"}]
  /\ todo \in [Procs -> SUBSET Slugs]
  /\ stage \in [Slugs -> {"idle", "running", "finished", "recorded"}]
  /\ waiting \subseteq Slugs /\ black \subseteq Slugs /\ blackFile \subseteq Slugs

\* Who is at work: the batch alone, or the probes waited for, each on its own strategy.
Actors ==
  /\ state[Batch] # "none" => pc = "batch"
  /\ \A p \in Slugs : /\ state[p] # "none" => pc \in {"probe", "blacklist"} /\ p \in waiting
                      /\ todo[p] \subseteq {p}
                      /\ stage[p] # "idle" => state[p] = "running" \/ state[Batch] = "running"
  /\ \A p \in Procs : /\ todo[p] # {} => state[p] = "running"
                      /\ state[p] = "running" => Loads

\* Strategies still to be recorded are neither read as recorded nor blacklisted, and a
\* strategy nobody has started is not being run.
Unrecorded ==
  /\ \A p \in Procs : \A s \in todo[p] :
       s \notin ReadRecords /\ s \notin black /\ kind[s] # "no data" /\ stage[s] = "idle"
  /\ \A s \in Slugs : stage[s] \in {"running", "finished"} =>
       s \notin ReadRecords /\ s \notin black /\ kind[s] # "no data"
  /\ \A s \in Slugs : state[s] = "starting" => s \notin ReadRecords

\* Only healthy strategies are recorded, and a probe fails for a strategy that is not
\* healthy, or because an interrupt cut a record.
Verdicts ==
  /\ \A s \in Recorded : kind[s] = "healthy"
  /\ \A s \in Slugs : stage[s] = "finished" => kind[s] = "healthy"
  /\ \A s \in Slugs : state[s] \in {"crashed", "failed"} =>
       s \notin ReadRecords /\ (kind[s] = "healthy" => ~ Loads)

\* The blacklist, in memory and in its file.
Blacklists ==
  /\ blackFile \subseteq black
  /\ pc # "blacklist" => blackFile = black
  /\ waiting \cap black = {}
  /\ black \cap ReadRecords = {}
  /\ Loads => \A s \in black : kind[s] # "healthy"

\* The inductive invariant.
IInv ==
  /\ Types /\ Actors /\ Unrecorded /\ Verdicts /\ Blacklists
  /\ NeverRedone
  /\ pc = "complete" => Pending = {}

\* FirstOf picks one of the strategies it is given.
LEMMA FirstIsOne ==
  ASSUME NEW S, S \subseteq Slugs, S # {}
  PROVE  FirstOf(S) \in S
<1>1. PICK s \in S : \A t \in S : s <= t
  BY SlugsAssumption, LeastNatural
<1> QED BY <1>1 DEF FirstOf

-----------------------------------------------------------------------------
(* The records. *)

\* What is read is recorded.
LEMMA RecordsRead ==
  ASSUME Types
  PROVE  ReadRecords \subseteq Recorded /\ Recorded \subseteq Slugs
<1>1. \A i \in DOMAIN records : records[i].slug \in Slugs
  <2>1. \A i \in DOMAIN records : records[i] \in Record
    BY DEF Types
  <2> QED BY <2>1 DEF Record
<1> QED BY <1>1 DEF ReadRecords, Recorded

\* A step that leaves results.jsonl alone.
LEMMA SameRecords ==
  ASSUME records' = records
  PROVE  /\ Recorded' = Recorded /\ ReadRecords' = ReadRecords
         /\ Loads' = Loads /\ NeverRedone' = NeverRedone
BY DEF ReadRecords, Recorded, Loads, NeverRedone, Alone

\* A step that appends a record: the supervisor reads at most this one more, and may read
\* one less. If it could not read one of this strategy, it cannot after it.
LEMMA AppendedRecord ==
  ASSUME Types, Loads, NEW s \in Slugs, NEW whole \in BOOLEAN, NEW ended \in BOOLEAN,
         records' = Append(records, [slug |-> s, whole |-> whole, ended |-> ended])
  PROVE  /\ records' \in Seq(Record)
         /\ Recorded' = Recorded \cup {s}
         /\ ReadRecords' \subseteq ReadRecords \cup {s}
         /\ Loads' = whole
         /\ NeverRedone /\ s \notin ReadRecords => NeverRedone'
<1> DEFINE r == [slug |-> s, whole |-> whole, ended |-> ended]
           n == Len(records) + 1
<1>1. r \in Record /\ r.slug = s /\ r.whole = whole
  BY DEF Record
<1>2. records' \in Seq(Record) /\ DOMAIN records = 1 .. Len(records) /\ Len(records) \in Nat
  BY <1>1 DEF Types
<1>3. /\ DOMAIN records' = DOMAIN records \cup {n} /\ Len(records') = n
      /\ records'[n] = r /\ n \notin DOMAIN records
      /\ \A i \in DOMAIN records : records'[i] = records[i] /\ i < n
  BY <1>1, <1>2 DEF Types
<1>4. \A i \in DOMAIN records : Alone(i)' => Alone(i)
  <2> SUFFICES ASSUME NEW i \in DOMAIN records, Alone(i)' PROVE Alone(i)
    OBVIOUS
  <2>1. i \in Nat /\ i >= 1 /\ i <= Len(records)
    BY <1>2
  <2>2. i > 1 => i - 1 \in DOMAIN records
    BY <1>2, <2>1
  <2>3. i > 1 => records[i - 1].ended
    BY <1>3, <2>2 DEF Alone
  <2>4. i < Len(records) => i < Len(records')
    BY <1>2, <1>3, <2>1
  <2>5. i < Len(records) => records[i].ended
    BY <1>3, <2>4 DEF Alone
  <2> QED BY <2>3, <2>5 DEF Alone
<1> HIDE DEF r, n
<1>5. Recorded' = Recorded \cup {s}
  BY <1>1, <1>3 DEF Recorded
<1>6. Loads' = whole
  BY <1>1, <1>3 DEF Loads
<1>7. ReadRecords' \subseteq ReadRecords \cup {s}
  BY <1>1, <1>3, <1>4 DEF ReadRecords
<1>8. ASSUME NeverRedone, s \notin ReadRecords PROVE NeverRedone'
  <2> SUFFICES ASSUME NEW i \in DOMAIN records', NEW j \in DOMAIN records',
                      i < j, records'[i].slug = records'[j].slug
               PROVE  ~ Alone(i)'
    BY DEF NeverRedone
  <2>1. i \in DOMAIN records
    BY <1>2, <1>3
  <2>2. CASE j \in DOMAIN records
    BY <1>3, <1>4, <1>8, <2>1, <2>2 DEF NeverRedone
  <2>3. CASE j = n
    <3>1. records[i].slug = s /\ records[i].whole
      BY <1>1, <1>3, <2>1, <2>3 DEF Loads
    <3>2. ~ Alone(i)
      BY <1>8, <2>1, <3>1 DEF ReadRecords
    <3> QED BY <1>4, <2>1, <3>2
  <2> QED BY <1>3, <2>2, <2>3
<1> QED BY <1>2, <1>5, <1>6, <1>7, <1>8

-----------------------------------------------------------------------------
(* The steps. *)

\* Every run starts in the invariant.
LEMMA StartsInIInv == ASSUME Init PROVE IInv
<1>1. Batch \in Procs /\ \A p \in Procs : state[p] = "none" /\ todo[p] = {}
  BY DEF Init, Procs
<1>2. Recorded = {} /\ ReadRecords = {} /\ NeverRedone /\ records \in Seq(Record)
  BY DEF Init, Recorded, ReadRecords, NeverRedone
<1>3. Types
  BY <1>2, PopulationsAssumption DEF Init, Types
<1> QED
  BY <1>1, <1>2, <1>3 DEF Init, IInv, Actors, Unrecorded, Verdicts, Blacklists, Procs

\* The steps of the supervisor.
LEMMA SupervisorKeeps == ASSUME IInv, Supervise PROVE IInv'
<1> USE SlugsAssumption DEF Batch, Procs
<1>a. /\ Types /\ Actors /\ Unrecorded /\ Verdicts /\ Blacklists /\ NeverRedone
      /\ pc = "complete" => Pending = {}
  BY DEF IInv
<1>b. records' = records
  BY DEF Supervise, Rest, StartBatch, StartProbes, BatchExits, ProbeExits, WriteBlacklist,
         ProbesDone, files
<1>c. /\ Recorded' = Recorded /\ ReadRecords' = ReadRecords
      /\ Loads' = Loads /\ NeverRedone'
  BY <1>a, <1>b, SameRecords
<1>1. CASE Rest
  BY <1>1, <1>a, <1>b, <1>c
     DEF Rest, IInv, Types, Actors, Unrecorded, Verdicts, Blacklists, files, harness, Pending
<1>2. CASE StartBatch
  BY <1>2, <1>a, <1>b, <1>c
     DEF StartBatch, IInv, Types, Actors, Unrecorded, Verdicts, Blacklists, files, Pending
<1>3. CASE StartProbes
  BY <1>3, <1>a, <1>b, <1>c
     DEF StartProbes, IInv, Types, Actors, Unrecorded, Verdicts, Blacklists, files, Pending, FirstFew
<1>4. CASE BatchExits
  BY <1>4, <1>a, <1>b, <1>c
     DEF BatchExits, IInv, Types, Actors, Unrecorded, Verdicts, Blacklists, files, Pending, Exited
<1>5. CASE ProbeExits
  <2> DEFINE s == FirstOf(waiting)
  <2>1. s \in waiting
    BY <1>5, <1>a, FirstIsOne DEF ProbeExits, Types
  <2>2. /\ pc = "probe" /\ state[s] \in {"crashed", "failed", "ok"}
        /\ waiting' = waiting \ {s} /\ state' = [state EXCEPT ![s] = "none"]
        /\ black' = IF state[s] # "ok" THEN black \cup {s} ELSE black
        /\ IF state[s] # "ok" THEN pc' = "blacklist" /\ blackFile' = {}
                              ELSE pc' = "probe" /\ blackFile' = blackFile
        /\ UNCHANGED <<kind, todo, stage>>
    BY <1>5 DEF ProbeExits, Exited, Blacklisted
  <2> HIDE DEF s
  <2>3. Types'
    BY <2>1, <2>2, <1>a, <1>b DEF Types
  <2>4. Actors'
    BY <2>1, <2>2, <1>a, <1>c DEF Types, Actors
  <2>5. stage[s] = "idle" /\ \A p \in Procs : s \notin todo[p]
    BY <2>1, <2>2, <1>a DEF Types, Actors
  <2>6. Unrecorded' /\ Verdicts'
    BY <2>1, <2>2, <2>5, <1>a, <1>c DEF Types, Unrecorded, Verdicts
  <2>7. Blacklists'
    BY <2>1, <2>2, <1>a, <1>c DEF Types, Verdicts, Blacklists
  <2> QED BY <2>2, <2>3, <2>4, <2>6, <2>7, <1>c DEF IInv
<1>6. CASE WriteBlacklist
  BY <1>6, <1>a, <1>b, <1>c
     DEF WriteBlacklist, IInv, Types, Actors, Unrecorded, Verdicts, Blacklists, harness, Pending
<1>7. CASE ProbesDone
  BY <1>7, <1>a, <1>b, <1>c
     DEF ProbesDone, IInv, Types, Actors, Unrecorded, Verdicts, Blacklists, files, harness, Pending
<1> QED
  BY <1>1, <1>2, <1>3, <1>4, <1>5, <1>6, <1>7 DEF Supervise

\* The steps of a harness process.
LEMMA HarnessKeeps ==
  ASSUME IInv, NEW p \in Procs, Harness(p)
  PROVE  IInv'
<1> USE SlugsAssumption DEF Batch, Procs
<1>a. /\ Types /\ Actors /\ Unrecorded /\ Verdicts /\ Blacklists /\ NeverRedone
      /\ pc = "complete" => Pending = {}
      /\ ReadRecords \subseteq Recorded /\ Recorded \subseteq Slugs
  BY RecordsRead DEF IInv
<1>b. /\ UNCHANGED <<kind, pc, probing, black, waiting, blackFile>>
      /\ state[p] # "none" /\ pc # "complete"
  BY <1>a DEF Harness, Start, Take, Exit, RunReturns, Crash, SaveRecord, WriteReport, supervisor,
         files, InFlight, Actors
<1>c. records' = records => /\ Recorded' = Recorded /\ ReadRecords' = ReadRecords
                        /\ Loads' = Loads /\ NeverRedone'
  BY <1>a, SameRecords
<1>1. CASE Start(p)
  <2>1. records' = records /\ stage' = stage /\ state[p] = "starting"
    BY <1>1 DEF Start, files
  <2>0. Recorded' = Recorded /\ ReadRecords' = ReadRecords /\ Loads' = Loads /\ NeverRedone'
    BY <2>1, <1>c
  <2>2. CASE state' = [state EXCEPT ![p] = "failed"] /\ todo' = [todo EXCEPT ![p] = {}]
             /\ ~ (Loads /\ Selected(p) \cap Strategies("no data") = {})
    <3>1. Types' /\ Actors' /\ Unrecorded' /\ Blacklists'
      BY <2>1, <2>2, <1>a, <1>b, <2>0 DEF Types, Actors, Unrecorded, Blacklists
    <3>2. p \in Slugs /\ Loads => kind[p] = "no data"
      BY <2>2, <1>a DEF Selected, Strategies, Types
    <3>3. Verdicts'
      BY <2>1, <2>2, <3>2, <1>a, <1>b, <2>0 DEF Types, Unrecorded, Verdicts
    <3> QED BY <2>1, <3>1, <3>3, <1>b, <2>0 DEF IInv
  <2>3. CASE state' = [state EXCEPT ![p] = "running"] /\ todo' = [todo EXCEPT ![p] = Selected(p)]
             /\ Loads /\ Selected(p) \cap Strategies("no data") = {}
    <3>1. Selected(p) \subseteq Slugs /\ (p \in Slugs => Selected(p) = {p})
      BY DEF Selected
    <3>2. \A s \in Selected(p) : s \notin ReadRecords /\ s \notin black
      BY <2>1, <2>3, <1>a DEF Selected, LoadRecords, Recorded, Actors, Unrecorded, Blacklists, Types
    <3>3. \A s \in Selected(p) : kind[s] # "no data" /\ stage[s] = "idle"
      BY <2>1, <2>3, <3>1, <1>a DEF Strategies, Actors, Types, Selected
    <3>4. Types' /\ Actors'
      BY <2>1, <2>3, <3>1, <1>a, <1>b, <2>0 DEF Types, Actors
    <3>5a. Unrecorded'
      BY <2>1, <2>3, <3>1, <3>2, <3>3, <1>a, <1>b, <2>0 DEF Types, Unrecorded
    <3>5b. Verdicts'
      BY <2>1, <2>3, <3>1, <3>2, <3>3, <1>a, <1>b, <2>0 DEF Types, Verdicts
    <3>5c. Blacklists'
      BY <2>1, <2>3, <3>1, <3>2, <3>3, <1>a, <1>b, <2>0 DEF Types, Blacklists
    <3> QED BY <2>1, <3>4, <3>5a, <3>5b, <3>5c, <1>b, <2>0 DEF IInv
  <2> QED BY <1>1, <2>2, <2>3 DEF Start
<1>2. CASE Take(p)
  <2> DEFINE s == FirstOf(todo[p])
  <2>1. /\ state[p] = "running" /\ todo' = [todo EXCEPT ![p] = todo[p] \ {s}]
        /\ stage' = [stage EXCEPT ![s] = "running"] /\ UNCHANGED <<state, records>>
    BY <1>2 DEF Take, files
  <2>0. Recorded' = Recorded /\ ReadRecords' = ReadRecords /\ Loads' = Loads /\ NeverRedone'
    BY <2>1, <1>c
  <2>2. s \in todo[p] /\ s \in Slugs
    BY <1>2, <1>a, FirstIsOne DEF Take, Types
  <2> HIDE DEF s
  <2>3. \A q \in Procs : q # p => s \notin todo[q]
    BY <2>1, <2>2, <1>a DEF Types, Actors
  <2>4. Types' /\ Actors'
    BY <2>1, <2>2, <1>a, <1>b, <2>0 DEF Types, Actors
  <2>5a. Unrecorded'
    BY <2>1, <2>2, <2>3, <1>a, <1>b, <2>0 DEF Types, Unrecorded
  <2>5b. Verdicts'
    BY <2>1, <2>2, <2>3, <1>a, <1>b, <2>0 DEF Types, Verdicts
  <2>5c. Blacklists'
    BY <2>1, <2>2, <2>3, <1>a, <1>b, <2>0 DEF Types, Blacklists
  <2> QED BY <2>1, <2>4, <2>5a, <2>5b, <2>5c, <1>b, <2>0 DEF IInv
<1>3. CASE Exit(p)
  <2>1. /\ state[p] = "running" /\ todo[p] = {} /\ InFlight(p) = {}
        /\ state' = [state EXCEPT ![p] = "ok"] /\ UNCHANGED <<records, todo, stage>>
    BY <1>3 DEF Exit, files
  <2>0. Recorded' = Recorded /\ ReadRecords' = ReadRecords /\ Loads' = Loads /\ NeverRedone'
    BY <2>1, <1>c
  <2>2. Types' /\ Actors'
    BY <2>1, <1>a, <1>b, <2>0 DEF Types, Actors, InFlight
  <2>3a. Unrecorded'
    BY <2>1, <1>a, <1>b, <2>0 DEF Types, Unrecorded
  <2>3b. Verdicts'
    BY <2>1, <1>a, <1>b, <2>0 DEF Types, Verdicts
  <2>3c. Blacklists'
    BY <2>1, <1>a, <1>b, <2>0 DEF Types, Blacklists
  <2> QED BY <2>1, <2>2, <2>3a, <2>3b, <2>3c, <1>b, <2>0 DEF IInv
<1>4. ASSUME NEW s \in Slugs, RunReturns(p, s) PROVE IInv'
  <2>1. /\ stage[s] = "running" /\ kind[s] # "crasher"
        /\ stage' = [stage EXCEPT ![s] = "finished"] /\ UNCHANGED <<records, state, todo>>
    BY <1>4 DEF RunReturns, files
  <2>0. Recorded' = Recorded /\ ReadRecords' = ReadRecords /\ Loads' = Loads /\ NeverRedone'
    BY <2>1, <1>c
  <2>2. kind[s] = "healthy"
    BY <2>1, <1>a DEF Types, Kinds, Unrecorded
  <2>3. Types' /\ Actors'
    BY <2>1, <1>a, <1>b, <2>0 DEF Types, Actors
  <2>4a. Unrecorded'
    BY <2>1, <2>2, <1>a, <1>b, <2>0 DEF Types, Unrecorded
  <2>4b. Verdicts'
    BY <2>1, <2>2, <1>a, <1>b, <2>0 DEF Types, Verdicts
  <2>4c. Blacklists'
    BY <2>1, <2>2, <1>a, <1>b, <2>0 DEF Types, Blacklists
  <2> QED BY <2>1, <2>3, <2>4a, <2>4b, <2>4c, <1>b, <2>0 DEF IInv
<1>5. ASSUME NEW s \in Slugs, Crash(p, s) PROVE IInv'
  <2>1. /\ s \in InFlight(p) /\ kind[s] = "crasher"
        /\ state' = [state EXCEPT ![p] = "crashed"] /\ todo' = [todo EXCEPT ![p] = {}]
        /\ stage' = [t \in Slugs |-> IF t \in InFlight(p) THEN "idle" ELSE stage[t]]
        /\ records' = records
    BY <1>5 DEF Crash, Stopped, files
  <2>0. Recorded' = Recorded /\ ReadRecords' = ReadRecords /\ Loads' = Loads /\ NeverRedone'
    BY <2>1, <1>c
  <2>2. state[p] = "running"
    BY <2>1 DEF InFlight
  <2>3. p \in Slugs => kind[p] = "crasher"
    BY <2>1 DEF InFlight
  <2>4. \A t \in Slugs : stage'[t] \in {"idle", stage[t]}
    BY <2>1
  <2>5. Types'
    BY <2>1, <2>4, <1>a, <1>b DEF Types
  <2>6. Actors'
    BY <2>1, <2>2, <1>a, <1>b, <2>0 DEF Types, Actors, InFlight
  <2>7a. Unrecorded'
    BY <2>1, <2>3, <2>4, <1>a, <1>b, <2>0 DEF Types, Unrecorded
  <2>7b. Verdicts'
    BY <2>1, <2>3, <2>4, <1>a, <1>b, <2>0 DEF Types, Verdicts
  <2>7c. Blacklists'
    BY <2>1, <2>3, <2>4, <1>a, <1>b, <2>0 DEF Types, Blacklists
  <2> QED BY <2>1, <2>5, <2>6, <2>7a, <2>7b, <2>7c, <1>b, <2>0 DEF IInv
<1>6. ASSUME NEW s \in Slugs, SaveRecord(p, s) PROVE IInv'
  <2>1. /\ s \in InFlight(p) /\ stage[s] = "finished" /\ state[p] = "running"
        /\ stage' = [stage EXCEPT ![s] = "recorded"] /\ UNCHANGED <<state, todo>>
        /\ records' = Append(records, [slug |-> s, whole |-> TRUE, ended |-> TRUE])
    BY <1>6 DEF SaveRecord, InFlight
  <2>2. Loads
    BY <2>1, <1>a DEF Actors
  <2>0. /\ Recorded' = Recorded \cup {s} /\ ReadRecords' \subseteq ReadRecords \cup {s}
        /\ Loads' /\ records' \in Seq(Record)
    BY <2>1, <2>2, <1>a, AppendedRecord
  <2>3. s \notin ReadRecords /\ s \notin black /\ kind[s] = "healthy"
        /\ \A q \in Procs : s \notin todo[q]
    BY <2>1, <1>a DEF Unrecorded, Verdicts, Actors
  <2>4. NeverRedone'
    BY <2>1, <2>2, <2>3, <1>a, AppendedRecord
  <2>5. Types' /\ Actors'
    BY <2>1, <2>0, <2>2, <1>a, <1>b DEF Types, Actors
  <2>6. state[s] \notin {"starting", "crashed", "failed"}
    BY <2>1, <1>a DEF Actors, InFlight
  <2>7a. Unrecorded'
    BY <2>1, <2>0, <2>2, <2>3, <2>6, <1>a, <1>b DEF Types, Unrecorded
  <2>7b. Verdicts'
    BY <2>1, <2>0, <2>2, <2>3, <2>6, <1>a, <1>b DEF Types, Verdicts
  <2>7c. Blacklists'
    BY <2>1, <2>0, <2>2, <2>3, <2>6, <1>a, <1>b DEF Types, Blacklists
  <2> QED BY <2>4, <2>5, <2>7a, <2>7b, <2>7c, <1>b DEF IInv
<1>7. ASSUME NEW s \in Slugs, WriteReport(p, s) PROVE IInv'
  <2>1. stage' = [stage EXCEPT ![s] = "idle"] /\ UNCHANGED <<records, state, todo>>
    BY <1>7 DEF WriteReport
  <2>0. Recorded' = Recorded /\ ReadRecords' = ReadRecords /\ Loads' = Loads /\ NeverRedone'
    BY <2>1, <1>c
  <2>2. Types' /\ Actors'
    BY <2>1, <1>a, <1>b, <2>0 DEF Types, Actors
  <2>3a. Unrecorded'
    BY <2>1, <1>a, <1>b, <2>0 DEF Types, Unrecorded
  <2>3b. Verdicts'
    BY <2>1, <1>a, <1>b, <2>0 DEF Types, Verdicts
  <2>3c. Blacklists'
    BY <2>1, <1>a, <1>b, <2>0 DEF Types, Blacklists
  <2> QED BY <2>1, <2>2, <2>3a, <2>3b, <2>3c, <1>b, <2>0 DEF IInv
<1> QED BY <1>1, <1>2, <1>3, <1>4, <1>5, <1>6, <1>7 DEF Harness

\* Everything stops, and the supervisor reads the files again.
LEMMA InterruptKeeps == ASSUME IInv, Interrupt PROVE IInv'
<1> USE SlugsAssumption DEF Batch, Procs
<1>a. /\ Types /\ Actors /\ Unrecorded /\ Verdicts /\ Blacklists /\ NeverRedone
      /\ ReadRecords \subseteq Recorded /\ Recorded \subseteq Slugs
  BY RecordsRead DEF IInv
<1>b. /\ pc' = "loop" /\ waiting' = {} /\ black' = blackFile /\ UNCHANGED <<kind, blackFile>>
      /\ state' = [p \in Procs |-> "none"] /\ todo' = [p \in Procs |-> {}]
      /\ stage' = [s \in Slugs |-> "idle"]
  BY DEF Interrupt
<1>1. /\ records' \in Seq(Record) /\ NeverRedone' /\ ReadRecords' \cap black = {}
      /\ \A s \in Recorded' : kind[s] = "healthy"
      /\ Loads' => Loads
  <2>1. CASE records' = records
    <3>1. /\ Recorded' = Recorded /\ ReadRecords' = ReadRecords
          /\ Loads' = Loads /\ NeverRedone'
      BY <2>1, <1>a, SameRecords
    <3>2. ReadRecords \cap black = {}
      BY <1>a DEF Blacklists
    <3> QED BY <2>1, <3>1, <3>2, <1>a DEF Types, Verdicts
  <2>2. ASSUME NEW s \in Slugs, NEW whole \in BOOLEAN, stage[s] = "finished",
               records' = Append(records, [slug |-> s, whole |-> whole, ended |-> FALSE])
        PROVE  <1>1!:
    <3>1. kind[s] = "healthy" /\ s \notin ReadRecords /\ s \notin black
      BY <2>2, <1>a DEF Verdicts, Unrecorded
    <3>2. Loads
      BY <2>2, <1>a DEF Actors
    <3>3. /\ records' \in Seq(Record) /\ Recorded' = Recorded \cup {s}
          /\ ReadRecords' \subseteq ReadRecords \cup {s} /\ NeverRedone'
      BY <2>2, <3>1, <3>2, <1>a, AppendedRecord
    <3> QED BY <3>1, <3>2, <3>3, <1>a DEF Verdicts, Blacklists
  <2> QED BY <2>1, <2>2 DEF Interrupt
<1>2. Types' /\ Actors'
  BY <1>a, <1>b, <1>1 DEF Types, Actors
<1>3. Unrecorded' /\ Verdicts' /\ Blacklists'
  BY <1>a, <1>b, <1>1 DEF Unrecorded, Verdicts, Blacklists
<1> QED BY <1>b, <1>1, <1>2, <1>3 DEF IInv

\* Every step preserves the invariant.
LEMMA StepsKeepIInv == ASSUME IInv, [Next]_vars PROVE IInv'
<1>1. CASE UNCHANGED vars
  <2>1. Recorded' = Recorded /\ ReadRecords' = ReadRecords /\ Loads' = Loads /\ NeverRedone'
    BY <1>1, SameRecords DEF vars, files, IInv
  <2> QED
    BY <1>1, <2>1 DEF vars, files, supervisor, harness, IInv, Types, Actors, Unrecorded, Verdicts,
                      Blacklists, Pending
<1> QED
  BY <1>1, SupervisorKeeps, HarnessKeeps, InterruptKeeps DEF Next, System, Complete

\* The invariant holds in every state.
LEMMA IInvHolds == Spec => []IInv
<1> QED BY StartsInIInv, StepsKeepIInv, PTL DEF Spec

-----------------------------------------------------------------------------
\* Whatever crashes, and however often the run is interrupted and started again, a
\* strategy is recorded again only if an interrupt cut the newline of a record, and the
\* line it shares is one read_records skips (loadRecords does not).
THEOREM ReadableIsNeverRedone == Spec => []NeverRedone
<1>1. IInv => NeverRedone
  BY DEF IInv
<1> QED BY <1>1, IInvHolds, PTL

\* A completed run has recorded only healthy strategies and blacklisted all the others,
\* which are exactly the unhealthy ones unless an interrupt has cut a record (supervise.py).
THEOREM OnlyCrashersAreLost == Spec => []CrashersIsolated
<1>1. ASSUME IInv PROVE CrashersIsolated
  <2>1. ASSUME pc = "complete"
        PROVE  /\ ReadRecords = Slugs \ black
               /\ ReadRecords \subseteq Strategies("healthy")
               /\ Loads => ReadRecords = Strategies("healthy")
    <3>1. ReadRecords \subseteq Recorded /\ Recorded \subseteq Slugs
      BY <1>1, RecordsRead DEF IInv
    <3>2. ReadRecords = Slugs \ black
      BY <1>1, <2>1, <3>1 DEF IInv, Pending, Blacklists
    <3>3. ReadRecords \subseteq Strategies("healthy")
      BY <1>1, <3>1 DEF IInv, Verdicts, Strategies
    <3>4. Loads => Strategies("healthy") \subseteq ReadRecords
      BY <1>1, <3>2 DEF IInv, Blacklists, Strategies
    <3> QED BY <3>2, <3>3, <3>4
  <2> QED BY <2>1 DEF CrashersIsolated
<1> QED BY <1>1, IInvHolds, PTL

-----------------------------------------------------------------------------
(* The loop that has no end. *)

\* All that is pending is recorded, and nothing runs but batches that select nothing.
Idling ==
  /\ pc \in {"loop", "batch"} /\ ~ probing
  /\ Pending # {} /\ Pending \subseteq LoadRecords
  /\ \A s \in Slugs : state[s] = "none" /\ stage[s] = "idle"
  /\ state[Batch] \in {"none", "starting", "running", "ok"}
  /\ \A p \in Procs : todo[p] = {}

\* What a batch would select is pending, since the harness reads all that the supervisor reads.
LEMMA NothingIsSelected ==
  ASSUME IInv, Idling
  PROVE  Loads /\ Selected(Batch) = {} /\ blackFile = black
<1>1. Loads
  BY DEF Idling, LoadRecords
<1>2. ReadRecords \subseteq LoadRecords
  BY <1>1 DEF ReadRecords, LoadRecords
<1>3. blackFile = black
  BY DEF IInv, Blacklists, Idling
<1> QED BY <1>1, <1>2, <1>3 DEF Idling, Selected, Pending

\* A step that leaves the records and the blacklist alone leaves the same to do.
LEMMA SamePending ==
  ASSUME records' = records, black' = black
  PROVE  Pending' = Pending /\ LoadRecords' = LoadRecords
BY DEF Pending, ReadRecords, LoadRecords, Loads, Alone

\* Every step goes round the loop.
LEMMA IdlingGoesOn == ASSUME IInv, Idling, [Next]_vars PROVE Idling'
<1> USE SlugsAssumption DEF Batch, Procs
<1>a. Types /\ Actors /\ Loads /\ Selected(Batch) = {} /\ blackFile = black
  BY NothingIsSelected DEF IInv
<1>b. /\ pc \in {"loop", "batch"} /\ ~ probing
      /\ Pending # {} /\ Pending \subseteq LoadRecords
      /\ \A s \in Slugs : state[s] = "none" /\ stage[s] = "idle"
      /\ state[Batch] \in {"none", "starting", "running", "ok"}
      /\ \A p \in Procs : todo[p] = {}
  BY DEF Idling
<1>c. records' = records /\ black' = black =>
        Pending' # {} /\ Pending' \subseteq LoadRecords'
  BY <1>b, SamePending
<1>d. state \in [Procs -> {"none", "starting", "running", "crashed", "failed", "ok"}]
      /\ todo \in [Procs -> SUBSET Slugs]
  BY <1>a DEF Types
<1>1. CASE UNCHANGED vars
  BY <1>1, <1>b, <1>c DEF vars, files, supervisor, harness, Idling
<1>2. CASE Supervise
  <2>1. CASE StartBatch
    BY <2>1, <1>b, <1>c, <1>d DEF StartBatch, files, Idling
  <2>2. CASE BatchExits
    BY <2>2, <1>b, <1>c, <1>d DEF BatchExits, files, Exited, Idling
  <2> QED
    BY <1>2, <1>b, <2>1, <2>2
       DEF Supervise, Rest, StartProbes, ProbeExits, WriteBlacklist, ProbesDone
<1>3. ASSUME NEW p \in Procs, Harness(p) PROVE Idling'
  <2>1. \A q \in Procs : InFlight(q) = {}
    BY <1>b DEF InFlight
  <2>2. CASE Start(p)
    <3>1. p = Batch
      BY <2>2, <1>b DEF Start
    <3>2. Selected(Batch) \cap Strategies("no data") = {}
      BY <1>a
    <3>3. state' = [state EXCEPT ![Batch] = "running"] /\ todo' = [todo EXCEPT ![Batch] = {}]
          /\ UNCHANGED <<supervisor, files, stage>>
      BY <2>2, <3>1, <3>2, <1>a DEF Start
    <3> QED BY <3>3, <1>b, <1>c, <1>d DEF supervisor, files, Idling
  <2>3. CASE Exit(p)
    <3>1. p = Batch
      BY <2>3, <1>b DEF Exit
    <3> QED BY <2>3, <3>1, <1>b, <1>c, <1>d DEF Exit, supervisor, files, Idling
  <2> QED
    BY <1>3, <1>b, <2>1, <2>2, <2>3 DEF Harness, Take, RunReturns, Crash, SaveRecord, WriteReport
<1>4. CASE Interrupt
  <2>1. records' = records
    BY <1>4, <1>b DEF Interrupt
  <2>2. /\ pc' = "loop" /\ probing' = FALSE /\ black' = black
        /\ state' = [p \in Procs |-> "none"] /\ todo' = [p \in Procs |-> {}]
        /\ stage' = [s \in Slugs |-> "idle"]
    BY <1>4, <1>a DEF Interrupt
  <2> QED BY <2>1, <2>2, <1>c DEF Idling
<1>5. CASE Complete
  BY <1>5, <1>b DEF Complete
<1> QED BY <1>1, <1>2, <1>3, <1>4, <1>5 DEF Next, System

\* Where all that is pending is recorded on shared lines, the supervisor starts batches that
\* select nothing and exit with 0 (supervise.py:137-139), for ever: the run never completes.
THEOREM StuckIsForEver == Spec => [](Stuck => [](pc # "complete"))
<1>1. ASSUME IInv, Stuck PROVE Idling
  BY <1>1, SlugsAssumption DEF IInv, Types, Actors, Stuck, Idling, Procs, Batch
<1>2. Idling => pc # "complete"
  BY DEF Idling
<1>3. IInv /\ Idling /\ [Next]_vars => Idling'
  BY IdlingGoesOn
<1> QED BY <1>1, <1>2, <1>3, IInvHolds, PTL DEF Spec
=============================================================================
