------------------------------- MODULE EtlLoad -------------------------------
(***************************************************************************)
(* The `load` command (src/cli/load.rs) and the repository calls it makes  *)
(* (src/database/repository.rs): several invocations of the command, each  *)
(* with one Tokio task per staged file behind a semaphore, stream their    *)
(* files into the asteroids and approaches tables batch by batch, and keep *)
(* one row per file in the etl_events ledger.  An invocation may crash at  *)
(* any point and any call to the database may fail.                        *)
(*                                                                         *)
(* A file is a sequence of lines; a line is a record or does not parse.  A *)
(* record names its asteroid (natural key), the age of the metadata it     *)
(* carries and the approaches it brings.                                   *)
(***************************************************************************)
EXTENDS Integers, Sequences, FiniteSets

CONSTANTS
  Neo,        \* natural keys of asteroids (neo_reference_id)
  Approach,   \* natural keys of approaches (asteroid, epoch)
  Notable,    \* the approaches classified High or Critical
  File,       \* names of *_transformed.json files
  Content,    \* the lines of each file
  Malformed,  \* a line that does not deserialize
  Run,        \* invocations of the command
  BatchSize,  \* records per transaction (1000 in the code)
  Permits,    \* permits of the semaphore (10 in the code)
  MaxFaults   \* bound on crashes and failed calls

Record == [neo : Neo, ver : Nat \ {0}, apps : SUBSET Approach]

ASSUME ContentAssumption ==
  /\ Content \in [File -> Seq(Record \cup {Malformed})]
  /\ Malformed \notin Record
ASSUME NotableAssumption == Notable \subseteq Approach
ASSUME BoundAssumption ==
  /\ BatchSize \in Nat \ {0}
  /\ Permits \in Nat \ {0}
  /\ MaxFaults \in Nat

VARIABLES
  staged,      \* the files the transform stage has left in the input directory
  asteroids,   \* asteroids[n]: age of n's metadata, 0 when there is no row
  approaches,  \* the rows of the approaches table
  etl,         \* the etl_events ledger, one row per source_file
  run,         \* run[r]: where invocation r is
  force,       \* force[r]: the --force flag
  pc,          \* pc[r][f]: where the task of r for file f is
  pos,         \* pos[r][f]: lines of f read and flushed by the task
  total,       \* total[r][f]: total_stats of the task (what it will report)
  inserted,    \* history: what the database told the task it had inserted
  returned,    \* returned[r]: the ids the invocation returned to its caller
  published,   \* the hazard events POSTed to /internal/events
  faults       \* crashes and failed calls so far

vars == <<staged, asteroids, approaches, etl, run, force, pc, pos, total,
          inserted, returned, published, faults>>

tables == <<asteroids, approaches>>
progress == <<pos, total, inserted>>
outcome == <<returned, published>>
-----------------------------------------------------------------------------
(***************************************************************************)
(* Lines of a file and batches.                                            *)
(***************************************************************************)
Valid(f) == {k \in DOMAIN Content[f] : Content[f][k] # Malformed}

\* The records read after line i, up to and including line j.
Window(f, i, j) == {k \in Valid(f) : i < k /\ k <= j}

NeosIn(f, W) == {Content[f][k].neo : k \in W}
AppsIn(f, W) == UNION {Content[f][k].apps : k \in W}

\* j is the line that fills the batch begun after line i.
FillsBatch(f, i, j) == j \in Valid(f) /\ Cardinality(Window(f, i, j)) = BatchSize

\* The records left after line i are too few to fill a batch; j is the last line.
LastBatch(f, i, j) ==
  /\ j = Len(Content[f])
  /\ Window(f, i, j) # {}
  /\ Cardinality(Window(f, i, j)) < BatchSize

NextBatch(f, i, j) == FillsBatch(f, i, j) \/ LastBatch(f, i, j)

\* INSERT ... ON CONFLICT DO UPDATE refuses to touch a row twice.
Repeats(f, W) ==
  \E k, l \in W : k # l /\ Content[f][k].neo = Content[f][l].neo

\* Record k of f is in the tables; every record of f is.
Stored(f, k) ==
  /\ asteroids[Content[f][k].neo] # 0
  /\ Content[f][k].apps \subseteq approaches
Persisted(f) == \A k \in Valid(f) : Stored(f, k)
-----------------------------------------------------------------------------
(***************************************************************************)
(* upsert_batch: one transaction, and the statistics it returns.           *)
(***************************************************************************)
Stats == [ids : SUBSET Neo, haz : SUBSET Approach]
NoStats == [ids |-> {}, haz |-> {}]

Upsert(f, W) ==
  /\ asteroids' = [n \in Neo |->
       IF n \in NeosIn(f, W)
       THEN Content[f][CHOOSE k \in W : Content[f][k].neo = n].ver
       ELSE asteroids[n]]
  /\ approaches' = approaches \cup AppsIn(f, W)

\* Mutant: every asteroid of the batch counts as new (xmax not looked at).
BugBatchStats(f, W) ==
  [ids |-> NeosIn(f, W), haz |-> (AppsIn(f, W) \ approaches) \cap Notable]

BatchStats(f, W) ==
  [ids |-> {n \in NeosIn(f, W) : asteroids[n] = 0},
   haz |-> (AppsIn(f, W) \ approaches) \cap Notable]

Combine(s, t) == [ids |-> s.ids \cup t.ids, haz |-> s.haz \cup t.haz]

\* stream_and_process_file adds only the four counters of a full batch ...
MergeFull(s, b) == s
\* ... and the counters and the new asteroid ids of the last one.
MergeLast(s, b) == [s EXCEPT !.ids = @ \cup b.ids]
-----------------------------------------------------------------------------
(***************************************************************************)
(* The ledger.  An event id is fresh for every call of process_file, and a *)
(* run processes a file once: within a file's row the run names the event. *)
(***************************************************************************)
NoRow == [status |-> "absent"]
Row == [status : {"running", "completed", "failed"}, id : Run]

\* Mutant: the status is left out of the WHERE clause.
BugIsFileProcessed(f) == etl[f] # NoRow

IsFileProcessed(f) == etl[f].status = "completed"

\* Mutant: the insert forgets the event id.
BugStartedRow(row, r) == [status |-> "running"]

StartedRow(row, r) ==
  IF row = NoRow THEN [status |-> "running", id |-> r]
                 ELSE [row EXCEPT !.status = "running"]

\* Mutant: WHERE source_file = ... instead of WHERE id = ...
BugSettledRow(row, r, s) == IF row # NoRow THEN [row EXCEPT !.status = s] ELSE row

\* UPDATE ... SET status WHERE id = event_id: no row may match.
SettledRow(row, r, s) ==
  IF row # NoRow /\ row.id = r THEN [row EXCEPT !.status = s] ELSE row
-----------------------------------------------------------------------------
\* Mutant: a failed task keeps its permit.
BugBusy(r) == {f \in File : pc[r][f] \in {"start", "stream", "complete", "fail", "failed"}}

Busy(r) == {f \in File : pc[r][f] \in {"start", "stream", "complete", "fail"}}
Ended(r) == \A f \in File : pc[r][f] \in {"none", "loaded", "failed", "skipped"}

Goto(r, f, l) == pc' = [pc EXCEPT ![r][f] = l]
Fault == faults < MaxFaults /\ faults' = faults + 1

Init ==
  /\ staged = {}
  /\ asteroids = [n \in Neo |-> 0]
  /\ approaches = {}
  /\ etl = [f \in File |-> NoRow]
  /\ run = [r \in Run |-> "idle"]
  /\ force = [r \in Run |-> FALSE]
  /\ pc = [r \in Run |-> [f \in File |-> "none"]]
  /\ pos = [r \in Run |-> [f \in File |-> 0]]
  /\ total = [r \in Run |-> [f \in File |-> NoStats]]
  /\ inserted = [r \in Run |-> [f \in File |-> NoStats]]
  /\ returned = [r \in Run |-> {}]
  /\ published = {}
  /\ faults = 0

\* The transform stage writes another file into the input directory.
Stage(f) ==
  /\ f \notin staged
  /\ staged' = staged \cup {f}
  /\ UNCHANGED <<tables, etl, run, force, pc, progress, outcome, faults>>

\* execute: the directory is listed once and one task spawned per file.
StartRun(r, fl) ==
  /\ run[r] = "idle"
  /\ staged # {}
  /\ run' = [run EXCEPT ![r] = "loading"]
  /\ force' = [force EXCEPT ![r] = fl]
  /\ pc' = [pc EXCEPT ![r] = [f \in File |-> IF f \in staged THEN "queued" ELSE "none"]]
  /\ UNCHANGED <<staged, tables, etl, progress, outcome, faults>>

\* execute: no transformed file found, Ok(Vec::new()).
NothingToLoad(r) ==
  /\ run[r] = "idle"
  /\ staged = {}
  /\ run' = [run EXCEPT ![r] = "done"]
  /\ UNCHANGED <<staged, tables, etl, force, pc, progress, outcome, faults>>

\* The task gets its permit and asks the ledger, unless forced.
CheckIdempotency(r, f) ==
  /\ pc[r][f] = "queued"
  /\ Cardinality(Busy(r)) < Permits
  /\ Goto(r, f, IF ~force[r] /\ IsFileProcessed(f) THEN "skipped" ELSE "start")
  /\ UNCHANGED <<staged, tables, etl, run, force, progress, outcome, faults>>

\* The query fails: "Proceeding anyway".
CheckFails(r, f) ==
  /\ pc[r][f] = "queued"
  /\ Cardinality(Busy(r)) < Permits
  /\ ~force[r]
  /\ Fault
  /\ Goto(r, f, "start")
  /\ UNCHANGED <<staged, tables, etl, run, force, progress, outcome>>

RecordStart(r, f) ==
  /\ pc[r][f] = "start"
  /\ etl' = [etl EXCEPT ![f] = StartedRow(@, r)]
  /\ Goto(r, f, "stream")
  /\ UNCHANGED <<staged, tables, run, force, progress, outcome, faults>>

\* The statement fails: "Continuing...".
RecordStartFails(r, f) ==
  /\ pc[r][f] = "start"
  /\ Fault
  /\ Goto(r, f, "stream")
  /\ UNCHANGED <<staged, tables, etl, run, force, progress, outcome>>

\* The batch of the records read after the last flush, up to line j, commits.
CommitBatch(r, f, j) ==
  LET W == Window(f, pos[r][f], j)
  IN /\ ~Repeats(f, W)
     /\ Upsert(f, W)
     /\ pos' = [pos EXCEPT ![r][f] = j]
     /\ inserted' = [inserted EXCEPT ![r][f] = Combine(@, BatchStats(f, W))]

\* Line j fills the batch (lines that do not parse were skipped).
UpsertFullBatch(r, f) ==
  /\ pc[r][f] = "stream"
  /\ \E j \in DOMAIN Content[f] :
       /\ FillsBatch(f, pos[r][f], j)
       /\ CommitBatch(r, f, j)
       /\ total' = [total EXCEPT ![r][f] =
                      MergeFull(@, BatchStats(f, Window(f, pos[r][f], j)))]
  /\ UNCHANGED <<staged, etl, run, force, pc, outcome, faults>>

\* The end of the file, with records not yet flushed.
UpsertFinalBatch(r, f) ==
  /\ pc[r][f] = "stream"
  /\ \E j \in DOMAIN Content[f] :
       /\ LastBatch(f, pos[r][f], j)
       /\ CommitBatch(r, f, j)
       /\ total' = [total EXCEPT ![r][f] =
                      MergeLast(@, BatchStats(f, Window(f, pos[r][f], j)))]
  /\ Goto(r, f, "complete")
  /\ UNCHANGED <<staged, etl, run, force, outcome, faults>>

\* An asteroid twice in a batch: PostgreSQL rejects the INSERT, nothing is kept.
UpsertRejected(r, f) ==
  /\ pc[r][f] = "stream"
  /\ \E j \in DOMAIN Content[f] :
       /\ NextBatch(f, pos[r][f], j)
       /\ Repeats(f, Window(f, pos[r][f], j))
  /\ Goto(r, f, "fail")
  /\ UNCHANGED <<staged, tables, etl, run, force, progress, outcome, faults>>

\* Opening or reading the file, or the transaction, fails; nothing is kept.
StreamFails(r, f) ==
  /\ pc[r][f] = "stream"
  /\ Fault
  /\ Goto(r, f, "fail")
  /\ UNCHANGED <<staged, tables, etl, run, force, progress, outcome>>

\* The transaction commits but the answer is lost: the caller sees an error.
CommitUnacknowledged(r, f) ==
  /\ pc[r][f] = "stream"
  /\ Fault
  /\ \E j \in DOMAIN Content[f] :
       LET W == Window(f, pos[r][f], j)
       IN NextBatch(f, pos[r][f], j) /\ ~Repeats(f, W) /\ Upsert(f, W)
  /\ Goto(r, f, "fail")
  /\ UNCHANGED <<staged, etl, run, force, progress, outcome>>

\* Mutant: the records that do not fill a batch are never flushed.
BugEndOfFile(r, f) ==
  /\ pc[r][f] = "stream"
  /\ Cardinality(Window(f, pos[r][f], Len(Content[f]))) < BatchSize
  /\ Goto(r, f, IF Valid(f) = {} THEN "fail" ELSE "complete")
  /\ UNCHANGED <<staged, tables, etl, run, force, progress, outcome, faults>>

\* The end of the file, nothing left to flush: an error if no line was a record.
EndOfFile(r, f) ==
  /\ pc[r][f] = "stream"
  /\ Window(f, pos[r][f], Len(Content[f])) = {}
  /\ Goto(r, f, IF Valid(f) = {} THEN "fail" ELSE "complete")
  /\ UNCHANGED <<staged, tables, etl, run, force, progress, outcome, faults>>

RecordComplete(r, f) ==
  /\ pc[r][f] = "complete"
  /\ etl' = [etl EXCEPT ![f] = SettledRow(@, r, "completed")]
  /\ Goto(r, f, "loaded")
  /\ UNCHANGED <<staged, tables, run, force, progress, outcome, faults>>

\* The statement fails: a warning, the file still counts as loaded.
RecordCompleteFails(r, f) ==
  /\ pc[r][f] = "complete"
  /\ Fault
  /\ Goto(r, f, "loaded")
  /\ UNCHANGED <<staged, tables, etl, run, force, progress, outcome>>

\* Mutant: the failure is recorded with the status of a success.
BugRecordFailed(r, f) ==
  /\ pc[r][f] = "fail"
  /\ etl' = [etl EXCEPT ![f] = SettledRow(@, r, "completed")]
  /\ Goto(r, f, "failed")
  /\ UNCHANGED <<staged, tables, run, force, progress, outcome, faults>>

RecordFailed(r, f) ==
  /\ pc[r][f] = "fail"
  /\ etl' = [etl EXCEPT ![f] = SettledRow(@, r, "failed")]
  /\ Goto(r, f, "failed")
  /\ UNCHANGED <<staged, tables, run, force, progress, outcome, faults>>

RecordFailedFails(r, f) ==
  /\ pc[r][f] = "fail"
  /\ Fault
  /\ Goto(r, f, "failed")
  /\ UNCHANGED <<staged, tables, etl, run, force, progress, outcome>>

Loaded(r) == {f \in File : pc[r][f] = "loaded"}

\* All tasks joined: failures were only logged.  The statistics of the loaded
\* files are merged, the hazard events POSTed at best effort, the ids returned.
FinishRun(r, sent) ==
  /\ run[r] = "loading"
  /\ Ended(r)
  /\ run' = [run EXCEPT ![r] = "done"]
  /\ returned' = [returned EXCEPT ![r] = UNION {total[r][f].ids : f \in Loaded(r)}]
  /\ published' = published \cup
       (IF sent THEN UNION {total[r][f].haz : f \in Loaded(r)} ELSE {})
  /\ UNCHANGED <<staged, tables, etl, force, pc, progress, faults>>

\* The process dies, with its tasks; what was committed stays.
Crash(r) ==
  /\ run[r] = "loading"
  /\ Fault
  /\ run' = [run EXCEPT ![r] = "crashed"]
  /\ pc' = [pc EXCEPT ![r] = [f \in File |-> "none"]]
  /\ UNCHANGED <<staged, tables, etl, force, progress, outcome>>

TaskStep(r, f) ==
  \/ CheckIdempotency(r, f)
  \/ RecordStart(r, f)
  \/ UpsertFullBatch(r, f)
  \/ UpsertFinalBatch(r, f)
  \/ UpsertRejected(r, f)
  \/ EndOfFile(r, f)
  \/ RecordComplete(r, f)
  \/ RecordFailed(r, f)

TaskFault(r, f) ==
  \/ CheckFails(r, f)
  \/ RecordStartFails(r, f)
  \/ StreamFails(r, f)
  \/ CommitUnacknowledged(r, f)
  \/ RecordCompleteFails(r, f)
  \/ RecordFailedFails(r, f)

Next ==
  \/ \E f \in File : Stage(f)
  \/ \E r \in Run :
       \/ \E fl \in BOOLEAN : StartRun(r, fl)
       \/ NothingToLoad(r)
       \/ \E f \in File : TaskStep(r, f) \/ TaskFault(r, f)
       \/ \E sent \in BOOLEAN : FinishRun(r, sent)
       \/ Crash(r)

\* The transform stage produces every file, the schedule starts every
\* invocation, and the runtime polls every task that can go on.
Fairness ==
  /\ WF_vars(\E f \in File : Stage(f))
  /\ \A r \in Run :
       /\ WF_vars(\E fl \in BOOLEAN : StartRun(r, fl))
       /\ WF_vars(\E sent \in BOOLEAN : FinishRun(r, sent))
       /\ \A f \in File : WF_vars(TaskStep(r, f))

Spec == Init /\ [][Next]_vars
FairSpec == Spec /\ Fairness
-----------------------------------------------------------------------------
(***************************************************************************)
(* Properties.                                                             *)
(***************************************************************************)
RunState == {"idle", "loading", "done", "crashed"}
TaskState == {"none", "queued", "start", "stream", "complete", "fail",
              "loaded", "failed", "skipped"}

\* Every variable holds a value of the kind the code and the schema give it.
TypeOK ==
  /\ staged \subseteq File
  /\ asteroids \in [Neo -> Nat]
  /\ approaches \subseteq Approach
  /\ etl \in [File -> Row \cup {NoRow}]
  /\ run \in [Run -> RunState]
  /\ force \in [Run -> BOOLEAN]
  /\ pc \in [Run -> [File -> TaskState]]
  /\ pos \in [Run -> [File -> Nat]]
  /\ total \in [Run -> [File -> Stats]]
  /\ inserted \in [Run -> [File -> Stats]]
  /\ returned \in [Run -> SUBSET Neo]
  /\ published \subseteq Approach
  /\ faults \in 0..MaxFaults

\* A file the ledger calls completed has every record in the tables, whatever
\* runs raced, failed or died on it: is_file_processed may be trusted.
CompletedIsPersisted == \A f \in File : IsFileProcessed(f) => Persisted(f)

\* A file a task skipped stays fully in the tables even when another run has
\* meanwhile reset its row to running (record_etl_event_start).
SkippedIsPersisted ==
  \A r \in Run, f \in File : pc[r][f] = "skipped" => Persisted(f)

\* No asteroid and no hazardous approach is reported as newly inserted to two
\* tasks, of one run or of overlapping runs (xmax = 0, RETURNING id).
InsertedOnce ==
  \A r, q \in Run, f, g \in File :
    <<r, f>> # <<q, g>> =>
      /\ inserted[r][f].ids \cap inserted[q][g].ids = {}
      /\ inserted[r][f].haz \cap inserted[q][g].haz = {}

\* The strengthening that makes CompletedIsPersisted inductive: what a task has
\* flushed is stored, a task past the end of its file or told to skip it has the
\* whole file stored, and the event of a completed row is over.
PrefixStored ==
  \A r \in Run, f \in File : \A k \in Valid(f) : k <= pos[r][f] => Stored(f, k)
TaskDoneIsPersisted ==
  \A r \in Run, f \in File :
    pc[r][f] \in {"complete", "loaded", "skipped"} => Persisted(f)
IdleHasNoTask ==
  \A r \in Run : run[r] = "idle" => \A f \in File : pc[r][f] = "none"
EventIsOver ==
  \A f \in File : etl[f] # NoRow =>
    /\ run[etl[f].id] # "idle"
    /\ IsFileProcessed(f) => pc[etl[f].id][f] \in {"none", "loaded"}
InsertedIsStored ==
  \A r \in Run, f \in File :
    /\ \A n \in inserted[r][f].ids : asteroids[n] # 0
    /\ inserted[r][f].haz \subseteq approaches

LoadInv ==
  /\ TypeOK
  /\ PrefixStored
  /\ TaskDoneIsPersisted
  /\ CompletedIsPersisted
  /\ IdleHasNoTask
  /\ EventIsOver
  /\ InsertedIsStored
  /\ InsertedOnce

\* A completed row is only ever reopened by another start: a late failure of
\* another invocation on the same file cannot overwrite it (WHERE id = $1).
CompletedNeverFails ==
  [][\A f \in File : etl[f].status = "completed" =>
       etl'[f].status \in {"completed", "running"}]_vars

\* The rows as facts, and the facts of a file.
AsteroidFact(n) == <<"asteroid", n>>
ApproachFact(a) == <<"approach", a>>
Facts == {AsteroidFact(n) : n \in Neo} \cup {ApproachFact(a) : a \in Approach}
FileFacts ==
  [f \in File |-> {AsteroidFact(n) : n \in NeosIn(f, Valid(f))}
                    \cup {ApproachFact(a) : a \in AppsIn(f, Valid(f))}]
StoredFacts ==
  {AsteroidFact(n) : n \in {m \in Neo : asteroids[m] # 0}}
    \cup {ApproachFact(a) : a \in approaches}

Store == INSTANCE IdempotentStore WITH
  Fact <- Facts, FactsOf <- FileFacts,
  store <- StoredFacts, acked <- {f \in File : IsFileProcessed(f)}

\* The loader implements the idempotent store.
StoreSpec == Store!ASpec

\* An invocation that started comes to its end unless it crashes: no task
\* waits forever for a permit (execute's join loop).
RunEnds == \A r \in Run : run[r] = "loading" ~> run[r] \in {"done", "crashed"}

\* No batch of the file repeats an asteroid, and some line of it is a record.
Loadable(f) ==
  /\ Valid(f) # {}
  /\ \A i, j \in 0..Len(Content[f]) : NextBatch(f, i, j) => ~Repeats(f, Window(f, i, j))

Idle == {r \in Run : run[r] = "idle"}

\* A staged file gets into the tables when the invocations to come outnumber
\* the faults to come: rerunning the command is enough to recover.
StagedEventuallyPersisted ==
  \A f \in File :
    (f \in staged /\ Loadable(f) /\ Cardinality(Idle) > MaxFaults - faults)
      ~> Persisted(f)

\* What record_etl_event_complete says of itself ("Marks an ETL event as
\* completed"): where the file's row is there and RUNNING, and no other
\* invocation is at work, the row is COMPLETED after the statement.
RecordedCompletionSticks ==
  [][\A r \in Run, f \in File :
       /\ RecordComplete(r, f)
       /\ etl[f].status = "running"
       /\ \A q \in Run \ {r} : run[q] # "loading"
       => etl'[f].status = "completed"]_vars

\* What LoadStats says of new_hazard_events (src/cli/load.rs:80): when the POST
\* succeeds, what the loaded files newly inserted is published.
InsertedHazardsPublished ==
  [][\A r \in Run : FinishRun(r, TRUE) =>
       \A f \in Loaded(r) : inserted[r][f].haz \subseteq published']_vars
=============================================================================
