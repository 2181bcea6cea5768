------------------------------ MODULE Pipeline ------------------------------
(***************************************************************************)
(* `pipeline` (src/cli/pipeline.rs).  Extract downloads the feed of each   *)
(* window into a raw file, transform turns each raw file into a            *)
(* transformed one, load puts those into the database, each with a task    *)
(* per file; a file that exists is taken for done unless forced.  Then the *)
(* stages that work on the database: alert, enrichment, prune, vectorize   *)
(* and report, each of which starts when the one before has ended well.    *)
(*                                                                         *)
(* A file is written in place: between the first and the last byte, and    *)
(* for ever if the process ends in between, it is torn.  A torn raw file   *)
(* does not parse; a torn transformed file is a file with fewer records.   *)
(* Invocations follow one another (resource_group of the CI job); sweeps   *)
(* of `sentry` and `orbits` on schedules of their own come in between.     *)
(* What the load of one file does is the subject of module EtlLoad, what   *)
(* alert sends that of AlertDispatch, the lookups that of Enrichment.      *)
(***************************************************************************)
EXTENDS Integers, FiniteSets

CONSTANTS
  StartDate, \* the days a run asks NeoWs for: from lookback_days before today
  EndDate,   \* to lookahead_days after
  BatchSize, \* days of a window (7 in the code)
  Permits,   \* permits of the extractor's semaphore (5 in the code)
  MaxFaults, \* bound on failed calls, failed writes and deaths of the process
  MaxSweeps  \* bound on sweeps that change what a vector is computed from

\* validate_date_range accepts the range.
ASSUME RangeAssumption ==
  StartDate \in Nat /\ EndDate \in Nat /\ StartDate <= EndDate /\ BatchSize \in Nat \ {0}
ASSUME PermitAssumption == Permits \in Nat \ {0} /\ MaxFaults \in Nat /\ MaxSweeps \in Nat

\* The windows, each named by its first day, one after the other; the last one may
\* be shorter.
Days == StartDate .. EndDate
Batch == {d \in Days : \E k \in 0..EndDate - StartDate : d = StartDate + k * BatchSize}
BatchEnd(b) == IF b + BatchSize - 1 < EndDate THEN b + BatchSize - 1 ELSE EndDate

VARIABLES
  keeps,  \* whether the data directories outlive an invocation
  raw,    \* raw[b]: the file of b in data/raw
  out,    \* out[b]: the file of b in data/transformed
  table,  \* table[b]: which records of b the database has
  done,   \* done[b]: whether etl_events has the file of b as completed
  vec,    \* vec[b]: the vectors of the asteroids of b in asteroid_embeddings
  force,  \* --force, when the three commands are run by hand
  stage,  \* the stage under way
  task,   \* task[b]: where the task of the stage for b is; in vectorize its chunk
  clean,  \* history: no task of this invocation has failed
  faults, sweeps

files == <<raw, out>>
database == <<table, done, vec>>
bounds == <<faults, sweeps>>
vars == <<keeps, files, database, force, stage, task, clean, bounds>>

Fault == faults < MaxFaults /\ faults' = faults + 1 /\ UNCHANGED sweeps
Goto(b, l) == task' = [task EXCEPT ![b] = l]
At(s, b, l) == stage = s /\ task[b] = l
NoTask == [b \in Batch |-> "none"]
Everywhere(l, S) == [b \in Batch |-> IF b \in S THEN l ELSE "none"]
Joined == \A b \in Batch : task[b] \in {"none", "ok", "failed"}

Init ==
  /\ keeps \in BOOLEAN
  /\ raw = [b \in Batch |-> "absent"]
  /\ out = [b \in Batch |-> "absent"]
  /\ table = [b \in Batch |-> "none"]
  /\ done = [b \in Batch |-> FALSE]
  /\ vec = [b \in Batch |-> "none"]
  /\ force = FALSE
  /\ stage = "idle"
  /\ task = NoTask
  /\ clean = TRUE
  /\ faults = 0
  /\ sweeps = 0
-----------------------------------------------------------------------------
(***************************************************************************)
(* extract: a loop that takes a permit for each window and spawns its task. *)
(***************************************************************************)
\* The CI job starts in a fresh container, with empty directories.
Start(fl) ==
  /\ stage = "idle"
  /\ IF keeps THEN UNCHANGED files
              ELSE raw' = [b \in Batch |-> "absent"] /\ out' = [b \in Batch |-> "absent"]
  /\ force' = fl
  /\ stage' = "extract"
  /\ task' = Everywhere("queued", Batch)
  /\ clean' = TRUE
  /\ UNCHANGED <<keeps, database, bounds>>

Busy == {b \in Batch : task[b] \in {"fetch", "write"}}

Dispatch(b) ==
  /\ At("extract", b, "queued")
  /\ \A a \in Batch : task[a] = "queued" => b <= a
  /\ Cardinality(Busy) < Permits
  /\ Goto(b, "fetch")
  /\ UNCHANGED <<keeps, files, database, force, stage, clean, bounds>>

\* Mutant: --force is not looked at.
BugPresent(dir, b) == dir[b] # "absent"

\* !force && file.exists(): a torn file exists.
Present(dir, b) == dir[b] # "absent" /\ ~force

SkipExtracted(b) ==
  /\ At("extract", b, "fetch")
  /\ Present(raw, b)
  /\ Goto(b, "ok")
  /\ UNCHANGED <<keeps, files, database, force, stage, clean, bounds>>

\* get_feed: a permit of the client, an answer of a good status, read by way of a
\* temporary file; and the file of the batch is created.
Fetch(b) ==
  /\ At("extract", b, "fetch")
  /\ ~Present(raw, b)
  /\ raw' = [raw EXCEPT ![b] = "torn"]
  /\ Goto(b, "write")
  /\ UNCHANGED <<keeps, out, database, force, stage, clean, bounds>>

WriteRaw(b) ==
  /\ At("extract", b, "write")
  /\ raw' = [raw EXCEPT ![b] = "whole"]
  /\ Goto(b, "ok")
  /\ UNCHANGED <<keeps, out, database, force, stage, clean, bounds>>

\* The request, its status, its body or the write fails: a failed batch is only
\* listed in the summary.
ExtractFails(b) ==
  /\ stage = "extract"
  /\ task[b] = "write" \/ (task[b] = "fetch" /\ ~Present(raw, b))
  /\ Fault
  /\ Goto(b, "failed")
  /\ clean' = FALSE
  /\ UNCHANGED <<keeps, files, database, force, stage>>

\* Every handle awaited: execute returns Ok.  transform lists the raw files.
ExtractEnds ==
  /\ stage = "extract"
  /\ Joined
  /\ stage' = "transform"
  /\ task' = Everywhere("read", {b \in Batch : raw[b] # "absent"})
  /\ UNCHANGED <<keeps, files, database, force, clean, bounds>>

-----------------------------------------------------------------------------
(***************************************************************************)
(* transform.                                                              *)
(***************************************************************************)
SkipTransformed(b) ==
  /\ At("transform", b, "read")
  /\ Present(out, b)
  /\ Goto(b, "ok")
  /\ UNCHANGED <<keeps, files, database, force, stage, clean, bounds>>

\* Mutant: what can be read of the raw file is transformed.
BugParses(b) == raw[b] # "absent"

\* serde_json::from_str accepts the file.
Parses(b) == raw[b] = "whole"

Transform(b) ==
  /\ At("transform", b, "read")
  /\ ~Present(out, b)
  /\ Parses(b)
  /\ out' = [out EXCEPT ![b] = "torn"]
  /\ Goto(b, "write")
  /\ UNCHANGED <<keeps, raw, database, force, stage, clean, bounds>>

\* The file ends up with what the raw file gave.
WriteTransformed(b) ==
  /\ At("transform", b, "write")
  /\ out' = [out EXCEPT ![b] = raw[b]]
  /\ Goto(b, "ok")
  /\ UNCHANGED <<keeps, raw, database, force, stage, clean, bounds>>

ParseFails(b) ==
  /\ At("transform", b, "read")
  /\ ~Present(out, b)
  /\ ~Parses(b)
  /\ Goto(b, "failed")
  /\ clean' = FALSE
  /\ UNCHANGED <<keeps, files, database, force, stage, bounds>>

\* Reading the raw file or writing the output fails.
TransformFails(b) ==
  /\ stage = "transform"
  /\ task[b] = "write" \/ (task[b] = "read" /\ ~Present(out, b))
  /\ Fault
  /\ Goto(b, "failed")
  /\ clean' = FALSE
  /\ UNCHANGED <<keeps, files, database, force, stage>>

\* The process is gone, some of the files it was writing just finished.
Vanish ==
  /\ stage' = "idle"
  /\ task' = NoTask
  /\ \E S \in SUBSET {b \in Batch : task[b] = "write"} :
       IF stage = "extract"
         THEN raw' = [b \in Batch |-> IF b \in S THEN "whole" ELSE raw[b]] /\ UNCHANGED out
         ELSE out' = [b \in Batch |-> IF b \in S THEN raw[b] ELSE out[b]] /\ UNCHANGED raw

\* Mutant: a file that fails is logged and the others go on, as in load.
BugTransformAborts ==
  /\ stage = "transform"
  /\ Joined
  /\ \E b \in Batch : task[b] = "failed"
  /\ stage' = "load"
  /\ task' = Everywhere("read", {b \in Batch : out[b] # "absent"})
  /\ UNCHANGED <<keeps, files, database, force, clean, bounds>>

\* A failed task is joined: return Err, and main calls process::exit(1) while
\* other tasks may still be writing.
TransformAborts ==
  /\ stage = "transform"
  /\ \E b \in Batch : task[b] = "failed"
  /\ Vanish
  /\ UNCHANGED <<keeps, database, force, clean, bounds>>

\* Every task joined: load lists the transformed files.
TransformEnds ==
  /\ stage = "transform"
  /\ \A b \in Batch : task[b] \in {"none", "ok"}
  /\ stage' = "load"
  /\ task' = Everywhere("read", {b \in Batch : out[b] # "absent"})
  /\ UNCHANGED <<keeps, files, database, force, clean, bounds>>

-----------------------------------------------------------------------------
(***************************************************************************)
(* load, file by file.                                                     *)
(***************************************************************************)
SkipLoaded(b) ==
  /\ At("load", b, "read")
  /\ done[b]
  /\ ~force
  /\ Goto(b, "ok")
  /\ UNCHANGED <<keeps, files, database, force, stage, clean, bounds>>

\* A row that changes is not what its vector was computed from any more.
Outdated == [none |-> "none", stale |-> "stale", fresh |-> "stale"]

\* What the file holds is upserted; recording that may fail or match no row.
LoadFile(b) ==
  /\ At("load", b, "read")
  /\ table' = [table EXCEPT ![b] = IF out[b] = "whole" \/ @ = "all" THEN "all" ELSE "part"]
  /\ vec' = [vec EXCEPT ![b] = Outdated[@]]
  /\ \E recorded \in BOOLEAN : done' = [done EXCEPT ![b] = recorded]
  /\ Goto(b, "ok")
  /\ UNCHANGED <<keeps, files, force, stage, clean, bounds>>

\* An error somewhere in the file, or no record in it: logged, no more.
LoadFails(b) ==
  /\ At("load", b, "read")
  /\ IF out[b] = "torn" THEN UNCHANGED bounds ELSE Fault
  /\ \/ UNCHANGED <<table, vec>>
     \/ /\ table' = [table EXCEPT ![b] = IF @ = "all" THEN "all" ELSE "part"]
        /\ vec' = [vec EXCEPT ![b] = Outdated[@]]
  /\ done' = [done EXCEPT ![b] = FALSE]
  /\ Goto(b, "failed")
  /\ clean' = FALSE
  /\ UNCHANGED <<keeps, files, force, stage>>

\* The files being loaded when the process dies are running in etl_events; of some
\* a first part is in the database.
LoadCutShort ==
  \E S \in SUBSET {b \in Batch : task[b] = "read" /\ (force \/ ~done[b])} : \E T \in SUBSET S :
    /\ done' = [b \in Batch |-> done[b] /\ b \notin S]
    /\ table' = [b \in Batch |-> IF b \in T /\ table[b] = "none" THEN "part" ELSE table[b]]
    /\ vec' = [b \in Batch |-> IF b \in T THEN Outdated[vec[b]] ELSE vec[b]]

LoadEnds ==
  /\ stage = "load"
  /\ Joined
  /\ stage' = "alert"
  /\ task' = NoTask
  /\ UNCHANGED <<keeps, files, database, force, clean, bounds>>

-----------------------------------------------------------------------------
(***************************************************************************)
(* The stages that follow.                                                 *)
(***************************************************************************)
\* Stage s is over and the next one begins.
Pass(s, next) ==
  /\ stage = s
  /\ stage' = next
  /\ UNCHANGED <<keeps, files, force, task, clean, bounds>>

\* The three commands run by hand end with the load.
HandRunEnds == force /\ Pass("alert", "idle") /\ UNCHANGED database

\* stage_alert: the scan and its messages.
Alert == ~force /\ Pass("alert", "enrich") /\ UNCHANGED database

\* Mutant: an outage of JPL is an error of the run.
BugEnrich ==
  /\ \E next \in {"prune", "idle"} : Pass("enrich", next)
  /\ UNCHANGED database

\* stage_enrichment, sentry and then orbits: an error is logged and the run goes
\* on.  The rows looked up are new ones, without a vector of what they are now.
Enrich == Pass("enrich", "prune") /\ UNCHANGED database

\* Rows of etl_events that are old and not among the last few are deleted; how old
\* the row of a file is is left open.  (Approaches: module AlertDispatch.)
Prune ==
  /\ Pass("prune", "features")
  /\ \E old \in SUBSET Batch : done' = [b \in Batch |-> done[b] /\ b \notin old]
  /\ UNCHANGED <<table, vec>>

\* Mutant: an inner join with the closest approach, of what was loaded whole.
BugFeatureRows == {b \in Batch : table[b] = "all"}

\* fetch_feature_rows: the asteroids there are, whatever is known of them.
FeatureRows == {b \in Batch : table[b] # "none"}

\* What is read here is normalized and is what the chunks write.
FetchFeatures ==
  /\ stage = "features"
  /\ stage' = "vectorize"
  /\ task' = Everywhere("computed", FeatureRows)
  /\ UNCHANGED <<keeps, files, database, force, clean, bounds>>

\* A chunk of upsert_embeddings; "outdated" has changed since it was read.
UpsertVectors(b) ==
  /\ stage = "vectorize"
  /\ task[b] \in {"computed", "outdated"}
  /\ vec' = [vec EXCEPT ![b] = IF task[b] = "computed" THEN "fresh" ELSE "stale"]
  /\ Goto(b, "ok")
  /\ UNCHANGED <<keeps, files, table, done, force, stage, clean, bounds>>

VectorizeEnds ==
  /\ stage = "vectorize"
  /\ Joined
  /\ stage' = "report"
  /\ task' = NoTask
  /\ UNCHANGED <<keeps, files, database, force, clean, bounds>>

\* stage_report: sent on Sundays and on demand, skipped otherwise.
Report == Pass("report", "idle") /\ UNCHANGED database

\* A statement or the webhook fails: the run ends.
StageFails ==
  /\ stage \in {"alert", "prune", "features", "vectorize", "report"}
  /\ Fault
  /\ stage' = "idle"
  /\ task' = NoTask
  /\ clean' = FALSE
  /\ UNCHANGED <<keeps, files, database, force>>

\* A sweep of `sentry` or `orbits` changes rows that a vector, or one about to be
\* written, was computed from.
Sweep(b) ==
  /\ sweeps < MaxSweeps
  /\ sweeps' = sweeps + 1
  /\ vec[b] = "fresh" \/ task[b] = "computed"
  /\ vec' = [vec EXCEPT ![b] = Outdated[@]]
  /\ task' = [task EXCEPT ![b] = IF @ = "computed" THEN "outdated" ELSE @]
  /\ UNCHANGED <<keeps, files, table, done, force, stage, clean, faults>>

\* The process dies, or a stage fails before or after its tasks.
Crash ==
  /\ stage # "idle"
  /\ Fault
  /\ Vanish
  /\ IF stage = "load" THEN LoadCutShort ELSE UNCHANGED database
  /\ clean' = FALSE
  /\ UNCHANGED <<keeps, force>>

Work(b) ==
  \/ Dispatch(b) \/ SkipExtracted(b) \/ Fetch(b) \/ WriteRaw(b)
  \/ SkipTransformed(b) \/ Transform(b) \/ WriteTransformed(b) \/ ParseFails(b)
  \/ SkipLoaded(b) \/ LoadFile(b) \/ UpsertVectors(b)

Advance ==
  \/ ExtractEnds \/ TransformAborts \/ TransformEnds \/ LoadEnds
  \/ HandRunEnds \/ Alert \/ Enrich \/ Prune \/ FetchFeatures \/ VectorizeEnds \/ Report

Next ==
  \/ \E fl \in BOOLEAN : Start(fl)
  \/ \E b \in Batch : Work(b) \/ ExtractFails(b) \/ TransformFails(b) \/ LoadFails(b)
  \/ \E b \in Batch : Sweep(b)
  \/ Advance
  \/ StageFails
  \/ Crash

\* The schedule starts `pipeline`, which never forces, again and again, and an
\* invocation goes on.
Fairness == SF_vars(Start(FALSE)) /\ WF_vars((\E b \in Batch : Work(b)) \/ Advance)

Spec == Init /\ [][Next]_vars
FairSpec == Spec /\ Fairness
-----------------------------------------------------------------------------
\* The states of the tasks of each stage.
TaskState ==
  [idle |-> {"none"},
   extract |-> {"queued", "fetch", "write", "ok", "failed"},
   transform |-> {"none", "read", "write", "ok", "failed"},
   load |-> {"none", "read", "ok", "failed"},
   alert |-> {"none"}, enrich |-> {"none"}, prune |-> {"none"}, features |-> {"none"},
   vectorize |-> {"none", "computed", "outdated", "ok"},
   report |-> {"none"}]

\* Every variable holds a value of the kind the code gives it, and a task
\* belongs to the stage under way.
TypeOK ==
  /\ keeps \in BOOLEAN /\ force \in BOOLEAN /\ clean \in BOOLEAN
  /\ raw \in [Batch -> {"absent", "torn", "whole"}]
  /\ out \in [Batch -> {"absent", "torn", "whole"}]
  /\ table \in [Batch -> {"none", "part", "all"}]
  /\ done \in [Batch -> BOOLEAN]
  /\ vec \in [Batch -> {"none", "stale", "fresh"}]
  /\ stage \in DOMAIN TaskState
  /\ task \in [Batch -> TaskState[stage]]
  /\ faults \in 0..MaxFaults
  /\ sweeps \in 0..MaxSweeps

\* Without directories that outlive it, a run never calls a file completed that
\* is not all in the database: a failed write of transform ends the run before
\* load, and a failed write of extract does not parse.
CompletedIsWhole ==
  \A b \in Batch : ~keeps /\ done[b] => table[b] = "all"

\* Whatever torn files earlier runs left behind, three forced commands without a
\* failed task bring every window completely into the database.
ForcedRunRepairs ==
  stage = "alert" /\ force /\ clean => \A b \in Batch : table[b] = "all"

\* cli/vectorize.rs:3, "for every asteroid": a run that has come to its report leaves
\* none without a vector, nor one with a vector of what it no longer is, unless a
\* sweep came in between, whatever loads failed and whatever runs were cut short.
VectorsComplete ==
  stage = "report" =>
    \A b \in Batch : table[b] = "none" \/ vec[b] = "fresh" \/ (vec[b] = "stale" /\ sweeps > 0)

\* A window gets into the database, and its asteroids into the search for similar
\* ones, though runs fail and die, JPL is out or sweeps come in between, if each
\* run starts in fresh directories.
WindowServed == \A b \in Batch : ~keeps ~> (table[b] = "all" /\ vec[b] = "fresh")

\* README.md:60, "every write path is designed to be safely re-run": rerunning
\* gets every window in, in directories that stay as well.
RerunRecovers == \A b \in Batch : <>(table[b] = "all")
=============================================================================
