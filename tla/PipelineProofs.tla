--------------------------- MODULE PipelineProofs ---------------------------
(***************************************************************************)
(* Proofs about module Pipeline, for any windows and any bound on faults:  *)
(* its types, that a run in fresh directories calls nothing completed that *)
(* is not all in the database, that a forced run repairs torn files, and   *)
(* that a run leaves no asteroid without a vector of what it is.           *)
(***************************************************************************)
EXTENDS Pipeline, WellFoundedInduction, TLAPS

\* What the stages of a run in fresh directories have made of the file of b:
\* transform finds no output of an earlier run, and load only whole files.
FreshFile(b) ==
  /\ stage = "extract" => out[b] = "absent"
  /\ stage = "transform" =>
       /\ task[b] \in {"none", "read"} => out[b] = "absent"
       /\ task[b] = "write" => raw[b] = "whole"
       /\ task[b] = "ok" => out[b] = "whole"
  /\ stage = "load" /\ task[b] = "read" => out[b] = "whole"

\* What a forced run without a failed task has made of it.
ForcedFile(b) ==
  /\ task[b] # "failed"
  /\ stage = "extract" /\ task[b] = "ok" => raw[b] = "whole"
  /\ stage = "transform" =>
       /\ raw[b] = "whole"
       /\ task[b] # "none"
       /\ task[b] = "ok" => out[b] = "whole"
  /\ stage = "load" =>
       /\ task[b] # "none"
       /\ out[b] = "whole"
       /\ task[b] = "ok" => table[b] = "all"
  /\ stage = "alert" => table[b] = "all"

\* What vectorize has made of the rows of b: those without a chunk are none.
VectorFile(b) ==
  /\ stage = "vectorize" =>
       /\ task[b] = "none" => table[b] = "none"
       /\ task[b] = "outdated" => sweeps > 0
       /\ task[b] = "ok" => vec[b] = "fresh" \/ (vec[b] = "stale" /\ sweeps > 0)
  /\ stage = "report" =>
       table[b] = "none" \/ vec[b] = "fresh" \/ (vec[b] = "stale" /\ sweeps > 0)

\* In the extractor every window has a task.
Queued == stage = "extract" => \A b \in Batch : task[b] # "none"

PipeInv ==
  /\ TypeOK
  /\ CompletedIsWhole
  /\ Queued
  /\ ~keeps => \A b \in Batch : FreshFile(b)
  /\ force /\ clean /\ stage # "idle" => \A b \in Batch : ForcedFile(b)
  /\ \A b \in Batch : VectorFile(b)
-----------------------------------------------------------------------------
(***************************************************************************)
(* The windows.                                                            *)
(***************************************************************************)
LEMMA LeastExists ==
  ASSUME NEW T \in SUBSET Nat, T # {}
  PROVE  \E x \in T : \A y \in T : x <= y
<1>1. PICK x \in T : \A y \in T : <<y, x>> \notin OpToRel(<, Nat)
  BY NatLessThanWellFounded, WFMin
<1>2. \A y \in T : ~(y < x)
  BY <1>1 DEF OpToRel
<1>3. QED
  BY <1>2

LEMMA StepsApart ==
  ASSUME NEW k \in Nat, NEW m \in Nat, k < m
  PROVE  k * BatchSize + BatchSize <= m * BatchSize
<1>1. BatchSize \in Nat
  BY RangeAssumption
<1>2. PICK j \in Nat : m = k + 1 + j
  <2>1. m - k - 1 \in Nat /\ m = k + 1 + (m - k - 1)
    OBVIOUS
  <2>2. QED
    BY <2>1
<1>3. m * BatchSize = k * BatchSize + BatchSize + j * BatchSize
  BY <1>1, <1>2
<1>4. k * BatchSize \in Nat /\ j * BatchSize \in Nat
  BY <1>1
<1>5. QED
  BY <1>1, <1>3, <1>4

\* extract.rs:199, an end of a window and a start of the next that are computed a
\* day apart: every day of the range is asked for in exactly one window, and no
\* window is longer than NeoWs accepts or leaves the range.
THEOREM WindowsPartitionDays ==
  /\ \A b \in Batch : b .. BatchEnd(b) \subseteq Days /\ BatchEnd(b) < b + BatchSize
  /\ \A d \in Days : \E b \in Batch : d \in b .. BatchEnd(b)
  /\ \A a, b \in Batch : a # b => (a .. BatchEnd(a)) \cap (b .. BatchEnd(b)) = {}
<1> USE RangeAssumption
<1>1. \A b \in Batch : b \in Nat /\ b <= EndDate /\ StartDate <= b
  BY DEF Batch, Days
<1>2. ASSUME NEW b \in Batch
      PROVE  b .. BatchEnd(b) \subseteq Days /\ BatchEnd(b) < b + BatchSize
  BY <1>1 DEF BatchEnd, Days
<1>3. ASSUME NEW d \in Days
      PROVE  \E b \in Batch : d \in b .. BatchEnd(b)
  <2> DEFINE T == {x \in Nat : \E b \in Batch : x = d - b}
  <2>1. d \in Nat /\ StartDate <= d /\ d <= EndDate
    BY DEF Days
  <2>2. StartDate \in Batch
    <3>1. 0 \in 0..EndDate - StartDate /\ StartDate = StartDate + 0 * BatchSize
      OBVIOUS
    <3>2. QED
      BY <3>1 DEF Batch, Days
  <2>3. d - StartDate \in T
    BY <2>1, <2>2
  <2>4. PICK x \in T : \A y \in T : x <= y
    BY <2>3, LeastExists
  <2>5. PICK b \in Batch : x = d - b
    BY <2>4
  <2>6. x < BatchSize
    <3> SUFFICES ASSUME x >= BatchSize PROVE FALSE
      BY <2>4
    <3>1. PICK k \in 0..EndDate - StartDate : b = StartDate + k * BatchSize
      BY <2>5 DEF Batch
    <3>2. k * BatchSize \in Nat /\ (k + 1) * BatchSize = k * BatchSize + BatchSize
      BY <3>1
    <3>3. b + BatchSize = StartDate + (k + 1) * BatchSize
      BY <3>1, <3>2
    <3>4. b + BatchSize <= d
      BY <1>1, <2>1, <2>5
    <3>5. k + 1 <= (k + 1) * BatchSize
      <4>1. PICK j \in Nat : BatchSize = 1 + j
        <5>1. BatchSize - 1 \in Nat /\ BatchSize = 1 + (BatchSize - 1)
          OBVIOUS
        <5>2. QED
          BY <5>1
      <4>2. (k + 1) * BatchSize = k + 1 + (k + 1) * j
        BY <3>1, <4>1
      <4>3. (k + 1) * j \in Nat
        BY <3>1, <4>1
      <4>4. QED
        BY <3>1, <4>2, <4>3
    <3>6. k + 1 \in 0..EndDate - StartDate
      BY <2>1, <3>1, <3>2, <3>3, <3>4, <3>5
    <3>7. b + BatchSize \in Batch
      <4>1. b + BatchSize \in Days
        BY <1>1, <2>1, <3>4 DEF Days
      <4>2. \E j \in 0..EndDate - StartDate : b + BatchSize = StartDate + j * BatchSize
        BY <3>3, <3>6
      <4>3. QED
        BY <4>1, <4>2 DEF Batch
    <3>8. d - (b + BatchSize) \in T
      BY <1>1, <2>1, <3>4, <3>7
    <3>9. QED
      BY <1>1, <2>1, <2>4, <2>5, <3>8
  <2>7. QED
    BY <1>1, <2>1, <2>4, <2>5, <2>6 DEF BatchEnd
<1>4. ASSUME NEW a \in Batch, NEW b \in Batch, a < b
      PROVE  BatchEnd(a) < b
  <2>1. PICK k \in 0..EndDate - StartDate : a = StartDate + k * BatchSize
    BY DEF Batch
  <2>2. PICK m \in 0..EndDate - StartDate : b = StartDate + m * BatchSize
    BY DEF Batch
  <2>3. k \in Nat /\ m \in Nat /\ k * BatchSize \in Nat /\ m * BatchSize \in Nat
    BY <2>1, <2>2
  <2>4. k < m
    <3> SUFFICES ASSUME m <= k PROVE FALSE
      BY <2>3
    <3>1. m * BatchSize <= k * BatchSize
      <4>1. CASE m = k
        BY <2>3, <4>1
      <4>2. CASE m < k
        BY <2>3, <4>2, StepsApart
      <4>3. QED
        BY <2>3, <4>1, <4>2
    <3>2. QED
      BY <1>4, <2>1, <2>2, <2>3, <3>1
  <2>5. a + BatchSize <= b
    BY <2>1, <2>2, <2>3, <2>4, StepsApart
  <2>6. QED
    BY <1>1, <2>5 DEF BatchEnd
<1>5. ASSUME NEW a \in Batch, NEW b \in Batch, a # b
      PROVE  (a .. BatchEnd(a)) \cap (b .. BatchEnd(b)) = {}
  <2>1. a < b \/ b < a
    BY <1>1, <1>5
  <2>2. QED
    BY <1>1, <1>4, <2>1 DEF BatchEnd
<1>6. QED
  BY <1>2, <1>3, <1>5
-----------------------------------------------------------------------------
\* The stages, and the states a task has in each.
LEMMA Stages ==
  /\ DOMAIN TaskState = {"idle", "extract", "transform", "load", "alert", "enrich",
                         "prune", "features", "vectorize", "report"}
  /\ TaskState["idle"] = {"none"}
  /\ TaskState["extract"] = {"queued", "fetch", "write", "ok", "failed"}
  /\ TaskState["transform"] = {"none", "read", "write", "ok", "failed"}
  /\ TaskState["load"] = {"none", "read", "ok", "failed"}
  /\ TaskState["vectorize"] = {"none", "computed", "outdated", "ok"}
  /\ \A s \in {"alert", "enrich", "prune", "features", "report"} : TaskState[s] = {"none"}
BY DEF TaskState

\* A task that moves to a state of its stage leaves the tasks well-typed.
LEMMA GotoType ==
  ASSUME TypeOK, NEW b \in Batch, NEW l \in TaskState[stage], Goto(b, l)
  PROVE  task' \in [Batch -> TaskState[stage]]
BY DEF TypeOK, Goto

\* A stage that lists its files has their tasks in two of its states.
LEMMA EverywhereType ==
  ASSUME NEW S, NEW l, NEW T, l \in T, "none" \in T
  PROVE  Everywhere(l, S) \in [Batch -> T]
BY DEF Everywhere

\* When no stage is under way there are no tasks.
LEMMA NoTaskType == NoTask \in [Batch -> {"none"}]
BY DEF NoTask

\* A file a dying process was writing is torn or finished.
LEMMA VanishType ==
  ASSUME TypeOK, Vanish
  PROVE  /\ raw' \in [Batch -> {"absent", "torn", "whole"}]
         /\ out' \in [Batch -> {"absent", "torn", "whole"}]
         /\ stage' \in DOMAIN TaskState
         /\ task' \in [Batch -> TaskState[stage']]
<1>1. stage' = "idle" /\ task' = NoTask
  BY DEF Vanish
<1>2. /\ raw' \in [Batch -> {"absent", "torn", "whole"}]
      /\ out' \in [Batch -> {"absent", "torn", "whole"}]
  BY DEF Vanish, TypeOK
<1>3. QED
  BY <1>1, <1>2, NoTaskType, Stages

\* Rows that change leave a vector stale, or none.
LEMMA OutdatedType ==
  ASSUME NEW v \in {"none", "stale", "fresh"}
  PROVE  Outdated[v] \in {"none", "stale"}
BY DEF Outdated

\* The initial state.
LEMMA InitPipe == Init => PipeInv
<1> SUFFICES ASSUME Init PROVE PipeInv
  OBVIOUS
<1>1. task \in [Batch -> TaskState[stage]]
  BY NoTaskType, Stages DEF Init
<1>2. faults \in 0..MaxFaults /\ sweeps \in 0..MaxSweeps
  BY PermitAssumption DEF Init
<1>3. stage \in DOMAIN TaskState
  BY Stages DEF Init
<1>4. TypeOK
  BY <1>1, <1>2, <1>3 DEF Init, TypeOK
<1>5. QED
  BY <1>4 DEF Init, PipeInv, CompletedIsWhole, Queued, FreshFile, ForcedFile, VectorFile

\* Every step keeps the types.
LEMMA TypeStep == TypeOK /\ [Next]_vars => TypeOK'
<1> SUFFICES ASSUME TypeOK, [Next]_vars PROVE TypeOK'
  OBVIOUS
<1> USE DEF files, database, bounds, At
<1>t. /\ stage = "extract" => \A l \in {"queued", "fetch", "write", "ok", "failed"} : l \in TaskState[stage]
      /\ stage = "transform" => \A l \in {"none", "read", "write", "ok", "failed"} : l \in TaskState[stage]
      /\ stage = "load" => \A l \in {"none", "read", "ok", "failed"} : l \in TaskState[stage]
      /\ stage = "vectorize" => \A l \in {"none", "computed", "outdated", "ok"} : l \in TaskState[stage]
  BY Stages
<1>f. ASSUME Fault PROVE faults' \in 0..MaxFaults /\ sweeps' \in 0..MaxSweeps
  BY <1>f, PermitAssumption DEF Fault, TypeOK
<1>1. ASSUME NEW fl \in BOOLEAN, Start(fl) PROVE TypeOK'
  <2>1. task' \in [Batch -> TaskState["extract"]]
    BY <1>1, Stages DEF Start, Everywhere
  <2>2. QED
    BY <1>1, <2>1, Stages DEF Start, TypeOK
<1>2. ASSUME NEW b \in Batch, Work(b) PROVE TypeOK'
  <2>1. CASE Dispatch(b)
    BY <1>t, <2>1, GotoType DEF Dispatch, TypeOK
  <2>2. CASE SkipExtracted(b)
    BY <1>t, <2>2, GotoType DEF SkipExtracted, TypeOK
  <2>3. CASE Fetch(b)
    BY <1>t, <2>3, GotoType DEF Fetch, TypeOK
  <2>4. CASE WriteRaw(b)
    BY <1>t, <2>4, GotoType DEF WriteRaw, TypeOK
  <2>5. CASE SkipTransformed(b)
    BY <1>t, <2>5, GotoType DEF SkipTransformed, TypeOK
  <2>6. CASE Transform(b)
    BY <1>t, <2>6, GotoType DEF Transform, TypeOK
  <2>7. CASE WriteTransformed(b)
    BY <1>t, <2>7, GotoType DEF WriteTransformed, TypeOK
  <2>8. CASE ParseFails(b)
    BY <1>t, <2>8, GotoType DEF ParseFails, TypeOK
  <2>9. CASE SkipLoaded(b)
    BY <1>t, <2>9, GotoType DEF SkipLoaded, TypeOK
  <2>10. CASE LoadFile(b)
    BY <1>t, <2>10, GotoType, OutdatedType DEF LoadFile, TypeOK
  <2>11. CASE UpsertVectors(b)
    BY <1>t, <2>11, GotoType DEF UpsertVectors, TypeOK
  <2>12. QED
    BY <1>2, <2>1, <2>2, <2>3, <2>4, <2>5, <2>6, <2>7, <2>8, <2>9, <2>10, <2>11 DEF Work
<1>3. ASSUME NEW b \in Batch, ExtractFails(b) PROVE TypeOK'
  BY <1>t, <1>f, <1>3, GotoType DEF ExtractFails, TypeOK
<1>4. ASSUME NEW b \in Batch, TransformFails(b) PROVE TypeOK'
  BY <1>t, <1>f, <1>4, GotoType DEF TransformFails, TypeOK
<1>5. ASSUME NEW b \in Batch, LoadFails(b) PROVE TypeOK'
  <2>1. faults' \in 0..MaxFaults /\ sweeps' \in 0..MaxSweeps
    BY <1>f, <1>5 DEF LoadFails, TypeOK
  <2>2. task' \in [Batch -> TaskState[stage]]
    BY <1>t, <1>5, GotoType DEF LoadFails
  <2>3. /\ table' \in [Batch -> {"none", "part", "all"}]
        /\ vec' \in [Batch -> {"none", "stale", "fresh"}]
    BY <1>5, OutdatedType DEF LoadFails, TypeOK
  <2>4. QED
    BY <1>5, <2>1, <2>2, <2>3 DEF LoadFails, TypeOK
<1>6. CASE ExtractEnds
  <2>1. task' \in [Batch -> TaskState["transform"]]
    BY <1>6, Stages, EverywhereType DEF ExtractEnds
  <2>2. QED
    BY <1>6, <2>1, Stages DEF ExtractEnds, TypeOK
<1>7. CASE TransformAborts
  BY <1>7, VanishType DEF TransformAborts, TypeOK
<1>8. CASE TransformEnds
  <2>1. task' \in [Batch -> TaskState["load"]]
    BY <1>8, Stages, EverywhereType DEF TransformEnds
  <2>2. QED
    BY <1>8, <2>1, Stages DEF TransformEnds, TypeOK
<1>9. CASE LoadEnds
  BY <1>9, NoTaskType, Stages DEF LoadEnds, TypeOK
<1>10. CASE HandRunEnds \/ Alert \/ Enrich \/ Prune \/ Report
  <2>1. UNCHANGED <<keeps, files, force, task, clean, bounds, table, vec>> /\ done' \in [Batch -> BOOLEAN]
    BY <1>10 DEF HandRunEnds, Alert, Enrich, Prune, Report, Pass, TypeOK
  <2>2. /\ stage \in {"alert", "enrich", "prune", "report"}
        /\ stage' \in {"idle", "enrich", "prune", "features"}
    BY <1>10 DEF HandRunEnds, Alert, Enrich, Prune, Report, Pass
  <2>3. TaskState[stage] = {"none"} /\ TaskState[stage'] = {"none"} /\ stage' \in DOMAIN TaskState
    BY <2>2, Stages
  <2>4. QED
    BY <2>1, <2>3 DEF TypeOK
<1>11. CASE Crash
  <2>1. /\ table' \in [Batch -> {"none", "part", "all"}]
        /\ done' \in [Batch -> BOOLEAN]
        /\ vec' \in [Batch -> {"none", "stale", "fresh"}]
    <3>1. CASE stage = "load"
      <4>0. LoadCutShort
        BY <1>11, <3>1 DEF Crash
      <4>1. PICK S \in SUBSET {b \in Batch : task[b] = "read" /\ (force \/ ~done[b])}, T \in SUBSET Batch :
              /\ done' = [b \in Batch |-> done[b] /\ b \notin S]
              /\ table' = [b \in Batch |-> IF b \in T /\ table[b] = "none" THEN "part" ELSE table[b]]
              /\ vec' = [b \in Batch |-> IF b \in T THEN Outdated[vec[b]] ELSE vec[b]]
        BY <4>0 DEF LoadCutShort
      <4>2. done' \in [Batch -> BOOLEAN]
        <5>1. \A b \in Batch : (done[b] /\ b \notin S) \in BOOLEAN
          OBVIOUS
        <5>2. QED
          BY <4>1, <5>1, Zenon
      <4>3. table' \in [Batch -> {"none", "part", "all"}]
        BY <4>1 DEF TypeOK
      <4>4. vec' \in [Batch -> {"none", "stale", "fresh"}]
        BY <4>1, OutdatedType DEF TypeOK
      <4>5. QED
        BY <4>2, <4>3, <4>4
    <3>2. CASE stage # "load"
      BY <1>11, <3>2 DEF Crash, TypeOK
    <3>3. QED
      BY <3>1, <3>2
  <2>2. QED
    BY <1>11, <1>f, <2>1, VanishType DEF Crash, TypeOK
<1>12. CASE UNCHANGED vars
  BY <1>12 DEF vars, TypeOK
<1>13. CASE FetchFeatures
  <2>1. task' \in [Batch -> TaskState["vectorize"]]
    BY <1>13, Stages, EverywhereType DEF FetchFeatures
  <2>2. QED
    BY <1>13, <2>1, Stages DEF FetchFeatures, TypeOK
<1>14. CASE VectorizeEnds
  BY <1>14, NoTaskType, Stages DEF VectorizeEnds, TypeOK
<1>15. CASE StageFails
  BY <1>15, <1>f, NoTaskType, Stages DEF StageFails, TypeOK
<1>16. ASSUME NEW b \in Batch, Sweep(b) PROVE TypeOK'
  <2>1. vec' \in [Batch -> {"none", "stale", "fresh"}]
    BY <1>16, OutdatedType DEF Sweep, TypeOK
  <2>2. task' \in [Batch -> TaskState[stage]]
    <3>1. CASE task[b] = "computed"
      <4>1. "computed" \in TaskState[stage]
        BY <3>1 DEF TypeOK
      <4>2. stage = "vectorize"
        BY <4>1, Stages DEF TypeOK
      <4>3. QED
        BY <1>t, <1>16, <3>1, <4>2 DEF Sweep, TypeOK
    <3>2. CASE task[b] # "computed"
      BY <1>16, <3>2 DEF Sweep, TypeOK
    <3>3. QED
      BY <3>1, <3>2
  <2>3. sweeps' \in 0..MaxSweeps
    BY <1>16, PermitAssumption DEF Sweep, TypeOK
  <2>4. QED
    BY <1>16, <2>1, <2>2, <2>3 DEF Sweep, TypeOK
<1>17. QED
  BY <1>1, <1>2, <1>3, <1>4, <1>5, <1>6, <1>7, <1>8, <1>9, <1>10, <1>11, <1>12, <1>13, <1>14,
     <1>15, <1>16 DEF Next, Advance
-----------------------------------------------------------------------------
\* Every step keeps what the extractor owes its windows.
LEMMA QueuedStep == TypeOK /\ Queued /\ [Next]_vars => Queued'
<1> SUFFICES ASSUME TypeOK, Queued, [Next]_vars PROVE Queued'
  OBVIOUS
<1> USE DEF TypeOK, Queued, files, database, bounds, At, Goto
<1>1. ASSUME NEW fl \in BOOLEAN, Start(fl) PROVE Queued'
  BY <1>1 DEF Start, Everywhere
<1>2. ASSUME NEW b \in Batch, Work(b) PROVE Queued'
  <2>1. CASE Dispatch(b)
    BY <2>1 DEF Dispatch
  <2>2. CASE SkipExtracted(b)
    BY <2>2 DEF SkipExtracted, Present
  <2>3. CASE Fetch(b)
    BY <2>3 DEF Fetch
  <2>4. CASE WriteRaw(b)
    BY <2>4 DEF WriteRaw
  <2>5. CASE SkipTransformed(b)
    BY <2>5 DEF SkipTransformed, Present
  <2>6. CASE Transform(b)
    BY <2>6 DEF Transform, Parses
  <2>7. CASE WriteTransformed(b)
    BY <2>7 DEF WriteTransformed
  <2>8. CASE ParseFails(b)
    BY <2>8 DEF ParseFails
  <2>9. CASE SkipLoaded(b)
    BY <2>9 DEF SkipLoaded
  <2>10. CASE LoadFile(b)
    BY <2>10 DEF LoadFile
  <2>11. CASE UpsertVectors(b)
    BY <2>11 DEF UpsertVectors
  <2>12. QED
    BY <1>2, <2>1, <2>2, <2>3, <2>4, <2>5, <2>6, <2>7, <2>8, <2>9, <2>10, <2>11 DEF Work
<1>3. ASSUME NEW b \in Batch, ExtractFails(b) PROVE Queued'
  BY <1>3 DEF ExtractFails
<1>4. ASSUME NEW b \in Batch, TransformFails(b) PROVE Queued'
  BY <1>4 DEF TransformFails
<1>5. ASSUME NEW b \in Batch, LoadFails(b) PROVE Queued'
  BY <1>5 DEF LoadFails
<1>6. CASE ExtractEnds
  BY <1>6 DEF ExtractEnds, Everywhere, Joined
<1>7. CASE TransformAborts
  BY <1>7 DEF TransformAborts, Vanish, NoTask
<1>8. CASE TransformEnds
  BY <1>8 DEF TransformEnds, Everywhere
<1>9. CASE LoadEnds
  BY <1>9 DEF LoadEnds, Joined, NoTask
<1>10. CASE HandRunEnds \/ Alert \/ Enrich \/ Prune \/ Report
  BY <1>10 DEF HandRunEnds, Alert, Enrich, Prune, Report, Pass
<1>11. CASE Crash
  BY <1>11 DEF Crash, Vanish, NoTask, LoadCutShort
<1>12. CASE UNCHANGED vars
  BY <1>12 DEF vars
<1>13. CASE FetchFeatures
  BY <1>13 DEF FetchFeatures, Everywhere
<1>14. CASE VectorizeEnds
  BY <1>14 DEF VectorizeEnds, Joined, NoTask
<1>15. CASE StageFails
  BY <1>15 DEF StageFails, NoTask
<1>16. ASSUME NEW b \in Batch, Sweep(b) PROVE Queued'
  BY <1>16 DEF Sweep
<1>17. QED
  BY <1>1, <1>2, <1>3, <1>4, <1>5, <1>6, <1>7, <1>8, <1>9, <1>10, <1>11, <1>12, <1>13, <1>14,
     <1>15, <1>16 DEF Next, Advance

\* Every step of a run in fresh directories keeps its files as they should be,
\* and completes only what is all in the database.
LEMMA FreshStep ==
  ASSUME TypeOK, ~keeps => \A b \in Batch : FreshFile(b), CompletedIsWhole, [Next]_vars
  PROVE  /\ CompletedIsWhole'
         /\ (~keeps => \A b \in Batch : FreshFile(b))'
<1> DEFINE Fresh == CompletedIsWhole /\ (~keeps => \A b \in Batch : FreshFile(b))
<1> SUFFICES Fresh'
  OBVIOUS
<1> USE DEF TypeOK, CompletedIsWhole, FreshFile, files, database, bounds, At, Goto
<1>1. ASSUME NEW fl \in BOOLEAN, Start(fl) PROVE Fresh'
  BY <1>1 DEF Start, Everywhere
<1>2. ASSUME NEW b \in Batch, Work(b) PROVE Fresh'
  <2>1. CASE Dispatch(b)
    BY <2>1 DEF Dispatch
  <2>2. CASE SkipExtracted(b)
    BY <2>2 DEF SkipExtracted, Present
  <2>3. CASE Fetch(b)
    BY <2>3 DEF Fetch
  <2>4. CASE WriteRaw(b)
    BY <2>4 DEF WriteRaw
  <2>5. CASE SkipTransformed(b)
    BY <2>5 DEF SkipTransformed, Present
  <2>6. CASE Transform(b)
    BY <2>6 DEF Transform, Parses
  <2>7. CASE WriteTransformed(b)
    BY <2>7 DEF WriteTransformed
  <2>8. CASE ParseFails(b)
    BY <2>8 DEF ParseFails
  <2>9. CASE SkipLoaded(b)
    BY <2>9 DEF SkipLoaded
  <2>10. CASE LoadFile(b)
    BY <2>10 DEF LoadFile
  <2>11. CASE UpsertVectors(b)
    BY <2>11 DEF UpsertVectors
  <2>12. QED
    BY <1>2, <2>1, <2>2, <2>3, <2>4, <2>5, <2>6, <2>7, <2>8, <2>9, <2>10, <2>11 DEF Work
<1>3. ASSUME NEW b \in Batch, ExtractFails(b) PROVE Fresh'
  BY <1>3 DEF ExtractFails
<1>4. ASSUME NEW b \in Batch, TransformFails(b) PROVE Fresh'
  BY <1>4 DEF TransformFails
<1>5. ASSUME NEW b \in Batch, LoadFails(b) PROVE Fresh'
  BY <1>5 DEF LoadFails
<1>6. CASE ExtractEnds
  BY <1>6 DEF ExtractEnds, Everywhere, Joined
<1>7. CASE TransformAborts
  BY <1>7 DEF TransformAborts, Vanish, NoTask
<1>8. CASE TransformEnds
  BY <1>8 DEF TransformEnds, Everywhere
<1>9. CASE LoadEnds
  BY <1>9 DEF LoadEnds, Joined, NoTask
<1>10. CASE HandRunEnds \/ Alert \/ Enrich \/ Prune \/ Report
  BY <1>10 DEF HandRunEnds, Alert, Enrich, Prune, Report, Pass
<1>11. CASE Crash
  BY <1>11 DEF Crash, Vanish, NoTask, LoadCutShort
<1>12. CASE UNCHANGED vars
  BY <1>12 DEF vars
<1>13. CASE FetchFeatures
  BY <1>13 DEF FetchFeatures, Everywhere
<1>14. CASE VectorizeEnds
  BY <1>14 DEF VectorizeEnds, Joined, NoTask
<1>15. CASE StageFails
  BY <1>15 DEF StageFails, NoTask
<1>16. ASSUME NEW b \in Batch, Sweep(b) PROVE Fresh'
  BY <1>16 DEF Sweep
<1>17. QED
  BY <1>1, <1>2, <1>3, <1>4, <1>5, <1>6, <1>7, <1>8, <1>9, <1>10, <1>11, <1>12, <1>13, <1>14,
     <1>15, <1>16 DEF Next, Advance

\* Every step of a forced run without a failed task repairs the files.
LEMMA ForcedStep ==
  ASSUME TypeOK, Queued, [Next]_vars,
         force /\ clean /\ stage # "idle" => \A b \in Batch : ForcedFile(b)
  PROVE  (force /\ clean /\ stage # "idle" => \A b \in Batch : ForcedFile(b))'
<1> DEFINE Forced == force /\ clean /\ stage # "idle" => \A b \in Batch : ForcedFile(b)
<1> SUFFICES Forced'
  OBVIOUS
<1> USE DEF TypeOK, Queued, ForcedFile, files, database, bounds, At, Goto
<1>1. ASSUME NEW fl \in BOOLEAN, Start(fl) PROVE Forced'
  BY <1>1 DEF Start, Everywhere
<1>2. ASSUME NEW b \in Batch, Work(b) PROVE Forced'
  <2>1. CASE Dispatch(b)
    BY <2>1 DEF Dispatch
  <2>2. CASE SkipExtracted(b)
    BY <2>2 DEF SkipExtracted, Present
  <2>3. CASE Fetch(b)
    BY <2>3 DEF Fetch
  <2>4. CASE WriteRaw(b)
    BY <2>4 DEF WriteRaw
  <2>5. CASE SkipTransformed(b)
    BY <2>5 DEF SkipTransformed, Present
  <2>6. CASE Transform(b)
    BY <2>6 DEF Transform, Parses
  <2>7. CASE WriteTransformed(b)
    BY <2>7 DEF WriteTransformed
  <2>8. CASE ParseFails(b)
    BY <2>8 DEF ParseFails
  <2>9. CASE SkipLoaded(b)
    BY <2>9 DEF SkipLoaded
  <2>10. CASE LoadFile(b)
    BY <2>10 DEF LoadFile
  <2>11. CASE UpsertVectors(b)
    BY <2>11 DEF UpsertVectors
  <2>12. QED
    BY <1>2, <2>1, <2>2, <2>3, <2>4, <2>5, <2>6, <2>7, <2>8, <2>9, <2>10, <2>11 DEF Work
<1>3. ASSUME NEW b \in Batch, ExtractFails(b) PROVE Forced'
  BY <1>3 DEF ExtractFails
<1>4. ASSUME NEW b \in Batch, TransformFails(b) PROVE Forced'
  BY <1>4 DEF TransformFails
<1>5. ASSUME NEW b \in Batch, LoadFails(b) PROVE Forced'
  BY <1>5 DEF LoadFails
<1>6. CASE ExtractEnds
  BY <1>6 DEF ExtractEnds, Everywhere, Joined
<1>7. CASE TransformAborts
  BY <1>7 DEF TransformAborts, Vanish, NoTask
<1>8. CASE TransformEnds
  BY <1>8 DEF TransformEnds, Everywhere
<1>9. CASE LoadEnds
  BY <1>9 DEF LoadEnds, Joined, NoTask
<1>10. CASE HandRunEnds \/ Alert \/ Enrich \/ Prune \/ Report
  BY <1>10 DEF HandRunEnds, Alert, Enrich, Prune, Report, Pass
<1>11. CASE Crash
  BY <1>11 DEF Crash, Vanish, NoTask, LoadCutShort
<1>12. CASE UNCHANGED vars
  BY <1>12 DEF vars
<1>13. CASE FetchFeatures
  BY <1>13 DEF FetchFeatures, Everywhere
<1>14. CASE VectorizeEnds
  BY <1>14 DEF VectorizeEnds, Joined, NoTask
<1>15. CASE StageFails
  BY <1>15 DEF StageFails, NoTask
<1>16. ASSUME NEW b \in Batch, Sweep(b) PROVE Forced'
  BY <1>16 DEF Sweep
<1>17. QED
  BY <1>1, <1>2, <1>3, <1>4, <1>5, <1>6, <1>7, <1>8, <1>9, <1>10, <1>11, <1>12, <1>13, <1>14,
     <1>15, <1>16 DEF Next, Advance

\* Every step keeps what vectorize owes the rows it has read.
LEMMA VectorStep ==
  ASSUME TypeOK, \A b \in Batch : VectorFile(b), [Next]_vars
  PROVE  (\A b \in Batch : VectorFile(b))'
<1> DEFINE Vectors == \A b \in Batch : VectorFile(b)
<1> SUFFICES Vectors'
  OBVIOUS
<1> USE DEF VectorFile, files, database, bounds, At, Goto
<1>1. CASE stage' \notin {"vectorize", "report"}
  BY <1>1
<1>2. CASE FetchFeatures
  BY <1>2 DEF FetchFeatures, FeatureRows, Everywhere
<1>3. ASSUME NEW c \in Batch, UpsertVectors(c) PROVE Vectors'
  BY <1>3 DEF UpsertVectors, TypeOK
<1>4. CASE VectorizeEnds
  <2>1. \A b \in Batch : task[b] \in {"none", "ok"}
    <3>1. \A b \in Batch : task[b] # "failed"
      BY <1>4, Stages DEF VectorizeEnds, TypeOK
    <3>2. QED
      BY <1>4, <3>1 DEF VectorizeEnds, Joined
  <2>2. QED
    BY <1>4, <2>1 DEF VectorizeEnds, NoTask
<1>5. ASSUME NEW c \in Batch, Sweep(c) PROVE Vectors'
  <2>1. sweeps' > 0 /\ stage' = stage /\ table' = table
    BY <1>5, PermitAssumption DEF Sweep, TypeOK
  <2>2. \A b \in Batch : /\ task'[b] = (IF b = c /\ task[b] = "computed" THEN "outdated" ELSE task[b])
                         /\ vec'[b] = (IF b = c THEN Outdated[vec[b]] ELSE vec[b])
    BY <1>5 DEF Sweep, TypeOK
  <2>3. \A b \in Batch : vec[b] \in {"fresh", "stale"} => vec'[b] \in {"fresh", "stale"}
    BY <2>2 DEF Outdated
  <2>4. QED
    BY <2>1, <2>2, <2>3
<1>6. CASE UNCHANGED vars
  BY <1>6 DEF vars
<1>7. QED
  <2>1. ASSUME NEW b \in Batch, Work(b), ~UpsertVectors(b) PROVE stage' \notin {"vectorize", "report"}
    BY <2>1 DEF Work, Dispatch, SkipExtracted, Fetch, WriteRaw, SkipTransformed, Transform,
      WriteTransformed, ParseFails, SkipLoaded, LoadFile
  <2>2. ASSUME NEW b \in Batch, ExtractFails(b) \/ TransformFails(b) \/ LoadFails(b)
        PROVE  stage' \notin {"vectorize", "report"}
    BY <2>2 DEF ExtractFails, TransformFails, LoadFails
  <2>3. ASSUME \/ \E fl \in BOOLEAN : Start(fl)
               \/ ExtractEnds \/ TransformAborts \/ TransformEnds \/ LoadEnds
               \/ HandRunEnds \/ Alert \/ Enrich \/ Prune \/ Report \/ StageFails \/ Crash
        PROVE  stage' \notin {"vectorize", "report"}
    BY <2>3 DEF Start, ExtractEnds, TransformAborts, Vanish, TransformEnds, LoadEnds,
      HandRunEnds, Alert, Enrich, Prune, Report, Pass, StageFails, Crash
  <2>4. QED
    BY <1>1, <1>2, <1>3, <1>4, <1>5, <1>6, <2>1, <2>2, <2>3 DEF Next, Advance
-----------------------------------------------------------------------------
\* The invariant is inductive.
LEMMA NextPipe == PipeInv /\ [Next]_vars => PipeInv'
<1> SUFFICES ASSUME PipeInv, [Next]_vars PROVE PipeInv'
  OBVIOUS
<1>1. TypeOK'
  BY TypeStep DEF PipeInv
<1>2. Queued'
  BY QueuedStep DEF PipeInv
<1>3. CompletedIsWhole' /\ (~keeps => \A b \in Batch : FreshFile(b))'
  BY FreshStep DEF PipeInv
<1>4. (force /\ clean /\ stage # "idle" => \A b \in Batch : ForcedFile(b))'
  BY ForcedStep DEF PipeInv
<1>5. (\A b \in Batch : VectorFile(b))'
  BY VectorStep DEF PipeInv
<1>6. QED
  BY <1>1, <1>2, <1>3, <1>4, <1>5 DEF PipeInv

\* It holds of every reachable state.
THEOREM PipeCorrect == Spec => []PipeInv
BY InitPipe, NextPipe, PTL DEF Spec

\* Every variable holds a value of its kind, and every task belongs to the
\* stage under way.
THEOREM PipeTypes == Spec => []TypeOK
<1>1. PipeInv => TypeOK
  BY DEF PipeInv
<1>2. QED
  BY <1>1, PipeCorrect, PTL

\* A run in fresh directories, whatever calls and writes fail in it and wherever
\* it dies, leaves no file completed in etl_events that is not all loaded.
THEOREM CompletedWhole == Spec => []CompletedIsWhole
<1>1. PipeInv => CompletedIsWhole
  BY DEF PipeInv
<1>2. QED
  BY <1>1, PipeCorrect, PTL

\* A forced extract, transform and load without a failed task load every window
\* whole, whatever torn files and completed events they find.
THEOREM ForcedRepairs == Spec => []ForcedRunRepairs
<1>1. PipeInv => ForcedRunRepairs
  BY DEF PipeInv, ForcedRunRepairs, ForcedFile
<1>2. QED
  BY <1>1, PipeCorrect, PTL

\* A run that comes to its report has computed the vector of every asteroid there is
\* from what it is, a sweep in between excepted: whatever failed or died before.
THEOREM VectorsAreComplete == Spec => []VectorsComplete
<1>1. PipeInv => VectorsComplete
  BY DEF PipeInv, VectorsComplete, VectorFile
<1>2. QED
  BY <1>1, PipeCorrect, PTL
=============================================================================
