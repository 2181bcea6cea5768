--------------------------- MODULE EtlLoadProofs ---------------------------
(***************************************************************************)
(* Proofs about EtlLoad for every set of files, runs and records.          *)
(***************************************************************************)
EXTENDS EtlLoad, TLAPS

-----------------------------------------------------------------------------
(***************************************************************************)
(* Lines and batches.                                                      *)
(***************************************************************************)

\* A valid line of a file is a record, at a natural position.
LEMMA ValidIsRecord ==
  ASSUME NEW f \in File, NEW k \in Valid(f)
  PROVE  Content[f][k] \in Record /\ k \in Nat /\ k \in 1..Len(Content[f])
BY ContentAssumption DEF Valid

\* The position of a line is a natural number no greater than the file's length.
LEMMA LineIsNat ==
  ASSUME NEW f \in File, NEW j \in DOMAIN Content[f]
  PROVE  j \in Nat /\ j <= Len(Content[f]) /\ Len(Content[f]) \in Nat
BY ContentAssumption

\* What a committed batch does to the tables: they keep their types and their
\* rows, and the batch's records are in them.
LEMMA UpsertEffect ==
  ASSUME NEW f \in File, NEW W \in SUBSET Valid(f), Upsert(f, W),
         asteroids \in [Neo -> Nat], approaches \subseteq Approach
  PROVE  /\ asteroids' \in [Neo -> Nat]
         /\ approaches' \subseteq Approach
         /\ \A n \in Neo : asteroids'[n] # 0 <=> (asteroids[n] # 0 \/ n \in NeosIn(f, W))
         /\ approaches' = approaches \cup AppsIn(f, W)
         /\ \A k \in W : /\ asteroids'[Content[f][k].neo] # 0
                         /\ Content[f][k].apps \subseteq approaches'
<1>1. \A k \in W : Content[f][k] \in Record
  BY ValidIsRecord
<1> DEFINE Pick(n) == CHOOSE k \in W : Content[f][k].neo = n
<1>2. ASSUME NEW n \in NeosIn(f, W)
      PROVE  Content[f][Pick(n)].ver \in Nat \ {0}
  <2>1. PICK k \in W : Content[f][k].neo = n
    BY <1>2 DEF NeosIn
  <2>2. Pick(n) \in W
    BY <2>1
  <2>3. QED
    BY <2>2, <1>1 DEF Record
<1>3. \A n \in Neo : asteroids'[n] =
        IF n \in NeosIn(f, W) THEN Content[f][Pick(n)].ver ELSE asteroids[n]
  BY DEF Upsert
<1>4. asteroids' \in [Neo -> Nat]
  BY <1>2 DEF Upsert
<1>5. AppsIn(f, W) \subseteq Approach
  BY <1>1 DEF AppsIn, Record
<1>6. \A n \in Neo : asteroids'[n] # 0 <=> (asteroids[n] # 0 \/ n \in NeosIn(f, W))
  BY <1>2, <1>3
<1>7. \A k \in W : Content[f][k].neo \in NeosIn(f, W) /\ Content[f][k].neo \in Neo
  BY <1>1 DEF NeosIn, Record
<1>8. \A k \in W : Content[f][k].apps \subseteq AppsIn(f, W)
  BY DEF AppsIn
<1>9. QED
  BY <1>4, <1>5, <1>6, <1>7, <1>8 DEF Upsert

\* The statistics of a batch are sets of asteroids and of approaches.
LEMMA StatsOfBatch ==
  ASSUME NEW f \in File, NEW W \in SUBSET Valid(f)
  PROVE  BatchStats(f, W) \in Stats
<1>1. \A k \in W : Content[f][k] \in Record
  BY ValidIsRecord
<1>2. NeosIn(f, W) \subseteq Neo /\ AppsIn(f, W) \subseteq Approach
  BY <1>1 DEF NeosIn, AppsIn, Record
<1>3. QED
  BY <1>2 DEF BatchStats, Stats

\* A window holds valid lines.
LEMMA WindowIsValid ==
  ASSUME NEW f \in File, NEW i, NEW j
  PROVE  Window(f, i, j) \in SUBSET Valid(f)
BY DEF Window

-----------------------------------------------------------------------------
(***************************************************************************)
(* Type correctness.                                                       *)
(***************************************************************************)

\* A committed batch keeps the types of what it writes.
LEMMA CommitBatchType ==
  ASSUME TypeOK, NEW r \in Run, NEW f \in File, NEW j \in DOMAIN Content[f],
         CommitBatch(r, f, j)
  PROVE  /\ asteroids' \in [Neo -> Nat]
         /\ approaches' \subseteq Approach
         /\ pos' \in [Run -> [File -> Nat]]
         /\ inserted' \in [Run -> [File -> Stats]]
         /\ BatchStats(f, Window(f, pos[r][f], j)) \in Stats
<1> DEFINE W == Window(f, pos[r][f], j)
<1>1. W \in SUBSET Valid(f)
  BY WindowIsValid
<1>2. BatchStats(f, W) \in Stats
  BY <1>1, StatsOfBatch
<1>3. Upsert(f, W)
  BY DEF CommitBatch
<1>4. asteroids' \in [Neo -> Nat] /\ approaches' \subseteq Approach
  BY <1>1, <1>3, UpsertEffect DEF TypeOK
<1>5. pos' \in [Run -> [File -> Nat]]
  BY LineIsNat DEF CommitBatch, TypeOK
<1>6. Combine(inserted[r][f], BatchStats(f, W)) \in Stats
  BY <1>2 DEF Combine, Stats, TypeOK
<1>7. inserted' = [inserted EXCEPT ![r][f] = Combine(@, BatchStats(f, W))]
  BY DEF CommitBatch
<1>8. inserted' \in [Run -> [File -> Stats]]
  BY <1>6, <1>7 DEF TypeOK
<1>9. QED
  BY <1>2, <1>4, <1>5, <1>8

\* Merging statistics, in either way, gives statistics.
LEMMA MergeType ==
  ASSUME NEW s \in Stats, NEW b \in Stats
  PROVE  MergeFull(s, b) \in Stats /\ MergeLast(s, b) \in Stats
BY DEF MergeFull, MergeLast, Stats

\* A start makes a running row, which keeps the id of the row it finds.
LEMMA StartedRowType ==
  ASSUME NEW row \in Row \cup {NoRow}, NEW r \in Run
  PROVE  /\ StartedRow(row, r) \in Row
         /\ StartedRow(row, r).status = "running"
         /\ StartedRow(row, r).id = r \/ (row # NoRow /\ StartedRow(row, r).id = row.id)
<1>1. CASE row = NoRow
  BY <1>1 DEF StartedRow, Row, NoRow
<1>2. CASE row \in Row
  BY <1>2 DEF StartedRow, Row, NoRow
<1>3. QED
  BY <1>1, <1>2

\* A settled row is a row or still none; it is not completed by a failure.
LEMMA SettledRowType ==
  ASSUME NEW row \in Row \cup {NoRow}, NEW r \in Run, NEW s \in {"completed", "failed"}
  PROVE  /\ SettledRow(row, r, s) \in Row \cup {NoRow}
         /\ SettledRow(row, r, s).status = "completed"
              => row.status = "completed" \/ s = "completed"
<1>1. CASE row = NoRow
  BY <1>1 DEF SettledRow, Row, NoRow
<1>2. CASE row \in Row
  BY <1>2 DEF SettledRow, Row, NoRow
<1>3. QED
  BY <1>1, <1>2

\* Every step of a task or of its faults keeps the types.
LEMMA TaskType ==
  ASSUME TypeOK, NEW r \in Run, NEW f \in File, TaskStep(r, f) \/ TaskFault(r, f)
  PROVE  TypeOK'
<1> USE DEF TaskState, Goto, Fault, tables, progress, outcome
<1>1. CASE CheckIdempotency(r, f)
  BY <1>1 DEF CheckIdempotency, TypeOK
<1>2. CASE RecordStart(r, f)
  <2>1. StartedRow(etl[f], r) \in Row
    BY StartedRowType DEF TypeOK
  <2>2. QED
    BY <1>2, <2>1 DEF RecordStart, TypeOK
<1>3. CASE UpsertFullBatch(r, f)
  <2>1. PICK j \in DOMAIN Content[f] :
          /\ CommitBatch(r, f, j)
          /\ total' = [total EXCEPT ![r][f] =
                         MergeFull(@, BatchStats(f, Window(f, pos[r][f], j)))]
    BY <1>3 DEF UpsertFullBatch
  <2>2. MergeFull(total[r][f], BatchStats(f, Window(f, pos[r][f], j))) \in Stats
    BY <2>1, CommitBatchType, MergeType DEF TypeOK
  <2>3. total' \in [Run -> [File -> Stats]]
    BY <2>1, <2>2 DEF TypeOK
  <2>4. QED
    BY <1>3, <2>1, <2>3, CommitBatchType DEF UpsertFullBatch, TypeOK
<1>4. CASE UpsertFinalBatch(r, f)
  <2>1. PICK j \in DOMAIN Content[f] :
          /\ CommitBatch(r, f, j)
          /\ total' = [total EXCEPT ![r][f] =
                         MergeLast(@, BatchStats(f, Window(f, pos[r][f], j)))]
    BY <1>4 DEF UpsertFinalBatch
  <2>2. MergeLast(total[r][f], BatchStats(f, Window(f, pos[r][f], j))) \in Stats
    BY <2>1, CommitBatchType, MergeType DEF TypeOK
  <2>3. total' \in [Run -> [File -> Stats]]
    BY <2>1, <2>2 DEF TypeOK
  <2>4. pc' \in [Run -> [File -> TaskState]]
    BY <1>4 DEF UpsertFinalBatch, TypeOK
  <2>5. QED
    BY <1>4, <2>1, <2>3, <2>4, CommitBatchType DEF UpsertFinalBatch, TypeOK
<1>5. CASE UpsertRejected(r, f)
  BY <1>5 DEF UpsertRejected, TypeOK
<1>6. CASE EndOfFile(r, f)
  BY <1>6 DEF EndOfFile, TypeOK
<1>7. CASE RecordComplete(r, f)
  <2>1. SettledRow(etl[f], r, "completed") \in Row \cup {NoRow}
    BY SettledRowType DEF TypeOK
  <2>2. QED
    BY <1>7, <2>1 DEF RecordComplete, TypeOK
<1>8. CASE RecordFailed(r, f)
  <2>1. SettledRow(etl[f], r, "failed") \in Row \cup {NoRow}
    BY SettledRowType DEF TypeOK
  <2>2. QED
    BY <1>8, <2>1 DEF RecordFailed, TypeOK
<1>9. CASE CheckFails(r, f)
  BY <1>9, BoundAssumption DEF CheckFails, TypeOK
<1>10. CASE RecordStartFails(r, f)
  BY <1>10, BoundAssumption DEF RecordStartFails, TypeOK
<1>11. CASE StreamFails(r, f)
  BY <1>11, BoundAssumption DEF StreamFails, TypeOK
<1>12. CASE CommitUnacknowledged(r, f)
  <2>1. PICK j \in DOMAIN Content[f] : Upsert(f, Window(f, pos[r][f], j))
    BY <1>12 DEF CommitUnacknowledged
  <2>2. asteroids' \in [Neo -> Nat] /\ approaches' \subseteq Approach
    BY <2>1, WindowIsValid, UpsertEffect DEF TypeOK
  <2>3. QED
    BY <1>12, <2>2, BoundAssumption DEF CommitUnacknowledged, TypeOK
<1>13. CASE RecordCompleteFails(r, f)
  BY <1>13, BoundAssumption DEF RecordCompleteFails, TypeOK
<1>14. CASE RecordFailedFails(r, f)
  BY <1>14, BoundAssumption DEF RecordFailedFails, TypeOK
<1>15. QED
  BY <1>1, <1>2, <1>3, <1>4, <1>5, <1>6, <1>7, <1>8, <1>9, <1>10, <1>11,
     <1>12, <1>13, <1>14 DEF TaskStep, TaskFault

\* The loader is type correct.
THEOREM TypeCorrect == Spec => []TypeOK
<1>1. Init => TypeOK
  BY BoundAssumption
  DEF Init, TypeOK, RunState, TaskState, Stats, NoStats, NoRow, Row
<1>2. ASSUME TypeOK, [Next]_vars PROVE TypeOK'
  <2> USE DEF TaskState, RunState, Fault, tables, progress, outcome
  <2>1. ASSUME NEW f \in File, Stage(f) PROVE TypeOK'
    BY <1>2, <2>1 DEF Stage, TypeOK
  <2>2. ASSUME NEW r \in Run, NEW fl \in BOOLEAN, StartRun(r, fl) PROVE TypeOK'
    BY <1>2, <2>2 DEF StartRun, TypeOK
  <2>3. ASSUME NEW r \in Run, NothingToLoad(r) PROVE TypeOK'
    BY <1>2, <2>3 DEF NothingToLoad, TypeOK
  <2>4. ASSUME NEW r \in Run, NEW f \in File, TaskStep(r, f) \/ TaskFault(r, f)
        PROVE  TypeOK'
    BY <1>2, <2>4, TaskType
  <2>5. ASSUME NEW r \in Run, NEW sent \in BOOLEAN, FinishRun(r, sent) PROVE TypeOK'
    <3>1. \A f \in File : total[r][f].ids \subseteq Neo /\ total[r][f].haz \subseteq Approach
      BY <1>2 DEF TypeOK, Stats
    <3>2. UNION {total[r][f].ids : f \in Loaded(r)} \subseteq Neo
      BY <3>1 DEF Loaded
    <3>3. UNION {total[r][f].haz : f \in Loaded(r)} \subseteq Approach
      BY <3>1 DEF Loaded
    <3>4. QED
      BY <1>2, <2>5, <3>2, <3>3 DEF FinishRun, TypeOK
  <2>6. ASSUME NEW r \in Run, Crash(r) PROVE TypeOK'
    BY <1>2, <2>6, BoundAssumption DEF Crash, TypeOK
  <2>7. CASE UNCHANGED vars
    BY <1>2, <2>7 DEF vars, TypeOK
  <2>8. QED
    BY <1>2, <2>1, <2>2, <2>3, <2>4, <2>5, <2>6, <2>7 DEF Next
<1>3. QED
  BY <1>1, <1>2, PTL DEF Spec

-----------------------------------------------------------------------------
(***************************************************************************)
(* Safety: the ledger may be trusted, and nothing is new twice.            *)
(***************************************************************************)

\* The tables only ever gain rows.
TablesGrow ==
  /\ \A n \in Neo : asteroids[n] # 0 => asteroids'[n] # 0
  /\ approaches \subseteq approaches'

\* A record that is stored stays stored while the tables grow.
LEMMA StoredIsStable ==
  ASSUME TablesGrow, NEW f \in File
  PROVE  /\ \A k \in Valid(f) : Stored(f, k) => Stored(f, k)'
         /\ Persisted(f) => Persisted(f)'
<1>1. \A k \in Valid(f) : Content[f][k].neo \in Neo
  BY ValidIsRecord DEF Record
<1>2. \A k \in Valid(f) : Stored(f, k) => Stored(f, k)'
  BY <1>1 DEF TablesGrow, Stored
<1>3. QED
  BY <1>2 DEF Persisted

\* A step that leaves tables, positions and statistics alone keeps what the
\* invariant says of them.
LEMMA QuietStep ==
  ASSUME LoadInv, UNCHANGED <<tables, pos, inserted>>
  PROVE  /\ PrefixStored' /\ InsertedIsStored' /\ InsertedOnce'
         /\ \A f \in File : Persisted(f)' = Persisted(f)
BY DEF LoadInv, tables, PrefixStored, InsertedIsStored, InsertedOnce, Stored, Persisted

\* A step of one task of a started run that moves it to l, keeps the ledger and
\* leaves the file persisted if l promises it, keeps what the invariant says of
\* tasks and ledger.
LEMMA TaskMoves ==
  ASSUME LoadInv, NEW r \in Run, NEW f \in File, NEW l \in TaskState,
         pc[r][f] \notin {"none", "loaded"},
         Goto(r, f, l), UNCHANGED <<run, etl>>, TablesGrow,
         l \in {"complete", "loaded", "skipped"} => Persisted(f)'
  PROVE  TaskDoneIsPersisted' /\ CompletedIsPersisted' /\ IdleHasNoTask' /\ EventIsOver'
<1> USE DEF LoadInv, TypeOK, Goto
<1>1. TaskDoneIsPersisted'
  BY StoredIsStable DEF TaskDoneIsPersisted
<1>2. CompletedIsPersisted'
  BY StoredIsStable DEF CompletedIsPersisted, IsFileProcessed
<1>3. IdleHasNoTask'
  BY DEF IdleHasNoTask
<1>4. EventIsOver'
  <2> SUFFICES ASSUME NEW g \in File, etl[g] # NoRow
               PROVE  /\ run[etl[g].id] # "idle"
                      /\ IsFileProcessed(g) => pc'[etl[g].id][g] \in {"none", "loaded"}
    BY DEF EventIsOver, IsFileProcessed
  <2>1. etl[g].id \in Run
    BY DEF Row
  <2>2. QED
    BY <2>1 DEF EventIsOver, IsFileProcessed
<1>5. QED
  BY <1>1, <1>2, <1>3, <1>4

\* A committed batch extends the stored prefix and keeps new rows new once.
LEMMA CommittedBatch ==
  ASSUME LoadInv, NEW r \in Run, NEW f \in File, NEW j \in DOMAIN Content[f],
         CommitBatch(r, f, j)
  PROVE  TablesGrow /\ PrefixStored' /\ InsertedIsStored' /\ InsertedOnce'
<1> DEFINE W == Window(f, pos[r][f], j)
           b == BatchStats(f, W)
<1>1. W \in SUBSET Valid(f)
  BY WindowIsValid
<1>2. Upsert(f, W)
  BY DEF CommitBatch
<1>3. /\ \A n \in Neo : asteroids'[n] # 0 <=> (asteroids[n] # 0 \/ n \in NeosIn(f, W))
      /\ approaches' = approaches \cup AppsIn(f, W)
      /\ \A k \in W : Stored(f, k)'
  <2>1. asteroids \in [Neo -> Nat] /\ approaches \subseteq Approach
    BY DEF LoadInv, TypeOK
  <2> HIDE DEF W
  <2>2. QED
    BY <2>1, <1>1, <1>2, UpsertEffect DEF Stored
<1>4. TablesGrow
  BY <1>3 DEF TablesGrow
<1>5. PrefixStored'
  <2> SUFFICES ASSUME NEW q \in Run, NEW g \in File, NEW k \in Valid(g), k <= pos'[q][g]
               PROVE  Stored(g, k)'
    BY DEF PrefixStored
  <2>1. pos' = [pos EXCEPT ![r][f] = j]
    BY DEF CommitBatch
  <2>2. CASE k <= pos[q][g]
    BY <2>2, <1>4, StoredIsStable DEF LoadInv, PrefixStored
  <2>3. CASE ~(k <= pos[q][g])
    <3>1. q = r /\ g = f /\ k <= j
      BY <2>1, <2>3 DEF LoadInv, TypeOK
    <3>2. k \in W
      BY <3>1, <2>3, ValidIsRecord DEF Window, LoadInv, TypeOK
    <3>3. QED
      BY <3>1, <3>2, <1>3
  <2>4. QED
    BY <2>2, <2>3
<1>6. inserted' = [inserted EXCEPT ![r][f] = Combine(@, b)]
  BY DEF CommitBatch
<1>7. /\ inserted'[r][f].ids = inserted[r][f].ids \cup b.ids
      /\ inserted'[r][f].haz = inserted[r][f].haz \cup b.haz
  BY <1>6 DEF Combine, LoadInv, TypeOK
<1>8. \A q \in Run, g \in File : <<q, g>> # <<r, f>> => inserted'[q][g] = inserted[q][g]
  BY <1>6 DEF LoadInv, TypeOK
<1>9. /\ \A n \in b.ids : n \in Neo /\ asteroids[n] = 0 /\ asteroids'[n] # 0
      /\ \A a \in b.haz : a \notin approaches /\ a \in approaches'
  <2>1. NeosIn(f, W) \subseteq Neo
    BY <1>1, ValidIsRecord DEF NeosIn, Record
  <2>2. QED
    BY <2>1, <1>3 DEF BatchStats
<1>10. \A q \in Run, g \in File : inserted[q][g].ids \subseteq Neo
  BY DEF LoadInv, TypeOK, Stats
<1>11. InsertedIsStored'
  <2> SUFFICES ASSUME NEW q \in Run, NEW g \in File
               PROVE  /\ \A n \in inserted'[q][g].ids : asteroids'[n] # 0
                      /\ inserted'[q][g].haz \subseteq approaches'
    BY DEF InsertedIsStored
  <2>1. /\ \A n \in inserted[q][g].ids : asteroids'[n] # 0
        /\ inserted[q][g].haz \subseteq approaches'
    BY <1>4, <1>10 DEF LoadInv, InsertedIsStored, TablesGrow
  <2>2. CASE <<q, g>> = <<r, f>>
    BY <2>1, <2>2, <1>7, <1>9
  <2>3. CASE <<q, g>> # <<r, f>>
    BY <2>1, <2>3, <1>8
  <2>4. QED
    BY <2>2, <2>3
<1>12. InsertedOnce'
  <2>1. \A q \in Run, g \in File :
          /\ inserted[q][g].ids \cap b.ids = {}
          /\ inserted[q][g].haz \cap b.haz = {}
    BY <1>9 DEF LoadInv, InsertedIsStored
  <2> SUFFICES ASSUME NEW q \in Run, NEW p \in Run, NEW g \in File, NEW h \in File,
                      <<q, g>> # <<p, h>>
               PROVE  /\ inserted'[q][g].ids \cap inserted'[p][h].ids = {}
                      /\ inserted'[q][g].haz \cap inserted'[p][h].haz = {}
    BY DEF InsertedOnce
  <2>2. /\ inserted[q][g].ids \cap inserted[p][h].ids = {}
        /\ inserted[q][g].haz \cap inserted[p][h].haz = {}
    BY DEF LoadInv, InsertedOnce
  <2>3. CASE <<q, g>> = <<r, f>>
    BY <2>1, <2>2, <2>3, <1>7, <1>8
  <2>4. CASE <<p, h>> = <<r, f>>
    BY <2>1, <2>2, <2>4, <1>7, <1>8
  <2>5. CASE <<q, g>> # <<r, f>> /\ <<p, h>> # <<r, f>>
    BY <2>2, <2>5, <1>8
  <2>6. QED
    BY <2>3, <2>4, <2>5
<1>13. QED
  BY <1>4, <1>5, <1>11, <1>12

\* Every step of a task, and every fault of one, keeps the invariant.
LEMMA TaskKeepsLoadInv ==
  ASSUME LoadInv, NEW r \in Run, NEW f \in File, TaskStep(r, f) \/ TaskFault(r, f)
  PROVE  LoadInv'
<1> USE DEF tables, progress, outcome
<1>0. TypeOK'
  BY TaskType DEF LoadInv
<1>1. ASSUME NEW l \in TaskState, pc[r][f] \notin {"none", "loaded"}, Goto(r, f, l),
             UNCHANGED <<run, etl, asteroids, approaches, pos, inserted>>,
             l \in {"complete", "loaded", "skipped"} => Persisted(f)
      PROVE  LoadInv'
  <2>1. TablesGrow
    BY <1>1 DEF TablesGrow
  <2>2. Persisted(f)' = Persisted(f)
    BY <1>1, QuietStep
  <2>3. TaskDoneIsPersisted' /\ CompletedIsPersisted' /\ IdleHasNoTask' /\ EventIsOver'
    BY <1>1, <2>1, <2>2, TaskMoves
  <2>4. QED
    BY <1>0, <1>1, <2>3, QuietStep DEF LoadInv
<1>2. CASE CheckIdempotency(r, f)
  <2>1. IsFileProcessed(f) => Persisted(f)
    BY DEF LoadInv, CompletedIsPersisted
  <2>2. QED
    BY <1>1, <1>2, <2>1 DEF CheckIdempotency, TaskState
<1>3. CASE CheckFails(r, f)
  BY <1>1, <1>3 DEF CheckFails, TaskState
<1>4. CASE RecordStart(r, f)
  <2>1. /\ PrefixStored' /\ InsertedIsStored' /\ InsertedOnce'
        /\ \A g \in File : Persisted(g)' = Persisted(g)
    BY <1>4, QuietStep DEF RecordStart
  <2>2. etl'[f] = StartedRow(etl[f], r) /\ \A g \in File \ {f} : etl'[g] = etl[g]
    BY <1>4 DEF RecordStart, LoadInv, TypeOK
  <2>3. /\ etl'[f] \in Row /\ etl'[f].status = "running"
        /\ etl'[f].id = r \/ (etl[f] # NoRow /\ etl'[f].id = etl[f].id)
    BY <2>2, StartedRowType DEF LoadInv, TypeOK
  <2>4. /\ pc[r][f] = "start" /\ run' = run
        /\ \A q \in Run, g \in File :
             pc'[q][g] = IF q = r /\ g = f THEN "stream" ELSE pc[q][g]
    BY <1>4 DEF RecordStart, Goto, LoadInv, TypeOK
  <2>5. run[r] # "idle"
    BY <2>4 DEF LoadInv, IdleHasNoTask
  <2>6. TaskDoneIsPersisted'
    BY <2>1, <2>4 DEF LoadInv, TaskDoneIsPersisted
  <2>7. CompletedIsPersisted'
    BY <2>1, <2>2, <2>3 DEF LoadInv, CompletedIsPersisted, IsFileProcessed
  <2>8. IdleHasNoTask'
    BY <2>4, <2>5 DEF LoadInv, IdleHasNoTask
  <2>9. EventIsOver'
    <3> SUFFICES ASSUME NEW g \in File, etl'[g] # NoRow
                 PROVE  /\ run'[etl'[g].id] # "idle"
                        /\ etl'[g].status = "completed" =>
                             pc'[etl'[g].id][g] \in {"none", "loaded"}
      BY DEF EventIsOver, IsFileProcessed
    <3>1. CASE g = f
      BY <3>1, <2>3, <2>4, <2>5 DEF LoadInv, EventIsOver
    <3>2. CASE g # f
      <4>1. etl[g].id \in Run
        BY <3>2, <2>2 DEF LoadInv, TypeOK, Row
      <4>2. QED
        BY <3>2, <4>1, <2>2, <2>4 DEF LoadInv, EventIsOver, IsFileProcessed
    <3>3. QED
      BY <3>1, <3>2
  <2>10. QED
    BY <1>0, <2>1, <2>6, <2>7, <2>8, <2>9 DEF LoadInv
<1>5. CASE RecordStartFails(r, f)
  BY <1>1, <1>5 DEF RecordStartFails, TaskState
<1>6. CASE UpsertFullBatch(r, f)
  <2>1. PICK j \in DOMAIN Content[f] : CommitBatch(r, f, j)
    BY <1>6 DEF UpsertFullBatch
  <2>2. TablesGrow /\ PrefixStored' /\ InsertedIsStored' /\ InsertedOnce'
    BY <2>1, CommittedBatch
  <2>3. UNCHANGED <<pc, run, etl>>
    BY <1>6 DEF UpsertFullBatch
  <2>4. TaskDoneIsPersisted'
    BY <2>2, <2>3, StoredIsStable DEF LoadInv, TaskDoneIsPersisted
  <2>5. CompletedIsPersisted'
    BY <2>2, <2>3, StoredIsStable DEF LoadInv, CompletedIsPersisted, IsFileProcessed
  <2>6. IdleHasNoTask' /\ EventIsOver'
    BY <2>3 DEF LoadInv, IdleHasNoTask, EventIsOver, IsFileProcessed
  <2>7. QED
    BY <1>0, <2>2, <2>4, <2>5, <2>6 DEF LoadInv
<1>7. CASE UpsertFinalBatch(r, f)
  <2>1. PICK j \in DOMAIN Content[f] : LastBatch(f, pos[r][f], j) /\ CommitBatch(r, f, j)
    BY <1>7 DEF UpsertFinalBatch
  <2>2. TablesGrow /\ PrefixStored' /\ InsertedIsStored' /\ InsertedOnce'
    BY <2>1, CommittedBatch
  <2>3. pos'[r][f] = Len(Content[f])
    BY <2>1 DEF LastBatch, CommitBatch, LoadInv, TypeOK
  <2>4. Persisted(f)'
    BY <2>2, <2>3, ValidIsRecord DEF PrefixStored, Persisted
  <2>5. pc[r][f] = "stream" /\ Goto(r, f, "complete") /\ UNCHANGED <<run, etl>>
    BY <1>7 DEF UpsertFinalBatch
  <2>6. TaskDoneIsPersisted' /\ CompletedIsPersisted' /\ IdleHasNoTask' /\ EventIsOver'
    BY <2>2, <2>4, <2>5, TaskMoves DEF TaskState
  <2>7. QED
    BY <1>0, <2>2, <2>6 DEF LoadInv
<1>8. CASE UpsertRejected(r, f)
  BY <1>1, <1>8 DEF UpsertRejected, TaskState
<1>9. CASE StreamFails(r, f)
  BY <1>1, <1>9 DEF StreamFails, TaskState
<1>10. CASE CommitUnacknowledged(r, f)
  <2>1. PICK j \in DOMAIN Content[f] : Upsert(f, Window(f, pos[r][f], j))
    BY <1>10 DEF CommitUnacknowledged
  <2>2. TablesGrow
    BY <2>1, WindowIsValid, UpsertEffect DEF LoadInv, TypeOK, TablesGrow
  <2>3. pc[r][f] = "stream" /\ Goto(r, f, "fail") /\ UNCHANGED <<run, etl, pos, inserted>>
    BY <1>10 DEF CommitUnacknowledged
  <2>4. TaskDoneIsPersisted' /\ CompletedIsPersisted' /\ IdleHasNoTask' /\ EventIsOver'
    BY <2>2, <2>3, TaskMoves DEF TaskState
  <2>5. PrefixStored'
    BY <2>2, <2>3, StoredIsStable DEF LoadInv, PrefixStored
  <2>6. InsertedIsStored' /\ InsertedOnce'
    BY <2>2, <2>3 DEF LoadInv, TypeOK, Stats, TablesGrow, InsertedIsStored, InsertedOnce
  <2>7. QED
    BY <1>0, <2>4, <2>5, <2>6 DEF LoadInv
<1>11. CASE EndOfFile(r, f)
  <2>1. Persisted(f)
    <3> SUFFICES ASSUME NEW k \in Valid(f) PROVE Stored(f, k)
      BY DEF Persisted
    <3>1. k \notin Window(f, pos[r][f], Len(Content[f]))
      BY <1>11 DEF EndOfFile
    <3>2. k <= pos[r][f]
      BY <3>1, ValidIsRecord DEF Window, LoadInv, TypeOK
    <3>3. QED
      BY <3>2 DEF LoadInv, PrefixStored
  <2>2. QED
    BY <1>1, <1>11, <2>1 DEF EndOfFile, TaskState
<1>12. CASE RecordComplete(r, f) \/ RecordFailed(r, f)
  <2>1. /\ PrefixStored' /\ InsertedIsStored' /\ InsertedOnce'
        /\ \A g \in File : Persisted(g)' = Persisted(g)
    BY <1>12, QuietStep DEF RecordComplete, RecordFailed
  <2>2. PICK s \in {"completed", "failed"} :
          /\ s = "completed" => pc[r][f] = "complete"
          /\ etl'[f] = SettledRow(etl[f], r, s)
          /\ pc[r][f] \in {"complete", "fail"}
          /\ \A q \in Run, g \in File : pc'[q][g] =
               IF q = r /\ g = f THEN IF s = "completed" THEN "loaded" ELSE "failed"
                                 ELSE pc[q][g]
    BY <1>12 DEF RecordComplete, RecordFailed, Goto, LoadInv, TypeOK
  <2>3. run' = run /\ \A g \in File \ {f} : etl'[g] = etl[g]
    BY <1>12 DEF RecordComplete, RecordFailed, LoadInv, TypeOK
  <2>4. pc[r][f] = "complete" => Persisted(f)
    BY DEF LoadInv, TaskDoneIsPersisted
  <2>5. run[r] # "idle"
    BY <2>2 DEF LoadInv, IdleHasNoTask
  <2>6. TaskDoneIsPersisted'
    BY <2>1, <2>2, <2>4 DEF LoadInv, TaskDoneIsPersisted
  <2>7. CompletedIsPersisted'
    <3>1. etl'[f].status = "completed" => etl[f].status = "completed" \/ s = "completed"
      <4>1. etl[f] \in Row \cup {NoRow}
        BY DEF LoadInv, TypeOK
      <4>2. QED
        BY <2>2, <4>1, SettledRowType
    <3>2. QED
      BY <2>1, <2>2, <2>3, <2>4, <3>1 DEF LoadInv, CompletedIsPersisted, IsFileProcessed
  <2>8. IdleHasNoTask'
    BY <2>2, <2>3, <2>5 DEF LoadInv, IdleHasNoTask
  <2>9. EventIsOver'
    <3> SUFFICES ASSUME NEW g \in File, etl'[g] # NoRow
                 PROVE  /\ run'[etl'[g].id] # "idle"
                        /\ etl'[g].status = "completed" =>
                             pc'[etl'[g].id][g] \in {"none", "loaded"}
      BY DEF EventIsOver, IsFileProcessed
    <3>1. CASE g # f
      <4>1. etl[g].id \in Run
        BY <3>1, <2>3 DEF LoadInv, TypeOK, Row
      <4>2. QED
        BY <3>1, <4>1, <2>2, <2>3 DEF LoadInv, EventIsOver, IsFileProcessed
    <3>2. CASE g = f /\ etl[f] # NoRow /\ etl[f].id = r
      <4>1. etl'[f].id = r /\ etl'[f].status = s
        BY <3>2, <2>2 DEF SettledRow, LoadInv, TypeOK, Row, NoRow
      <4>2. QED
        BY <3>2, <4>1, <2>2, <2>3, <2>5
    <3>3. CASE g = f /\ ~(etl[f] # NoRow /\ etl[f].id = r)
      <4>1. etl'[f] = etl[f] /\ etl[f] # NoRow /\ etl[f].id # r /\ etl[f].id \in Run
        BY <3>3, <2>2 DEF SettledRow, LoadInv, TypeOK, Row
      <4>2. QED
        BY <3>3, <4>1, <2>2, <2>3 DEF LoadInv, EventIsOver, IsFileProcessed
    <3>4. QED
      BY <3>1, <3>2, <3>3
  <2>10. QED
    BY <1>0, <2>1, <2>6, <2>7, <2>8, <2>9 DEF LoadInv
<1>13. CASE RecordCompleteFails(r, f)
  <2>1. Persisted(f)
    BY <1>13 DEF RecordCompleteFails, LoadInv, TaskDoneIsPersisted
  <2>2. QED
    BY <1>1, <1>13, <2>1 DEF RecordCompleteFails, TaskState
<1>14. CASE RecordFailedFails(r, f)
  BY <1>1, <1>14 DEF RecordFailedFails, TaskState
<1>15. QED
  BY <1>2, <1>3, <1>4, <1>5, <1>6, <1>7, <1>8, <1>9, <1>10, <1>11, <1>12,
     <1>13, <1>14 DEF TaskStep, TaskFault

\* The whole invariant is inductive.
THEOREM LoadInvariant == Spec => []LoadInv
<1>1. Init => LoadInv
  <2> SUFFICES ASSUME Init PROVE LoadInv
    OBVIOUS
  <2>1. TypeOK
    BY BoundAssumption
    DEF Init, TypeOK, RunState, TaskState, Stats, NoStats, NoRow, Row
  <2>2. PrefixStored
    BY ValidIsRecord DEF Init, PrefixStored
  <2>3. CompletedIsPersisted /\ EventIsOver
    BY DEF Init, CompletedIsPersisted, EventIsOver, IsFileProcessed, NoRow
  <2>4. TaskDoneIsPersisted /\ IdleHasNoTask
    BY DEF Init, TaskDoneIsPersisted, IdleHasNoTask
  <2>5. InsertedIsStored /\ InsertedOnce
    BY DEF Init, InsertedIsStored, InsertedOnce, NoStats
  <2>6. QED
    BY <2>1, <2>2, <2>3, <2>4, <2>5 DEF LoadInv
<1>2. ASSUME LoadInv, TypeOK', [Next]_vars PROVE LoadInv'
  <2> USE DEF tables, progress, outcome
  \* A step that keeps tables, statistics and ledger, and gives no task anything
  \* to answer for.
  <2>1. ASSUME UNCHANGED <<asteroids, approaches, pos, inserted, etl>>,
               \A r \in Run, f \in File :
                 pc'[r][f] \in {"complete", "loaded", "skipped"} => pc'[r][f] = pc[r][f],
               \A r \in Run, f \in File :
                 pc[r][f] \in {"none", "loaded"} /\ run[r] # "idle"
                   => pc'[r][f] \in {"none", "loaded"},
               \A r \in Run : run[r] # "idle" => run'[r] # "idle",
               IdleHasNoTask'
        PROVE  LoadInv'
    <3>1. /\ PrefixStored' /\ InsertedIsStored' /\ InsertedOnce'
          /\ \A f \in File : Persisted(f)' = Persisted(f)
      BY <1>2, <2>1, QuietStep
    <3>2. TaskDoneIsPersisted'
      BY <1>2, <2>1, <3>1 DEF LoadInv, TaskDoneIsPersisted
    <3>3. CompletedIsPersisted'
      BY <1>2, <2>1, <3>1 DEF LoadInv, CompletedIsPersisted, IsFileProcessed
    <3>4. EventIsOver'
      <4> SUFFICES ASSUME NEW f \in File, etl[f] # NoRow
                   PROVE  /\ run'[etl[f].id] # "idle"
                          /\ etl[f].status = "completed" =>
                               pc'[etl[f].id][f] \in {"none", "loaded"}
        BY <2>1 DEF EventIsOver, IsFileProcessed
      <4>1. etl[f].id \in Run
        BY <1>2 DEF LoadInv, TypeOK, Row
      <4>2. QED
        BY <1>2, <2>1, <4>1 DEF LoadInv, EventIsOver, IsFileProcessed
    <3>5. QED
      BY <1>2, <2>1, <3>1, <3>2, <3>3, <3>4 DEF LoadInv
  <2>2. ASSUME NEW f \in File, Stage(f) PROVE LoadInv'
    BY <1>2, <2>1, <2>2 DEF Stage, LoadInv, IdleHasNoTask
  <2>3. ASSUME NEW r \in Run, NEW fl \in BOOLEAN, StartRun(r, fl) PROVE LoadInv'
    <3>1. /\ \A q \in Run : run'[q] = IF q = r THEN "loading" ELSE run[q]
          /\ \A q \in Run, f \in File : pc'[q][f] =
               IF q = r THEN IF f \in staged THEN "queued" ELSE "none" ELSE pc[q][f]
      BY <1>2, <2>3 DEF StartRun, LoadInv, TypeOK
    <3>2. IdleHasNoTask'
      BY <1>2, <3>1 DEF LoadInv, IdleHasNoTask
    <3>3. QED
      BY <2>1, <2>3, <3>1, <3>2 DEF StartRun
  <2>4. ASSUME NEW r \in Run, NothingToLoad(r) PROVE LoadInv'
    <3>1. \A q \in Run : run'[q] = IF q = r THEN "done" ELSE run[q]
      BY <1>2, <2>4 DEF NothingToLoad, LoadInv, TypeOK
    <3>2. IdleHasNoTask'
      BY <1>2, <2>4, <3>1 DEF NothingToLoad, LoadInv, IdleHasNoTask
    <3>3. QED
      BY <2>1, <2>4, <3>1, <3>2 DEF NothingToLoad
  <2>5. ASSUME NEW r \in Run, NEW f \in File, TaskStep(r, f) \/ TaskFault(r, f)
        PROVE  LoadInv'
    BY <1>2, <2>5, TaskKeepsLoadInv
  <2>6. ASSUME NEW r \in Run, NEW sent \in BOOLEAN, FinishRun(r, sent) PROVE LoadInv'
    <3>1. \A q \in Run : run'[q] = IF q = r THEN "done" ELSE run[q]
      BY <1>2, <2>6 DEF FinishRun, LoadInv, TypeOK
    <3>2. IdleHasNoTask'
      BY <1>2, <2>6, <3>1 DEF FinishRun, LoadInv, IdleHasNoTask
    <3>3. QED
      BY <2>1, <2>6, <3>1, <3>2 DEF FinishRun
  <2>7. ASSUME NEW r \in Run, Crash(r) PROVE LoadInv'
    <3>1. /\ \A q \in Run : run'[q] = IF q = r THEN "crashed" ELSE run[q]
          /\ \A q \in Run, f \in File : pc'[q][f] = IF q = r THEN "none" ELSE pc[q][f]
      BY <1>2, <2>7 DEF Crash, LoadInv, TypeOK
    <3>2. IdleHasNoTask'
      BY <1>2, <3>1 DEF LoadInv, IdleHasNoTask
    <3>3. QED
      BY <2>1, <2>7, <3>1, <3>2 DEF Crash
  <2>8. CASE UNCHANGED vars
    BY <1>2, <2>1, <2>8 DEF vars, LoadInv, IdleHasNoTask
  <2>9. QED
    BY <1>2, <2>2, <2>3, <2>4, <2>5, <2>6, <2>7, <2>8 DEF Next
<1>3. QED
  BY <1>1, <1>2, TypeCorrect, PTL DEF Spec

\* The ledger may be trusted: a completed file has every record in the tables.
THEOREM LedgerIsSound == Spec => []CompletedIsPersisted
<1>1. LoadInv => CompletedIsPersisted
  BY DEF LoadInv
<1>2. QED
  BY <1>1, LoadInvariant, PTL

\* A skipped file is fully in the tables, whatever became of its row since.
THEOREM SkippingIsSound == Spec => []SkippedIsPersisted
<1>1. LoadInv => SkippedIsPersisted
  BY DEF LoadInv, TaskDoneIsPersisted, SkippedIsPersisted
<1>2. QED
  BY <1>1, LoadInvariant, PTL

\* No row is reported as new to two tasks.
THEOREM NewOnce == Spec => []InsertedOnce
<1>1. LoadInv => InsertedOnce
  BY DEF LoadInv
<1>2. QED
  BY <1>1, LoadInvariant, PTL

-----------------------------------------------------------------------------
(***************************************************************************)
(* Steps: what one may never do, and what it is for the abstract store.    *)
(***************************************************************************)

\* The steps that write the ledger, and how; every other step keeps it.
LEMMA LedgerStep ==
  ASSUME LoadInv, [Next]_vars
  PROVE  \/ etl' = etl
         \/ \E r \in Run, f \in File :
              /\ UNCHANGED tables
              /\ \A g \in File \ {f} : etl'[g] = etl[g]
              /\ \/ etl'[f].status = "running"
                 \/ pc[r][f] = "complete" /\ etl'[f] = SettledRow(etl[f], r, "completed")
                 \/ pc[r][f] = "fail" /\ etl'[f] = SettledRow(etl[f], r, "failed")
<1> USE DEF tables
<1>1. ASSUME NEW r \in Run, NEW f \in File, RecordStart(r, f)
      PROVE  /\ UNCHANGED tables
             /\ \A g \in File \ {f} : etl'[g] = etl[g]
             /\ etl'[f].status = "running"
  BY <1>1, StartedRowType DEF RecordStart, LoadInv, TypeOK
<1>2. ASSUME NEW r \in Run, NEW f \in File, RecordComplete(r, f)
      PROVE  /\ UNCHANGED tables
             /\ \A g \in File \ {f} : etl'[g] = etl[g]
             /\ pc[r][f] = "complete" /\ etl'[f] = SettledRow(etl[f], r, "completed")
  BY <1>2 DEF RecordComplete, LoadInv, TypeOK
<1>3. ASSUME NEW r \in Run, NEW f \in File, RecordFailed(r, f)
      PROVE  /\ UNCHANGED tables
             /\ \A g \in File \ {f} : etl'[g] = etl[g]
             /\ pc[r][f] = "fail" /\ etl'[f] = SettledRow(etl[f], r, "failed")
  BY <1>3 DEF RecordFailed, LoadInv, TypeOK
<1>4. ASSUME NEW r \in Run, NEW f \in File,
             TaskStep(r, f) \/ TaskFault(r, f),
             ~RecordStart(r, f), ~RecordComplete(r, f), ~RecordFailed(r, f)
      PROVE  etl' = etl
  BY <1>4 DEF TaskStep, TaskFault, CheckIdempotency, UpsertFullBatch, UpsertFinalBatch,
     UpsertRejected, EndOfFile, CheckFails, RecordStartFails, StreamFails,
     CommitUnacknowledged, RecordCompleteFails, RecordFailedFails
<1>5. QED
  BY <1>1, <1>2, <1>3, <1>4
  DEF Next, vars, Stage, StartRun, NothingToLoad, FinishRun, Crash

\* A late failure never overwrites a completed row.
THEOREM CompletedStaysGood == Spec => CompletedNeverFails
<1>1. ASSUME LoadInv, [Next]_vars, NEW f \in File, etl[f].status = "completed"
      PROVE  etl'[f].status \in {"completed", "running"}
  <2>1. CASE etl' = etl
    BY <1>1, <2>1
  <2>2. ASSUME NEW r \in Run, NEW g \in File,
               \A h \in File \ {g} : etl'[h] = etl[h],
               \/ etl'[g].status = "running"
               \/ pc[r][g] = "complete" /\ etl'[g] = SettledRow(etl[g], r, "completed")
               \/ pc[r][g] = "fail" /\ etl'[g] = SettledRow(etl[g], r, "failed")
        PROVE  etl'[f].status \in {"completed", "running"}
    <3>1. etl[f] \in Row
      BY <1>1 DEF LoadInv, TypeOK, NoRow
    <3>2. etl[f].id # r \/ pc[r][f] \in {"none", "loaded"}
      BY <1>1, <3>1 DEF LoadInv, EventIsOver, IsFileProcessed, Row, NoRow
    <3>3. QED
      BY <1>1, <2>2, <3>1, <3>2 DEF SettledRow, Row
  <2>3. QED
    BY <1>1, <2>1, <2>2, LedgerStep
<1>2. LoadInv /\ [Next]_vars =>
        [\A f \in File : etl[f].status = "completed" =>
           etl'[f].status \in {"completed", "running"}]_vars
  BY <1>1
<1>3. QED
  BY <1>2, LoadInvariant, PTL DEF Spec, CompletedNeverFails

\* A committed batch adds facts of the file to the store and nothing else.
LEMMA UpsertIngests ==
  ASSUME LoadInv, NEW f \in File, NEW W \in SUBSET Valid(f), Upsert(f, W), UNCHANGED etl
  PROVE  \E S \in SUBSET FileFacts[f] : Store!Ingest(f, S)
<1> DEFINE S == {AsteroidFact(n) : n \in NeosIn(f, W)}
                  \cup {ApproachFact(a) : a \in AppsIn(f, W)}
<1>1. NeosIn(f, W) \subseteq NeosIn(f, Valid(f)) /\ AppsIn(f, W) \subseteq AppsIn(f, Valid(f))
  BY DEF NeosIn, AppsIn
<1>2. S \in SUBSET FileFacts[f]
  BY <1>1 DEF FileFacts
<1>3. NeosIn(f, W) \subseteq Neo
  BY ValidIsRecord DEF NeosIn, Record
<1>4. {m \in Neo : asteroids'[m] # 0} = {m \in Neo : asteroids[m] # 0} \cup NeosIn(f, W)
  BY <1>3, UpsertEffect DEF LoadInv, TypeOK
<1>5. approaches' = approaches \cup AppsIn(f, W)
  BY DEF Upsert
<1>6. StoredFacts' = StoredFacts \cup S
  BY <1>4, <1>5 DEF StoredFacts
<1>7. {g \in File : IsFileProcessed(g)}' = {g \in File : IsFileProcessed(g)}
  BY DEF IsFileProcessed
<1>8. QED
  BY <1>2, <1>6, <1>7 DEF Store!Ingest

\* A persisted file has all its facts in the store.
LEMMA PersistedFacts ==
  ASSUME NEW f \in File, Persisted(f)
  PROVE  FileFacts[f] \subseteq StoredFacts
<1>1. \A k \in Valid(f) : Stored(f, k) /\ Content[f][k].neo \in Neo
  BY ValidIsRecord DEF Persisted, Record
<1>2. NeosIn(f, Valid(f)) \subseteq {m \in Neo : asteroids[m] # 0}
  BY <1>1 DEF NeosIn, Stored
<1>3. AppsIn(f, Valid(f)) \subseteq approaches
  BY <1>1 DEF AppsIn, Stored
<1>4. QED
  BY <1>2, <1>3 DEF FileFacts, StoredFacts

\* Every step of the loader is a step of the idempotent store, or no step of it.
LEMMA StepSimulation ==
  ASSUME LoadInv, [Next]_vars
  PROVE  [Store!ANext]_Store!avars
<1> DEFINE acked == {g \in File : IsFileProcessed(g)}
<1>1. ASSUME UNCHANGED tables, acked' = acked
      PROVE  UNCHANGED Store!avars
  <2>1. StoredFacts' = StoredFacts
    BY <1>1 DEF tables, StoredFacts
  <2>2. QED
    BY <2>1, <1>1 DEF Store!avars
<1>2. ASSUME NEW f \in File, NEW W \in SUBSET Valid(f), Upsert(f, W), UNCHANGED etl
      PROVE  Store!ANext
  BY <1>2, UpsertIngests DEF Store!ANext
<1>3. CASE etl' = etl
  <2>1. acked' = acked
    BY <1>3 DEF IsFileProcessed
  <2>2. CASE UNCHANGED tables
    BY <1>1, <2>1, <2>2
  <2>3. CASE ~UNCHANGED tables
    <3>1. PICK r \in Run, f \in File :
            UpsertFullBatch(r, f) \/ UpsertFinalBatch(r, f) \/ CommitUnacknowledged(r, f)
      BY <2>3 DEF Next, vars, tables, TaskStep, TaskFault, Stage, StartRun, NothingToLoad,
         FinishRun, Crash, CheckIdempotency, UpsertRejected, EndOfFile, CheckFails,
         RecordStart, RecordComplete, RecordFailed, RecordStartFails, StreamFails,
         RecordCompleteFails, RecordFailedFails
    <3>2. PICK j \in DOMAIN Content[f] : Upsert(f, Window(f, pos[r][f], j))
      BY <3>1 DEF UpsertFullBatch, UpsertFinalBatch, CommitUnacknowledged, CommitBatch
    <3>3. QED
      BY <1>2, <1>3, <3>2, WindowIsValid
  <2>4. QED
    BY <2>2, <2>3
<1>4. ASSUME NEW r \in Run, NEW f \in File,
             UNCHANGED tables,
             \A g \in File \ {f} : etl'[g] = etl[g],
             \/ etl'[f].status = "running"
             \/ pc[r][f] = "complete" /\ etl'[f] = SettledRow(etl[f], r, "completed")
             \/ pc[r][f] = "fail" /\ etl'[f] = SettledRow(etl[f], r, "failed")
      PROVE  [Store!ANext]_Store!avars
  <2>1. StoredFacts' = StoredFacts
    BY <1>4 DEF tables, StoredFacts
  <2>2. CASE etl'[f].status # "completed"
    <3>1. acked' = acked \ {f}
      BY <1>4, <2>2 DEF IsFileProcessed
    <3>2. QED
      BY <2>1, <3>1 DEF Store!ANext, Store!Reopen
  <2>3. CASE etl'[f].status = "completed" /\ etl[f].status = "completed"
    <3>1. acked' = acked
      BY <1>4, <2>3 DEF IsFileProcessed
    <3>2. QED
      BY <1>1, <1>4, <3>1
  <2>4. CASE etl'[f].status = "completed" /\ etl[f].status # "completed"
    <3>1. acked' = acked \cup {f}
      BY <1>4, <2>4 DEF IsFileProcessed
    <3>2. pc[r][f] = "complete"
      <4>1. etl[f] \in Row \cup {NoRow}
        BY DEF LoadInv, TypeOK
      <4>2. QED
        BY <1>4, <2>4, <4>1, SettledRowType
    <3>3. FileFacts[f] \subseteq StoredFacts
      BY <3>2, PersistedFacts DEF LoadInv, TaskDoneIsPersisted
    <3>4. QED
      BY <2>1, <3>1, <3>3 DEF Store!ANext, Store!Acknowledge
  <2>5. QED
    BY <2>2, <2>3, <2>4
<1>5. QED
  BY <1>3, <1>4, LedgerStep

\* The loader implements the idempotent store.
THEOREM LoaderRefinesStore == Spec => StoreSpec
<1>1. Init => Store!AInit
  BY DEF Init, Store!AInit, StoredFacts, IsFileProcessed, NoRow
<1>2. LoadInv /\ [Next]_vars => [Store!ANext]_Store!avars
  BY StepSimulation
<1>3. QED
  BY <1>1, <1>2, LoadInvariant, PTL DEF Spec, StoreSpec, Store!ASpec
=============================================================================
