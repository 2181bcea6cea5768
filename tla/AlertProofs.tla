---------------------------- MODULE AlertProofs ----------------------------
(***************************************************************************)
(* Proofs about AlertDispatch for every set of approaches and of slots.    *)
(***************************************************************************)
EXTENDS AlertDispatch, FiniteSetTheorems, TLAPS

\* Sets of slots are finite and no larger than Slot.
LEMMA SlotsCounted ==
  ASSUME NEW T \in SUBSET Slot
  PROVE  /\ IsFiniteSet(T)
         /\ Cardinality(T) \in Nat
         /\ Cardinality(Slot) \in Nat
         /\ Cardinality(T) <= Cardinality(Slot)
BY SettingAssumption, FS_Subset, FS_CardinalityType

\* Disjoint sets of slots have together no more slots than there are.
LEMMA SlotsDisjoint ==
  ASSUME NEW T \in SUBSET Slot, NEW U \in SUBSET Slot, T \cap U = {}
  PROVE  Cardinality(T) + Cardinality(U) <= Cardinality(Slot)
<1>1. /\ IsFiniteSet(T) /\ Cardinality(T) \in Nat
      /\ IsFiniteSet(U) /\ Cardinality(U) \in Nat
  BY SlotsCounted
<1>2. Cardinality(T \cup U) = Cardinality(T) + Cardinality(U) - Cardinality(T \cap U)
  BY <1>1, FS_Union
<1>3. Cardinality(T \cap U) = 0
  BY FS_EmptySet
<1>4. T \cup U \in SUBSET Slot
  OBVIOUS
<1>5. Cardinality(T \cup U) <= Cardinality(Slot) /\ Cardinality(Slot) \in Nat
  BY <1>4, SlotsCounted
<1>6. QED
  BY <1>1, <1>2, <1>3, <1>5

\* The slots that send a message about an approach and those that record it are
\* different slots.
LEMMA SendingOrRecording ==
  ASSUME NEW a \in Approach
  PROVE  /\ Cardinality(Sending(a)) \in Nat
         /\ Cardinality(Recording(a)) \in Nat
         /\ Cardinality(Slot) \in Nat
         /\ Cardinality(Sending(a)) + Cardinality(Recording(a)) <= Cardinality(Slot)
<1>1. /\ Sending(a) \in SUBSET Slot
      /\ Recording(a) \in SUBSET Slot
      /\ Sending(a) \cap Recording(a) = {}
  BY DEF Sending, Recording
<1>2. QED
  BY <1>1, SlotsDisjoint, SlotsCounted

\* A slot that enters or leaves a set of slots changes its size by at most one.
LEMMA SlotMoves ==
  ASSUME NEW T \in SUBSET Slot, NEW s \in Slot
  PROVE  /\ Cardinality(T) \in Nat
         /\ Cardinality(T \ {s}) = IF s \in T THEN Cardinality(T) - 1 ELSE Cardinality(T)
         /\ Cardinality(T \cup {s}) = IF s \in T THEN Cardinality(T) ELSE Cardinality(T) + 1
BY SlotsCounted, FS_AddElement, FS_RemoveElement

\* A task that moves on stops sending, and records or is done.
LEMMA GotoSets ==
  ASSUME TypeOK, NEW s \in Slot, NEW a \in Approach,
         NEW l \in {"record", "done"}, Goto(s, a, l)
  PROVE  /\ Sending(a)' = Sending(a) \ {s}
         /\ Recording(a)' = IF l = "record" THEN Recording(a) \cup {s}
                                           ELSE Recording(a) \ {s}
         /\ \A b \in Approach \ {a} : Sending(b)' = Sending(b) /\ Recording(b)' = Recording(b)
<1>1. \A q \in Slot, b \in Approach :
        task'[q][b] = IF q = s /\ b = a THEN l ELSE task[q][b]
  BY DEF TypeOK, Goto
<1>2. QED
  BY <1>1 DEF Sending, Recording

\* The same in numbers.
LEMMA GotoCounts ==
  ASSUME TypeOK, NEW s \in Slot, NEW a \in Approach,
         NEW l \in {"record", "done"}, Goto(s, a, l)
  PROVE  /\ Cardinality(Sending(a))' = IF s \in Sending(a) THEN Cardinality(Sending(a)) - 1
                                                           ELSE Cardinality(Sending(a))
         /\ l = "done" =>
              Cardinality(Recording(a))' = IF s \in Recording(a)
                                             THEN Cardinality(Recording(a)) - 1
                                             ELSE Cardinality(Recording(a))
         /\ l = "record" /\ s \notin Recording(a) =>
              Cardinality(Recording(a))' = Cardinality(Recording(a)) + 1
<1>1. Sending(a) \in SUBSET Slot /\ Recording(a) \in SUBSET Slot
  BY DEF Sending, Recording
<1>2. /\ Sending(a)' = Sending(a) \ {s}
      /\ l = "done" => Recording(a)' = Recording(a) \ {s}
      /\ l = "record" => Recording(a)' = Recording(a) \cup {s}
  BY GotoSets
<1>3. Cardinality(Sending(a) \ {s}) = IF s \in Sending(a) THEN Cardinality(Sending(a)) - 1
                                                          ELSE Cardinality(Sending(a))
  BY <1>1, SlotMoves
<1>4. Cardinality(Recording(a) \ {s}) = IF s \in Recording(a) THEN Cardinality(Recording(a)) - 1
                                                              ELSE Cardinality(Recording(a))
  BY <1>1, SlotMoves
<1>5. s \notin Recording(a) =>
        Cardinality(Recording(a) \cup {s}) = Cardinality(Recording(a)) + 1
  BY <1>1, SlotMoves
<1>6. QED
  BY <1>2, <1>3, <1>4, <1>5

\* An invocation that ends takes its tasks along, at most one of them on a.
LEMMA NoTaskCounts ==
  ASSUME TypeOK, NEW s \in Slot, task' = [task EXCEPT ![s] = NoTask], NEW a \in Approach
  PROVE  /\ Cardinality(Sending(a))' = IF s \in Sending(a) THEN Cardinality(Sending(a)) - 1
                                                           ELSE Cardinality(Sending(a))
         /\ Cardinality(Recording(a))' = IF s \in Recording(a)
                                            THEN Cardinality(Recording(a)) - 1
                                            ELSE Cardinality(Recording(a))
<1>1. Sending(a) \in SUBSET Slot /\ Recording(a) \in SUBSET Slot
  BY DEF Sending, Recording
<1>2. \A q \in Slot : task'[q][a] = IF q = s THEN "none" ELSE task[q][a]
  BY DEF TypeOK, NoTask
<1>3. Sending(a)' = Sending(a) \ {s} /\ Recording(a)' = Recording(a) \ {s}
  BY <1>2 DEF Sending, Recording
<1>4. Cardinality(Sending(a) \ {s}) = IF s \in Sending(a) THEN Cardinality(Sending(a)) - 1
                                                          ELSE Cardinality(Sending(a))
  BY <1>1, SlotMoves
<1>5. Cardinality(Recording(a) \ {s}) = IF s \in Recording(a) THEN Cardinality(Recording(a)) - 1
                                                              ELSE Cardinality(Recording(a))
  BY <1>1, SlotMoves
<1>6. QED
  BY <1>3, <1>4, <1>5

\* A scan makes its slot send messages about the approaches it selected.
LEMMA ScanSets ==
  ASSUME TypeOK, TasksAreActive, NEW s \in Slot, Scan(s)
  PROVE  \E S \in SUBSET Candidates :
           \A b \in Approach :
             /\ Sending(b)' = IF b \in S THEN Sending(b) \cup {s} ELSE Sending(b)
             /\ Recording(b)' = Recording(b)
             /\ task[s][b] = "none"
             /\ \A q \in Slot :
                  task'[q][b] = IF q = s THEN (IF b \in S THEN "send" ELSE "none") ELSE task[q][b]
<1>1. PICK S \in SUBSET Candidates :
        task' = [task EXCEPT ![s] = [a \in Approach |-> IF a \in S THEN "send" ELSE "none"]]
  BY DEF Scan
<1>2. \A q \in Slot, b \in Approach :
        task'[q][b] = IF q = s THEN (IF b \in S THEN "send" ELSE "none") ELSE task[q][b]
  BY <1>1 DEF TypeOK
<1>3. \A b \in Approach : task[s][b] = "none"
  BY DEF TasksAreActive, NoTask, Scan
<1>4. \A b \in Approach :
        /\ Sending(b)' = IF b \in S THEN Sending(b) \cup {s} ELSE Sending(b)
        /\ Recording(b)' = Recording(b)
  BY <1>2, <1>3 DEF Sending, Recording
<1>5. QED
  BY <1>1, <1>2, <1>3, <1>4

-----------------------------------------------------------------------------
\* The initial state is well typed.
LEMMA InitType == Init => TypeOK
BY DateAssumption, SettingAssumption DEF Init, TypeOK, NoTask

\* Every step keeps the types; a scan needs to know that idle slots have no task.
LEMMA NextType == TypeOK /\ TasksAreActive /\ [Next]_vars => TypeOK'
<1> SUFFICES ASSUME TypeOK, TasksAreActive, [Next]_vars PROVE TypeOK'
  OBVIOUS
<1> USE DEF TypeOK, tables
<1>0. faults \in Nat /\ MaxFaults \in Nat /\ today \in Nat
  BY SettingAssumption
<1>1. ASSUME NEW a \in Approach, NEW p \in BOOLEAN, Load(a, p) PROVE TypeOK'
  BY <1>1 DEF Load
<1>2. CASE Midnight
  BY <1>2 DEF Midnight
<1>3. CASE Prune
  BY <1>3 DEF Prune, PrunedAlerts, Prunable
<1>4. ASSUME NEW s \in Slot, Scan(s) PROVE TypeOK'
  BY <1>4 DEF Scan
<1>5. ASSUME NEW s \in Slot, NEW a \in Approach, TaskStep(s, a) PROVE TypeOK'
  <2>1. CASE Send(s, a)
    BY <2>1 DEF Send, Goto, Delivered
  <2>2. CASE Record(s, a)
    BY <2>2 DEF Record, Goto
  <2>3. CASE RecordRejected(s, a)
    BY <2>3 DEF RecordRejected, Goto
  <2>4. QED
    BY <1>5, <2>1, <2>2, <2>3 DEF TaskStep
<1>6. ASSUME NEW s \in Slot, NEW a \in Approach, TaskFault(s, a) PROVE TypeOK'
  <2>1. CASE SendFails(s, a)
    BY <2>1, <1>0 DEF SendFails, Goto, Fault
  <2>2. CASE SendUnacknowledged(s, a)
    BY <2>2, <1>0 DEF SendUnacknowledged, Goto, Delivered, Fault
  <2>3. CASE RecordFails(s, a)
    BY <2>3, <1>0 DEF RecordFails, Goto, Fault
  <2>4. QED
    BY <1>6, <2>1, <2>2, <2>3 DEF TaskFault
<1>7. ASSUME NEW s \in Slot, Finish(s) PROVE TypeOK'
  BY <1>7 DEF Finish, NoTask
<1>8. ASSUME NEW s \in Slot, Crash(s) PROVE TypeOK'
  BY <1>8, <1>0 DEF Crash, NoTask, Fault
<1>9. CASE UNCHANGED vars
  BY <1>9 DEF vars
<1>10. QED
  BY <1>1, <1>2, <1>3, <1>4, <1>5, <1>6, <1>7, <1>8, <1>9 DEF Next

-----------------------------------------------------------------------------
\* Tasks run in active slots only.
LEMMA NextTasksAreActive ==
  TypeOK /\ TasksAreActive /\ [Next]_vars => TasksAreActive'
<1> SUFFICES ASSUME TypeOK, TasksAreActive, [Next]_vars,
                    NEW q \in Slot, q \notin active'
             PROVE  task'[q] = NoTask
  BY DEF TasksAreActive
<1> USE DEF TypeOK, TasksAreActive, tables
<1>1. CASE UNCHANGED <<task, active>>
  BY <1>1
<1>2. ASSUME NEW s \in Slot, Scan(s) PROVE task'[q] = NoTask
  BY <1>2 DEF Scan
<1>3. ASSUME NEW s \in Slot, NEW a \in Approach, NEW l, Goto(s, a, l),
             task[s][a] # "none", UNCHANGED active
      PROVE  task'[q] = NoTask
  <2>1. q # s
    BY <1>3 DEF NoTask
  <2>2. QED
    BY <1>3, <2>1 DEF Goto
<1>4. ASSUME NEW s \in Slot, task' = [task EXCEPT ![s] = NoTask], active' = active \ {s}
      PROVE  task'[q] = NoTask
  BY <1>4
<1>5. QED
  BY <1>1, <1>2, <1>3, <1>4
     DEF Next, vars, Load, Midnight, Prune, TaskStep, TaskFault, Send, Record, RecordRejected,
         SendFails, SendUnacknowledged, RecordFails, Finish, Crash

\* A task ahead of its day keeps its approach: pruning deletes past ones only.
LEMMA NextTasksAreLoaded ==
  TypeOK /\ TasksAreActive /\ TasksAreLoaded /\ [Next]_vars => TasksAreLoaded'
<1> SUFFICES ASSUME TypeOK, TasksAreActive, TasksAreLoaded, [Next]_vars,
                    NEW q \in Slot, NEW b \in Approach,
                    task'[q][b] # "none", DateOf[b] >= today'
             PROVE  b \in rows'
  BY DEF TasksAreLoaded, Ahead
<1> USE DEF TypeOK, TasksAreLoaded, Ahead, tables
<1>a. DateOf[b] \in Nat /\ Retention \in Nat
  BY DateAssumption, SettingAssumption
<1>1. CASE UNCHANGED <<today, task>> /\ rows \subseteq rows'
  BY <1>1
<1>2. CASE Midnight
  BY <1>2, <1>a DEF Midnight
<1>3. CASE Prune
  BY <1>3, <1>a DEF Prune, Prunable
<1>4. ASSUME NEW s \in Slot, Scan(s) PROVE b \in rows'
  <2>1. PICK S \in SUBSET Candidates :
          task'[q][b] = IF q = s THEN (IF b \in S THEN "send" ELSE "none") ELSE task[q][b]
    BY <1>4, ScanSets
  <2>2. QED
    BY <1>4, <2>1 DEF Scan, Candidates, Alertable
<1>5. ASSUME NEW s \in Slot, NEW a \in Approach, NEW l, Goto(s, a, l),
             task[s][a] # "none", UNCHANGED <<today, rows>>
      PROVE  b \in rows'
  <2>1. task[q][b] # "none"
    BY <1>5 DEF Goto
  <2>2. QED
    BY <1>5, <2>1
<1>6. ASSUME NEW s \in Slot, task' = [task EXCEPT ![s] = NoTask], UNCHANGED <<today, rows>>
      PROVE  b \in rows'
  BY <1>6 DEF NoTask
<1>7. QED
  BY <1>1, <1>2, <1>3, <1>4, <1>5, <1>6
     DEF Next, vars, Load, TaskStep, TaskFault, Send, Record, RecordRejected,
         SendFails, SendUnacknowledged, RecordFails, Finish, Crash

-----------------------------------------------------------------------------
\* Rows of the alerts table are recorded ones, and those of approaches ahead stay.
LEMMA NextAlerts ==
  TypeOK /\ AlertsAreRecorded /\ AlertedStaysAlerted /\ [Next]_vars
    => AlertsAreRecorded' /\ AlertedStaysAlerted'
<1> SUFFICES ASSUME TypeOK, AlertsAreRecorded, AlertedStaysAlerted, [Next]_vars
             PROVE  AlertsAreRecorded' /\ AlertedStaysAlerted'
  OBVIOUS
<1> USE DEF TypeOK, AlertsAreRecorded, AlertedStaysAlerted, tables
<1>a. Retention \in Nat /\ \A b \in Approach : DateOf[b] \in Nat
  BY DateAssumption, SettingAssumption
<1>1. CASE UNCHANGED <<today, rows, alerts, recorded>>
  BY <1>1
<1>2. CASE Midnight
  BY <1>2, <1>a DEF Midnight
<1>3. CASE Prune
  BY <1>3, <1>a DEF Prune, Prunable, PrunedAlerts
<1>4. ASSUME NEW s \in Slot, NEW a \in Approach, Record(s, a)
      PROVE  AlertsAreRecorded' /\ AlertedStaysAlerted'
  BY <1>4 DEF Record
<1>5. QED
  BY <1>1, <1>2, <1>3, <1>4
     DEF Next, vars, Load, TaskStep, TaskFault, Send, RecordRejected, Scan,
         SendFails, SendUnacknowledged, RecordFails, Finish, Crash

\* A task is about to record only once its message is out; messages are never unsent.
LEMMA NextSent ==
  TypeOK /\ RecordingWasSent /\ RecordedWasSent /\ [Next]_vars => RecordingWasSent' /\ RecordedWasSent'
<1> SUFFICES ASSUME TypeOK, RecordingWasSent, RecordedWasSent, [Next]_vars, Configured
             PROVE  RecordingWasSent' /\ RecordedWasSent'
  BY DEF RecordingWasSent, RecordedWasSent
<1> USE DEF tables
<1>1. /\ \A s \in Slot, a \in Approach : task[s][a] = "record" => sent[a] > 0
      /\ \A a \in recorded : sent[a] > 0
      /\ \A a \in Approach : sent[a] \in Nat
      /\ recorded \subseteq Approach
  BY DEF TypeOK, RecordingWasSent, RecordedWasSent
<1>2. ASSUME UNCHANGED <<sent, recorded>>,
             \A s \in Slot, a \in Approach : task'[s][a] = "record" => task[s][a] = "record"
      PROVE  RecordingWasSent' /\ RecordedWasSent'
  BY <1>1, <1>2 DEF RecordingWasSent, RecordedWasSent
<1>3. ASSUME NEW s \in Slot, NEW a \in Approach, TaskStep(s, a) \/ TaskFault(s, a)
      PROVE  RecordingWasSent' /\ RecordedWasSent'
  <2>1. CASE Send(s, a) \/ SendUnacknowledged(s, a)
    <3>1. /\ sent' = [sent EXCEPT ![a] = sent[a] + 1] /\ recorded' = recorded
          /\ \A r \in Slot, b \in Approach : task'[r][b] = "record" => task[r][b] = "record" \/ b = a
      BY <2>1 DEF Send, SendUnacknowledged, Delivered, Goto, TypeOK
    <3>2. \A b \in Approach : (sent[b] > 0 => sent'[b] > 0) /\ sent'[a] > 0
      BY <1>1, <3>1 DEF TypeOK
    <3>3. QED
      BY <1>1, <3>1, <3>2 DEF RecordingWasSent, RecordedWasSent
  <2>2. CASE Record(s, a)
    <3>1. /\ sent' = sent /\ recorded' = recorded \cup {a} /\ task[s][a] = "record"
          /\ \A r \in Slot, b \in Approach : task'[r][b] = "record" => task[r][b] = "record"
      BY <2>2 DEF Record, Goto, TypeOK
    <3>2. QED
      BY <1>1, <3>1 DEF RecordingWasSent, RecordedWasSent
  <2>3. CASE RecordRejected(s, a) \/ SendFails(s, a) \/ RecordFails(s, a)
    <3>1. /\ UNCHANGED <<sent, recorded>>
          /\ \A r \in Slot, b \in Approach : task'[r][b] = "record" => task[r][b] = "record"
      BY <2>3 DEF RecordRejected, SendFails, RecordFails, Goto, TypeOK
    <3>2. QED
      BY <1>2, <3>1
  <2>4. QED
    BY <1>3, <2>1, <2>2, <2>3 DEF TaskStep, TaskFault
<1>4. ASSUME NEW s \in Slot, Scan(s) \/ Finish(s) \/ Crash(s)
      PROVE  RecordingWasSent' /\ RecordedWasSent'
  <2>1. UNCHANGED <<sent, recorded>>
    BY <1>4 DEF Scan, Finish, Crash
  <2>2. CASE Scan(s)
    <3>1. PICK S \in SUBSET Candidates :
            task' = [task EXCEPT ![s] = [a \in Approach |-> IF a \in S THEN "send" ELSE "none"]]
      BY <2>2 DEF Scan
    <3>2. \A r \in Slot, b \in Approach : task'[r][b] = "record" => task[r][b] = "record"
      BY <3>1 DEF TypeOK
    <3>3. QED
      BY <1>2, <2>1, <3>2
  <2>3. CASE Finish(s) \/ Crash(s)
    <3>1. \A r \in Slot, b \in Approach : task'[r][b] = "record" => task[r][b] = "record"
      BY <2>3 DEF Finish, Crash, NoTask, TypeOK
    <3>2. QED
      BY <1>2, <2>1, <3>1
  <2>4. QED
    BY <1>4, <2>2, <2>3
<1>5. CASE Midnight \/ Prune \/ (\E a \in Approach, p \in BOOLEAN : Load(a, p)) \/ UNCHANGED vars
  <2>1. UNCHANGED <<task, sent, recorded>>
    BY <1>5 DEF Midnight, Prune, Load, vars
  <2>2. QED
    BY <1>2, <2>1
<1>6. QED
  BY <1>3, <1>4, <1>5 DEF Next

-----------------------------------------------------------------------------
\* The counts, for one approach.
Unrecorded(b) ==
  b \notin recorded /\ Ahead(b) => sent[b] <= faults + Cardinality(Recording(b))
Bounded(b) == sent[b] + Cardinality(Sending(b)) <= faults + Cardinality(Slot)

\* A task step or fault on approach a keeps the counts of every approach.
LEMMA TaskCounts ==
  ASSUME TypeOK, TasksAreLoaded, AlertsAreRecorded, UnrecordedSends, SendsBounded,
         NEW s \in Slot, NEW a \in Approach, TaskStep(s, a) \/ TaskFault(s, a)
  PROVE  UnrecordedSends' /\ SendsBounded'
<1> SUFFICES ASSUME NEW b \in Approach PROVE Unrecorded(b)' /\ Bounded(b)'
  BY DEF UnrecordedSends, SendsBounded, Unrecorded, Bounded
<1> DEFINE S == Cardinality(Sending(b))
           R == Cardinality(Recording(b))
           N == Cardinality(Slot)
<1>1. S \in Nat /\ R \in Nat /\ N \in Nat /\ S + R <= N
  BY SendingOrRecording
<1>2. sent[b] \in Nat /\ faults \in Nat
  BY SettingAssumption DEF TypeOK
<1>3. Unrecorded(b) /\ Bounded(b)
  BY DEF UnrecordedSends, SendsBounded, Unrecorded, Bounded
<1>4. UNCHANGED today /\ recorded \subseteq recorded'
  BY DEF TaskStep, TaskFault, Send, Record, RecordRejected, SendFails,
         SendUnacknowledged, RecordFails
<1>5. Sending(b) \in SUBSET Slot /\ Recording(b) \in SUBSET Slot
  BY DEF Sending, Recording
<1>6. CASE b # a
  <2>1. UNCHANGED <<Sending(b), Recording(b), sent[b]>>
    BY <1>6, GotoSets DEF TaskStep, TaskFault, Send, Record, RecordRejected, SendFails,
       SendUnacknowledged, RecordFails, Delivered, TypeOK
  <2>2. faults' >= faults /\ faults' \in Nat
    BY <1>2 DEF TaskStep, TaskFault, Send, Record, RecordRejected, SendFails,
       SendUnacknowledged, RecordFails, Fault
  <2>3. S' = S /\ R' = R
    BY <2>1
  <2>4. QED
    BY <2>1, <2>2, <2>3, <1>1, <1>2, <1>3, <1>4 DEF Unrecorded, Bounded, Ahead
<1>7. CASE b = a
  <2>1. CASE Send(s, b)
    <3>1. s \in Sending(b) /\ s \notin Recording(b)
      BY <2>1 DEF Send, Sending, Recording
    <3>2. S' = S - 1 /\ R' = R + 1
      BY <2>1, <3>1, GotoCounts DEF Send
    <3>3. sent'[b] <= sent[b] + 1 /\ sent'[b] \in Nat /\ faults' = faults
      BY <2>1, <1>2 DEF Send, Delivered, TypeOK
    <3>4. QED
      BY <3>2, <3>3, <1>1, <1>2, <1>3, <1>4 DEF Unrecorded, Bounded, Ahead
  <2>2. CASE Record(s, b)
    <3>1. s \notin Sending(b) /\ b \in recorded'
      BY <2>2 DEF Record, Sending
    <3>2. S' = S
      BY <2>2, <3>1, GotoCounts DEF Record
    <3>3. sent'[b] = sent[b] /\ faults' = faults
      BY <2>2 DEF Record
    <3>4. QED
      BY <3>1, <3>2, <3>3, <1>1, <1>2, <1>3 DEF Unrecorded, Bounded
  <2>3. CASE RecordRejected(s, b)
    <3>1. s \notin Sending(b)
      BY <2>3 DEF RecordRejected, Sending
    <3>2. S' = S
      BY <2>3, <3>1, GotoCounts DEF RecordRejected
    <3>3. sent'[b] = sent[b] /\ faults' = faults
      BY <2>3 DEF RecordRejected
    <3>4. b \in recorded' \/ ~Ahead(b)'
      BY <2>3 DEF RecordRejected, TasksAreLoaded, AlertsAreRecorded, Ahead
    <3>5. QED
      BY <3>2, <3>3, <3>4, <1>1, <1>2, <1>3 DEF Unrecorded, Bounded
  <2>4. CASE SendFails(s, b)
    <3>1. s \in Sending(b) /\ s \notin Recording(b)
      BY <2>4 DEF SendFails, Sending, Recording
    <3>2. S' = S - 1 /\ R' = R
      BY <2>4, <3>1, GotoCounts DEF SendFails
    <3>3. sent'[b] = sent[b] /\ faults' = faults + 1
      BY <2>4 DEF SendFails, Fault
    <3>4. QED
      BY <3>2, <3>3, <1>1, <1>2, <1>3, <1>4 DEF Unrecorded, Bounded, Ahead
  <2>5. CASE SendUnacknowledged(s, b)
    <3>1. s \in Sending(b) /\ s \notin Recording(b)
      BY <2>5 DEF SendUnacknowledged, Sending, Recording
    <3>2. S' = S - 1 /\ R' = R
      BY <2>5, <3>1, GotoCounts DEF SendUnacknowledged
    <3>3. sent'[b] = sent[b] + 1 /\ faults' = faults + 1
      BY <2>5 DEF SendUnacknowledged, Fault, Delivered, TypeOK
    <3>4. QED
      BY <3>2, <3>3, <1>1, <1>2, <1>3, <1>4 DEF Unrecorded, Bounded, Ahead
  <2>6. CASE RecordFails(s, b)
    <3>1. s \notin Sending(b) /\ s \in Recording(b)
      BY <2>6 DEF RecordFails, Sending, Recording
    <3>2. S' = S /\ R' = R - 1
      BY <2>6, <3>1, GotoCounts DEF RecordFails
    <3>3. sent'[b] = sent[b] /\ faults' = faults + 1
      BY <2>6 DEF RecordFails, Fault
    <3>4. QED
      BY <3>2, <3>3, <1>1, <1>2, <1>3, <1>4 DEF Unrecorded, Bounded, Ahead
  <2>7. QED
    BY <1>7, <2>1, <2>2, <2>3, <2>4, <2>5, <2>6 DEF TaskStep, TaskFault
<1>8. QED
  BY <1>6, <1>7

\* So does every step: messages sent before the first row are matched by faults
\* or by tasks that still have to record them.
LEMMA NextCounts ==
  ASSUME TypeOK, TasksAreActive, TasksAreLoaded, AlertsAreRecorded, AlertedStaysAlerted,
         UnrecordedSends, SendsBounded, [Next]_vars
  PROVE  UnrecordedSends' /\ SendsBounded'
<1>1. ASSUME NEW s \in Slot, NEW a \in Approach, TaskStep(s, a) \/ TaskFault(s, a)
      PROVE  UnrecordedSends' /\ SendsBounded'
  BY <1>1, TaskCounts
<1>2. ASSUME ~\E s \in Slot, a \in Approach : TaskStep(s, a) \/ TaskFault(s, a)
      PROVE  UnrecordedSends' /\ SendsBounded'
  <2> SUFFICES ASSUME NEW b \in Approach PROVE Unrecorded(b)' /\ Bounded(b)'
    BY DEF UnrecordedSends, SendsBounded, Unrecorded, Bounded
  <2> DEFINE S == Cardinality(Sending(b))
             R == Cardinality(Recording(b))
             N == Cardinality(Slot)
  <2>1. S \in Nat /\ R \in Nat /\ N \in Nat /\ S + R <= N
    BY SendingOrRecording
  <2>2. sent[b] \in Nat /\ faults \in Nat /\ today \in Nat /\ DateOf[b] \in Nat
    BY SettingAssumption, DateAssumption DEF TypeOK
  <2>3. Unrecorded(b) /\ Bounded(b)
    BY DEF UnrecordedSends, SendsBounded, Unrecorded, Bounded
  <2>4. Sending(b) \in SUBSET Slot /\ Recording(b) \in SUBSET Slot
    BY DEF Sending, Recording
  <2>5. CASE UNCHANGED <<task, sent, recorded, faults>> /\ today' \in {today, today + 1}
    BY <2>5, <2>2, <2>3 DEF Unrecorded, Bounded, Ahead, Sending, Recording
  <2>6. ASSUME NEW s \in Slot, Scan(s) PROVE Unrecorded(b)' /\ Bounded(b)'
    <3>1. PICK C \in SUBSET Candidates :
            /\ Sending(b)' = IF b \in C THEN Sending(b) \cup {s} ELSE Sending(b)
            /\ Recording(b)' = Recording(b)
      BY <2>6, ScanSets
    <3>2. UNCHANGED <<today, sent, recorded, faults>>
      BY <2>6 DEF Scan
    <3>3. CASE b \in C
      <4>1. b \notin recorded /\ Ahead(b)
        BY <3>3, <3>1 DEF Candidates, Alertable, AlertedStaysAlerted, Ahead
      <4>2. Sending(b) \cup {s} \in SUBSET Slot
        BY <2>4
      <4>3. Sending(b)' \in SUBSET Slot /\ Recording(b)' \in SUBSET Slot
            /\ Sending(b)' \cap Recording(b)' = {}
        BY <3>1, <3>3, <4>2, <2>4, <2>6 DEF Sending, Recording, Scan, TasksAreActive, NoTask
      <4>4. Cardinality(Sending(b)') + Cardinality(Recording(b)') <= N
        BY <4>3, SlotsDisjoint
      <4>5. S' + R <= N /\ S' \in Nat
        BY <4>3, <4>4, <3>1, SlotsCounted
      <4>6. QED
        BY <4>1, <4>5, <3>1, <3>2, <2>1, <2>2, <2>3 DEF Unrecorded, Bounded, Ahead
    <3>4. CASE b \notin C
      BY <3>1, <3>2, <3>4, <2>3 DEF Unrecorded, Bounded, Ahead
    <3>5. QED
      BY <3>3, <3>4
  <2>7. ASSUME NEW s \in Slot, Finish(s) PROVE Unrecorded(b)' /\ Bounded(b)'
    <3>1. s \notin Sending(b) /\ s \notin Recording(b)
      BY <2>7 DEF Finish, Sending, Recording
    <3>2. S' = S /\ R' = R
      BY <2>7, <3>1, NoTaskCounts DEF Finish
    <3>3. QED
      BY <2>7, <3>2, <2>3 DEF Finish, Unrecorded, Bounded, Ahead
  <2>8. ASSUME NEW s \in Slot, Crash(s) PROVE Unrecorded(b)' /\ Bounded(b)'
    <3>1. S' \in {S - 1, S} /\ R' \in {R - 1, R}
      BY <2>8, NoTaskCounts DEF Crash
    <3>2. faults' = faults + 1 /\ UNCHANGED <<today, sent, recorded>>
      BY <2>8 DEF Crash, Fault
    <3>3. QED
      BY <3>1, <3>2, <2>1, <2>2, <2>3 DEF Unrecorded, Bounded, Ahead
  <2>9. QED
    BY <1>2, <2>5, <2>6, <2>7, <2>8 DEF Next, vars, Load, Midnight, Prune
<1>3. QED
  BY <1>1, <1>2

-----------------------------------------------------------------------------
\* The inductive invariant: types, where tasks may be, and the counts of messages.
THEOREM AlertInvariant == Spec => []AlertInv
<1>1. Init => AlertInv
  <2> SUFFICES ASSUME Init PROVE AlertInv
    OBVIOUS
  <2>1. \A a \in Approach : Sending(a) = {} /\ Recording(a) = {}
    BY DEF Init, Sending, Recording, NoTask
  <2>2. Cardinality({}) = 0 /\ Cardinality(Slot) \in Nat
    BY FS_EmptySet, SettingAssumption, FS_CardinalityType
  <2>3. \A a \in Approach : Cardinality(Sending(a)) = 0 /\ Cardinality(Recording(a)) = 0
    BY <2>1, <2>2
  <2>4. UnrecordedSends /\ SendsBounded
    BY <2>2, <2>3 DEF Init, UnrecordedSends, SendsBounded
  <2>5. QED
    BY <2>4, InitType DEF Init, AlertInv, TasksAreActive, TasksAreLoaded, AlertsAreRecorded,
       AlertedStaysAlerted, RecordingWasSent, RecordedWasSent, NoTask
<1>2. AlertInv /\ [Next]_vars => AlertInv'
  BY NextType, NextTasksAreActive, NextTasksAreLoaded, NextAlerts, NextSent, NextCounts DEF AlertInv
<1>3. QED
  BY <1>1, <1>2, PTL DEF Spec

\* Every variable keeps its type, and no alerts row outlives its approach.
THEOREM AlertTypes == Spec => []TypeOK
<1>1. AlertInv => TypeOK
  BY DEF AlertInv
<1>2. QED
  BY <1>1, AlertInvariant, PTL

\* What was recorded is not scanned again while it is ahead.
THEOREM RecordedStays == Spec => []AlertedStaysAlerted
<1>1. AlertInv => AlertedStaysAlerted
  BY DEF AlertInv
<1>2. QED
  BY <1>1, AlertInvariant, PTL

\* A surplus message takes a fault or an overlapping invocation.
THEOREM SurplusNeedsCause == Spec => []DuplicatesBounded
<1>1. AlertInv => DuplicatesBounded
  <2> SUFFICES ASSUME AlertInv, NEW a \in Approach
               PROVE  sent[a] <= faults + Cardinality(Slot)
    BY DEF DuplicatesBounded
  <2>1. Cardinality(Sending(a)) \in Nat /\ Cardinality(Slot) \in Nat
    BY SendingOrRecording
  <2>2. sent[a] \in Nat /\ faults \in Nat
    BY SettingAssumption DEF AlertInv, TypeOK
  <2>3. QED
    BY <2>1, <2>2 DEF AlertInv, SendsBounded
<1>2. QED
  BY <1>1, AlertInvariant, PTL

\* The order of send_alert and record_alert: what is on record as alerted has had its message.
THEOREM OnRecordIsSent == Spec => []RecordedWasSent
<1>1. AlertInv => RecordedWasSent
  BY DEF AlertInv
<1>2. QED
  BY <1>1, AlertInvariant, PTL

\* README.md:65, as far as it goes: where invocations take turns and nothing fails, no
\* approach is alerted twice, however tables change and days pass.
THEOREM AtMostOneMessage ==
  ASSUME MaxFaults = 0, Cardinality(Slot) = 1
  PROVE  Spec => [](\A a \in Approach : sent[a] <= 1)
<1>1. TypeOK /\ DuplicatesBounded => \A a \in Approach : sent[a] <= 1
  <2> SUFFICES ASSUME TypeOK, DuplicatesBounded, NEW a \in Approach PROVE sent[a] <= 1
    OBVIOUS
  <2>1. sent[a] <= faults + Cardinality(Slot) /\ faults = 0
    BY DEF DuplicatesBounded, TypeOK
  <2>2. QED
    BY <2>1
<1>2. QED
  BY <1>1, AlertTypes, SurplusNeedsCause, PTL
=============================================================================
