--------------------------- MODULE AlertDispatch ---------------------------
(***************************************************************************)
(* The `alert` command: src/alert/service.rs selects the hazardous coming  *)
(* approaches that have no row in the alerts table, sends each to Discord  *)
(* from a task of its own (src/alert/discord.rs), and inserts the row once *)
(* the message is out.  Loading and pruning (src/database/retention.rs)    *)
(* change the tables meanwhile, sends and statements fail, the process may *)
(* die between sending and recording.                                      *)
(*                                                                         *)
(* A slot is a place where invocations run one after the other: one slot   *)
(* when the schedule serializes them, more when some may overlap.          *)
(***************************************************************************)
EXTENDS Integers, FiniteSets

CONSTANTS
  Approach,     \* ids of approaches
  Notable,      \* those classified Hazardous, High or Critical
  DateOf,       \* close_approach_date of each, in days
  Slot,         \* places where an invocation of the command can run
  Limit,        \* LIMIT of the scan (etl.batch_size)
  Configured,   \* whether the webhook URL is not empty
  Retention,    \* days a past approach is kept
  MaxDay,       \* bound on the calendar
  MaxFaults     \* bound on failed sends, failed statements and crashes

ASSUME DateAssumption == DateOf \in [Approach -> Nat] /\ Notable \subseteq Approach
ASSUME SettingAssumption ==
  /\ IsFiniteSet(Slot)
  /\ Configured \in BOOLEAN
  /\ {Limit, Retention, MaxDay, MaxFaults} \subseteq Nat

VARIABLES
  today,     \* CURRENT_DATE
  rows,      \* the approaches in the database
  pha,       \* those of a potentially hazardous asteroid
  alerts,    \* the approaches with an alerts row of type 'discord'
  task,      \* task[s][a]: where the task of slot s for a is
  active,    \* the slots where an invocation is under way
  sent,      \* history: messages about a that reached Discord
  recorded,  \* history: the approaches an alerts row was ever inserted for
  faults     \* faults so far

vars == <<today, rows, pha, alerts, task, active, sent, recorded, faults>>
tables == <<rows, pha, alerts>>
-----------------------------------------------------------------------------
\* ON DELETE CASCADE: deleting approaches deletes their alerts.
PrunedAlerts(S) == alerts \ S

\* Mutant: <= instead of <.
BugPrunable == {a \in rows : DateOf[a] <= today - Retention}

\* The approaches that close_approach_date < cutoff selects.
Prunable == {a \in rows : DateOf[a] < today - Retention}

\* The WHERE clause of the scan, without the condition on alerts.
Alertable(a) ==
  /\ a \in rows
  /\ a \in pha \cup Notable
  /\ DateOf[a] >= today

\* Mutant: the LEFT JOIN on alerts is dropped.
BugCandidates == {a \in Approach : Alertable(a)}

\* LEFT JOIN alerts ... WHERE al.id IS NULL.
Candidates == {a \in Approach : Alertable(a) /\ a \notin alerts}

\* S is a possible answer to SELECT ... FROM C ORDER BY date LIMIT.
Earliest(S, C) ==
  /\ S \subseteq C
  /\ Cardinality(S) = IF Cardinality(C) < Limit THEN Cardinality(C) ELSE Limit
  /\ \A x \in S, y \in C \ S : DateOf[x] <= DateOf[y]

\* Mutant: the limit is applied before the approaches already alerted go.
BugSelected(S) ==
  \E U \in SUBSET Approach :
    Earliest(U, {a \in Approach : Alertable(a)}) /\ S = U \cap Candidates

Selected(S) == Earliest(S, Candidates)

Goto(s, a, l) == task' = [task EXCEPT ![s][a] = l]
Delivered(a) == sent' = [sent EXCEPT ![a] = @ + 1]
Fault == faults < MaxFaults /\ faults' = faults + 1

NoTask == [a \in Approach |-> "none"]

Init ==
  /\ today = 0
  /\ rows = {}
  /\ pha = {}
  /\ alerts = {}
  /\ task = [s \in Slot |-> NoTask]
  /\ active = {}
  /\ sent = [a \in Approach |-> 0]
  /\ recorded = {}
  /\ faults = 0

-----------------------------------------------------------------------------
\* upsert_batch brings the approach and the flag of its asteroid.
Load(a, p) ==
  /\ rows' = rows \cup {a}
  /\ pha' = IF p THEN pha \cup {a} ELSE pha \ {a}
  /\ UNCHANGED <<today, alerts, task, active, sent, recorded, faults>>

Midnight ==
  /\ today < MaxDay
  /\ today' = today + 1
  /\ UNCHANGED <<tables, task, active, sent, recorded, faults>>

\* RetentionRepository::prune, its first statement.
Prune ==
  /\ Prunable # {}
  /\ rows' = rows \ Prunable
  /\ alerts' = PrunedAlerts(Prunable)
  /\ UNCHANGED <<today, pha, task, active, sent, recorded, faults>>

\* check_and_send_alerts: the query, and a task for each row it returns.
Scan(s) ==
  /\ s \notin active
  /\ Candidates # {}
  /\ \E S \in SUBSET Candidates :
       /\ Selected(S)
       /\ task' = [task EXCEPT ![s] = [a \in Approach |-> IF a \in S THEN "send" ELSE "none"]]
  /\ active' = active \cup {s}
  /\ UNCHANGED <<today, tables, sent, recorded, faults>>

\* send_alert returns Ok, having sent nothing when the URL is empty.
Send(s, a) ==
  /\ task[s][a] = "send"
  /\ IF Configured THEN Delivered(a) ELSE UNCHANGED sent
  /\ Goto(s, a, "record")
  /\ UNCHANGED <<today, tables, active, recorded, faults>>

\* Mutant: the row is inserted whatever send_alert returns.
BugSendFails(s, a) ==
  /\ task[s][a] = "send"
  /\ Configured
  /\ Fault
  /\ Goto(s, a, "record")
  /\ UNCHANGED <<today, tables, active, sent, recorded>>

\* send_alert fails, the message not delivered.
SendFails(s, a) ==
  /\ task[s][a] = "send"
  /\ Configured
  /\ Fault
  /\ Goto(s, a, "done")
  /\ UNCHANGED <<today, tables, active, sent, recorded>>

\* send_alert fails, the message delivered: the answer was lost.
SendUnacknowledged(s, a) ==
  /\ task[s][a] = "send"
  /\ Configured
  /\ Fault
  /\ Delivered(a)
  /\ Goto(s, a, "done")
  /\ UNCHANGED <<today, tables, active, recorded>>

\* record_alert: the foreign key and UNIQUE (approach_id, alert_type) hold.
Record(s, a) ==
  /\ task[s][a] = "record"
  /\ a \in rows
  /\ a \notin alerts
  /\ alerts' = alerts \cup {a}
  /\ recorded' = recorded \cup {a}
  /\ Goto(s, a, "done")
  /\ UNCHANGED <<today, rows, pha, active, sent, faults>>

\* record_alert: the row is rejected, the error only logged.
RecordRejected(s, a) ==
  /\ task[s][a] = "record"
  /\ a \notin rows \/ a \in alerts
  /\ Goto(s, a, "done")
  /\ UNCHANGED <<today, tables, active, sent, recorded, faults>>

\* record_alert: the statement fails, the error only logged.
RecordFails(s, a) ==
  /\ task[s][a] = "record"
  /\ Fault
  /\ Goto(s, a, "done")
  /\ UNCHANGED <<today, tables, active, sent, recorded>>

\* Every handle joined.
Finish(s) ==
  /\ s \in active
  /\ \A a \in Approach : task[s][a] \in {"none", "done"}
  /\ active' = active \ {s}
  /\ task' = [task EXCEPT ![s] = NoTask]
  /\ UNCHANGED <<today, tables, sent, recorded, faults>>

\* The process dies: what was sent and not yet recorded stays unrecorded.
Crash(s) ==
  /\ s \in active
  /\ Fault
  /\ active' = active \ {s}
  /\ task' = [task EXCEPT ![s] = NoTask]
  /\ UNCHANGED <<today, tables, sent, recorded>>

TaskStep(s, a) == Send(s, a) \/ Record(s, a) \/ RecordRejected(s, a)
TaskFault(s, a) == SendFails(s, a) \/ SendUnacknowledged(s, a) \/ RecordFails(s, a)

Next ==
  \/ \E a \in Approach, p \in BOOLEAN : Load(a, p)
  \/ Midnight
  \/ Prune
  \/ \E s \in Slot :
       \/ Scan(s)
       \/ \E a \in Approach : TaskStep(s, a) \/ TaskFault(s, a)
       \/ Finish(s)
       \/ Crash(s)

\* The schedule keeps starting the command and the runtime polls its tasks.
Fairness ==
  \A s \in Slot :
    /\ WF_vars(Scan(s))
    /\ WF_vars(Finish(s))
    /\ \A a \in Approach : WF_vars(TaskStep(s, a))

Spec == Init /\ [][Next]_vars
FairSpec == Spec /\ Fairness
-----------------------------------------------------------------------------
\* Every variable holds a value of the kind the schema and the code give it.
TypeOK ==
  /\ today \in Nat
  /\ rows \subseteq Approach
  /\ pha \subseteq Approach
  /\ alerts \subseteq rows
  /\ task \in [Slot -> [Approach -> {"none", "send", "record", "done"}]]
  /\ active \subseteq Slot
  /\ sent \in [Approach -> Nat]
  /\ recorded \subseteq Approach
  /\ faults \in 0..MaxFaults

\* What the LEFT JOIN and the UNIQUE constraint are worth: an approach gets one
\* message, and one more only for each fault and for each other invocation that
\* overlaps; reloading, pruning and the passing of days never cause one.
DuplicatesBounded ==
  \A a \in Approach : sent[a] <= faults + Cardinality(Slot)

\* An approach recorded once keeps its alerts row, and so never comes up again,
\* while it is ahead: reloading its asteroid does not remove the row, nor does
\* pruning, which cascades to alerts.
AlertedStaysAlerted ==
  \A a \in recorded : DateOf[a] >= today => a \in alerts

\* alert/service.rs:139: no approach is passed over in silence.  One with an alerts row,
\* which keeps it out of every scan, has had its message, if there is a webhook at all.
RecordedWasSent ==
  Configured => \A a \in recorded : sent[a] > 0

\* The strengthening that makes them inductive: a task runs only in an active
\* slot and for an approach that is loaded or past; a message sent before the
\* first row is matched by a fault or by a task about to record it.
Ahead(a) == DateOf[a] >= today
Sending(a) == {s \in Slot : task[s][a] = "send"}
Recording(a) == {s \in Slot : task[s][a] = "record"}
TasksAreActive ==
  \A s \in Slot \ active : task[s] = NoTask
TasksAreLoaded ==
  \A s \in Slot, a \in Approach : task[s][a] # "none" /\ Ahead(a) => a \in rows
AlertsAreRecorded == alerts \subseteq recorded
UnrecordedSends ==
  \A a \in Approach \ recorded : Ahead(a) =>
    sent[a] <= faults + Cardinality(Recording(a))
RecordingWasSent ==
  Configured => \A s \in Slot, a \in Approach : task[s][a] = "record" => sent[a] > 0
SendsBounded ==
  \A a \in Approach :
    sent[a] + Cardinality(Sending(a)) <= faults + Cardinality(Slot)

AlertInv ==
  /\ TypeOK
  /\ TasksAreActive
  /\ TasksAreLoaded
  /\ AlertsAreRecorded
  /\ AlertedStaysAlerted
  /\ UnrecordedSends
  /\ SendsBounded
  /\ RecordingWasSent
  /\ RecordedWasSent

\* An approach that should be alerted is, unless its day passes or it stops
\* being hazardous: earlier approaches and failures only delay it.
EventuallyAlerted ==
  \A a \in Approach : a \in Candidates ~> a \notin Candidates
=============================================================================
