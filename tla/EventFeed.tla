------------------------------ MODULE EventFeed ------------------------------
(***************************************************************************)
(* What the hazard stream promises, without handlers, cursors or a buffer: *)
(* there are so many places and no more; who has one and listens hears     *)
(* every event from then on, each once and in order, or is told how many   *)
(* of them went by; and a place that is left is free again.                *)
(***************************************************************************)
EXTENDS Integers, FiniteSets

CONSTANTS
  Client,
  Places,     \* how many may listen
  MaxEvents   \* bound on the events published

VARIABLES
  published,  \* events so far
  seated,     \* the clients that have a place
  heard,      \* heard[c]: the last event c accounts for, once it listens
  note        \* note[c]: the last c was sent, if anything

fvars == <<published, seated, heard, note>>

FInit ==
  /\ published = 0
  /\ seated = {}
  /\ heard = [c \in Client |-> {}]
  /\ note = [c \in Client |-> {}]

Publish ==
  /\ published < MaxEvents
  /\ published' = published + 1
  /\ UNCHANGED <<seated, heard, note>>

\* Whether there is a place is found out and the place taken at once.
Admit(c) ==
  /\ c \notin seated
  /\ Cardinality(seated) < Places
  /\ seated' = seated \cup {c}
  /\ UNCHANGED <<published, heard, note>>

Listen(c) ==
  /\ c \in seated
  /\ heard[c] = {}
  /\ heard' = [heard EXCEPT ![c] = {published}]
  /\ UNCHANGED <<published, seated, note>>

Hear(c) ==
  /\ \E n \in heard[c] :
       /\ n < published
       /\ heard' = [heard EXCEPT ![c] = {n + 1}]
       /\ note' = [note EXCEPT ![c] = {[event |-> "hazard", data |-> n + 1]}]
  /\ UNCHANGED <<published, seated>>

\* Only what is older than the newest event may be missed.
Miss(c) ==
  /\ \E n \in heard[c], k \in 1..published :
       /\ n + k < published
       /\ heard' = [heard EXCEPT ![c] = {n + k}]
       /\ note' = [note EXCEPT ![c] = {[event |-> "lagged", data |-> k]}]
  /\ UNCHANGED <<published, seated>>

Leave(c) ==
  /\ c \in seated
  /\ seated' = seated \ {c}
  /\ heard' = [heard EXCEPT ![c] = {}]
  /\ note' = [note EXCEPT ![c] = {}]
  /\ UNCHANGED published

FNext ==
  \/ Publish
  \/ \E c \in Client : Admit(c) \/ Listen(c) \/ Hear(c) \/ Miss(c) \/ Leave(c)

FSpec == FInit /\ [][FNext]_fvars
=============================================================================
