---------------------------- MODULE HazardStream ----------------------------
(***************************************************************************)
(* The live hazard stream of `serve`: GET /api/events/hazards               *)
(* (src/api/handlers/hazard_events_sse.rs) attaches a client to the        *)
(* broadcast channel of src/events/mod.rs, which POST /internal/events and *)
(* the LISTEN task feed.  Handlers and streams run on a multi-threaded     *)
(* runtime: every step on shared state may be interleaved with any other.  *)
(*                                                                         *)
(* The channel numbers the events 1, 2, ...; its buffer keeps the last     *)
(* Capacity of them and each receiver has a cursor into it.                *)
(***************************************************************************)
EXTENDS Integers, FiniteSets

CONSTANTS
  Client,          \* browsers that open the stream, again and again
  MaxSubscribers,  \* max_hazard_subscribers
  Capacity,        \* DEFAULT_CHANNEL_CAPACITY (256 in the code)
  MaxEvents        \* bound on the events published

ASSUME ClientAssumption == IsFiniteSet(Client)
ASSUME StreamAssumption ==
  /\ MaxSubscribers \in Nat
  /\ Capacity \in Nat \ {0}
  /\ MaxEvents \in Nat

VARIABLES
  conn,    \* conn[c]: where the request of client c is
  count,   \* hazard_subscriber_count
  loaded,  \* loaded[c]: `current`, the count its handler last read
  tail,    \* events sent so far
  cursor,  \* cursor[c]: the last event the receiver of c is past
  told,    \* history: the last event c has got or knows it has missed
  last,    \* history: the SSE event c was sent last, if any
  down,    \* the shutdown watch channel has been set
  listener \* the LISTEN connection: "on", "lost", or "off" without its task

vars == <<conn, count, loaded, tail, cursor, told, last, down, listener>>
receiver == <<cursor, told, last>>
server == <<down, listener>>

Hazard(n) == [event |-> "hazard", data |-> n]
Lagged(n) == [event |-> "lagged", data |-> n]

\* What c is sent; a client counts the events from where it has subscribed.
SendEvent(c, e) ==
  /\ last' = [last EXCEPT ![c] = {e}]
  /\ told' = [told EXCEPT ![c] = @ + IF e.event = "lagged" THEN e.data ELSE 1]

Goto(c, l) == conn' = [conn EXCEPT ![c] = l]

Init ==
  /\ conn = [c \in Client |-> "away"]
  /\ count = 0
  /\ loaded = [c \in Client |-> 0]
  /\ tail = 0
  /\ cursor = [c \in Client |-> 0]
  /\ told = [c \in Client |-> 0]
  /\ last = [c \in Client |-> {}]
  /\ down = FALSE
  /\ listener \in {"on", "off"}
-----------------------------------------------------------------------------
(***************************************************************************)
(* The handler.                                                            *)
(***************************************************************************)
\* A graceful shutdown takes no new request.
Connect(c) ==
  /\ conn[c] = "away"
  /\ ~down
  /\ Goto(c, "load")
  /\ UNCHANGED <<count, loaded, tail, receiver, server>>

\* Mutant: the guard is made first, and the handler that answers 503 drops it.
BugLoadCount(c) ==
  /\ conn[c] = "load"
  /\ IF count >= MaxSubscribers
       THEN Goto(c, "away") /\ count' = count - 1 /\ UNCHANGED loaded
       ELSE Goto(c, "exchange") /\ UNCHANGED count /\ loaded' = [loaded EXCEPT ![c] = count]
  /\ UNCHANGED <<tail, receiver, server>>

\* The count is read; a full house is answered with 503.
LoadCount(c) ==
  /\ conn[c] = "load"
  /\ IF count >= MaxSubscribers
       THEN Goto(c, "away") /\ UNCHANGED loaded
       ELSE Goto(c, "exchange") /\ loaded' = [loaded EXCEPT ![c] = count]
  /\ UNCHANGED <<count, tail, receiver, server>>

\* Mutant: a store of current + 1 instead of the compare_exchange.
BugCompareExchange(c) ==
  /\ conn[c] = "exchange"
  /\ count' = loaded[c] + 1
  /\ Goto(c, "admitted")
  /\ loaded' = [loaded EXCEPT ![c] = 0]
  /\ UNCHANGED <<tail, receiver, server>>

\* compare_exchange(current, current + 1); on failure the loop starts again.
CompareExchange(c) ==
  /\ conn[c] = "exchange"
  /\ IF count = loaded[c]
       THEN count' = count + 1 /\ Goto(c, "admitted")
       ELSE UNCHANGED count /\ Goto(c, "load")
  /\ loaded' = [loaded EXCEPT ![c] = 0]
  /\ UNCHANGED <<tail, receiver, server>>

\* events_tx.subscribe(): the receiver starts at the tail.
Subscribe(c) ==
  /\ conn[c] = "admitted"
  /\ Goto(c, "open")
  /\ cursor' = [cursor EXCEPT ![c] = tail]
  /\ told' = [told EXCEPT ![c] = tail]
  /\ UNCHANGED <<count, loaded, tail, last, server>>

-----------------------------------------------------------------------------
(***************************************************************************)
(* The stream.                                                             *)
(***************************************************************************)
\* Mutant: the buffer is taken to hold one event fewer than it does.
BugReceive(c) ==
  /\ conn[c] = "open"
  /\ ~down
  /\ cursor[c] < tail
  /\ tail - cursor[c] < Capacity
  /\ cursor' = [cursor EXCEPT ![c] = @ + 1]
  /\ SendEvent(c, Hazard(cursor[c] + 1))
  /\ UNCHANGED <<conn, count, loaded, tail, server>>

\* The next event is still buffered.
Receive(c) ==
  /\ conn[c] = "open"
  /\ ~down
  /\ cursor[c] < tail
  /\ tail - cursor[c] <= Capacity
  /\ cursor' = [cursor EXCEPT ![c] = @ + 1]
  /\ SendEvent(c, Hazard(cursor[c] + 1))
  /\ UNCHANGED <<conn, count, loaded, tail, server>>

\* Mutant: the error only makes the loop go on.
BugReceiveLagged(c) ==
  /\ conn[c] = "open"
  /\ ~down
  /\ tail - cursor[c] > Capacity
  /\ cursor' = [cursor EXCEPT ![c] = tail - Capacity]
  /\ UNCHANGED <<told, last, conn, count, loaded, tail, server>>

\* RecvError::Lagged(skipped): the cursor jumps to the oldest buffered event.
ReceiveLagged(c) ==
  /\ conn[c] = "open"
  /\ ~down
  /\ tail - cursor[c] > Capacity
  /\ cursor' = [cursor EXCEPT ![c] = tail - Capacity]
  /\ SendEvent(c, Lagged(tail - Capacity - cursor[c]))
  /\ UNCHANGED <<conn, count, loaded, tail, server>>

\* The receiver is gone (and the client starts over).
DropReceiver(c) ==
  /\ cursor' = [cursor EXCEPT ![c] = 0]
  /\ told' = [told EXCEPT ![c] = 0]
  /\ last' = [last EXCEPT ![c] = {}]

\* Dropping the stream drops its SubscriberGuard and its receiver.
Close(c) ==
  /\ conn[c] = "open"
  /\ Goto(c, "away")
  /\ count' = count - 1
  /\ DropReceiver(c)
  /\ UNCHANGED <<loaded, tail, server>>

\* Mutant: the stream ends, the guard having been forgotten.
BugEndOnShutdown(c) ==
  /\ conn[c] = "open"
  /\ down
  /\ Goto(c, "away")
  /\ DropReceiver(c)
  /\ UNCHANGED <<count, loaded, tail, server>>

\* shutdown.changed() is polled first (biased).  The receiver is a clone of one
\* that has not seen the change, so a late stream sees it as well.
EndOnShutdown(c) == down /\ Close(c)

\* The client goes away.
Disconnect(c) == ~down /\ Close(c)

-----------------------------------------------------------------------------
(***************************************************************************)
(* Where events come from, and the end of the server.                      *)
(***************************************************************************)
Send == tail < MaxEvents /\ tail' = tail + 1

\* POST /internal/events: one event of a batch.
Ingest ==
  /\ Send
  /\ UNCHANGED <<conn, count, loaded, receiver, server>>

\* The LISTEN task forwards a payload.
ForwardPayload ==
  /\ listener = "on"
  /\ Send
  /\ UNCHANGED <<conn, count, loaded, receiver, server>>

Listener(from, to) ==
  /\ listener = from
  /\ listener' = to
  /\ UNCHANGED <<conn, count, loaded, tail, receiver, down>>

\* recv fails.  Until connect_and_listen has succeeded, notifications reach nobody;
\* when it fails once, `?` ends the task, and the server goes on without it.
ConnectionLost == Listener("on", "lost")
Reconnect == Listener("lost", "on")
ListenerEnds == Listener("lost", "off")

\* shutdown_tx.send(true)
Shutdown ==
  /\ ~down
  /\ down' = TRUE
  /\ UNCHANGED <<conn, count, loaded, tail, receiver, listener>>

Poll(c) == Receive(c) \/ ReceiveLagged(c) \/ EndOnShutdown(c)
Attach(c) == LoadCount(c) \/ CompareExchange(c) \/ Subscribe(c)

Next ==
  \/ \E c \in Client : Connect(c) \/ Attach(c) \/ Poll(c) \/ Disconnect(c)
  \/ Ingest \/ ForwardPayload
  \/ ConnectionLost \/ Reconnect \/ ListenerEnds
  \/ Shutdown

\* The runtime runs every handler, and a client that stays connected reads.
Fairness == \A c \in Client : WF_vars(Attach(c)) /\ WF_vars(Poll(c))

Spec == Init /\ [][Next]_vars
FairSpec == Spec /\ Fairness
-----------------------------------------------------------------------------
Attached == {c \in Client : conn[c] \in {"admitted", "open"}}

\* Every variable holds a value of the kind the code gives it.
TypeOK ==
  /\ conn \in [Client -> {"away", "load", "exchange", "admitted", "open"}]
  /\ count \in Nat
  /\ loaded \in [Client -> Nat]
  /\ tail \in Nat
  /\ cursor \in [Client -> Nat]
  /\ told \in [Client -> Nat]
  /\ DOMAIN last = Client
  /\ down \in BOOLEAN
  /\ listener \in {"on", "lost", "off"}

\* hazard_subscriber_count is the number of attached clients and never passes
\* the cap, however handlers race and streams end.
CapHolds ==
  /\ count = Cardinality(Attached)
  /\ count <= MaxSubscribers

\* Why: a handler about to exchange read a count below the cap.
ExchangeBelowCap ==
  \A c \in Client : conn[c] = "exchange" => loaded[c] < MaxSubscribers

CapInv == TypeOK /\ CapHolds /\ ExchangeBelowCap

\* No silent gap, no repetition and no reordering: the hazard event a client gets
\* is the one after those it got or was told it missed since it subscribed.
GapsAreTold ==
  \A c \in Client : \A e \in last[c] : e.event = "hazard" => e.data = told[c]

\* Why: an open stream has told its client of everything its cursor is past.
CursorIsTold ==
  \A c \in Client :
    /\ conn[c] = "open" => told[c] = cursor[c]
    /\ conn[c] # "open" => last[c] = {}

ToldInv == GapsAreTold /\ CursorIsTold

\* Who listens, and what a listener accounts for.
Heard == [c \in Client |-> IF conn[c] = "open" THEN {told[c]} ELSE {}]

Feed == INSTANCE EventFeed WITH
  Places <- MaxSubscribers, published <- tail, seated <- Attached, heard <- Heard, note <- last

\* The stream implements the feed: counting with a compare_exchange in a loop is as
\* good as counting at once, and a cursor into a buffer that is overwritten as good
\* as hearing every event or how many went by.
FeedSpec == Feed!FSpec

\* Once the shutdown begins every stream ends and gives its place back, also
\* the stream of a handler that was still attaching.
ShutdownDrains == down ~> (count = 0 /\ \A c \in Client : conn[c] = "away")

\* What is published gets to a client that stays, as an event or as a count.
CatchesUp ==
  \A c \in Client : \A n \in 1..MaxEvents :
    (conn[c] = "open" /\ told[c] < n /\ n <= tail) ~> (told[c] >= n \/ conn[c] # "open")
=============================================================================
