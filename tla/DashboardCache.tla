--------------------------- MODULE DashboardCache ---------------------------
(***************************************************************************)
(* A store of DashboardCache (src/database/cache.rs): requests for a key   *)
(* share one query (moka's try_get_with), its result is kept until it      *)
(* expires or is evicted, an error is not.  The query runs inside the      *)
(* handler that got there first and is dropped with it; a waiting handler  *)
(* then starts its own.  What the query answers is up to the module that   *)
(* uses the store, which gives it to Read; an optional value is a set of   *)
(* at most one.                                                            *)
(***************************************************************************)
CONSTANTS
  Client,  \* the handlers, one request at a time each
  Key,     \* the keys of the store
  Idle     \* the key an idle handler is said to ask for

VARIABLES
  enabled, \* service.server.cache.enabled
  store,   \* store[k]: what the cache holds for k
  pc,      \* pc[c]: where the handler is
  want,    \* want[c]: the key it asks for
  got      \* got[c]: what it has been given or has read

cache == <<enabled, store, pc, want, got>>

Empty ==
  /\ enabled \in BOOLEAN
  /\ store = [k \in Key |-> {}]
  /\ pc = [c \in Client |-> "idle"]
  /\ want = [c \in Client |-> Idle]
  /\ got = [c \in Client |-> {}]

\* The handlers that have a query for k under way, or wait for one.
Loading(k) == {c \in Client : pc[c] \in {"loading", "read"} /\ want[c] = k}
Waiting(k) == {c \in Client : pc[c] = "waiting" /\ want[c] = k}

\* Mutant: get, query and insert, instead of try_get_with.
BugTryGetWith(c, k) ==
  \/ /\ enabled /\ store[k] # {}
     /\ pc' = [pc EXCEPT ![c] = "done"]
     /\ got' = [got EXCEPT ![c] = store[k]]
  \/ /\ enabled => store[k] = {}
     /\ pc' = [pc EXCEPT ![c] = "loading"]
     /\ UNCHANGED got

\* try_get_with(k, query): a hit, somebody else's query, or a query of one's own.
TryGetWith(c, k) ==
  \/ /\ enabled /\ store[k] # {}
     /\ pc' = [pc EXCEPT ![c] = "done"]
     /\ got' = [got EXCEPT ![c] = store[k]]
  \/ /\ enabled /\ store[k] = {} /\ Loading(k) # {}
     /\ pc' = [pc EXCEPT ![c] = "waiting"]
     /\ UNCHANGED got
  \/ /\ enabled => store[k] = {} /\ Loading(k) = {}
     /\ pc' = [pc EXCEPT ![c] = "loading"]
     /\ UNCHANGED got

Request(c, k) ==
  /\ pc[c] = "idle"
  /\ want' = [want EXCEPT ![c] = k]
  /\ TryGetWith(c, k)
  /\ UNCHANGED <<enabled, store>>

\* The handler waited for is gone without an answer.
Retry(c) ==
  /\ pc[c] = "waiting"
  /\ Loading(want[c]) = {}
  /\ TryGetWith(c, want[c])
  /\ UNCHANGED <<enabled, store, want>>

\* The statement sees the database at one instant; the answer is on its way.
Read(c, answer) ==
  /\ pc[c] = "loading"
  /\ pc' = [pc EXCEPT ![c] = "read"]
  /\ got' = [got EXCEPT ![c] = {answer}]
  /\ UNCHANGED <<enabled, store, want>>

\* The answer is stored and given to everybody who waits.
Finish(c) ==
  /\ pc[c] = "read"
  /\ LET k == want[c]
         served == {c} \cup Waiting(k)
     IN /\ store' = IF enabled THEN [store EXCEPT ![k] = got[c]] ELSE store
        /\ pc' = [d \in Client |-> IF d \in served THEN "done" ELSE pc[d]]
        /\ got' = [d \in Client |-> IF d \in served THEN got[c] ELSE got[d]]
  /\ UNCHANGED <<enabled, want>>

\* So is an error, which nothing keeps.
Fail(c) ==
  /\ pc[c] = "loading"
  /\ pc' = [d \in Client |-> IF d \in {c} \cup Waiting(want[c]) THEN "error" ELSE pc[d]]
  /\ UNCHANGED <<enabled, store, want, got>>

\* The client disconnects or TimeoutLayer drops the handler, and its query.
Leave(c) ==
  /\ pc[c] \in {"waiting", "loading", "read"}
  /\ pc' = [pc EXCEPT ![c] = "idle"]
  /\ want' = [want EXCEPT ![c] = Idle]
  /\ got' = [got EXCEPT ![c] = {}]
  /\ UNCHANGED <<enabled, store>>

\* Its time to live is over, or another entry takes its place.
Expire(k) ==
  /\ store[k] # {}
  /\ store' = [store EXCEPT ![k] = {}]
  /\ UNCHANGED <<enabled, pc, want, got>>

\* The handler takes the answer or the error.
Take(c) ==
  /\ pc[c] \in {"done", "error"}
  /\ pc' = [pc EXCEPT ![c] = "idle"]
  /\ want' = [want EXCEPT ![c] = Idle]
  /\ got' = [got EXCEPT ![c] = {}]
  /\ UNCHANGED <<enabled, store>>
=============================================================================
