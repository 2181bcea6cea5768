---------------------------- MODULE HazardProofs ----------------------------
(***************************************************************************)
(* Proofs about HazardStream for any number of clients and any cap.        *)
(***************************************************************************)
EXTENDS HazardStream, FiniteSetTheorems, TLAPS

\* Sets of clients can be counted, one client more or less.
LEMMA ClientMoves ==
  ASSUME NEW T \in SUBSET Client, NEW c \in Client
  PROVE  /\ Cardinality(T) \in Nat
         /\ Cardinality(T \ {c}) = IF c \in T THEN Cardinality(T) - 1 ELSE Cardinality(T)
         /\ Cardinality(T \cup {c}) = IF c \in T THEN Cardinality(T) ELSE Cardinality(T) + 1
         /\ c \in T => Cardinality(T) >= 1
<1>1. IsFiniteSet(T)
  BY ClientAssumption, FS_Subset
<1>2. IsFiniteSet(T \ {c}) /\ Cardinality(T) \in Nat /\ Cardinality(T \ {c}) \in Nat
  BY <1>1, FS_CardinalityType, FS_RemoveElement
<1>3. Cardinality(T \ {c}) = IF c \in T THEN Cardinality(T) - 1 ELSE Cardinality(T)
  BY <1>1, FS_RemoveElement
<1>4. Cardinality(T \cup {c}) = IF c \in T THEN Cardinality(T) ELSE Cardinality(T) + 1
  BY <1>1, FS_AddElement
<1>5. c \in T => Cardinality(T) >= 1
  BY <1>2, <1>3
<1>6. QED
  BY <1>2, <1>3, <1>4, <1>5

\* A client that moves changes the set of the attached clients by itself only.
LEMMA AttachedMoves ==
  ASSUME TypeOK, NEW c \in Client, NEW l, Goto(c, l)
  PROVE  Attached' = IF l \in {"admitted", "open"} THEN Attached \cup {c} ELSE Attached \ {c}
<1>1. \A d \in Client : conn'[d] = IF d = c THEN l ELSE conn[d]
  BY DEF Goto, TypeOK
<1>2. QED
  BY <1>1 DEF Attached

\* The initial state: nobody is attached.
LEMMA InitCap == Init => CapInv
<1> SUFFICES ASSUME Init PROVE CapInv
  OBVIOUS
<1>1. Attached = {}
  BY DEF Init, Attached
<1>2. Cardinality({}) = 0
  BY FS_EmptySet
<1>3. CapHolds
  BY <1>1, <1>2, StreamAssumption DEF Init, CapHolds
<1>4. QED
  BY <1>3, StreamAssumption DEF Init, CapInv, TypeOK, ExchangeBelowCap

\* Every step keeps the count exact and below the cap: only an exchange raises
\* it, and it succeeds only on the count its handler has compared with the cap.
LEMMA NextCap == CapInv /\ [Next]_vars => CapInv'
<1> SUFFICES ASSUME CapInv, [Next]_vars PROVE CapInv'
  OBVIOUS
<1> USE DEF CapInv, server
<1>1. /\ TypeOK /\ count \in Nat /\ tail \in Nat /\ \A c \in Client : cursor[c] \in Nat
      /\ Attached \in SUBSET Client /\ count = Cardinality(Attached)
      /\ count <= MaxSubscribers /\ MaxSubscribers \in Nat /\ Capacity \in Nat
  BY StreamAssumption DEF TypeOK, CapHolds, Attached
<1>2. ASSUME NEW c \in Client, Connect(c) PROVE CapInv'
  <2>1. c \notin Attached /\ Attached' = Attached \ {c}
    BY <1>2, <1>1, AttachedMoves DEF Connect, Attached
  <2>2. QED
    BY <1>1, <1>2, <2>1 DEF Connect, Goto, TypeOK, CapHolds, ExchangeBelowCap, receiver
<1>3. ASSUME NEW c \in Client, LoadCount(c) PROVE CapInv'
  <2>1. c \notin Attached
    BY <1>3 DEF LoadCount, Attached
  <2>2. Attached' = Attached \ {c}
    BY <1>3, <1>1, AttachedMoves DEF LoadCount
  <2>3. TypeOK'
    BY <1>1, <1>3 DEF LoadCount, Goto, TypeOK, receiver
  <2>4. CapHolds'
    BY <1>1, <1>3, <2>1, <2>2 DEF LoadCount, CapHolds
  <2>5. ExchangeBelowCap'
    BY <1>1, <1>3 DEF LoadCount, Goto, TypeOK, ExchangeBelowCap
  <2>6. QED
    BY <2>3, <2>4, <2>5
<1>4. ASSUME NEW c \in Client, CompareExchange(c) PROVE CapInv'
  <2>1. c \notin Attached
    BY <1>4 DEF CompareExchange, Attached
  <2>2. TypeOK'
    BY <1>1, <1>4 DEF CompareExchange, Goto, TypeOK, receiver
  <2>3. ExchangeBelowCap'
    BY <1>1, <1>4 DEF CompareExchange, Goto, TypeOK, ExchangeBelowCap
  <2>4. CASE count = loaded[c]
    <3>1. Attached' = Attached \cup {c} /\ count' = count + 1
      BY <1>4, <2>4, <1>1, AttachedMoves DEF CompareExchange
    <3>2. Cardinality(Attached') = count + 1
      BY <1>1, <2>1, <3>1, ClientMoves
    <3>3. count < MaxSubscribers
      BY <1>4, <2>4 DEF ExchangeBelowCap, CompareExchange
    <3>4. QED
      BY <1>1, <2>2, <2>3, <3>1, <3>2, <3>3 DEF CapHolds
  <2>5. CASE count # loaded[c]
    <3>1. Attached' = Attached \ {c} /\ count' = count
      BY <1>4, <2>5, <1>1, AttachedMoves DEF CompareExchange
    <3>2. QED
      BY <1>1, <2>1, <2>2, <2>3, <3>1 DEF CapHolds
  <2>6. QED
    BY <2>4, <2>5
<1>5. ASSUME NEW c \in Client, Subscribe(c) PROVE CapInv'
  <2>1. c \in Attached /\ Attached' = Attached \cup {c}
    BY <1>5, <1>1, AttachedMoves DEF Subscribe, Attached
  <2>2. QED
    BY <1>1, <1>5, <2>1 DEF Subscribe, Goto, TypeOK, CapHolds, ExchangeBelowCap
<1>6. ASSUME NEW c \in Client, Receive(c) \/ ReceiveLagged(c) PROVE CapInv'
  <2>1. Attached' = Attached
    BY <1>6 DEF Receive, ReceiveLagged, Attached
  <2>2. UNCHANGED <<conn, count, loaded, tail, down, listener>>
    BY <1>6 DEF Receive, ReceiveLagged
  <2>a. PICK n \in Nat : cursor' = [cursor EXCEPT ![c] = n]
    <3>1. CASE Receive(c)
      <4>1. cursor[c] + 1 \in Nat
        BY <1>1
      <4>2. QED
        BY <3>1, <4>1 DEF Receive
    <3>2. CASE ReceiveLagged(c)
      <4>1. tail - Capacity \in Nat
        BY <1>1, <3>2 DEF ReceiveLagged
      <4>2. QED
        BY <3>2, <4>1 DEF ReceiveLagged
    <3>3. QED
      BY <1>6, <3>1, <3>2
  <2>b. PICK k \in Nat : told' = [told EXCEPT ![c] = told[c] + k]
    <3>1. CASE Receive(c)
      BY <3>1 DEF Receive, SendEvent, Hazard
    <3>2. CASE ReceiveLagged(c)
      <4>1. tail - Capacity - cursor[c] \in Nat
        BY <1>1, <3>2 DEF ReceiveLagged
      <4>2. QED
        BY <3>2, <4>1 DEF ReceiveLagged, SendEvent, Lagged
    <3>3. QED
      BY <1>6, <3>1, <3>2
  <2>c. DOMAIN last' = DOMAIN last
    BY <1>6 DEF Receive, ReceiveLagged, SendEvent
  <2>3. cursor' \in [Client -> Nat] /\ told' \in [Client -> Nat] /\ DOMAIN last' = Client
    BY <2>a, <2>b, <2>c DEF TypeOK
  <2>4. TypeOK'
    BY <2>2, <2>3 DEF TypeOK
  <2>5. QED
    BY <1>1, <2>1, <2>2, <2>4 DEF CapHolds, ExchangeBelowCap
<1>7. ASSUME NEW c \in Client, Close(c) PROVE CapInv'
  <2>1. c \in Attached /\ Attached' = Attached \ {c}
    BY <1>7, <1>1, AttachedMoves DEF Close, Attached
  <2>2. Cardinality(Attached') = count - 1 /\ count >= 1 /\ count' = count - 1
    BY <1>1, <1>7, <2>1, ClientMoves DEF Close
  <2>3. CapHolds'
    BY <1>1, <2>2 DEF CapHolds
  <2>4. TypeOK' /\ ExchangeBelowCap'
    BY <1>1, <1>7, <2>2 DEF Close, Goto, DropReceiver, TypeOK, ExchangeBelowCap
  <2>5. QED
    BY <2>3, <2>4
<1>8. CASE Ingest \/ ForwardPayload \/ ConnectionLost \/ Reconnect \/ ListenerEnds
             \/ Shutdown \/ UNCHANGED vars
  <2> USE DEF Ingest, ForwardPayload, Send, ConnectionLost, Reconnect, ListenerEnds, Listener,
              Shutdown, vars, receiver, server
  <2>1. UNCHANGED <<conn, count, loaded, cursor, told, last>>
    BY <1>8
  <2>2. Attached' = Attached
    BY <2>1 DEF Attached
  <2>3. tail' \in Nat
    BY <1>1, <1>8
  <2>4. down' \in BOOLEAN
    <3>1. down' = down \/ down' = TRUE
      BY <1>8
    <3>2. QED
      BY <3>1, Zenon DEF TypeOK
  <2>5. listener' \in {"on", "lost", "off"}
    <3>1. listener' = listener \/ listener' \in {"on", "lost", "off"}
      BY <1>8
    <3>2. QED
      BY <3>1 DEF TypeOK
  <2>6. TypeOK' /\ ExchangeBelowCap'
    BY <2>1, <2>3, <2>4, <2>5 DEF TypeOK, ExchangeBelowCap
  <2>7. CapHolds'
    BY <1>1, <2>1, <2>2 DEF CapHolds
  <2>8. QED
    BY <2>6, <2>7
<1>9. QED
  BY <1>2, <1>3, <1>4, <1>5, <1>6, <1>7, <1>8
     DEF Next, Attach, Poll, EndOnShutdown, Disconnect

\* The invariant of the handlers.
THEOREM StreamInvariant == Spec => []CapInv
BY InitCap, NextCap, PTL DEF Spec

\* Every variable keeps its type; the count never goes below zero.
THEOREM StreamTypes == Spec => []TypeOK
<1>1. CapInv => TypeOK
  BY DEF CapInv
<1>2. QED
  BY <1>1, StreamInvariant, PTL

\* The subscriber count is exact and the cap is never passed.
THEOREM SubscribersCapped == Spec => []CapHolds
<1>1. CapInv => CapHolds
  BY DEF CapInv
<1>2. QED
  BY <1>1, StreamInvariant, PTL

\* What a client has been told of goes along with its cursor: an event moves both by
\* one, a count of missed events both by that count.
LEMMA NextTold == TypeOK /\ ToldInv /\ [Next]_vars => ToldInv'
<1> SUFFICES ASSUME TypeOK, ToldInv, [Next]_vars PROVE ToldInv'
  OBVIOUS
<1> USE DEF ToldInv, GapsAreTold, CursorIsTold, TypeOK, server, receiver
<1>1. /\ tail \in Nat /\ Capacity \in Nat
      /\ \A c \in Client : cursor[c] \in Nat /\ told[c] \in Nat
  BY StreamAssumption
<1>2. ASSUME NEW c \in Client, Connect(c) \/ LoadCount(c) \/ CompareExchange(c)
      PROVE  ToldInv'
  BY <1>2 DEF Connect, LoadCount, CompareExchange, Goto
<1>3. ASSUME NEW c \in Client, Subscribe(c) PROVE ToldInv'
  BY <1>3 DEF Subscribe, Goto
<1>4. ASSUME NEW c \in Client, Receive(c) PROVE ToldInv'
  <2>1. told' = [told EXCEPT ![c] = cursor[c] + 1] /\ cursor' = [cursor EXCEPT ![c] = cursor[c] + 1]
    BY <1>4 DEF Receive, SendEvent, Hazard
  <2>2. last' = [last EXCEPT ![c] = {Hazard(cursor[c] + 1)}] /\ conn' = conn /\ conn[c] = "open"
    BY <1>4 DEF Receive, SendEvent
  <2>3. QED
    BY <2>1, <2>2 DEF Hazard
<1>5. ASSUME NEW c \in Client, ReceiveLagged(c) PROVE ToldInv'
  <2>1. told' = [told EXCEPT ![c] = tail - Capacity]
    <3>1. told' = [told EXCEPT ![c] = told[c] + (tail - Capacity - cursor[c])]
      BY <1>5 DEF ReceiveLagged, SendEvent, Lagged
    <3>2. told[c] + (tail - Capacity - cursor[c]) = tail - Capacity
      BY <1>1, <1>5 DEF ReceiveLagged
    <3>3. QED
      BY <3>1, <3>2
  <2>2. /\ cursor' = [cursor EXCEPT ![c] = tail - Capacity]
        /\ last' = [last EXCEPT ![c] = {Lagged(tail - Capacity - cursor[c])}]
        /\ conn' = conn /\ conn[c] = "open"
    BY <1>5 DEF ReceiveLagged, SendEvent
  <2>3. QED
    BY <2>1, <2>2 DEF Lagged
<1>6. ASSUME NEW c \in Client, Close(c) PROVE ToldInv'
  BY <1>6 DEF Close, Goto, DropReceiver
<1>7. CASE Ingest \/ ForwardPayload \/ ConnectionLost \/ Reconnect \/ ListenerEnds
             \/ Shutdown \/ UNCHANGED vars
  <2>1. UNCHANGED <<conn, cursor, told, last>>
    BY <1>7 DEF Ingest, ForwardPayload, Send, ConnectionLost, Reconnect, ListenerEnds, Listener,
                Shutdown, vars
  <2>2. QED
    BY <2>1
<1>8. QED
  BY <1>2, <1>3, <1>4, <1>5, <1>6, <1>7
     DEF Next, Attach, Poll, EndOnShutdown, Disconnect

\* However often its receiver is overtaken, a client that adds up what it is sent
\* knows which event it has got.
THEOREM NoSilentGap == Spec => []GapsAreTold
<1>1. Init => ToldInv
  BY DEF Init, ToldInv, GapsAreTold, CursorIsTold
<1>2. ToldInv => GapsAreTold
  BY DEF ToldInv
<1>3. QED
  BY <1>1, <1>2, NextTold, StreamTypes, PTL DEF Spec

\* What a listener accounts for changes for the client that moves only.
LEMMA HeardMoves ==
  ASSUME TypeOK, NEW c \in Client,
         \A d \in Client \ {c} : conn'[d] = conn[d] /\ told'[d] = told[d]
  PROVE  Heard' = [Heard EXCEPT ![c] = IF conn'[c] = "open" THEN {told'[c]} ELSE {}]
<1>1. Heard = [d \in Client |-> IF conn[d] = "open" THEN {told[d]} ELSE {}]
  BY DEF Heard
<1>2. Heard' = [d \in Client |-> IF conn'[d] = "open" THEN {told'[d]} ELSE {}]
  BY DEF Heard
<1> HIDE DEF Heard
<1>3. QED
  BY <1>1, <1>2

\* Every step of a handler, a stream, the channel or the server is a step of the feed or none.
LEMMA StepOfFeed ==
  ASSUME TypeOK, CapHolds, ExchangeBelowCap, ToldInv, [Next]_vars
  PROVE  [Feed!FNext]_(Feed!fvars)
<1> USE DEF server
<1>1. /\ tail \in Nat /\ Capacity \in Nat \ {0} /\ count = Cardinality(Attached)
      /\ \A c \in Client : cursor[c] \in Nat /\ told[c] \in Nat
      /\ DOMAIN conn = Client /\ DOMAIN told = Client
  BY StreamAssumption DEF TypeOK, CapHolds
<1>2. ASSUME NEW c \in Client, Connect(c) \/ LoadCount(c) PROVE UNCHANGED Feed!fvars
  <2>1. /\ c \notin Attached /\ conn'[c] # "open" /\ conn[c] # "open"
        /\ Attached' = Attached \ {c}
    <3>1. \E l \in {"away", "load", "exchange"} : Goto(c, l)
      BY <1>2 DEF Connect, LoadCount
    <3>2. QED
      BY <1>2, <3>1, AttachedMoves DEF Connect, LoadCount, Goto, TypeOK, Attached
  <2>2. \A d \in Client : d # c => conn'[d] = conn[d]
    BY <1>1, <1>2 DEF Connect, LoadCount, Goto
  <2>3. UNCHANGED <<tail, told, last>>
    BY <1>2 DEF Connect, LoadCount, receiver
  <2>4. Heard' = Heard
    BY <2>1, <2>2, <2>3 DEF Heard
  <2>5. QED
    BY <2>1, <2>3, <2>4 DEF Feed!fvars
<1>3. ASSUME NEW c \in Client, CompareExchange(c) PROVE Feed!Admit(c) \/ UNCHANGED Feed!fvars
  <2>1. c \notin Attached /\ conn[c] = "exchange" /\ UNCHANGED <<tail, told, last>>
    BY <1>3 DEF CompareExchange, Attached, receiver
  <2>2. \A d \in Client : d # c => conn'[d] = conn[d]
    BY <1>1, <1>3 DEF CompareExchange, Goto
  <2>3. conn'[c] # "open"
    BY <1>1, <1>3 DEF CompareExchange, Goto
  <2>4. Heard' = Heard
    BY <2>1, <2>2, <2>3 DEF Heard
  <2>5. CASE count = loaded[c]
    <3>1. Attached' = Attached \cup {c}
      BY <1>3, <2>5, AttachedMoves DEF CompareExchange
    <3>2. Cardinality(Attached) < MaxSubscribers
      BY <1>1, <2>1, <2>5 DEF ExchangeBelowCap
    <3>3. QED
      BY <2>1, <2>4, <3>1, <3>2, Zenon DEF Feed!Admit, Cardinality, Feed!Cardinality
  <2>6. CASE count # loaded[c]
    <3>1. Attached' = Attached \ {c}
      BY <1>3, <2>6, AttachedMoves DEF CompareExchange
    <3>2. QED
      BY <2>1, <2>4, <3>1 DEF Feed!fvars
  <2>7. QED
    BY <2>5, <2>6
<1>4. ASSUME NEW c \in Client, Subscribe(c) PROVE Feed!Listen(c)
  <2>1. c \in Attached /\ Attached' = Attached \cup {c} /\ UNCHANGED <<tail, last>>
    BY <1>4, AttachedMoves DEF Subscribe, Attached
  <2>2. conn'[c] = "open" /\ told'[c] = tail /\ conn[c] # "open"
    BY <1>1, <1>4 DEF Subscribe, Goto
  <2>3. \A d \in Client \ {c} : conn'[d] = conn[d] /\ told'[d] = told[d]
    BY <1>1, <1>4 DEF Subscribe, Goto
  <2>4. Heard' = [Heard EXCEPT ![c] = {tail}] /\ Heard[c] = {}
    BY <2>2, <2>3, HeardMoves DEF Heard
  <2>5. QED
    BY <2>1, <2>4 DEF Feed!Listen
<1>5. ASSUME NEW c \in Client, Receive(c) \/ ReceiveLagged(c) PROVE Feed!Hear(c) \/ Feed!Miss(c)
  <2>1. conn[c] = "open" /\ UNCHANGED <<conn, tail>> /\ Attached' = Attached
    BY <1>5 DEF Receive, ReceiveLagged, Attached
  <2>2. told[c] = cursor[c] /\ told[c] \in Heard[c]
    BY <2>1 DEF ToldInv, CursorIsTold, Heard
  <2>3. \A d \in Client \ {c} : conn'[d] = conn[d] /\ told'[d] = told[d]
    BY <1>1, <1>5, <2>1 DEF Receive, ReceiveLagged, SendEvent
  <2>4. Heard' = [Heard EXCEPT ![c] = {told'[c]}]
    BY <2>1, <2>3, HeardMoves
  <2>5. CASE Receive(c)
    <3>1. told'[c] = told[c] + 1 /\ last' = [last EXCEPT ![c] = {Hazard(told[c] + 1)}] /\ told[c] < tail
      BY <1>1, <2>2, <2>5 DEF Receive, SendEvent, Hazard
    <3>2. Feed!Hear(c)
      BY <2>1, <2>2, <2>4, <3>1 DEF Feed!Hear, Hazard
    <3>3. QED
      BY <3>2
  <2>6. CASE ReceiveLagged(c)
    <3>1. PICK k \in 1..tail : k = tail - Capacity - told[c] /\ told[c] + k < tail
      BY <1>1, <2>2, <2>6 DEF ReceiveLagged
    <3>2. told'[c] = told[c] + k /\ last' = [last EXCEPT ![c] = {Lagged(k)}]
      BY <1>1, <2>2, <2>6, <3>1 DEF ReceiveLagged, SendEvent, Lagged
    <3>3. Feed!Miss(c)
      BY <2>1, <2>2, <2>4, <3>1, <3>2 DEF Feed!Miss, Lagged
    <3>4. QED
      BY <3>3
  <2>7. QED
    BY <1>5, <2>5, <2>6
<1>6. ASSUME NEW c \in Client, Close(c) PROVE Feed!Leave(c)
  <2>1. c \in Attached /\ Attached' = Attached \ {c} /\ UNCHANGED tail /\ last' = [last EXCEPT ![c] = {}]
    BY <1>6, AttachedMoves DEF Close, DropReceiver, Attached
  <2>2. conn'[c] # "open" /\ \A d \in Client \ {c} : conn'[d] = conn[d] /\ told'[d] = told[d]
    BY <1>1, <1>6 DEF Close, DropReceiver, Goto
  <2>3. Heard' = [Heard EXCEPT ![c] = {}]
    BY <2>2, HeardMoves
  <2>4. QED
    BY <2>1, <2>3 DEF Feed!Leave
<1>7. CASE Ingest \/ ForwardPayload
  <2>1. /\ tail < MaxEvents /\ tail' = tail + 1 /\ UNCHANGED <<conn, told, last>>
    BY <1>7 DEF Ingest, ForwardPayload, Send, receiver
  <2>2. Attached' = Attached /\ Heard' = Heard
    BY <2>1 DEF Attached, Heard
  <2>3. Feed!Publish
    BY <2>1, <2>2 DEF Feed!Publish
  <2>4. QED
    BY <2>3 DEF Feed!FNext
<1>8. CASE ConnectionLost \/ Reconnect \/ ListenerEnds \/ Shutdown \/ UNCHANGED vars
  <2>1. UNCHANGED <<conn, tail, told, last>>
    BY <1>8 DEF ConnectionLost, Reconnect, ListenerEnds, Listener, Shutdown, vars, receiver
  <2>2. Attached' = Attached /\ Heard' = Heard
    BY <2>1 DEF Attached, Heard
  <2>3. QED
    BY <2>1, <2>2 DEF Feed!fvars
<1>9. QED
  BY <1>2, <1>3, <1>4, <1>5, <1>6, <1>7, <1>8
     DEF Next, Attach, Poll, EndOnShutdown, Disconnect, Feed!FNext

\* compare_exchange in a loop, a guard that counts down, and a cursor into a buffer that
\* is overwritten: together they are a feed with so many places.
THEOREM StreamIsFeed == Spec => FeedSpec
<1>1. Init => Feed!FInit
  <2> SUFFICES ASSUME Init PROVE Feed!FInit
    OBVIOUS
  <2>1. Attached = {}
    BY DEF Init, Attached
  <2>2. Heard = [c \in Client |-> {}]
    BY DEF Init, Heard
  <2>3. QED
    BY <2>1, <2>2 DEF Init, Feed!FInit
<1>2. CapInv /\ ToldInv /\ [Next]_vars => [Feed!FNext]_(Feed!fvars)
  BY StepOfFeed DEF CapInv
<1>3. Init => ToldInv
  BY DEF Init, ToldInv, GapsAreTold, CursorIsTold
<1>4. Spec => []ToldInv
  BY <1>3, NextTold, StreamTypes, PTL DEF Spec
<1>5. QED
  BY <1>1, <1>2, <1>4, StreamInvariant, PTL DEF Spec, FeedSpec, Feed!FSpec
=============================================================================
