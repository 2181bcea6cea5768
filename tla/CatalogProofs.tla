--------------------------- MODULE CatalogProofs ----------------------------
(***************************************************************************)
(* Proofs about CatalogPaging for any catalog, page size and clients: the  *)
(* predicate of a cursor is the order of the listing, in both directions   *)
(* and with NULLs; requests for a page share one query; the pages of a     *)
(* walk ascend, PREV leads back, and a walk to the last page has shown     *)
(* every asteroid that stayed as it was, whatever changes in between.      *)
(***************************************************************************)
EXTENDS CatalogPaging, FiniteSetTheorems, WellFoundedInduction, TLAPS

\* The rows after a cursor, as the WHERE clause has them, are those that come
\* after it in ORDER BY, also where either has no value.
THEOREM KeysetIsOrder ==
  ASSUME NEW p \in RowKey, NEW q \in RowKey
  PROVE  After(p, q) <=> Precedes(p, q)
<1>1. CASE p.value = {}
  BY <1>1 DEF After, Precedes, Behind, RowKey, Option
<1>2. CASE p.value # {}
  BY <1>2 DEF After, Precedes, RowKey, Option
<1>3. QED
  BY <1>1, <1>2

\* Values and ids compare in one way only.
LEMMA BehindOrders ==
  ASSUME NEW x \in Int, NEW y \in Int, NEW z \in Int
  PROVE  /\ ~Behind(x, x)
         /\ Behind(x, y) /\ Behind(y, z) => Behind(x, z)
         /\ x = y \/ Behind(x, y) \/ Behind(y, x)
BY DEF Behind

\* A row has one value, or none.
LEMMA RowParts ==
  ASSUME NEW p \in RowKey
  PROVE  /\ p.id \in Int
         /\ p.value = {} \/ \E v \in Int : p.value = {v}
<1>1. p.id \in Asteroid /\ p.value \in Option(Value)
  BY DEF RowKey
<1>2. p.id \in Int
  <2>1. Asteroid \subseteq Int
    BY CatalogAssumption
  <2>2. QED
    BY <1>1, <2>1
<1>3. p.value = {} \/ \E v \in Value : p.value = {v}
  BY <1>1 DEF Option
<1>4. QED
  BY <1>2, <1>3, CatalogAssumption

\* No row precedes itself.
LEMMA OrderIrreflexive ==
  ASSUME NEW p \in RowKey
  PROVE  ~Precedes(p, p)
BY RowParts, BehindOrders DEF Precedes

\* The order is transitive.
LEMMA OrderTransitive ==
  ASSUME NEW p \in RowKey, NEW q \in RowKey, NEW r \in RowKey,
         Precedes(p, q), Precedes(q, r)
  PROVE  Precedes(p, r)
<1>1. /\ p.id \in Int /\ q.id \in Int /\ r.id \in Int
  BY RowParts
<1>2. CASE q.value = {}
  <2>1. r.value = {} /\ Behind(r.id, q.id)
    BY <1>2 DEF Precedes
  <2>2. p.value # {} \/ (p.value = {} /\ Behind(q.id, p.id))
    BY <1>2 DEF Precedes
  <2>3. QED
    BY <1>1, <2>1, <2>2, BehindOrders DEF Precedes
<1>3. CASE q.value # {}
  <2>1. PICK w \in Int : q.value = {w}
    BY <1>3, RowParts
  <2>2. PICK v \in Int : p.value = {v}
    BY <1>3, RowParts DEF Precedes
  <2>3. Behind(w, v) \/ (v = w /\ Behind(q.id, p.id))
    BY <2>1, <2>2 DEF Precedes
  <2>4. CASE r.value = {}
    BY <2>2, <2>4 DEF Precedes
  <2>5. CASE r.value # {}
    <3>1. PICK x \in Int : r.value = {x}
      BY <2>5, RowParts
    <3>2. Behind(x, w) \/ (w = x /\ Behind(r.id, q.id))
      BY <2>1, <3>1 DEF Precedes
    <3>3. Behind(x, v) \/ (v = x /\ Behind(r.id, p.id))
      BY <1>1, <2>3, <3>2, BehindOrders
    <3>4. QED
      BY <2>2, <3>1, <3>3 DEF Precedes
  <2>6. QED
    BY <2>4, <2>5
<1>4. QED
  BY <1>2, <1>3

\* Of two rows one precedes the other.
LEMMA OrderTotal ==
  ASSUME NEW p \in RowKey, NEW q \in RowKey, p # q
  PROVE  Precedes(p, q) \/ Precedes(q, p)
<1>1. p.id \in Int /\ q.id \in Int
  BY RowParts
<1>2. CASE p.value = q.value
  <2>1. p.id # q.id
    BY <1>2 DEF RowKey
  <2>2. QED
    BY <1>1, <1>2, <2>1, BehindOrders DEF Precedes
<1>3. CASE p.value # q.value
  <2>1. CASE p.value = {} \/ q.value = {}
    BY <1>3, <2>1 DEF Precedes
  <2>2. CASE p.value # {} /\ q.value # {}
    <3>1. PICK v \in Int, w \in Int : p.value = {v} /\ q.value = {w}
      BY <2>2, RowParts
    <3>2. v # w
      BY <1>3, <3>1
    <3>3. QED
      BY <3>1, <3>2, BehindOrders DEF Precedes
  <2>3. QED
    BY <2>1, <2>2
<1>4. QED
  BY <1>2, <1>3
-----------------------------------------------------------------------------
\* No two handlers have a query for the same key under way, and what a handler
\* does is a function of the handler.
Shared ==
  /\ pc = [c \in Client |-> pc[c]] /\ want = [c \in Client |-> want[c]]
  /\ enabled => \A c, d \in Client :
       pc[c] \in {"loading", "read"} /\ pc[d] \in {"loading", "read"} /\ want[c] = want[d] => c = d

\* Every step keeps it: a query is begun only when none is under way for its key.
LEMMA SharedStep == Shared /\ [Next]_vars => Shared'
<1> SUFFICES ASSUME Shared, [Next]_vars PROVE Shared'
  OBVIOUS
<1> USE DEF Shared, Cache!Loading, cache
<1>1. ASSUME NEW c \in Client, FirstPage(c) PROVE Shared'
  BY <1>1 DEF FirstPage, Cache!Request, Cache!TryGetWith
<1>2. ASSUME NEW c \in Client, NextPage(c) PROVE Shared'
  BY <1>2 DEF NextPage, Cache!Request, Cache!TryGetWith
<1>3. ASSUME NEW c \in Client, PrevPage(c) PROVE Shared'
  BY <1>3 DEF PrevPage, Cache!Request, Cache!TryGetWith
<1>4. ASSUME NEW c \in Client, Query(c) PROVE Shared'
  BY <1>4 DEF Query, Cache!Read
<1>5. ASSUME NEW c \in Client, QueryRejected(c) PROVE Shared'
  BY <1>5 DEF QueryRejected, Cache!Fail
<1>6. ASSUME NEW c \in Client, QueryFails(c) PROVE Shared'
  BY <1>6 DEF QueryFails, Cache!Fail
<1>7. ASSUME NEW c \in Client, Answer(c) PROVE Shared'
  BY <1>7 DEF Answer, Cache!Finish
<1>8. ASSUME NEW c \in Client, TakeOver(c) PROVE Shared'
  BY <1>8 DEF TakeOver, Cache!Retry, Cache!TryGetWith
<1>9. ASSUME NEW c \in Client, Leave(c) PROVE Shared'
  BY <1>9 DEF Leave, Cache!Leave
<1>10. ASSUME NEW c \in Client, Respond(c) PROVE Shared'
  BY <1>10 DEF Respond, Cache!Take
<1>11. ASSUME NEW c \in Client, RespondError(c) \/ RespondBlank(c) PROVE Shared'
  BY <1>11 DEF RespondError, RespondBlank, Cache!Take
<1>12. ASSUME NEW a \in Asteroid, Change(a) PROVE Shared'
  BY <1>12 DEF Change
<1>13. ASSUME NEW k \in Cursor, Expire(k) PROVE Shared'
  BY <1>13 DEF Expire, Cache!Expire
<1>14. CASE UNCHANGED vars
  BY <1>14 DEF vars
<1>15. QED
  BY <1>1, <1>2, <1>3, <1>4, <1>5, <1>6, <1>7, <1>8, <1>9, <1>10, <1>11, <1>12, <1>13, <1>14, CatalogAssumption
     DEF Next, Serve, OpenPage, SubmitFilters

\* A set whose members are all the same has at most one.
LEMMA AtMostOne ==
  ASSUME NEW S, \A x, y \in S : x = y
  PROVE  Cardinality(S) <= 1
<1>1. CASE S = {}
  BY <1>1, FS_EmptySet
<1>2. CASE S # {}
  <2>1. PICK x \in S : S = {x}
    BY <1>2
  <2>2. QED
    BY <2>1, FS_Singleton
<1>3. QED
  BY <1>1, <1>2

\* While the cache is on, concurrent requests for a page share one query,
\* whatever handlers are dropped, queries fail and entries expire.
THEOREM QueriesAreShared == Spec => []OneQuery
<1>1. Init => Shared
  BY DEF Init, Cache!Empty, Shared
<1>2. Shared => OneQuery
  <2> SUFFICES ASSUME Shared, enabled, NEW k \in Cursor
               PROVE  Cardinality(Cache!Loading(k)) <= 1
    BY DEF OneQuery
  <2>1. \A c, d \in Cache!Loading(k) : c = d
    BY DEF Shared, Cache!Loading
  <2>2. QED
    BY <2>1, AtMostOne
<1>3. QED
  BY <1>1, <1>2, SharedStep, PTL DEF Spec
-----------------------------------------------------------------------------
\* The direction of a listing does not change, nor does its order.
LEMMA OrderKept ==
  ASSUME UNCHANGED dir
  PROVE  /\ \A p, q : Precedes(p, q)' <=> Precedes(p, q)
         /\ \A page, k : Answers(page, k)' <=> Answers(page, k)
         /\ \A page, k : Reaches(page, k)' <=> Reaches(page, k)
<1>1. \A p, q : Precedes(p, q)' <=> Precedes(p, q)
  BY DEF Precedes, Behind
<1>2. QED
  BY <1>1 DEF Answers, Reaches

\* A page holds rows that the catalog can have.
LEMMA PageParts ==
  ASSUME NEW page \in Page
  PROVE  page.key \in Cursor /\ page.rows \subseteq RowKey
BY DEF Page

\* The next cursor is a cursor: of two last rows each would precede the other.
LEMMA NextCursorIsLast ==
  ASSUME NEW page \in Page
  PROVE  /\ NextCursor(page) \in Cursor
         /\ NextCursor(page) \subseteq page.rows
         /\ Reaches(page, NextCursor(page))
<1>1. page.rows \subseteq RowKey
  BY PageParts
<1>2. \A r, q \in NextCursor(page) : r = q
  <2> SUFFICES ASSUME NEW r \in NextCursor(page), NEW q \in NextCursor(page), r # q
               PROVE  FALSE
    OBVIOUS
  <2>1. Precedes(r, q) /\ Precedes(q, r) /\ r \in RowKey /\ q \in RowKey
    BY <1>1 DEF NextCursor
  <2>2. QED
    BY <2>1, OrderTransitive, OrderIrreflexive
<1>3. NextCursor(page) \in Cursor
  BY <1>1, <1>2 DEF Cursor, Option, NextCursor
<1>4. QED
  BY <1>3 DEF NextCursor, Reaches

\* Of two pages the rows of the earlier come first.
LEMMA LinksAscend == CatalogInv => WalkAscends
<1> SUFFICES ASSUME CatalogInv, NEW c \in Client, NEW i \in Walk(c), NEW j \in Walk(c), i < j,
                    NEW r \in trail[c][i].rows, NEW q \in trail[c][j].rows
             PROVE  Precedes(r, q)
  BY DEF WalkAscends
<1>1. trail[c] \in Seq(Page)
  BY DEF CatalogInv, TypeOK
<1>2. i \in 1..Len(trail[c]) /\ j \in 1..Len(trail[c])
  BY <1>1 DEF Walk
<1>3. trail[c][i] \in Page /\ trail[c][j] \in Page
  BY <1>1, <1>2
<1>4. r \in RowKey /\ q \in RowKey
  BY <1>3, PageParts
<1>5. trail[c][j].key # {} /\ trail[c][j].key \in Cursor
  BY <1>2, <1>3, PageParts DEF CatalogInv, WalkLinks
<1>6. PICK cur \in RowKey : trail[c][j].key = {cur}
  BY <1>5 DEF Cursor, Option
<1>7. r = cur \/ Precedes(r, cur)
  <2>1. Reaches(trail[c][i], trail[c][j].key)
    BY <1>2 DEF CatalogInv, WalkLinks
  <2>2. QED
    BY <1>6, <2>1 DEF Reaches
<1>8. Precedes(cur, q)
  BY <1>6 DEF CatalogInv, WalkLinks, Answers
<1>9. QED
  BY <1>4, <1>7, <1>8, OrderTransitive
-----------------------------------------------------------------------------
\* A query answers its cursor.
LEMMA ListAnswers ==
  ASSUME CatalogInv, NEW k \in Cursor
  PROVE  List(k) \in Page /\ Answers(List(k), k)
<1>1. \A a \in listed : Row(a) \in RowKey
  BY DEF CatalogInv, TypeOK, Row, RowKey
<1>2. Rest(k) \subseteq RowKey
  BY <1>1 DEF Rest
<1>3. First(Rest(k), Limit) \subseteq Rest(k)
  BY DEF First
<1>4. List(k) \in Page
  BY <1>2, <1>3 DEF List, Page, CatalogInv, TypeOK
<1>5. \A cur \in k : cur \in RowKey
  BY DEF Cursor, Option
<1>6. \A r \in Rest(k), cur \in k : Precedes(cur, r)
  BY <1>2, <1>5, KeysetIsOrder DEF Rest
<1>7. QED
  BY <1>3, <1>4, <1>6 DEF List, Answers

\* The page of a failed query is a first page, and the last.
LEMMA BlankIsPage ==
  ASSUME TypeOK
  PROVE  /\ Blank \in Page /\ Answers(Blank, Blank.key) /\ Blank.key = {}
         /\ ~Blank.answered /\ ~Blank.more
<1>1. {} \in Cursor /\ 0 \in 0..version
  BY CatalogAssumption DEF TypeOK, Cursor, Option
<1>2. QED
  BY <1>1 DEF Blank, Page, Answers

\* A request finds its answer in the store, or none.
LEMMA RequestKeepsAnswers ==
  ASSUME CatalogInv, NEW c \in Client, NEW k \in Cursor, UNCHANGED <<version, dir>>,
         Cache!TryGetWith(c, k), pc[c] \in {"idle", "waiting"},
         UNCHANGED <<enabled, store>>, want' = [want EXCEPT ![c] = k]
  PROVE  /\ PagesAnswer'
         /\ pc' \in [Client -> {"idle", "waiting", "loading", "read", "done", "error"}]
         /\ want' \in [Client -> Cursor]
         /\ got' \in [Client -> SUBSET Page]
         /\ \A d \in Client : IF pc'[d] \in {"read", "done"} THEN IsSingleton(got'[d]) ELSE got'[d] = {}
         /\ pc'[c] # "idle"
         /\ \A d \in Client \ {c} : pc'[d] = pc[d]
<1> USE DEF CatalogInv, TypeOK
<1>1. store[k] # {} => IsSingleton(store[k])
  BY DEF PagesAnswer
<1>2. got[c] = {}
  OBVIOUS
<1>3. \A page \in store[k] : Answers(page, k)
  BY DEF PagesAnswer
<1>4. CASE pc' = [pc EXCEPT ![c] = "done"] /\ got' = [got EXCEPT ![c] = store[k]] /\ store[k] # {}
  BY <1>1, <1>3, <1>4, OrderKept DEF PagesAnswer
<1>5. ASSUME NEW l \in {"waiting", "loading"}, pc' = [pc EXCEPT ![c] = l], UNCHANGED got
      PROVE  /\ PagesAnswer'
             /\ pc' \in [Client -> {"idle", "waiting", "loading", "read", "done", "error"}]
             /\ want' \in [Client -> Cursor]
             /\ got' \in [Client -> SUBSET Page]
             /\ \A d \in Client : IF pc'[d] \in {"read", "done"} THEN IsSingleton(got'[d]) ELSE got'[d] = {}
             /\ pc'[c] # "idle"
             /\ \A d \in Client \ {c} : pc'[d] = pc[d]
  BY <1>2, <1>5, OrderKept DEF PagesAnswer
<1>6. QED
  BY <1>4, <1>5 DEF Cache!TryGetWith

\* What the store and the handlers hold stays well typed and answers its key.
LEMMA AnswersStep ==
  ASSUME CatalogInv, [Next]_vars
  PROVE  TypeOK' /\ PagesAnswer'
<1> USE DEF CatalogInv, TypeOK, catalog, request, cache, client
<1>0. UNCHANGED version => Page' = Page
  BY DEF Page
<1>1. ASSUME NEW c \in Client, FirstPage(c), opening' \subseteq Client PROVE TypeOK' /\ PagesAnswer'
  <2>1. {} \in Cursor
    BY DEF Cursor, Option
  <2>2. PagesAnswer' /\ pc' \in [Client -> {"idle", "waiting", "loading", "read", "done", "error"}]
        /\ want' \in [Client -> Cursor] /\ got' \in [Client -> SUBSET Page]
        /\ \A d \in Client : IF pc'[d] \in {"read", "done"} THEN IsSingleton(got'[d]) ELSE got'[d] = {}
    BY <1>1, <2>1, RequestKeepsAnswers DEF FirstPage, Cache!Request
  <2>3. asked' \in [Client -> Seq(Cursor)] /\ depth' \in [Client -> Nat]
    BY <1>1 DEF FirstPage
  <2>4. QED
    BY <1>0, <1>1, <2>2, <2>3 DEF FirstPage, Cache!Request
<1>2. ASSUME NEW c \in Client, NextPage(c) PROVE TypeOK' /\ PagesAnswer'
  <2>1. Shown(c) \in Page
    BY <1>2 DEF NextPage, Shown
  <2>2. NextCursor(Shown(c)) \in Cursor /\ Shown(c).key \in Cursor
    BY <2>1, NextCursorIsLast, PageParts
  <2>3. PagesAnswer' /\ pc' \in [Client -> {"idle", "waiting", "loading", "read", "done", "error"}]
        /\ want' \in [Client -> Cursor] /\ got' \in [Client -> SUBSET Page]
        /\ \A d \in Client : IF pc'[d] \in {"read", "done"} THEN IsSingleton(got'[d]) ELSE got'[d] = {}
    BY <1>2, <2>2, RequestKeepsAnswers DEF NextPage, Cache!Request
  <2>4. asked' \in [Client -> Seq(Cursor)] /\ depth' \in [Client -> Nat]
    BY <1>2, <2>2 DEF NextPage, NextHistory
  <2>5. QED
    BY <1>0, <1>2, <2>3, <2>4 DEF NextPage, Cache!Request
<1>3. ASSUME NEW c \in Client, PrevPage(c) PROVE TypeOK' /\ PagesAnswer'
  <2>1. history[c] \in Seq(Cursor) /\ Len(history[c]) \in Nat \ {0}
    BY <1>3 DEF PrevPage
  <2>2. history[c][Len(history[c])] \in Cursor
    BY <2>1
  <2>3. PagesAnswer' /\ pc' \in [Client -> {"idle", "waiting", "loading", "read", "done", "error"}]
        /\ want' \in [Client -> Cursor] /\ got' \in [Client -> SUBSET Page]
        /\ \A d \in Client : IF pc'[d] \in {"read", "done"} THEN IsSingleton(got'[d]) ELSE got'[d] = {}
    BY <1>3, <2>2, RequestKeepsAnswers DEF PrevPage, Cache!Request
  <2>4. SubSeq(history[c], 1, Len(history[c]) - 1) \in Seq(Cursor)
    BY <2>1
  <2>5. Len(trail[c]) - 1 \in Nat
    <3>1. trail[c] # <<>>
      BY <1>3 DEF PrevPage, HistoryLinks
    <3>2. QED
      BY <3>1
  <2>6. asked' \in [Client -> Seq(Cursor)] /\ depth' \in [Client -> Nat]
    BY <1>3, <2>4, <2>5 DEF PrevPage
  <2>7. QED
    BY <1>0, <1>3, <2>3, <2>6 DEF PrevPage, Cache!Request
<1>4. ASSUME NEW c \in Client, Query(c) PROVE TypeOK' /\ PagesAnswer'
  <2>1. List(want[c]) \in Page /\ Answers(List(want[c]), want[c])
    BY ListAnswers
  <2>2. got' = [got EXCEPT ![c] = {List(want[c])}] /\ pc' = [pc EXCEPT ![c] = "read"]
        /\ UNCHANGED <<enabled, store, want, catalog, request, client, faults>>
    BY <1>4 DEF Query, Cache!Read
  <2>3. got' \in [Client -> SUBSET Page]
        /\ \A d \in Client : IF pc'[d] \in {"read", "done"} THEN IsSingleton(got'[d]) ELSE got'[d] = {}
    BY <2>1, <2>2 DEF IsSingleton
  <2>4. PagesAnswer'
    BY <2>1, <2>2, OrderKept DEF PagesAnswer
  <2>5. QED
    BY <1>0, <2>2, <2>3, <2>4
<1>5. ASSUME NEW c \in Client, Cache!Fail(c), faults' \in 0..MaxFaults, UNCHANGED <<catalog, request, client>>
      PROVE  TypeOK' /\ PagesAnswer'
  <2>1. pc' \in [Client -> {"idle", "waiting", "loading", "read", "done", "error"}]
        /\ \A d \in Client : IF pc'[d] \in {"read", "done"} THEN IsSingleton(got'[d]) ELSE got'[d] = {}
    BY <1>5 DEF Cache!Fail, Cache!Waiting
  <2>2. PagesAnswer'
    BY <1>5, OrderKept DEF PagesAnswer, Cache!Fail
  <2>3. QED
    BY <1>0, <1>5, <2>1, <2>2 DEF Cache!Fail
<1>6. ASSUME NEW c \in Client, Answer(c) PROVE TypeOK' /\ PagesAnswer'
  <2> DEFINE k == want[c]
             served == {c} \cup Cache!Waiting(k)
  <2>1. /\ store' = IF enabled THEN [store EXCEPT ![k] = got[c]] ELSE store
        /\ pc' = [d \in Client |-> IF d \in served THEN "done" ELSE pc[d]]
        /\ got' = [d \in Client |-> IF d \in served THEN got[c] ELSE got[d]]
        /\ UNCHANGED <<enabled, want, catalog, request, client, faults>>
        /\ pc[c] = "read"
    BY <1>6 DEF Answer, Cache!Finish
  <2>2. \A d \in served : want[d] = k
    BY DEF Cache!Waiting
  <2>3. k \in Cursor /\ got[c] \in SUBSET Page /\ IsSingleton(got[c])
    BY <2>1
  <2>4. \A page \in got[c] : Answers(page, k)
    BY DEF PagesAnswer
  <2> HIDE DEF k, served
  <2>5. /\ store' \in [Cursor -> SUBSET Page]
        /\ pc' \in [Client -> {"idle", "waiting", "loading", "read", "done", "error"}]
        /\ got' \in [Client -> SUBSET Page]
        /\ \A d \in Client : IF pc'[d] \in {"read", "done"} THEN IsSingleton(got'[d]) ELSE got'[d] = {}
    BY <2>1, <2>3
  <2>6. PagesAnswer'
    <3>1. \A x \in Cursor : (store'[x] = {} \/ IsSingleton(store'[x])) /\ \A page \in store'[x] : Answers(page, x)
      BY <2>1, <2>3, <2>4 DEF PagesAnswer
    <3>2. \A d \in Client : \A page \in got'[d] : Answers(page, want[d])
      BY <2>1, <2>2, <2>4 DEF PagesAnswer
    <3>3. QED
      BY <2>1, <3>1, <3>2, OrderKept DEF PagesAnswer
  <2>7. QED
    BY <1>0, <2>1, <2>5, <2>6
<1>7. ASSUME NEW c \in Client, TakeOver(c) PROVE TypeOK' /\ PagesAnswer'
  <2>1. want' = [want EXCEPT ![c] = want[c]] /\ want[c] \in Cursor
    BY <1>7 DEF TakeOver, Cache!Retry
  <2>2. PagesAnswer' /\ pc' \in [Client -> {"idle", "waiting", "loading", "read", "done", "error"}]
        /\ want' \in [Client -> Cursor] /\ got' \in [Client -> SUBSET Page]
        /\ \A d \in Client : IF pc'[d] \in {"read", "done"} THEN IsSingleton(got'[d]) ELSE got'[d] = {}
    BY <1>7, <2>1, RequestKeepsAnswers DEF TakeOver, Cache!Retry
  <2>3. QED
    BY <1>0, <1>7, <2>2 DEF TakeOver, Cache!Retry
<1>8. ASSUME NEW c \in Client, pc' = [pc EXCEPT ![c] = "idle"], want' = [want EXCEPT ![c] = {}],
             got' = [got EXCEPT ![c] = {}], UNCHANGED <<store, enabled, catalog, request>>,
             asked' = [asked EXCEPT ![c] = <<>>], depth' = [depth EXCEPT ![c] = 0],
             faults' \in 0..MaxFaults, opening' \subseteq Client,
             history' \in [Client -> Seq(Cursor)], trail' \in [Client -> Seq(Page)]
      PROVE  TypeOK' /\ PagesAnswer'
  <2>1. /\ pc' \in [Client -> {"idle", "waiting", "loading", "read", "done", "error"}]
        /\ want' \in [Client -> Cursor] /\ got' \in [Client -> SUBSET Page]
        /\ \A d \in Client : IF pc'[d] \in {"read", "done"} THEN IsSingleton(got'[d]) ELSE got'[d] = {}
    BY <1>8 DEF Cursor, Option
  <2>2. PagesAnswer'
    BY <1>8, OrderKept DEF PagesAnswer
  <2>3. asked' \in [Client -> Seq(Cursor)] /\ depth' \in [Client -> Nat]
    BY <1>8
  <2>4. QED
    BY <1>0, <1>8, <2>1, <2>2, <2>3
<1>9. ASSUME NEW c \in Client, Respond(c) PROVE TypeOK' /\ PagesAnswer'
  <2>1. PICK page \in got[c] : trail' = [trail EXCEPT ![c] = Append(SubSeq(@, 1, depth[c] - 1), page)]
    BY <1>9 DEF Respond
  <2>2. depth[c] \in 1..Len(trail[c]) + 1 /\ trail[c] \in Seq(Page) /\ page \in Page
    BY <1>9, <2>1 DEF Respond, RequestLinks
  <2>3. SubSeq(trail[c], 1, depth[c] - 1) \in Seq(Page)
    BY <2>2
  <2>4. trail' \in [Client -> Seq(Page)]
    BY <2>1, <2>2, <2>3
  <2>5. history' \in [Client -> Seq(Cursor)] /\ opening' \subseteq Client
    BY <1>9 DEF Respond
  <2>6. QED
    BY <1>8, <1>9, <2>4, <2>5 DEF Respond, Cache!Take
<1>10. ASSUME NEW a \in Asteroid, Change(a) PROVE TypeOK' /\ PagesAnswer'
  <2>1. Page \subseteq Page'
    BY <1>10 DEF Change, Page
  <2>2. version' \in 0..MaxChanges /\ changed' \in [Asteroid -> 0..version']
    BY <1>10, CatalogAssumption DEF Change
  <2>3. listed' \subseteq Asteroid /\ value' \in [Asteroid -> Option(Value)]
    BY <1>10 DEF Change, Column, Option
  <2>4. trail' \in [Client -> Seq(Page')]
    <3>1. \A s \in Seq(Page) : s \in Seq(Page')
      BY <2>1
    <3>2. QED
      BY <1>10, <3>1 DEF Change
  <2>5. PagesAnswer'
    BY <1>10, OrderKept DEF Change, PagesAnswer
  <2>6. QED
    BY <1>10, <2>1, <2>2, <2>3, <2>4, <2>5 DEF Change
<1>11. ASSUME NEW k \in Cursor, Expire(k) PROVE TypeOK' /\ PagesAnswer'
  <2>1. store' \in [Cursor -> SUBSET Page]
    BY <1>11 DEF Expire, Cache!Expire
  <2>2. PagesAnswer'
    BY <1>11, OrderKept DEF Expire, Cache!Expire, PagesAnswer
  <2>3. QED
    BY <1>0, <1>11, <2>1, <2>2 DEF Expire, Cache!Expire
<1>12. CASE UNCHANGED vars
  <2>1. PagesAnswer'
    BY <1>12, OrderKept DEF vars, PagesAnswer
  <2>2. QED
    BY <1>0, <1>12, <2>1 DEF vars
<1>13. ASSUME NEW c \in Client, QueryRejected(c) PROVE TypeOK' /\ PagesAnswer'
  BY <1>5, <1>13 DEF QueryRejected
<1>14. ASSUME NEW c \in Client, QueryFails(c) PROVE TypeOK' /\ PagesAnswer'
  BY <1>5, <1>14, CatalogAssumption DEF QueryFails
<1>15. ASSUME NEW c \in Client, Leave(c) PROVE TypeOK' /\ PagesAnswer'
  <2>1. faults' \in 0..MaxFaults
    BY <1>15, CatalogAssumption DEF Leave
  <2>2. history' \in [Client -> Seq(Cursor)] /\ trail' \in [Client -> Seq(Page)] /\ opening' \subseteq Client
    BY <1>15 DEF Leave
  <2>3. QED
    BY <1>8, <1>15, <2>1, <2>2 DEF Leave, Cache!Leave
<1>16. ASSUME NEW c \in Client, RespondError(c) PROVE TypeOK' /\ PagesAnswer'
  BY <1>8, <1>16 DEF RespondError, Cache!Take
<1>17. ASSUME NEW c \in Client, RespondBlank(c) PROVE TypeOK' /\ PagesAnswer'
  <2>1. history' \in [Client -> Seq(Cursor)]
    BY <1>17 DEF RespondBlank
  <2>2. trail' \in [Client -> Seq(Page)]
    BY <1>17, BlankIsPage DEF RespondBlank
  <2>3. opening' \subseteq Client
    BY <1>17 DEF RespondBlank
  <2>4. QED
    BY <1>8, <1>17, <2>1, <2>2, <2>3 DEF RespondBlank, Cache!Take
<1>18. ASSUME NEW c \in Client, OpenPage(c) \/ SubmitFilters(c) PROVE TypeOK' /\ PagesAnswer'
  <2>1. FirstPage(c) /\ opening' \subseteq Client
    BY <1>18 DEF OpenPage, SubmitFilters
  <2>2. QED
    BY <1>1, <2>1
<1>19. QED
  BY <1>2, <1>3, <1>4, <1>6, <1>7, <1>9, <1>10, <1>11, <1>12, <1>13, <1>14, <1>15, <1>16, <1>17, <1>18,
     CatalogAssumption DEF Next, Serve

\* The cursors of the first pages of a walk, as a sequence.
LEMMA KeysAre ==
  ASSUME TypeOK, NEW c \in Client, NEW n \in 0..Len(trail[c])
  PROVE  /\ Keys(c, n) \in Seq(Cursor)
         /\ Len(Keys(c, n)) = n
         /\ \A i \in 1..n : Keys(c, n)[i] = trail[c][i].key
<1>1. trail[c] \in Seq(Page) /\ n \in Nat /\ n <= Len(trail[c])
  BY DEF TypeOK
<1>2. \A i \in 1..n : trail[c][i] \in Page /\ trail[c][i].key \in Cursor
  BY <1>1, PageParts
<1>3. Keys(c, n) \in [1..n -> Cursor]
  BY <1>2 DEF Keys
<1>4. QED
  BY <1>1, <1>3 DEF Keys

\* A sequence is those cursors if it has them in their places.
LEMMA KeysFrom ==
  ASSUME TypeOK, NEW c \in Client, NEW n \in 0..Len(trail[c]), NEW s \in Seq(Cursor),
         Len(s) = n, \A i \in 1..n : s[i] = trail[c][i].key
  PROVE  s = Keys(c, n)
<1>1. s \in [1..n -> Cursor] /\ DOMAIN s = 1..n
  OBVIOUS
<1>2. QED
  BY <1>1 DEF Keys

\* A walk that goes on, and the request it goes on with.
LEMMA WalkStep ==
  ASSUME CatalogInv, [Next]_vars
  PROVE  WalkLinks' /\ RequestLinks' /\ HistoryLinks'
<1>0. TypeOK /\ WalkLinks /\ RequestLinks /\ HistoryLinks /\ PagesAnswer
  BY DEF CatalogInv
<1>1. ASSUME UNCHANGED <<client, dir>>,
             \A d \in Client : pc'[d] # "idle" => pc[d] # "idle" /\ want'[d] = want[d]
      PROVE  WalkLinks' /\ RequestLinks' /\ HistoryLinks'
  <2>1. WalkLinks'
    BY <1>0, <1>1, OrderKept DEF client, WalkLinks, Walk
  <2>2. RequestLinks'
    BY <1>0, <1>1, OrderKept DEF client, RequestLinks, Keys
  <2>3. HistoryLinks'
    BY <1>0, <1>1 DEF client, HistoryLinks, Keys
  <2>4. QED
    BY <2>1, <2>2, <2>3
<1>2. ASSUME NEW c \in Client, NEW k \in Cursor, NEW n \in 1..Len(trail[c]) + 1,
             UNCHANGED <<trail, history, dir>>,
             \A d \in Client \ {c} : pc'[d] = pc[d],
             want' = [want EXCEPT ![c] = k],
             asked' = [asked EXCEPT ![c] = Keys(c, n - 1)],
             depth' = [depth EXCEPT ![c] = n],
             k = {} <=> n = 1,
             \A i \in 1..n - 1 : Reaches(trail[c][i], k)
      PROVE  WalkLinks' /\ RequestLinks' /\ HistoryLinks'
  <2>1. WalkLinks'
    BY <1>0, <1>2, OrderKept DEF WalkLinks, Walk
  <2>2. RequestLinks'
    <3> SUFFICES ASSUME NEW d \in Client, pc'[d] # "idle"
                 PROVE  /\ depth'[d] \in 1..Len(trail[d]) + 1
                        /\ want'[d] = {} <=> depth'[d] = 1
                        /\ \A i \in 1..depth'[d] - 1 : Reaches(trail[d][i], want'[d])
                        /\ asked'[d] = Keys(d, depth'[d] - 1)
      <4>1. \A e, m : Keys(e, m)' = Keys(e, m)
        BY <1>2 DEF Keys
      <4>2. QED
        BY <1>2, <4>1, OrderKept DEF RequestLinks
    <3>1. CASE d = c
      BY <1>0, <1>2, <3>1 DEF TypeOK
    <3>2. CASE d # c
      BY <1>0, <1>2, <3>2 DEF TypeOK, RequestLinks
    <3>3. QED
      BY <3>1, <3>2
  <2>3. HistoryLinks'
    BY <1>0, <1>2 DEF HistoryLinks, Keys
  <2>4. QED
    BY <2>1, <2>2, <2>3
<1>3. ASSUME NEW c \in Client, FirstPage(c)
      PROVE  WalkLinks' /\ RequestLinks' /\ HistoryLinks'
  <2>1. {} \in Cursor /\ 1 \in 1..Len(trail[c]) + 1 /\ Keys(c, 1 - 1) = <<>>
    BY <1>0 DEF TypeOK, Cursor, Option, Keys
  <2>2. \A d \in Client \ {c} : pc'[d] = pc[d]
    BY <1>0, <1>3 DEF TypeOK, FirstPage, Cache!Request, Cache!TryGetWith
  <2>3. /\ UNCHANGED <<trail, history, dir>>
        /\ want' = [want EXCEPT ![c] = {}]
        /\ asked' = [asked EXCEPT ![c] = Keys(c, 1 - 1)]
        /\ depth' = [depth EXCEPT ![c] = 1]
    BY <1>3, <2>1 DEF FirstPage, Cache!Request, request
  <2>4. \A i \in 1..1 - 1 : Reaches(trail[c][i], {})
    OBVIOUS
  <2>5. QED
    BY <1>2, <2>1, <2>2, <2>3, <2>4
<1>4. ASSUME NEW c \in Client, NextPage(c)
      PROVE  WalkLinks' /\ RequestLinks' /\ HistoryLinks'
  <2> DEFINE n == Len(trail[c]) + 1
             k == NextCursor(Shown(c))
  <2>1. trail[c] \in Seq(Page) /\ Len(trail[c]) \in Nat \ {0} /\ Shown(c) = trail[c][n - 1]
    BY <1>0, <1>4 DEF TypeOK, NextPage, Shown
  <2>2. Shown(c) \in Page
    BY <2>1
  <2>3. k \in Cursor /\ k \subseteq Shown(c).rows /\ Reaches(Shown(c), k)
    BY <2>2, NextCursorIsLast
  <2>4. \A i \in 1..n - 1 : Reaches(trail[c][i], k)
    <3> SUFFICES ASSUME NEW i \in 1..n - 2
                 PROVE  Reaches(trail[c][i], k)
      BY <2>1, <2>3
    <3>1. \A r \in trail[c][i].rows, q \in Shown(c).rows : Precedes(r, q)
      BY <2>1, LinksAscend DEF WalkAscends, Walk
    <3>2. QED
      BY <2>3, <3>1 DEF Reaches
  <2>5. Append(history[c], Shown(c).key) = Keys(c, n - 1)
    <3> DEFINE m == Len(trail[c])
               s == Append(history[c], Shown(c).key)
    <3>1. history[c] = Keys(c, m - 1)
      BY <1>0, <1>4 DEF HistoryLinks, NextPage
    <3>2. m \in Nat \ {0} /\ m - 1 \in 0..Len(trail[c]) /\ m \in 0..Len(trail[c])
          /\ n - 1 = m /\ Shown(c) = trail[c][m]
      BY <2>1
    <3> HIDE DEF m
    <3>3. history[c] \in Seq(Cursor) /\ Len(history[c]) = m - 1
          /\ \A i \in 1..m - 1 : history[c][i] = trail[c][i].key
      BY <1>0, <3>1, <3>2, KeysAre
    <3>4. Shown(c).key \in Cursor
      BY <2>2, PageParts
    <3>5. s \in Seq(Cursor) /\ Len(s) = m
      BY <3>2, <3>3, <3>4
    <3>6. \A i \in 1..m : s[i] = trail[c][i].key
      <4> SUFFICES ASSUME NEW i \in 1..m PROVE s[i] = trail[c][i].key
        OBVIOUS
      <4>1. CASE i = m
        BY <3>2, <3>3, <3>4, <4>1
      <4>2. CASE i # m
        <5>1. i \in 1..m - 1
          BY <3>2, <4>2
        <5>2. s[i] = history[c][i]
          BY <3>2, <3>3, <3>4, <5>1
        <5>3. QED
          BY <3>3, <5>1, <5>2
      <4>3. QED
        BY <4>1, <4>2
    <3> HIDE DEF s
    <3>7. s = Keys(c, m)
      BY <1>0, <3>2, <3>5, <3>6, KeysFrom
    <3>8. QED
      BY <3>2, <3>7 DEF s
  <2>6. \A d \in Client \ {c} : pc'[d] = pc[d]
    BY <1>0, <1>4 DEF TypeOK, NextPage, Cache!Request, Cache!TryGetWith
  <2>7. /\ k # {} /\ want' = [want EXCEPT ![c] = k]
        /\ asked' = [asked EXCEPT ![c] = Keys(c, n - 1)]
        /\ depth' = [depth EXCEPT ![c] = n]
        /\ UNCHANGED <<trail, history, dir>>
    BY <1>4, <2>5 DEF NextPage, NextHistory, Cache!Request, request
  <2>8. n \in 1..Len(trail[c]) + 1 /\ n # 1
    BY <2>1
  <2> HIDE DEF n, k
  <2>9. QED
    BY <1>2, <2>3, <2>4, <2>6, <2>7, <2>8
<1>5. ASSUME NEW c \in Client, PrevPage(c)
      PROVE  WalkLinks' /\ RequestLinks' /\ HistoryLinks'
  <2> DEFINE n == Len(trail[c]) - 1
             k == history[c][Len(history[c])]
  <2>1. trail[c] \in Seq(Page) /\ history[c] \in Seq(Cursor) /\ history[c] # <<>>
    BY <1>0, <1>5 DEF TypeOK, PrevPage
  <2>2. trail[c] # <<>> /\ history[c] = Keys(c, n)
    BY <1>0, <2>1 DEF HistoryLinks
  <2>3. n \in Nat \ {0} /\ Len(history[c]) = n
    <3>1. n \in Nat
      BY <2>1, <2>2
    <3>2. Len(history[c]) = n
      BY <1>0, <2>1, <2>2, <3>1, KeysAre
    <3>3. QED
      BY <2>1, <3>1, <3>2
  <2>4. k \in Cursor /\ k = trail[c][n].key
    BY <1>0, <2>1, <2>2, <2>3, KeysAre
  <2>5. n \in Walk(c)
    BY <2>1, <2>3 DEF Walk
  <2>6. (k = {} <=> n = 1) /\ \A i \in 1..n - 1 : Reaches(trail[c][i], k)
    BY <1>0, <2>4, <2>5 DEF WalkLinks
  <2>7. SubSeq(history[c], 1, Len(history[c]) - 1) = Keys(c, n - 1)
    <3> DEFINE s == SubSeq(history[c], 1, n - 1)
    <3>1. n \in 0..Len(trail[c]) /\ n - 1 \in 0..Len(trail[c]) /\ n \in Nat \ {0}
      BY <2>1, <2>3
    <3> HIDE DEF n
    <3>2. \A i \in 1..n : history[c][i] = trail[c][i].key
      BY <1>0, <2>2, <3>1, KeysAre
    <3>3. s \in Seq(Cursor) /\ Len(s) = n - 1 /\ \A i \in 1..n - 1 : s[i] = history[c][i]
      BY <2>1, <2>3, <3>1
    <3>4. \A i \in 1..n - 1 : s[i] = trail[c][i].key
      BY <3>1, <3>2, <3>3
    <3> HIDE DEF s
    <3>5. s = Keys(c, n - 1)
      BY <1>0, <3>1, <3>3, <3>4, KeysFrom
    <3>6. QED
      BY <2>3, <3>5 DEF s
  <2>8. \A d \in Client \ {c} : pc'[d] = pc[d]
    BY <1>0, <1>5 DEF TypeOK, PrevPage, Cache!Request, Cache!TryGetWith
  <2>9. /\ want' = [want EXCEPT ![c] = k]
        /\ asked' = [asked EXCEPT ![c] = Keys(c, n - 1)]
        /\ depth' = [depth EXCEPT ![c] = n]
        /\ UNCHANGED <<trail, history, dir>>
    BY <1>5, <2>7 DEF PrevPage, Cache!Request, request
  <2>10. n \in 1..Len(trail[c]) + 1
    BY <2>1, <2>3
  <2> HIDE DEF n, k
  <2>11. QED
    BY <1>2, <2>4, <2>6, <2>8, <2>9, <2>10
<1>6. ASSUME NEW c \in Client, UNCHANGED <<trail, history, dir>>,
             pc' = [pc EXCEPT ![c] = "idle"], want' = [want EXCEPT ![c] = {}],
             asked' = [asked EXCEPT ![c] = <<>>], depth' = [depth EXCEPT ![c] = 0]
      PROVE  WalkLinks' /\ RequestLinks' /\ HistoryLinks'
  <2>1. WalkLinks'
    BY <1>0, <1>6, OrderKept DEF WalkLinks, Walk
  <2>2. RequestLinks'
    BY <1>0, <1>6, OrderKept DEF RequestLinks, TypeOK, Keys
  <2>3. HistoryLinks'
    BY <1>0, <1>6 DEF HistoryLinks, Keys
  <2>4. QED
    BY <2>1, <2>2, <2>3
<1>7. ASSUME NEW c \in Client, Respond(c)
      PROVE  WalkLinks' /\ RequestLinks' /\ HistoryLinks'
  <2> DEFINE n == depth[c]
  <2>1. PICK page \in got[c] : trail' = [trail EXCEPT ![c] = Append(SubSeq(@, 1, depth[c] - 1), page)]
    BY <1>7 DEF Respond
  <2>2. /\ trail[c] \in Seq(Page) /\ n \in 1..Len(trail[c]) + 1 /\ Answers(page, want[c])
        /\ want[c] = {} <=> n = 1
        /\ \A i \in 1..n - 1 : Reaches(trail[c][i], want[c])
        /\ asked[c] = Keys(c, n - 1)
    BY <1>0, <1>7, <2>1 DEF TypeOK, Respond, RequestLinks, PagesAnswer
  <2>3. /\ UNCHANGED <<dir>> /\ pc' = [pc EXCEPT ![c] = "idle"] /\ want' = [want EXCEPT ![c] = {}]
        /\ history' = [history EXCEPT ![c] = asked[c]]
        /\ depth' = [depth EXCEPT ![c] = 0] /\ asked' = [asked EXCEPT ![c] = <<>>]
    BY <1>7 DEF Respond, Cache!Take, request
  <2>4. /\ trail'[c] \in Seq(Page') /\ Len(trail'[c]) = n /\ trail'[c][n] = page
        /\ \A i \in 1..n - 1 : trail'[c][i] = trail[c][i]
        /\ \A d \in Client \ {c} : trail'[d] = trail[d]
    <3>1. TypeOK'
      BY AnswersStep
    <3>2. SubSeq(trail[c], 1, n - 1) \in Seq(Page) /\ Len(SubSeq(trail[c], 1, n - 1)) = n - 1
          /\ \A i \in 1..n - 1 : SubSeq(trail[c], 1, n - 1)[i] = trail[c][i]
      BY <2>2
    <3>3. trail'[c] = Append(SubSeq(trail[c], 1, n - 1), page) /\ page \in Page
          /\ \A d \in Client \ {c} : trail'[d] = trail[d]
      BY <1>0, <2>1 DEF TypeOK
    <3>4. trail'[c] \in Seq(Page')
      BY <3>1 DEF TypeOK
    <3> DEFINE s == SubSeq(trail[c], 1, n - 1)
    <3>5. n \in Nat \ {0}
      BY <2>2
    <3> HIDE DEF s, n
    <3>6. /\ Len(Append(s, page)) = n /\ Append(s, page)[n] = page
          /\ \A i \in 1..n - 1 : Append(s, page)[i] = s[i]
      BY <3>2, <3>3, <3>5 DEF s
    <3>7. QED
      BY <3>2, <3>3, <3>4, <3>6 DEF s
  <2>5. page.key = want[c]
    BY <2>2 DEF Answers
  <2> HIDE DEF n
  <2>6. WalkLinks'
    <3> SUFFICES ASSUME NEW d \in Client, NEW j \in DOMAIN trail'[d]
                 PROVE  /\ Answers(trail'[d][j], trail'[d][j].key)
                        /\ trail'[d][j].key = {} <=> j = 1
                        /\ \A i \in 1..j - 1 : Reaches(trail'[d][i], trail'[d][j].key)
      BY <2>3, OrderKept DEF WalkLinks, Walk
    <3>1. CASE d # c
      BY <1>0, <2>4, <3>1 DEF WalkLinks, Walk
    <3>2. CASE d = c
      <4>1. j \in 1..n
        BY <2>4, <3>2
      <4>2. CASE j = n
        BY <2>2, <2>4, <2>5, <3>2, <4>2
      <4>3. CASE j # n
        <5>1. j \in 1..n - 1 /\ j \in DOMAIN trail[c]
          BY <2>2, <4>1, <4>3
        <5>2. \A i \in 1..j : trail'[c][i] = trail[c][i]
          BY <2>2, <2>4, <5>1
        <5>3. QED
          BY <1>0, <3>2, <5>1, <5>2 DEF WalkLinks, Walk
      <4>4. QED
        BY <4>2, <4>3
    <3>3. QED
      BY <3>1, <3>2
  <2>7. RequestLinks'
    <3> SUFFICES ASSUME NEW d \in Client, pc'[d] # "idle"
                 PROVE  /\ depth'[d] \in 1..Len(trail'[d]) + 1
                        /\ want'[d] = {} <=> depth'[d] = 1
                        /\ \A i \in 1..depth'[d] - 1 : Reaches(trail'[d][i], want'[d])
                        /\ asked'[d] = Keys(d, depth[d] - 1)'
      BY <2>3, OrderKept DEF RequestLinks
    <3>1. d # c /\ pc[d] # "idle"
      BY <1>0, <2>3 DEF TypeOK
    <3>2. depth'[d] = depth[d] /\ want'[d] = want[d] /\ asked'[d] = asked[d] /\ trail'[d] = trail[d]
      BY <1>0, <2>3, <2>4, <3>1 DEF TypeOK
    <3>3. Keys(d, depth[d] - 1)' = Keys(d, depth[d] - 1)
      BY <3>2 DEF Keys
    <3>4. QED
      BY <1>0, <3>1, <3>2, <3>3 DEF RequestLinks
  <2>8. HistoryLinks'
    <3> SUFFICES ASSUME NEW d \in Client
                 PROVE  history'[d] = IF trail'[d] = <<>> THEN <<>> ELSE Keys(d, Len(trail[d]) - 1)'
      BY DEF HistoryLinks
    <3>1. CASE d = c
      <4>1. trail'[c] # <<>>
        BY <2>2, <2>4
      <4>2. history'[c] = Keys(c, n - 1)
        BY <1>0, <2>2, <2>3 DEF TypeOK
      <4>3. Keys(c, Len(trail[c]) - 1)' = Keys(c, n - 1)
        BY <2>2, <2>4 DEF Keys
      <4>4. QED
        BY <3>1, <4>1, <4>2, <4>3
    <3>2. CASE d # c
      <4>1. history'[d] = history[d] /\ trail'[d] = trail[d]
        BY <1>0, <2>3, <2>4, <3>2 DEF TypeOK
      <4>2. Keys(d, Len(trail[d]) - 1)' = Keys(d, Len(trail[d]) - 1)
        BY <4>1 DEF Keys
      <4>3. QED
        BY <1>0, <4>1, <4>2 DEF HistoryLinks
    <3>3. QED
      BY <3>1, <3>2
  <2>9. QED
    BY <2>6, <2>7, <2>8
<1>8. ASSUME NEW c \in Client, Leave(c)
      PROVE  WalkLinks' /\ RequestLinks' /\ HistoryLinks'
  BY <1>6, <1>8 DEF Leave, Cache!Leave, request
<1>9. ASSUME NEW c \in Client, RespondError(c)
      PROVE  WalkLinks' /\ RequestLinks' /\ HistoryLinks'
  BY <1>6, <1>9 DEF RespondError, Cache!Take, request
<1>10. ASSUME NEW c \in Client, Query(c) \/ QueryRejected(c) \/ QueryFails(c) \/ Answer(c) \/ TakeOver(c)
       PROVE  WalkLinks' /\ RequestLinks' /\ HistoryLinks'
  <2>1. UNCHANGED <<client, dir, want>>
    BY <1>0, <1>10 DEF Query, QueryRejected, QueryFails, Answer, TakeOver, Cache!Read, Cache!Fail,
         Cache!Finish, Cache!Retry, request
  <2>2. \A d \in Client : pc'[d] # "idle" => pc[d] # "idle"
    BY <1>0, <1>10 DEF Query, QueryRejected, QueryFails, Answer, TakeOver, Cache!Read, Cache!Fail,
         Cache!Finish, Cache!Retry, Cache!TryGetWith, Cache!Waiting, TypeOK
  <2>3. QED
    BY <1>1, <2>1, <2>2
<1>11. ASSUME NEW a \in Asteroid, Change(a)
       PROVE  WalkLinks' /\ RequestLinks' /\ HistoryLinks'
  BY <1>1, <1>11 DEF Change, cache, request
<1>12. ASSUME NEW k \in Cursor, Expire(k)
       PROVE  WalkLinks' /\ RequestLinks' /\ HistoryLinks'
  BY <1>1, <1>12 DEF Expire, Cache!Expire, request
<1>13. CASE UNCHANGED vars
  BY <1>1, <1>13 DEF vars, cache, request
<1>14. ASSUME NEW c \in Client, RespondBlank(c)
       PROVE  WalkLinks' /\ RequestLinks' /\ HistoryLinks'
  <2>1. /\ UNCHANGED dir /\ pc' = [pc EXCEPT ![c] = "idle"] /\ want' = [want EXCEPT ![c] = {}]
        /\ history' = [history EXCEPT ![c] = <<>>] /\ trail' = [trail EXCEPT ![c] = <<Blank>>]
        /\ depth' = [depth EXCEPT ![c] = 0] /\ asked' = [asked EXCEPT ![c] = <<>>]
    BY <1>14 DEF RespondBlank, Cache!Take, request
  <2>2. trail'[c] = <<Blank>> /\ history'[c] = <<>> /\ pc'[c] = "idle"
    BY <1>0, <2>1 DEF TypeOK
  <2>3. \A d \in Client \ {c} : /\ trail'[d] = trail[d] /\ history'[d] = history[d] /\ pc'[d] = pc[d]
                               /\ want'[d] = want[d] /\ depth'[d] = depth[d] /\ asked'[d] = asked[d]
    BY <1>0, <2>1 DEF TypeOK
  <2>4. WalkLinks'
    <3> SUFFICES ASSUME NEW d \in Client, NEW j \in DOMAIN trail'[d]
                 PROVE  /\ Answers(trail'[d][j], trail'[d][j].key)
                        /\ trail'[d][j].key = {} <=> j = 1
                        /\ \A i \in 1..j - 1 : Reaches(trail'[d][i], trail'[d][j].key)
      BY <2>1, OrderKept DEF WalkLinks, Walk
    <3>1. CASE d # c
      BY <1>0, <2>3, <3>1 DEF WalkLinks, Walk
    <3>2. CASE d = c
      BY <1>0, <2>2, <3>2, BlankIsPage
    <3>3. QED
      BY <3>1, <3>2
  <2>5. \A n : \A d \in Client \ {c} : Keys(d, n)' = Keys(d, n)
    BY <2>3 DEF Keys
  <2>6. RequestLinks'
    BY <1>0, <2>1, <2>2, <2>3, <2>5, OrderKept DEF RequestLinks
  <2>7. HistoryLinks'
    <3>1. Keys(c, Len(trail[c]) - 1)' = <<>>
      BY <2>2 DEF Keys
    <3>2. QED
      BY <1>0, <2>2, <2>3, <2>5, <3>1 DEF HistoryLinks
  <2>8. QED
    BY <2>4, <2>6, <2>7
<1>15. QED
  BY <1>3, <1>4, <1>5, <1>7, <1>8, <1>9, <1>10, <1>11, <1>12, <1>13, <1>14, CatalogAssumption
     DEF Next, Serve, OpenPage, SubmitFilters

\* CatalogInv is inductive, for any catalog, page size, clients, failures and
\* expiries.
THEOREM CatalogInvariant == Spec => []CatalogInv
<1>1. Init => CatalogInv
  <2> SUFFICES ASSUME Init PROVE CatalogInv
    OBVIOUS
  <2>1. TypeOK
    BY CatalogAssumption DEF Init, Cache!Empty, TypeOK, Column, Option, Cursor
  <2>2. PagesAnswer /\ WalkLinks /\ RequestLinks /\ HistoryLinks
    BY DEF Init, Cache!Empty, PagesAnswer, WalkLinks, Walk, RequestLinks, HistoryLinks
  <2>3. QED
    BY <2>1, <2>2 DEF CatalogInv
<1>2. CatalogInv /\ [Next]_vars => CatalogInv'
  BY AnswersStep, WalkStep DEF CatalogInv
<1>3. QED
  BY <1>1, <1>2, PTL DEF Spec

\* Every reachable state of the catalog and its clients is well typed.
THEOREM CatalogTypes == Spec => []TypeOK
<1>1. CatalogInv => TypeOK
  BY DEF CatalogInv
<1>2. QED
  BY <1>1, CatalogInvariant, PTL

\* The pages of a walk ascend, though the catalog changes between them and the
\* cache gives some of them out later than others.
THEOREM PagesAscend == Spec => []WalkAscends
BY LinksAscend, CatalogInvariant, PTL

\* PREV leads back along the pages a client came by.
THEOREM PrevIsTheWayBack == Spec => []PrevReturns
<1>1. CatalogInv => PrevReturns
  BY DEF CatalogInv, HistoryLinks, PrevReturns, Keys
<1>2. QED
  BY <1>1, CatalogInvariant, PTL
-----------------------------------------------------------------------------
(***************************************************************************)
(* A walk to the last page is complete.                                    *)
(***************************************************************************)
\* What a page says of the asteroids that have not changed since it was queried: it
\* shows no other row of theirs, and leaves out only those behind its last row.
Tells(page) ==
  \A a \in Asteroid : changed[a] <= page.at =>
    /\ \A r \in page.rows : r.id = a => a \in listed /\ r = Row(a)
    /\ a \in listed /\ (\A cur \in page.key : Precedes(cur, Row(a))) =>
         \/ Row(a) \in page.rows
         \/ page.more /\ \E last \in NextCursor(page) : Precedes(last, Row(a))

\* The page of a failed query says nothing, but no page is reached from it.
Sound(page) == IF page.answered THEN Tells(page) ELSE ~page.more

\* The pages that the store, the handlers and the clients hold.
Held(page) ==
  \/ \E k \in Cursor : page \in store[k]
  \/ \E c \in Client : page \in got[c]
  \/ \E c \in Client : \E i \in Walk(c) : page = trail[c][i]

\* Each page of a walk is asked for with the cursor of the one before.
WalkFollows ==
  \A c \in Client : \A i \in Walk(c) : i > 1 => trail[c][i].key = NextCursor(trail[c][i - 1])

RequestFollows ==
  \A c \in Client : pc[c] # "idle" /\ depth[c] > 1 => want[c] = NextCursor(trail[c][depth[c] - 1])

CompleteInv == (\A page : Held(page) => Sound(page)) /\ WalkFollows /\ RequestFollows

LEMMA LeastNumber ==
  ASSUME NEW T \in SUBSET Nat, T # {}
  PROVE  \E x \in T : \A y \in T : x <= y
<1>1. PICK x \in T : \A y \in T : <<y, x>> \notin OpToRel(<, Nat)
  BY NatLessThanWellFounded, WFMin
<1>2. \A y \in T : ~(y < x)
  BY <1>1 DEF OpToRel
<1>3. QED
  BY <1>2

\* The rows before r.
Before(R, r) == {q \in R : Precedes(q, r)}
Rank(R, r) == Cardinality(Before(R, r))

LEMMA RankGrows ==
  ASSUME NEW R \in SUBSET RowKey, IsFiniteSet(R)
  PROVE  /\ \A r \in R : Rank(R, r) \in Nat /\ IsFiniteSet(Before(R, r))
         /\ \A q, r \in R : Precedes(q, r) => Rank(R, q) < Rank(R, r)
<1>1. \A r \in R : IsFiniteSet(Before(R, r)) /\ Rank(R, r) \in Nat
  BY FS_Subset, FS_CardinalityType DEF Before, Rank
<1>2. ASSUME NEW q \in R, NEW r \in R, Precedes(q, r) PROVE Rank(R, q) < Rank(R, r)
  <2>1. q \notin Before(R, q) /\ Before(R, q) \cup {q} \subseteq Before(R, r)
    BY <1>2, OrderIrreflexive, OrderTransitive DEF Before
  <2>2. Cardinality(Before(R, q) \cup {q}) = Rank(R, q) + 1
    BY <1>1, <2>1, FS_AddElement DEF Rank
  <2>3. Cardinality(Before(R, q) \cup {q}) <= Rank(R, r)
    BY <1>1, <2>1, FS_Subset DEF Rank
  <2>4. QED
    BY <1>1, <2>2, <2>3
<1>3. QED
  BY <1>1, <1>2

\* When no more than n rows are fetched with a limit of n + 1, the n first are all.
LEMMA FirstAreAll ==
  ASSUME NEW R \in SUBSET RowKey, IsFiniteSet(R), NEW n \in Nat, Cardinality(First(R, n + 1)) <= n
  PROVE  First(R, n) = R
<1> SUFFICES ASSUME NEW s \in R, Rank(R, s) >= n PROVE FALSE
  BY RankGrows DEF First, Rank, Before
<1> DEFINE T == {Rank(R, r) : r \in {r \in R : Rank(R, r) >= n}}
<1>1. T \subseteq Nat /\ T # {}
  BY RankGrows
<1>2. PICK m \in T : \A y \in T : m <= y
  BY <1>1, LeastNumber
<1>3. PICK r \in R : m = Rank(R, r) /\ m >= n /\ \A q \in R : Rank(R, q) >= n => m <= Rank(R, q)
  BY <1>2
<1>4. ASSUME NEW q \in Before(R, r) PROVE q \in R /\ Rank(R, q) < n
  <2>1. q \in R /\ Rank(R, q) < Rank(R, r) /\ Rank(R, q) \in Nat /\ Rank(R, r) \in Nat
    BY RankGrows DEF Before
  <2>2. ~(m <= Rank(R, q))
    BY <1>3, <2>1
  <2>3. QED
    BY <1>3, <2>1, <2>2
<1> DEFINE F == First(R, n + 1)
<1>5. F = {q \in R : Rank(R, q) < n + 1}
  BY DEF First, Rank, Before
<1> HIDE DEF F, T
<1>6. Before(R, r) \subseteq F
  BY <1>4, <1>5, RankGrows
<1>7. IsFiniteSet(F) /\ IsFiniteSet(Before(R, r)) /\ Cardinality(Before(R, r)) = m /\ m \in Nat /\ Cardinality(F) \in Nat
  BY <1>3, <1>5, RankGrows, FS_Subset, FS_CardinalityType DEF Rank
<1>8. m <= Cardinality(F) /\ Cardinality(F) <= n
  BY <1>6, <1>7, FS_Subset DEF F
<1>9. m = n
  BY <1>3, <1>7, <1>8
<1>10. Before(R, r) \cup {r} \subseteq F /\ r \notin Before(R, r)
  <2>1. Rank(R, r) < n + 1
    BY <1>3, <1>7, <1>9
  <2>2. r \in F
    BY <1>5, <2>1
  <2>3. r \notin Before(R, r)
    BY OrderIrreflexive DEF Before
  <2>4. QED
    BY <1>6, <2>2, <2>3
<1>11. Cardinality(Before(R, r) \cup {r}) = m + 1
  BY <1>7, <1>10, FS_AddElement
<1>12. m + 1 <= Cardinality(F)
  BY <1>7, <1>10, <1>11, FS_Subset
<1>13. QED
  BY <1>7, <1>8, <1>9, <1>12

\* Else there is a last of them, and all others come after it.
LEMMA FirstHaveLast ==
  ASSUME NEW R \in SUBSET RowKey, IsFiniteSet(R), NEW n \in Nat \ {0}, R # {}
  PROVE  \E last \in First(R, n) :
           /\ \A q \in First(R, n) \ {last} : Precedes(q, last)
           /\ \A q \in R \ First(R, n) : Precedes(last, q)
<1> DEFINE F == {r \in R : Rank(R, r) < n}
<1>1. First(R, n) = F
  BY DEF First, Rank, Before
<1>2. \A r \in R : Rank(R, r) \in Nat
  BY RankGrows
<1>3. F # {}
  <2> DEFINE T == {Rank(R, r) : r \in R}
  <2>0. T \subseteq Nat /\ T # {}
    BY <1>2
  <2>1. PICK m \in T : \A y \in T : m <= y
    BY <2>0, LeastNumber
  <2>2. PICK r \in R : m = Rank(R, r)
    BY <2>1
  <2>3. ASSUME NEW q \in Before(R, r) PROVE FALSE
    <3>1. q \in R /\ Rank(R, q) < Rank(R, r)
      BY <2>3, RankGrows DEF Before
    <3>2. QED
      BY <1>2, <2>1, <2>2, <3>1
  <2>4. Rank(R, r) = 0
    BY <2>3, FS_EmptySet DEF Rank
  <2>5. QED
    BY <2>4
<1> DEFINE U == {n - Rank(R, r) : r \in F}
<1>4. U \subseteq Nat /\ U # {}
  BY <1>2, <1>3
<1>5. PICK m \in U : \A y \in U : m <= y
  BY <1>4, LeastNumber
<1>6. PICK last \in F : m = n - Rank(R, last)
  BY <1>5
<1>7. ASSUME NEW q \in F \ {last} PROVE Precedes(q, last)
  <2>1. n - Rank(R, last) <= n - Rank(R, q)
    BY <1>5, <1>6
  <2>2. ~(Rank(R, last) < Rank(R, q))
    BY <1>2, <2>1
  <2>3. QED
    BY <2>2, OrderTotal, RankGrows
<1>8. ASSUME NEW q \in R \ F PROVE Precedes(last, q)
  <2>1. Rank(R, last) < n /\ ~(Rank(R, q) < n) /\ q # last
    BY <1>6
  <2>2. ~(Rank(R, q) < Rank(R, last))
    BY <1>2, <2>1
  <2>3. QED
    BY <2>1, <2>2, OrderTotal, RankGrows
<1>9. QED
  BY <1>1, <1>7, <1>8

\* What list reads is sound.
LEMMA ListSound ==
  ASSUME CatalogInv, NEW k \in Cursor
  PROVE  Sound(List(k))
<1> DEFINE R == Rest(k)
           page == List(k)
<1>1. listed \subseteq Asteroid /\ \A a \in listed : Row(a) \in RowKey /\ Row(a).id = a
  BY DEF CatalogInv, TypeOK, Row, RowKey
<1>2. R \in SUBSET RowKey /\ \A r \in R : r.id \in listed /\ r = Row(r.id)
  BY <1>1 DEF Rest
<1>3. IsFiniteSet(R)
  <2> DEFINE I == {r.id : r \in R}
  <2>0. I \subseteq Asteroid
    BY <1>1, <1>2
  <2>1. IsFiniteSet(I)
    BY <2>0, CatalogAssumption, FS_Subset
  <2> DEFINE g == [i \in I |-> Row(i)]
  <2>2. g \in [I -> R] /\ \A r \in R : \E i \in I : g[i] = r
    BY <1>2
  <2>3. g \in Surjection(I, R)
    BY <2>2 DEF Surjection
  <2>4. QED
    BY <2>1, <2>3, FS_Surjection
<1>4. \A r \in R : \A cur \in k : Precedes(cur, r)
  <2>1. \A cur \in k : cur \in RowKey
    BY DEF Cursor, Option
  <2>2. QED
    BY <1>2, <2>1, KeysetIsOrder DEF Rest
<1>5. \A a \in listed : (\A cur \in k : Precedes(cur, Row(a))) => Row(a) \in R
  <2>1. \A cur \in k : cur \in RowKey
    BY DEF Cursor, Option
  <2>2. QED
    BY <1>1, <2>1, KeysetIsOrder DEF Rest
<1>6. /\ page.key = k /\ page.rows = First(R, Limit) /\ page.rows \subseteq R
      /\ page.more = (Cardinality(First(R, Limit + 1)) > Limit)
  BY DEF List, First
<1>7. Limit \in Nat \ {0}
  BY CatalogAssumption
<1> HIDE DEF R, page
<1>8. ASSUME NEW r \in R PROVE r \in page.rows \/ (page.more /\ \E last \in NextCursor(page) : Precedes(last, r))
  <2>1. CASE page.more
    <3>1. PICK last \in page.rows :
            /\ \A q \in page.rows \ {last} : Precedes(q, last)
            /\ \A q \in R \ page.rows : Precedes(last, q)
      BY <1>2, <1>3, <1>6, <1>7, <1>8, FirstHaveLast
    <3>2. last \in NextCursor(page)
      BY <2>1, <3>1 DEF NextCursor
    <3>3. QED
      BY <1>8, <2>1, <3>1, <3>2
  <2>2. CASE ~page.more
    <3>1. Cardinality(First(R, Limit + 1)) <= Limit
      <4>1. First(R, Limit + 1) \subseteq R
        BY DEF First
      <4>2. Cardinality(First(R, Limit + 1)) \in Nat
        BY <1>3, <4>1, FS_Subset, FS_CardinalityType
      <4>3. ~(Cardinality(First(R, Limit + 1)) > Limit)
        BY <1>6, <2>2
      <4>4. QED
        BY <1>7, <4>2, <4>3
    <3>2. First(R, Limit) = R
      BY <1>2, <1>3, <1>7, <3>1, FirstAreAll
    <3>3. QED
      BY <1>6, <1>8, <3>2
  <2>3. QED
    BY <2>1, <2>2
<1>9. ASSUME NEW a \in Asteroid, NEW r \in page.rows, r.id = a PROVE a \in listed /\ r = Row(a)
  BY <1>2, <1>6, <1>9
<1>10. ASSUME NEW a \in Asteroid, a \in listed, \A cur \in page.key : Precedes(cur, Row(a))
       PROVE  Row(a) \in page.rows \/ (page.more /\ \E last \in NextCursor(page) : Precedes(last, Row(a)))
  BY <1>5, <1>6, <1>8, <1>10
<1>11. Sound(page)
  <2>1. page.answered
    BY DEF page, List
  <2>2. QED
    BY <1>9, <1>10, <2>1 DEF Sound, Tells
<1>12. QED
  BY <1>11 DEF page

\* A sound page stays so: an asteroid that changes has changed since.
LEMMA SoundKept ==
  ASSUME CatalogInv, [Next]_vars, NEW page \in Page, Sound(page)
  PROVE  Sound(page)'
<1>1. UNCHANGED dir
  BY DEF Next, Serve, OpenPage, SubmitFilters, FirstPage, NextPage, PrevPage, Query, QueryRejected, QueryFails,
         Answer, TakeOver, Leave, Expire, Respond, RespondError, RespondBlank, Change, vars, request
<1>2. NextCursor(page)' = NextCursor(page) /\ \A p, q : Precedes(p, q)' <=> Precedes(p, q)
  BY <1>1, OrderKept DEF NextCursor
<1>3. ASSUME NEW a \in Asteroid, changed'[a] <= page.at
      PROVE  /\ changed[a] <= page.at /\ Row(a)' = Row(a) /\ (a \in listed' <=> a \in listed)
  <2>1. CASE UNCHANGED catalog
    BY <1>3, <2>1 DEF catalog, Row
  <2>2. ASSUME NEW b \in Asteroid, Change(b)
        PROVE  /\ changed[a] <= page.at /\ Row(a)' = Row(a) /\ (a \in listed' <=> a \in listed)
    <3>1. a # b
      <4>1. page.at \in 0..version /\ version \in Nat /\ changed \in [Asteroid -> 0..version]
        BY CatalogAssumption DEF Page, CatalogInv, TypeOK
      <4>2. changed' = [changed EXCEPT ![b] = version + 1]
        BY <2>2 DEF Change
      <4>3. QED
        BY <1>3, <4>1, <4>2
    <3>2. changed'[a] = changed[a] /\ value'[a] = value[a] /\ (a \in listed' <=> a \in listed)
      BY <2>2, <3>1 DEF Change, CatalogInv, TypeOK
    <3>3. QED
      BY <1>3, <3>2 DEF Row
  <2>3. QED
    BY <2>1, <2>2 DEF Next, Serve, OpenPage, SubmitFilters, FirstPage, NextPage, PrevPage, Query, QueryRejected,
         QueryFails, Answer, TakeOver, Leave, Expire, Respond, RespondError, RespondBlank, vars
<1>4. QED
  BY <1>2, <1>3 DEF Sound, Tells

\* Pages move between the store, the handlers and the clients; a new one is read
\* from the catalog, or the page of a failed query.
LEMMA HeldStep ==
  ASSUME CatalogInv, [Next]_vars, NEW page, Held(page)'
  PROVE  Held(page) \/ page = Blank \/ \E k \in Cursor : page = List(k) /\ UNCHANGED <<catalog, dir>>
<1>0. TypeOK /\ RequestLinks
  BY DEF CatalogInv
<1>1. /\ \A k \in Cursor : \A p \in store[k] : Held(p)
      /\ \A c \in Client : \A p \in got[c] : Held(p)
      /\ \A c \in Client : \A i \in Walk(c) : Held(trail[c][i])
  BY DEF Held
<1>2. ASSUME \A k \in Cursor : \A p \in store'[k] : Held(p), \A c \in Client : \A p \in got'[c] : Held(p),
             UNCHANGED trail
      PROVE  Held(page)
  BY <1>1, <1>2 DEF Held, Walk
<1>3. ASSUME NEW c \in Client, NEW k \in Cursor, Cache!TryGetWith(c, k), UNCHANGED <<store, trail>>
      PROVE  Held(page)
  BY <1>0, <1>1, <1>2, <1>3 DEF Cache!TryGetWith, TypeOK
<1>4. ASSUME NEW c \in Client, FirstPage(c) PROVE Held(page)
  BY <1>3, <1>4 DEF FirstPage, Cache!Request, Cursor, Option
<1>5. ASSUME NEW c \in Client, NextPage(c) PROVE Held(page)
  <2>1. Shown(c) \in Page
    BY <1>0, <1>5 DEF NextPage, Shown, TypeOK
  <2>2. NextCursor(Shown(c)) \in Cursor
    BY <2>1, NextCursorIsLast
  <2>3. QED
    BY <1>3, <1>5, <2>2 DEF NextPage, Cache!Request
<1>6. ASSUME NEW c \in Client, PrevPage(c) PROVE Held(page)
  <2>1. history[c] \in Seq(Cursor) /\ history[c] # <<>>
    BY <1>0, <1>6 DEF PrevPage, TypeOK
  <2>2. history[c][Len(history[c])] \in Cursor
    BY <2>1
  <2>3. QED
    BY <1>3, <1>6, <2>2 DEF PrevPage, Cache!Request
<1>7. ASSUME NEW c \in Client, TakeOver(c) PROVE Held(page)
  BY <1>0, <1>3, <1>7 DEF TakeOver, Cache!Retry, client, TypeOK
<1>8. ASSUME NEW c \in Client, Query(c)
      PROVE  Held(page) \/ \E k \in Cursor : page = List(k) /\ UNCHANGED <<catalog, dir>>
  <2>1. got' = [got EXCEPT ![c] = {List(want[c])}] /\ UNCHANGED <<store, trail, catalog, dir>>
    BY <1>8 DEF Query, Cache!Read, client, request
  <2>2. CASE page = List(want[c])
    BY <1>0, <2>1, <2>2 DEF TypeOK
  <2>3. CASE page # List(want[c])
    BY <1>0, <1>1, <2>1, <2>3 DEF Held, Walk, TypeOK
  <2>4. QED
    BY <2>2, <2>3
<1>9. ASSUME NEW c \in Client, Answer(c) PROVE Held(page)
  <2>1. \A d \in Client : got'[d] = got[c] \/ got'[d] = got[d]
    BY <1>9 DEF Answer, Cache!Finish
  <2>2. \A k \in Cursor : store'[k] = got[c] \/ store'[k] = store[k]
    BY <1>0, <1>9 DEF Answer, Cache!Finish, TypeOK
  <2>3. UNCHANGED trail
    BY <1>9 DEF Answer, client
  <2>4. QED
    BY <1>1, <1>2, <2>1, <2>2, <2>3
<1>10. ASSUME NEW c \in Client, QueryRejected(c) \/ QueryFails(c) PROVE Held(page)
  BY <1>1, <1>2, <1>10 DEF QueryRejected, QueryFails, Cache!Fail, client
<1>11. ASSUME NEW c \in Client, Leave(c) \/ RespondError(c) PROVE Held(page)
  BY <1>0, <1>1, <1>2, <1>11 DEF Leave, RespondError, Cache!Leave, Cache!Take, TypeOK
<1>12. ASSUME NEW k \in Cursor, Expire(k) PROVE Held(page)
  BY <1>0, <1>1, <1>2, <1>12 DEF Expire, Cache!Expire, client, TypeOK
<1>13. ASSUME NEW c \in Client, Respond(c) PROVE Held(page)
  <2>1. PICK shown \in got[c] : trail' = [trail EXCEPT ![c] = Append(SubSeq(@, 1, depth[c] - 1), shown)]
    BY <1>13 DEF Respond
  <2>2. \A d \in Client : \A p \in got'[d] : Held(p)
    BY <1>0, <1>1, <1>13 DEF Respond, Cache!Take, TypeOK
  <2>3. UNCHANGED store
    BY <1>13 DEF Respond, Cache!Take
  <2>4. \A i \in DOMAIN trail'[c] : Held(trail'[c][i])
    <3>1. trail[c] \in Seq(Page) /\ depth[c] \in 1..Len(trail[c]) + 1 /\ shown \in Page
      BY <1>0, <1>13, <2>1 DEF RequestLinks, Respond, TypeOK
    <3> DEFINE s == SubSeq(trail[c], 1, depth[c] - 1)
    <3>2. s \in Seq(Page) /\ \A i \in DOMAIN s : i \in Walk(c) /\ s[i] = trail[c][i]
      BY <3>1 DEF Walk
    <3>3. trail'[c] = Append(s, shown)
      BY <1>0, <2>1 DEF TypeOK
    <3> HIDE DEF s
    <3>4. \A i \in DOMAIN trail'[c] : trail'[c][i] = shown \/ (i \in DOMAIN s /\ trail'[c][i] = s[i])
      BY <3>1, <3>2, <3>3
    <3>5. QED
      BY <1>1, <2>1, <3>2, <3>4
  <2>5. \A d \in Client \ {c} : trail'[d] = trail[d]
    BY <1>0, <2>1 DEF TypeOK
  <2>6. \A d \in Client : \A i \in DOMAIN trail'[d] : Held(trail'[d][i])
    BY <1>1, <2>4, <2>5 DEF Walk
  <2>7. QED
    BY <1>1, <2>2, <2>3, <2>6 DEF Held, Walk
<1>14. ASSUME NEW a \in Asteroid, Change(a) PROVE Held(page)
  BY <1>1, <1>2, <1>14 DEF Change, cache, client
<1>15. CASE UNCHANGED vars
  BY <1>1, <1>2, <1>15 DEF vars, cache, client
<1>16. ASSUME NEW c \in Client, RespondBlank(c) PROVE Held(page) \/ page = Blank
  <2>1. UNCHANGED store /\ \A d \in Client : got'[d] \subseteq got[d]
    BY <1>0, <1>16 DEF RespondBlank, Cache!Take, TypeOK
  <2>2. trail'[c] = <<Blank>> /\ \A d \in Client \ {c} : trail'[d] = trail[d]
    BY <1>0, <1>16 DEF RespondBlank, TypeOK
  <2>3. \A d \in Client : \A i \in DOMAIN trail'[d] : trail'[d][i] = Blank \/ Held(trail'[d][i])
    BY <1>1, <2>2 DEF Walk
  <2>4. QED
    BY <1>1, <2>1, <2>3 DEF Held, Walk
<1>17. QED
  BY <1>4, <1>5, <1>6, <1>7, <1>8, <1>9, <1>10, <1>11, <1>12, <1>13, <1>14, <1>15, <1>16, CatalogAssumption
     DEF Next, Serve, OpenPage, SubmitFilters

LEMMA HeldArePages ==
  ASSUME TypeOK
  PROVE  \A page : Held(page) => page \in Page
<1>1. \A c \in Client : trail[c] \in Seq(Page)
  BY DEF TypeOK
<1>2. \A c \in Client : \A i \in Walk(c) : trail[c][i] \in Page
  BY <1>1 DEF Walk
<1>3. QED
  BY <1>2 DEF TypeOK, Held

LEMMA HeldStaySound ==
  ASSUME CatalogInv, [Next]_vars, \A p : Held(p) => Sound(p), NEW page, Held(page)'
  PROVE  Sound(page)'
<1>1. CASE Held(page)
  <2>1. page \in Page
    BY <1>1, HeldArePages DEF CatalogInv
  <2>2. QED
    BY <1>1, <2>1, SoundKept
<1>2. CASE \E k \in Cursor : page = List(k)
  BY <1>2, ListSound, ListAnswers, SoundKept
<1>3. CASE page = Blank
  BY <1>3, BlankIsPage DEF Sound, CatalogInv
<1>4. QED
  BY <1>1, <1>2, <1>3, HeldStep

LEMMA NextCursorKept ==
  ASSUME UNCHANGED dir
  PROVE  \A page : NextCursor(page)' = NextCursor(page)
BY OrderKept DEF NextCursor

\* NEXT asks with the cursor of the page it is on, PREV with one it came by.
LEMMA FollowsStep ==
  ASSUME CatalogInv, WalkFollows, RequestFollows, [Next]_vars
  PROVE  WalkFollows' /\ RequestFollows'
<1>0. TypeOK /\ RequestLinks /\ HistoryLinks /\ PagesAnswer
  BY DEF CatalogInv
<1>1. ASSUME UNCHANGED <<trail, dir>>,
             \A d \in Client : pc'[d] # "idle" /\ depth'[d] > 1 =>
               \/ pc[d] # "idle" /\ depth'[d] = depth[d] /\ want'[d] = want[d]
               \/ want'[d] = NextCursor(trail[d][depth'[d] - 1])
      PROVE  WalkFollows' /\ RequestFollows'
  <2>1. \A page : NextCursor(page)' = NextCursor(page)
    BY <1>1, NextCursorKept
  <2>2. WalkFollows'
    BY <1>1, <2>1 DEF WalkFollows, Walk
  <2>3. RequestFollows'
    <3> SUFFICES ASSUME NEW d \in Client, pc'[d] # "idle", depth'[d] > 1
                 PROVE  want'[d] = NextCursor(trail[d][depth'[d] - 1])
      BY <1>1, <2>1 DEF RequestFollows
    <3>1. QED
      BY <1>1 DEF RequestFollows
  <2>4. QED
    BY <2>2, <2>3
<1>2. ASSUME NEW c \in Client, FirstPage(c) PROVE WalkFollows' /\ RequestFollows'
  <2>1. \A d \in Client \ {c} : pc'[d] = pc[d] /\ want'[d] = want[d] /\ depth'[d] = depth[d]
    BY <1>0, <1>2 DEF TypeOK, FirstPage, Cache!Request, Cache!TryGetWith
  <2>2. depth'[c] = 1 /\ UNCHANGED <<trail, dir>>
    BY <1>0, <1>2 DEF TypeOK, FirstPage, request
  <2>3. QED
    BY <1>1, <2>1, <2>2
<1>3. ASSUME NEW c \in Client, NextPage(c) PROVE WalkFollows' /\ RequestFollows'
  <2>1. \A d \in Client \ {c} : pc'[d] = pc[d] /\ want'[d] = want[d] /\ depth'[d] = depth[d]
    BY <1>0, <1>3 DEF TypeOK, NextPage, Cache!Request, Cache!TryGetWith
  <2>2. depth'[c] = Len(trail[c]) + 1 /\ want'[c] = NextCursor(Shown(c)) /\ UNCHANGED <<trail, dir>>
    BY <1>0, <1>3 DEF TypeOK, NextPage, Cache!Request, request
  <2>3. trail[c] \in Seq(Page) /\ Shown(c) = trail[c][depth'[c] - 1]
    BY <1>0, <2>2 DEF TypeOK, Shown
  <2>4. QED
    BY <1>1, <2>1, <2>2, <2>3
<1>4. ASSUME NEW c \in Client, PrevPage(c) PROVE WalkFollows' /\ RequestFollows'
  <2>1. \A d \in Client \ {c} : pc'[d] = pc[d] /\ want'[d] = want[d] /\ depth'[d] = depth[d]
    BY <1>0, <1>4 DEF TypeOK, PrevPage, Cache!Request, Cache!TryGetWith
  <2> DEFINE n == Len(trail[c]) - 1
  <2>2. depth'[c] = n /\ want'[c] = history[c][Len(history[c])] /\ UNCHANGED <<trail, dir>>
    BY <1>0, <1>4 DEF TypeOK, PrevPage, Cache!Request, request
  <2>3. trail[c] \in Seq(Page) /\ history[c] \in Seq(Cursor) /\ history[c] # <<>>
    BY <1>0, <1>4 DEF TypeOK, PrevPage
  <2>4. trail[c] # <<>> /\ history[c] = Keys(c, n)
    BY <1>0, <2>3 DEF HistoryLinks
  <2>5. n \in 0..Len(trail[c]) /\ Len(history[c]) = n
    <3>1. n \in 0..Len(trail[c])
      BY <2>3, <2>4
    <3>2. QED
      BY <1>0, <2>4, <3>1, KeysAre
  <2>6. n \in 1..Len(trail[c])
    <3> DEFINE l == Len(history[c])
    <3>1. l \in Nat \ {0}
      BY <2>3
    <3>2. l \in 1..Len(trail[c])
      <4>1. l \in 0..Len(trail[c]) /\ Len(trail[c]) \in Nat
        BY <2>3, <2>5
      <4> HIDE DEF l
      <4>2. QED
        BY <3>1, <4>1
    <3>3. QED
      BY <2>5, <3>2
  <2>7. history[c][n] = trail[c][n].key
    <3>1. n \in 1..n
      BY <2>3, <2>6
    <3> HIDE DEF n
    <3>2. QED
      BY <1>0, <2>4, <2>5, <3>1, KeysAre
  <2>8. want'[c] = trail[c][n].key
    BY <2>2, <2>5, <2>7
  <2>9. n \in Walk(c)
    BY <2>3, <2>6 DEF Walk
  <2> HIDE DEF n
  <2>10. depth'[c] > 1 => want'[c] = NextCursor(trail[c][depth'[c] - 1])
    BY <2>2, <2>8, <2>9 DEF WalkFollows
  <2>11. QED
    BY <1>1, <2>1, <2>2, <2>10
<1>5. ASSUME NEW c \in Client, Leave(c) \/ RespondError(c) PROVE WalkFollows' /\ RequestFollows'
  <2>1. \A d \in Client \ {c} : pc'[d] = pc[d] /\ want'[d] = want[d] /\ depth'[d] = depth[d]
    BY <1>0, <1>5 DEF TypeOK, Leave, RespondError, Cache!Leave, Cache!Take
  <2>2. pc'[c] = "idle" /\ UNCHANGED <<trail, dir>>
    BY <1>0, <1>5 DEF TypeOK, Leave, RespondError, Cache!Leave, Cache!Take, request
  <2>3. QED
    BY <1>1, <2>1, <2>2
<1>6. ASSUME NEW c \in Client, Query(c) \/ QueryRejected(c) \/ QueryFails(c) \/ Answer(c) \/ TakeOver(c)
      PROVE  WalkFollows' /\ RequestFollows'
  <2>1. UNCHANGED <<trail, depth, dir, want>>
    BY <1>0, <1>6 DEF Query, QueryRejected, QueryFails, Answer, TakeOver, Cache!Read, Cache!Fail,
         Cache!Finish, Cache!Retry, request, client
  <2>2. \A d \in Client : pc'[d] # "idle" => pc[d] # "idle"
    BY <1>0, <1>6 DEF Query, QueryRejected, QueryFails, Answer, TakeOver, Cache!Read, Cache!Fail,
         Cache!Finish, Cache!Retry, Cache!TryGetWith, Cache!Waiting, TypeOK
  <2>3. QED
    BY <1>1, <2>1, <2>2
<1>7. ASSUME NEW a \in Asteroid, Change(a) PROVE WalkFollows' /\ RequestFollows'
  BY <1>1, <1>7 DEF Change, cache, request, client
<1>8. ASSUME NEW k \in Cursor, Expire(k) PROVE WalkFollows' /\ RequestFollows'
  BY <1>1, <1>8 DEF Expire, Cache!Expire, request, client
<1>9. CASE UNCHANGED vars
  BY <1>1, <1>9 DEF vars, cache, request, client
<1>10. ASSUME NEW c \in Client, Respond(c) PROVE WalkFollows' /\ RequestFollows'
  <2> DEFINE n == depth[c]
             s == SubSeq(trail[c], 1, n - 1)
  <2>1. PICK page \in got[c] : trail' = [trail EXCEPT ![c] = Append(SubSeq(@, 1, depth[c] - 1), page)]
    BY <1>10 DEF Respond
  <2>2. pc[c] = "done" /\ UNCHANGED dir /\ pc' = [pc EXCEPT ![c] = "idle"] /\ want' = [want EXCEPT ![c] = {}]
        /\ depth' = [depth EXCEPT ![c] = 0]
    BY <1>10 DEF Respond, Cache!Take, request
  <2>3. trail[c] \in Seq(Page) /\ n \in 1..Len(trail[c]) + 1 /\ page.key = want[c]
    BY <1>0, <2>1, <2>2 DEF TypeOK, RequestLinks, PagesAnswer, Answers
  <2>4. page \in Page /\ trail'[c] = Append(s, page) /\ \A d \in Client \ {c} : trail'[d] = trail[d]
    BY <1>0, <2>1 DEF TypeOK
  <2>5. \A p : NextCursor(p)' = NextCursor(p)
    BY <2>2, NextCursorKept
  <2>6. s \in Seq(Page) /\ Len(s) = n - 1 /\ \A i \in 1..n - 1 : s[i] = trail[c][i] /\ i \in Walk(c)
    BY <2>3 DEF Walk
  <2>7. n > 1 => page.key = NextCursor(trail[c][n - 1])
    BY <2>2, <2>3 DEF RequestFollows
  <2>8. n \in Nat \ {0}
    BY <2>3
  <2> HIDE DEF n, s
  <2>9. DOMAIN trail'[c] = 1..n /\ trail'[c][n] = page /\ \A i \in 1..n - 1 : trail'[c][i] = trail[c][i]
    BY <2>4, <2>6, <2>8
  <2>10. WalkFollows'
    <3> SUFFICES ASSUME NEW d \in Client, NEW i \in DOMAIN trail'[d], i > 1
                 PROVE  trail'[d][i].key = NextCursor(trail'[d][i - 1])
      BY <2>5 DEF WalkFollows, Walk
    <3>1. CASE d # c
      BY <2>4, <3>1 DEF WalkFollows, Walk
    <3>2. CASE d = c /\ i = n
      BY <2>7, <2>8, <2>9, <3>2
    <3>3. CASE d = c /\ i # n
      <4>1. i \in 1..n - 1 /\ i - 1 \in 1..n - 1
        BY <2>8, <2>9, <3>3
      <4>2. QED
        BY <2>6, <2>9, <3>3, <4>1 DEF WalkFollows
    <3>4. QED
      BY <3>1, <3>2, <3>3
  <2>11. RequestFollows'
    <3> SUFFICES ASSUME NEW d \in Client, pc'[d] # "idle", depth'[d] > 1
                 PROVE  want'[d] = NextCursor(trail'[d][depth'[d] - 1])
      BY <2>5 DEF RequestFollows
    <3>1. d # c
      BY <1>0, <2>2 DEF TypeOK
    <3>2. pc'[d] = pc[d] /\ want'[d] = want[d] /\ depth'[d] = depth[d] /\ trail'[d] = trail[d]
      BY <1>0, <2>2, <2>4, <3>1 DEF TypeOK
    <3>3. QED
      BY <3>2 DEF RequestFollows
  <2>12. QED
    BY <2>10, <2>11
<1>11. ASSUME NEW c \in Client, RespondBlank(c) PROVE WalkFollows' /\ RequestFollows'
  <2>1. UNCHANGED dir /\ pc'[c] = "idle" /\ trail'[c] = <<Blank>>
    BY <1>0, <1>11 DEF TypeOK, RespondBlank, Cache!Take, request
  <2>2. \A d \in Client \ {c} : pc'[d] = pc[d] /\ want'[d] = want[d] /\ depth'[d] = depth[d] /\ trail'[d] = trail[d]
    BY <1>0, <1>11 DEF TypeOK, RespondBlank, Cache!Take
  <2>3. \A p : NextCursor(p)' = NextCursor(p)
    BY <2>1, NextCursorKept
  <2>4. WalkFollows'
    BY <2>1, <2>2, <2>3 DEF WalkFollows, Walk
  <2>5. RequestFollows'
    BY <2>1, <2>2, <2>3 DEF RequestFollows
  <2>6. QED
    BY <2>4, <2>5
<1>12. QED
  BY <1>2, <1>3, <1>4, <1>5, <1>6, <1>7, <1>8, <1>9, <1>10, <1>11, CatalogAssumption
     DEF Next, Serve, OpenPage, SubmitFilters

\* An answered walk is answered all along: nothing follows the page of a failed query.
LEMMA WalkAnswered ==
  ASSUME CatalogInv, CompleteInv, NEW c \in Client, trail[c] # <<>>, Shown(c).answered
  PROVE  \A i \in Walk(c) : Tells(trail[c][i])
<1> SUFFICES ASSUME NEW i \in Walk(c), ~trail[c][i].answered PROVE FALSE
  BY DEF CompleteInv, Held, Sound
<1>1. trail[c] \in Seq(Page)
  BY DEF CatalogInv, TypeOK
<1>2. i # Len(trail[c])
  BY DEF Shown
<1>3. i + 1 \in Walk(c) /\ i + 1 > 1 /\ (i + 1) - 1 = i
  BY <1>1, <1>2 DEF Walk
<1>4. NextCursor(trail[c][i]) = {}
  BY DEF CompleteInv, Held, Sound, NextCursor
<1>5. trail[c][i + 1].key = {}
  BY <1>3, <1>4 DEF CompleteInv, WalkFollows
<1>6. i + 1 = 1
  BY <1>3, <1>5 DEF CatalogInv, WalkLinks
<1>7. QED
  BY <1>3, <1>6

\* An asteroid that has not changed is on one of the pages: the last page whose cursor
\* precedes it shows it.
LEMMA ShownSomewhere ==
  ASSUME CatalogInv, CompleteInv, NEW c \in Client, trail[c] # <<>>, Shown(c).answered, ~Shown(c).more,
         NEW a \in listed, Settled(c, a)
  PROVE  \E i \in Walk(c) : Row(a) \in trail[c][i].rows
<1> DEFINE n == Len(trail[c])
           T == {m \in Nat : m < n /\ \A cur \in trail[c][n - m].key : Precedes(cur, Row(a))}
<1>1. trail[c] \in Seq(Page) /\ a \in Asteroid
  BY DEF CatalogInv, TypeOK
<1>2. n \in Nat \ {0} /\ Walk(c) = 1..n /\ \A i \in 1..n : trail[c][i] \in Page
  BY <1>1 DEF Walk
<1>3. Shown(c) = trail[c][n]
  BY DEF Shown
<1>4. \A i \in 1..n : Tells(trail[c][i]) /\ changed[a] <= trail[c][i].at
  BY <1>2, WalkAnswered DEF Settled
<1>5. trail[c][1].key = {}
  BY <1>2 DEF CatalogInv, WalkLinks
<1> HIDE DEF n
<1>6. T # {}
  <2>1. n - 1 \in Nat /\ n - 1 < n /\ n - (n - 1) = 1
    BY <1>2
  <2>2. n - 1 \in T
    BY <1>5, <2>1
  <2>3. QED
    BY <2>2
<1>7. PICK m \in T : \A y \in T : m <= y
  BY <1>6, LeastNumber
<1> DEFINE i == n - m
<1>8. i \in 1..n /\ m \in Nat /\ \A cur \in trail[c][i].key : Precedes(cur, Row(a))
  BY <1>2, <1>7
<1>9. CASE Row(a) \in trail[c][i].rows
  BY <1>2, <1>8, <1>9
<1>10. CASE Row(a) \notin trail[c][i].rows
  <2>1. trail[c][i].more /\ \E last \in NextCursor(trail[c][i]) : Precedes(last, Row(a))
    BY <1>1, <1>4, <1>8, <1>10 DEF Tells
  <2>2. i # n
    BY <1>3, <2>1
  <2>3. i + 1 \in 1..n /\ i + 1 > 1 /\ (i + 1) - 1 = i /\ m - 1 \in Nat /\ n - (m - 1) = i + 1 /\ m - 1 < n
    BY <1>2, <1>8, <2>2
  <2>4. trail[c][i + 1].key = NextCursor(trail[c][i])
    BY <1>2, <2>3 DEF CompleteInv, WalkFollows
  <2>5. \A p, q \in NextCursor(trail[c][i]) : p = q
    <3>1. NextCursor(trail[c][i]) \in Cursor
      BY <1>2, <1>8, NextCursorIsLast
    <3>2. QED
      BY <3>1 DEF Cursor, Option
  <2>6. \A cur \in trail[c][i + 1].key : Precedes(cur, Row(a))
    BY <2>1, <2>4, <2>5
  <2>7. m - 1 \in T
    BY <2>3, <2>6
  <2>8. QED
    BY <1>7, <1>8, <2>7
<1>11. QED
  BY <1>9, <1>10

LEMMA WalksAreComplete == CatalogInv /\ CompleteInv => WalkComplete
<1> SUFFICES ASSUME CatalogInv, CompleteInv, NEW c \in Client, trail[c] # <<>>, Shown(c).answered, ~Shown(c).more,
                    NEW a \in Asteroid, Settled(c, a)
             PROVE  Cardinality({i \in Walk(c) : \E r \in trail[c][i].rows : r.id = a}) = IF a \in listed THEN 1 ELSE 0
  BY DEF WalkComplete
<1> DEFINE W == {i \in Walk(c) : \E r \in trail[c][i].rows : r.id = a}
<1>1. \A i \in Walk(c) : Tells(trail[c][i]) /\ changed[a] <= trail[c][i].at
  BY WalkAnswered DEF Settled
<1>2. \A i \in W : a \in listed /\ Row(a) \in trail[c][i].rows
  BY <1>1 DEF Tells
<1>3. CASE a \notin listed
  <2>1. W = {}
    BY <1>2, <1>3
  <2>2. QED
    BY <1>3, <2>1, FS_EmptySet
<1>4. CASE a \in listed
  <2>1. PICK i \in Walk(c) : Row(a) \in trail[c][i].rows
    BY <1>4, ShownSomewhere
  <2>2. Row(a).id = a
    BY DEF Row
  <2>3. i \in W
    BY <2>1, <2>2
  <2>4. Row(a) \in RowKey
    BY DEF CatalogInv, TypeOK, Row, RowKey
  <2>5. ASSUME NEW j \in W, j # i PROVE FALSE
    <3>1. trail[c] \in Seq(Page)
      BY DEF CatalogInv, TypeOK
    <3>2. i \in Nat /\ j \in Nat /\ j \in Walk(c)
      BY <3>1 DEF Walk
    <3>3. i < j \/ j < i
      BY <2>5, <3>2
    <3>4. Row(a) \in trail[c][j].rows
      BY <1>2
    <3>5. Precedes(Row(a), Row(a))
      BY <2>1, <3>2, <3>3, <3>4, LinksAscend DEF WalkAscends
    <3>6. QED
      BY <2>4, <3>5, OrderIrreflexive
  <2>6. W = {i}
    BY <2>3, <2>5
  <2>7. QED
    BY <1>4, <2>6, FS_Singleton
<1>5. QED
  BY <1>3, <1>4

\* A walk from the first page to the last has shown every asteroid that was there all
\* the time exactly once, and none that was not: whatever changes between the pages,
\* however old the cache gives them out, in whatever order and with whatever NULLs,
\* and whichever queries fail; only the blank page that the page handler makes of a
\* failed query is not the end of a walk, though it has no NEXT either.
THEOREM NothingIsSkipped == Spec => []WalkComplete
<1>1. Init => CompleteInv
  <2> SUFFICES ASSUME Init PROVE CompleteInv
    OBVIOUS
  <2>1. \A c \in Client : Walk(c) = {} /\ pc[c] = "idle" /\ got[c] = {}
    BY DEF Init, Cache!Empty, Walk
  <2>2. \A k \in Cursor : store[k] = {}
    BY DEF Init, Cache!Empty
  <2>3. QED
    BY <2>1, <2>2 DEF CompleteInv, Held, WalkFollows, RequestFollows
<1>2. CatalogInv /\ CompleteInv /\ [Next]_vars => CompleteInv'
  <2> SUFFICES ASSUME CatalogInv, CompleteInv, [Next]_vars PROVE CompleteInv'
    OBVIOUS
  <2>1. WalkFollows' /\ RequestFollows'
    BY FollowsStep DEF CompleteInv
  <2>2. ASSUME NEW page, Held(page)' PROVE Sound(page)'
    BY <2>2, HeldStaySound DEF CompleteInv
  <2>3. QED
    BY <2>1, <2>2 DEF CompleteInv
<1>3. QED
  BY <1>1, <1>2, WalksAreComplete, CatalogInvariant, PTL DEF Spec
=============================================================================
