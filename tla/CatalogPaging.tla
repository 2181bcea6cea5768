--------------------------- MODULE CatalogPaging ----------------------------
(***************************************************************************)
(* Paging through the asteroid catalog (src/database/catalog.rs,           *)
(* src/api/handlers/catalog.rs): a page is the first rows after a cursor   *)
(* in the order of the sort key, NULLs last; its last row is the cursor of *)
(* the next page; the links of a page carry the cursors of those before.   *)
(* Pages come out of a store of DashboardCache, so the pages of one walk   *)
(* may show the catalog at different times, while loads, pruning and       *)
(* enrichment change it.                                                   *)
(*                                                                         *)
(* An optional value (NULL, no cursor) is a set of at most one.  Filters   *)
(* and sort are the same for all clients: others are other keys.           *)
(***************************************************************************)
EXTENDS Integers, Sequences, FiniteSets

CONSTANTS
  Client,
  Walker,      \* the clients that use links and form; the others only open the catalog
  Asteroid,    \* the ids of asteroids, in the order of their UUIDs
  Value,       \* values of the sort column
  Sort,        \* the sort keys asked for: members of CatalogSortKey
  Limit,       \* rows of a page (50 in the code)
  MaxChanges,  \* bound on changes of the catalog
  MaxFaults    \* bound on failed queries and dropped handlers

ASSUME CatalogAssumption ==
  /\ Walker \subseteq Client
  /\ Asteroid \subseteq Nat /\ IsFiniteSet(Asteroid)
  /\ Value \subseteq Int
  /\ Limit \in Nat \ {0}
  /\ MaxChanges \in Nat /\ MaxFaults \in Nat

VARIABLES
  listed,   \* the asteroids that pass the filters
  value,    \* value[a]: the sort column of a, while it is listed
  changed,  \* changed[a]: history, the version of the catalog that last changed a
  version,  \* history: the number of changes
  sort, dir,
  enabled, store, pc, want, got,  \* the store of the pages, see DashboardCache
  asked,    \* asked[c]: the cursor history c sends along
  depth,    \* depth[c]: history, the place in the walk of the page c asks for
  history,  \* history[c]: cursor_history of the page c looks at
  trail,    \* trail[c]: history, the pages from the first to the one c looks at
  opening,  \* the clients that ask for the whole page, not for its rows alone
  faults

Option(T) == {{}} \cup {{t} : t \in T}
RowKey == [value : Option(Value), id : Asteroid]

\* None is the first page.
Cursor == Option(RowKey)

Cache == INSTANCE DashboardCache WITH Key <- Cursor, Idle <- {}

catalog == <<listed, value, changed, version>>
request == <<sort, dir>>
cache == <<enabled, store, pc, want, got>>
client == <<asked, depth, history, trail, opening>>
vars == <<catalog, request, cache, client, faults>>

-----------------------------------------------------------------------------
(***************************************************************************)
(* The query.                                                              *)
(***************************************************************************)
\* ApproachActivity, Torino and Palermo sort by columns that may be NULL.
Nullable(s) == s \in {"ApproachActivity", "Torino", "Palermo"}

\* x stands behind y: the comparison of both ORDER BY and the predicate.
Behind(x, y) == IF dir = "Asc" THEN x > y ELSE x < y

\* ORDER BY column dir NULLS LAST, id dir.
Precedes(p, q) ==
  \/ p.value # {} /\ q.value = {}
  \/ \E v \in p.value, w \in q.value : Behind(w, v)
  \/ p.value = q.value /\ Behind(q.id, p.id)

\* Mutant: the predicate does not admit the NULL tail.
BugAfter(cur, r) ==
  IF cur.value = {}
    THEN r.value = {} /\ Behind(r.id, cur.id)
    ELSE \/ \E v \in cur.value, w \in r.value : Behind(w, v)
         \/ r.value = cur.value /\ Behind(r.id, cur.id)

\* Mutant: the listing is resumed at the cursor instead of after it.
BugResume(cur, r) ==
  IF cur.value = {}
    THEN r.value = {} /\ (Behind(r.id, cur.id) \/ r.id = cur.id)
    ELSE \/ \E v \in cur.value, w \in r.value : Behind(w, v)
         \/ r.value = cur.value /\ (Behind(r.id, cur.id) \/ r.id = cur.id)
         \/ r.value = {}

\* push_nullable_keyset; a comparison with NULL is not true.
After(cur, r) ==
  IF cur.value = {}
    THEN r.value = {} /\ Behind(r.id, cur.id)
    ELSE \/ \E v \in cur.value, w \in r.value : Behind(w, v)
         \/ r.value = cur.value /\ Behind(r.id, cur.id)
         \/ r.value = {}

\* push_not_null_keyset opens two parentheses and closes one.
Parses(k) == k = {} \/ Nullable(sort)

\* The rows from a cursor on.
Row(a) == [value |-> value[a], id |-> a]
Rest(k) == {r \in {Row(a) : a \in listed} : \A cur \in k : After(cur, r)}

\* LIMIT: those with fewer than n before them.
First(R, n) == {r \in R : Cardinality({q \in R : Precedes(q, r)}) < n}

\* list: limit + 1 rows are fetched, the last of which only says there are more.
List(k) ==
  [key |-> k,
   rows |-> First(Rest(k), Limit),
   more |-> Cardinality(First(Rest(k), Limit + 1)) > Limit,
   at |-> version,
   answered |-> TRUE]

\* (Vec::new(), false): what the page handler makes of a failed query; no row, so
\* of no version.
Blank == [key |-> {}, rows |-> {}, more |-> FALSE, at |-> 0, answered |-> FALSE]

\* next_cursor: the last row, when there are more.
NextCursor(page) == {r \in page.rows : page.more /\ \A q \in page.rows \ {r} : Precedes(q, r)}

-----------------------------------------------------------------------------
Column == IF Nullable(sort) THEN Option(Value) ELSE {{v} : v \in Value}

Init ==
  /\ listed \in SUBSET Asteroid
  /\ sort \in Sort
  /\ dir \in {"Asc", "Desc"}
  /\ value \in [Asteroid -> Column \cup {{}}]
  /\ \A a \in Asteroid : IF a \in listed THEN value[a] \in Column ELSE value[a] = {}
  /\ changed = [a \in Asteroid |-> 0]
  /\ version = 0
  /\ Cache!Empty
  /\ asked = [c \in Client |-> <<>>]
  /\ depth = [c \in Client |-> 0]
  /\ history = [c \in Client |-> <<>>]
  /\ trail = [c \in Client |-> <<>>]
  /\ opening = {}
  /\ faults = 0

\* A load, pruning or enrichment brings an asteroid, hides it or moves it.
Change(a) ==
  /\ version < MaxChanges
  /\ version' = version + 1
  /\ changed' = [changed EXCEPT ![a] = version + 1]
  /\ \/ /\ a \in listed
        /\ listed' = listed \ {a}
        /\ value' = [value EXCEPT ![a] = {}]
     \/ /\ listed' = listed \cup {a}
        /\ \E v \in Column : value' = [value EXCEPT ![a] = v]
        /\ listed' # listed \/ value' # value
  /\ UNCHANGED <<request, cache, client, faults>>

\* The page c looks at.
Shown(c) == trail[c][Len(trail[c])]

\* No cursor, no history.
FirstPage(c) ==
  /\ Cache!Request(c, {})
  /\ asked' = [asked EXCEPT ![c] = <<>>]
  /\ depth' = [depth EXCEPT ![c] = 1]
  /\ UNCHANGED <<catalog, request, history, trail, faults>>

\* GET /dashboard/catalog.
OpenPage(c) == FirstPage(c) /\ opening' = opening \cup {c}

\* GET /dashboard/catalog/rows, as the filter form of a page asks: the first rows.
SubmitFilters(c) == trail[c] # <<>> /\ FirstPage(c) /\ UNCHANGED opening

\* Mutant: no token stands for the first page, joined to nothing.
BugNextHistory(c) == IF Shown(c).key = {} THEN history[c] ELSE Append(history[c], Shown(c).key)

\* next_history of page_links: the stack and the cursor of this page.
NextHistory(c) == Append(history[c], Shown(c).key)

NextPage(c) ==
  /\ trail[c] # <<>>
  /\ NextCursor(Shown(c)) # {}
  /\ Cache!Request(c, NextCursor(Shown(c)))
  /\ asked' = [asked EXCEPT ![c] = NextHistory(c)]
  /\ depth' = [depth EXCEPT ![c] = Len(trail[c]) + 1]
  /\ UNCHANGED <<catalog, request, history, trail, opening, faults>>

\* prev_cursor and prev_history of page_links: the top of the stack, and the rest.
PrevPage(c) ==
  /\ history[c] # <<>>
  /\ Cache!Request(c, history[c][Len(history[c])])
  /\ asked' = [asked EXCEPT ![c] = SubSeq(history[c], 1, Len(history[c]) - 1)]
  /\ depth' = [depth EXCEPT ![c] = Len(trail[c]) - 1]
  /\ UNCHANGED <<catalog, request, history, trail, opening, faults>>

-----------------------------------------------------------------------------
Query(c) ==
  /\ Parses(want[c])
  /\ Cache!Read(c, List(want[c]))
  /\ UNCHANGED <<catalog, request, client, faults>>

\* PostgreSQL rejects the statement, every time.
QueryRejected(c) ==
  /\ ~Parses(want[c])
  /\ Cache!Fail(c)
  /\ UNCHANGED <<catalog, request, client, faults>>

QueryFails(c) ==
  /\ faults < MaxFaults
  /\ faults' = faults + 1
  /\ Cache!Fail(c)
  /\ UNCHANGED <<catalog, request, client>>

Answer(c) ==
  /\ Cache!Finish(c)
  /\ UNCHANGED <<catalog, request, client, faults>>

\* Mutant: who waits goes on waiting for the query that was dropped.
BugTakeOver(c) ==
  /\ store[want[c]] # {}
  /\ Cache!Retry(c)
  /\ UNCHANGED <<catalog, request, client, faults>>

TakeOver(c) ==
  /\ Cache!Retry(c)
  /\ UNCHANGED <<catalog, request, client, faults>>

Leave(c) ==
  /\ faults < MaxFaults
  /\ faults' = faults + 1
  /\ Cache!Leave(c)
  /\ asked' = [asked EXCEPT ![c] = <<>>]
  /\ depth' = [depth EXCEPT ![c] = 0]
  /\ opening' = opening \ {c}
  /\ UNCHANGED <<catalog, request, history, trail>>

Expire(k) ==
  /\ Cache!Expire(k)
  /\ UNCHANGED <<catalog, request, client, faults>>

\* The page replaces the one c looks at, with the history it was asked with.
Respond(c) ==
  /\ pc[c] = "done"
  /\ history' = [history EXCEPT ![c] = asked[c]]
  /\ \E page \in got[c] :
       trail' = [trail EXCEPT ![c] = Append(SubSeq(@, 1, depth[c] - 1), page)]
  /\ asked' = [asked EXCEPT ![c] = <<>>]
  /\ depth' = [depth EXCEPT ![c] = 0]
  /\ opening' = opening \ {c}
  /\ Cache!Take(c)
  /\ UNCHANGED <<catalog, request, faults>>

\* catalog_rows, 500: the page c looks at stays.
RespondError(c) ==
  /\ pc[c] = "error"
  /\ c \notin opening
  /\ asked' = [asked EXCEPT ![c] = <<>>]
  /\ depth' = [depth EXCEPT ![c] = 0]
  /\ Cache!Take(c)
  /\ UNCHANGED <<catalog, request, history, trail, opening, faults>>

\* render_catalog_page, 200 nevertheless: a page without rows and without NEXT.
RespondBlank(c) ==
  /\ pc[c] = "error"
  /\ c \in opening
  /\ history' = [history EXCEPT ![c] = <<>>]
  /\ trail' = [trail EXCEPT ![c] = <<Blank>>]
  /\ asked' = [asked EXCEPT ![c] = <<>>]
  /\ depth' = [depth EXCEPT ![c] = 0]
  /\ opening' = opening \ {c}
  /\ Cache!Take(c)
  /\ UNCHANGED <<catalog, request, faults>>

Serve(c) ==
  \/ Query(c) \/ QueryRejected(c) \/ Answer(c) \/ TakeOver(c)
  \/ Respond(c) \/ RespondError(c) \/ RespondBlank(c)

Next ==
  \/ \E a \in Asteroid : Change(a)
  \/ \E c \in Client :
       OpenPage(c) \/ Serve(c) \/ QueryFails(c) \/ Leave(c)
  \/ \E c \in Walker : NextPage(c) \/ PrevPage(c) \/ SubmitFilters(c)
  \/ \E k \in Cursor : Expire(k)

\* A statement ends, one way or the other, and a handler that can go on does.
Fairness == \A c \in Client : WF_vars(Serve(c))

Spec == Init /\ [][Next]_vars
FairSpec == Spec /\ Fairness
-----------------------------------------------------------------------------
Page == [key : Cursor, rows : SUBSET RowKey, more : BOOLEAN, at : 0..version, answered : BOOLEAN]

IsSingleton(S) == \E x \in S : S = {x}

\* Every variable holds a value of the kind the code gives it; in particular a
\* handler that is done has exactly one page.
TypeOK ==
  /\ listed \subseteq Asteroid
  /\ value \in [Asteroid -> Option(Value)]
  /\ changed \in [Asteroid -> 0..version]
  /\ version \in 0..MaxChanges
  /\ store \in [Cursor -> SUBSET Page]
  /\ pc \in [Client -> {"idle", "waiting", "loading", "read", "done", "error"}]
  /\ want \in [Client -> Cursor]
  /\ got \in [Client -> SUBSET Page]
  /\ \A c \in Client : IF pc[c] \in {"read", "done"} THEN IsSingleton(got[c]) ELSE got[c] = {}
  /\ asked \in [Client -> Seq(Cursor)]
  /\ depth \in [Client -> Nat]
  /\ history \in [Client -> Seq(Cursor)]
  /\ trail \in [Client -> Seq(Page)]
  /\ opening \subseteq Client
  /\ faults \in 0..MaxFaults

Walk(c) == DOMAIN trail[c]

\* Nothing the pages of c's walk show has changed since: a changed before any
\* of them was queried.
Settled(c, a) == \A i \in Walk(c) : changed[a] <= trail[c][i].at

\* A walk that has come to its last page has shown every asteroid that was there
\* all the time exactly once, and none that was not, whatever else was inserted,
\* moved or hidden between its pages and however old these were.  Not so the
\* page of a failed query: that one shows an empty catalog, which its reader
\* cannot tell from a true one.
WalkComplete ==
  \A c \in Client : trail[c] # <<>> /\ Shown(c).answered /\ ~Shown(c).more =>
    \A a \in Asteroid : Settled(c, a) =>
      Cardinality({i \in Walk(c) : \E r \in trail[c][i].rows : r.id = a})
        = IF a \in listed THEN 1 ELSE 0

\* The rows of a page come before those of the pages that follow it.
WalkAscends ==
  \A c \in Client : \A i, j \in Walk(c) :
    i < j => \A r \in trail[c][i].rows, q \in trail[c][j].rows : Precedes(r, q)

\* The history a page carries is that of the pages on the way to it, so that
\* PREV leads back along it.
PrevReturns ==
  \A c \in Client : trail[c] # <<>> =>
    history[c] = [i \in 1..Len(trail[c]) - 1 |-> trail[c][i].key]

\* Why: a page answers the cursor it was asked with, and that cursor is at or
\* behind every row of the pages before it, also while the page is asked for.
Answers(page, k) ==
  page.key = k /\ \A r \in page.rows, cur \in k : Precedes(cur, r)
Reaches(page, k) ==
  \A r \in page.rows, cur \in k : r = cur \/ Precedes(r, cur)
Keys(c, n) == [i \in 1..n |-> trail[c][i].key]

PagesAnswer ==
  /\ \A k \in Cursor :
       /\ store[k] = {} \/ IsSingleton(store[k])
       /\ \A page \in store[k] : Answers(page, k)
  /\ \A c \in Client : \A page \in got[c] : Answers(page, want[c])

WalkLinks ==
  \A c \in Client : \A j \in Walk(c) :
    /\ Answers(trail[c][j], trail[c][j].key)
    /\ trail[c][j].key = {} <=> j = 1
    /\ \A i \in 1..j - 1 : Reaches(trail[c][i], trail[c][j].key)

RequestLinks ==
  \A c \in Client : pc[c] # "idle" =>
    /\ depth[c] \in 1..Len(trail[c]) + 1
    /\ want[c] = {} <=> depth[c] = 1
    /\ \A i \in 1..depth[c] - 1 : Reaches(trail[c][i], want[c])
    /\ asked[c] = Keys(c, depth[c] - 1)

HistoryLinks ==
  \A c \in Client :
    history[c] = IF trail[c] = <<>> THEN <<>> ELSE Keys(c, Len(trail[c]) - 1)

CatalogInv == TypeOK /\ PagesAnswer /\ WalkLinks /\ RequestLinks /\ HistoryLinks

\* README.md:91: concurrent misses of a key share one query.
OneQuery == enabled => \A k \in Cursor : Cardinality(Cache!Loading(k)) <= 1

\* A request is answered, also if the handler whose query it waited for is dropped:
\* again and again no query is waited for.
RequestEnds ==
  \A c \in Client : []<>(pc[c] \in {"idle", "done", "error"})
=============================================================================
