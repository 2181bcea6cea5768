--------------------------- MODULE ApproachPaging ---------------------------
(***************************************************************************)
(* Paging through the approaches (get_paginated_approaches of              *)
(* src/database/dashboard.rs and the handlers around it): a page is asked  *)
(* for by its number, one statement counts the rows, another takes a       *)
(* LIMIT at an OFFSET, and the links lead to the numbers next to this one. *)
(* The table shows all rows or those on the Sentry list, in the order its  *)
(* user has chosen; the landing page shows the coming week, most hazardous *)
(* first; the JSON API takes any page of any size.  Answers come out of a  *)
(* store of DashboardCache while loads, sentry sweeps and pruning change   *)
(* the rows.                                                               *)
(*                                                                         *)
(* Sorting by name is like sorting by date and left out; so are the other  *)
(* filters: they pick rows as these do and are in the key as these are.    *)
(* Each approach stands for an asteroid of its own.                        *)
(***************************************************************************)
EXTENDS HazardRules, Sequences, FiniteSets

CONSTANTS
  Client,
  Walker,      \* the clients that look at the table and follow its links
  Approach,    \* the natural keys of approaches
  Day,         \* Day[a]: close_approach_date
  Week,        \* the days from today to a week ahead
  Fact,        \* what NeoWs may say of an approach: a set of Facts
  Sort,        \* the columns the table may be sorted by
  PageSize,    \* rows of a page of the table (20 in the code)
  ApiPage,     \* pages and sizes asked of the API
  ApiSize,
  Word,        \* 2^32, the values of a u32
  MaxChanges,  \* bound on changes of the rows
  MaxFaults    \* bound on failed queries and dropped handlers

Page == 0..Word - 1

ASSUME ApproachAssumption ==
  /\ Walker \subseteq Client
  /\ IsFiniteSet(Approach)
  /\ Day \in [Approach -> Int]
  /\ Fact \subseteq Facts
  /\ Sort \subseteq {"date", "velocity", "distance", "hazard"}
  /\ Word \in Nat \ {0, 1}
  /\ PageSize \in Page \ {0}
  /\ ApiPage \subseteq Page /\ ApiSize \subseteq Page
  /\ MaxChanges \in Nat /\ MaxFaults \in Nat

VARIABLES
  table,    \* table[a]: the row of a, if there is one
  gone,     \* history: the rows that were pruned or replaced
  scored,   \* the approaches whose asteroid has both Sentry scales
  changed,  \* changed[a]: history, the version of the rows that last changed a
  version,  \* history: the number of changes
  sort, dir,
  enabled, store, pc, want, got,  \* the store of the answers, see DashboardCache
  asked,    \* asked[c]: the parameters of c's request
  counted,  \* counted[c]: the result of the first statement, until the second
  trail,    \* trail[c]: history, the pages from the first to the one a walker looks at
  faults

View == {"table", "sentry", "landing"}
Size == {PageSize} \cup ApiSize
Params == [page : Page, size : Size, view : View]
NoParams == [page |-> 1, size |-> PageSize, view |-> "table"]

\* Mutant: the key leaves the Sentry filter out.
BugApproachQueryKey(q) ==
  <<q.page, q.size, IF q.view = "sentry" THEN "table" ELSE q.view>>

\* approach_query_key: every field of the parameters.
ApproachQueryKey(q) == <<q.page, q.size, q.view>>
Key == Page \X Size \X View
IdleKey == ApproachQueryKey(NoParams)

Cache == INSTANCE DashboardCache WITH Key <- Key, Idle <- IdleKey

rows == <<table, gone, scored, changed, version>>
request == <<sort, dir>>
cache == <<enabled, store, pc, want, got>>
client == <<asked, counted, trail>>
vars == <<rows, request, cache, client, faults>>

-----------------------------------------------------------------------------
(***************************************************************************)
(* The two statements.                                                     *)
(***************************************************************************)
Filter(view, a) ==
  CASE view = "sentry" -> a \in scored
    [] view = "landing" -> Day[a] \in Week
    [] OTHER -> TRUE

Listing(view) == {r \in UNION {table[a] : a \in Approach} : Filter(view, r.id)}

\* Mutant: the first statement leaves the Sentry filter out.
BugCount(view) == Cardinality(Listing(IF view = "sentry" THEN "table" ELSE view))

Count(view) == Cardinality(Listing(view))

Column(view, r) ==
  LET by == IF view = "landing" THEN "hazard" ELSE sort
  IN CASE by = "velocity" -> r.fact.velocity
       [] by = "distance" -> r.fact.miss
       [] by = "hazard" -> Severity(r.class)
       [] OTHER -> Day[r.id]

\* ORDER BY column dir, miss_distance_km ASC, created_at DESC: p must come first.
Precedes(view, p, q) ==
  LET x == Column(view, p)
      y == Column(view, q)
  IN \/ IF view # "landing" /\ dir = "Asc" THEN x < y ELSE x > y
     \/ x = y /\ p.fact.miss < q.fact.miss
     \/ x = y /\ p.fact.miss = q.fact.miss /\ p.created > q.created

\* The orders PostgreSQL may return: ties come as they please, every time anew.
Orders(view) ==
  {s \in [1..Cardinality(Listing(view)) -> Listing(view)] :
     \A i, j \in DOMAIN s : i < j => s[i] # s[j] /\ ~Precedes(view, s[j], s[i])}

\* Mutant: pages counted from 0.
BugOffset(q) == (q.page * q.size) % Word

\* ((page - 1) * page_size) as i64, a product of u32 in a release build.
Offset(q) == ((q.page - 1) * q.size) % Word

\* LIMIT size OFFSET offset
Cut(s, q) == SubSeq(s, Offset(q) + 1, IF Offset(q) + q.size < Len(s) THEN Offset(q) + q.size ELSE Len(s))

-----------------------------------------------------------------------------
(***************************************************************************)
(* What the handlers make of an answer.                                    *)
(***************************************************************************)
\* Mutant: one more page when the last one is full.
BugTotalPages(total) == total \div PageSize + 1

\* ceil(total / page_size), or 1.
TotalPages(total) == IF total > 0 THEN (total + PageSize - 1) \div PageSize ELSE 1

IsFirstPage(t) == t.asked.page = 1
IsLastPage(t) == t.asked.page = TotalPages(t.total)

ShowingStart(t) == IF t.total = 0 THEN 0 ELSE ((t.asked.page - 1) * PageSize + 1) % Word
ShowingEnd(t) ==
  LET end == (t.asked.page * PageSize) % Word
  IN IF end < t.total THEN end ELSE t.total

\* The landing page says so of its first and only page.
LandingStart(t) == IF t.total = 0 THEN 0 ELSE 1
LandingEnd(t) == IF PageSize < t.total THEN PageSize ELSE t.total

\* calculate_page_range
PageRange(current, total) ==
  LET start == IF current > 3 THEN current - 2 ELSE 1
      end == (current + 2) % Word
  IN start..(IF end < total THEN end ELSE total)

-----------------------------------------------------------------------------
\* ON CONFLICT DO UPDATE of the asteroid, DO NOTHING of the approach: NeoWs' word of f
\* on the asteroid, and g's velocity and distance.
Refreshed(g, f) == [g EXCEPT !.diameter = f.diameter, !.pha = f.pha]

\* The row of a: its class is that of its first load, its asteroid that of the last.
Stored(a, g, f) == [id |-> a, fact |-> Refreshed(g, f), class |-> Classify(g), created |-> 0]

Init ==
  /\ table \in [Approach -> {{}} \cup {{Stored(a, g, f)} : a \in Approach, g \in Fact, f \in Fact}]
  /\ \A a \in Approach : \A r \in table[a] : r.id = a
  /\ gone = {}
  /\ scored \in SUBSET Approach
  /\ changed = [a \in Approach |-> 0]
  /\ version = 0
  /\ sort \in Sort
  /\ dir \in {"Asc", "Desc"}
  /\ Cache!Empty
  /\ asked = [c \in Client |-> NoParams]
  /\ counted = [c \in Client |-> {}]
  /\ trail = [c \in Client |-> <<>>]
  /\ faults = 0

Changes(a) ==
  /\ version < MaxChanges
  /\ version' = version + 1
  /\ changed' = [changed EXCEPT ![a] = version + 1]
  /\ UNCHANGED <<request, cache, client, faults>>

\* transform_neo_feed and upsert_batch: a new approach gets its class; of one that is
\* there only the asteroid changes, and the class stays.
Load(a, f) ==
  /\ \/ /\ table[a] = {}
        /\ table' = [table EXCEPT ![a] =
             {[id |-> a, fact |-> f, class |-> Classify(f), created |-> version + 1]}]
     \/ \E r \in table[a] :
          /\ Refreshed(r.fact, f) # r.fact
          /\ table' = [table EXCEPT ![a] = {[r EXCEPT !.fact = Refreshed(r.fact, f)]}]
  /\ gone' = gone \cup table[a]
  /\ UNCHANGED scored
  /\ Changes(a)

\* Approaches are pruned by their date.
Prune(a) ==
  /\ table[a] # {}
  /\ table' = [table EXCEPT ![a] = {}]
  /\ gone' = gone \cup table[a]
  /\ UNCHANGED scored
  /\ Changes(a)

\* update_sentry_scales gives the asteroid of a its scales, or takes them.
Rescore(a) ==
  /\ scored' = IF a \in scored THEN scored \ {a} ELSE scored \cup {a}
  /\ UNCHANGED <<table, gone>>
  /\ Changes(a)

-----------------------------------------------------------------------------
Ask(c, q) ==
  /\ Cache!Request(c, ApproachQueryKey(q))
  /\ asked' = [asked EXCEPT ![c] = q]
  /\ UNCHANGED <<rows, request, counted, trail, faults>>

Table(p, view) == [page |-> p, size |-> PageSize, view |-> view]

\* build_filter_query_string: the links of page t keep its filter.
Link(t, p) == Table(p % Word, t.asked.view)
Shown(c) == trail[c][Len(trail[c])]

\* GET /dashboard/table, on load, on every hazard event and with other filters.
OpenTable(c, view) == Ask(c, Table(1, view))

\* NEXT and PREV of partials/approaches-table.html.
NextPage(c) ==
  /\ trail[c] # <<>>
  /\ ~IsLastPage(Shown(c))
  /\ Ask(c, Link(Shown(c), Shown(c).asked.page + 1))

PrevPage(c) ==
  /\ trail[c] # <<>>
  /\ ~IsFirstPage(Shown(c))
  /\ Ask(c, Link(Shown(c), Shown(c).asked.page - 1))

\* GET /
OpenDashboard(c) == Ask(c, Table(1, "landing"))

\* GET /api/approaches
Approaches(c) ==
  \E p \in ApiPage, s \in ApiSize, v \in {"table", "sentry"} :
    Ask(c, [page |-> p, size |-> s, view |-> v])

CountRows(c) ==
  /\ pc[c] = "loading"
  /\ counted[c] = {}
  /\ counted' = [counted EXCEPT ![c] = {[total |-> Count(asked[c].view), at |-> version]}]
  /\ UNCHANGED <<rows, request, cache, asked, trail, faults>>

FetchRows(c) ==
  /\ \E n \in counted[c], s \in Orders(asked[c].view) :
       Cache!Read(c, [asked |-> asked[c], total |-> n.total, countedAt |-> n.at,
                      rows |-> Cut(s, asked[c]), at |-> version])
  /\ counted' = [counted EXCEPT ![c] = {}]
  /\ UNCHANGED <<rows, request, asked, trail, faults>>

QueryFails(c) ==
  /\ faults < MaxFaults
  /\ faults' = faults + 1
  /\ Cache!Fail(c)
  /\ counted' = [counted EXCEPT ![c] = {}]
  /\ UNCHANGED <<rows, request, asked, trail>>

Answer(c) ==
  /\ Cache!Finish(c)
  /\ UNCHANGED <<rows, request, client, faults>>

TakeOver(c) ==
  /\ Cache!Retry(c)
  /\ UNCHANGED <<rows, request, client, faults>>

Leave(c) ==
  /\ faults < MaxFaults
  /\ faults' = faults + 1
  /\ Cache!Leave(c)
  /\ asked' = [asked EXCEPT ![c] = NoParams]
  /\ counted' = [counted EXCEPT ![c] = {}]
  /\ UNCHANGED <<rows, request, trail>>

Expire(k) ==
  /\ Cache!Expire(k)
  /\ UNCHANGED <<rows, request, client, faults>>

\* The page takes its place in the table; all others are done with the answer.
\* (A number that wrapped around begins another walk.)
Respond(c) ==
  /\ pc[c] = "done"
  /\ \E t \in got[c] : trail' = [trail EXCEPT ![c] =
       IF c \notin Walker THEN @
       ELSE IF asked[c].page \in 2..Len(@) + 1 /\ @[1].asked.page = 1
              THEN Append(SubSeq(@, 1, asked[c].page - 1), t)
       ELSE <<t>>]
  /\ asked' = [asked EXCEPT ![c] = NoParams]
  /\ Cache!Take(c)
  /\ UNCHANGED <<rows, request, counted, faults>>

\* An error leaves the table as it is; the landing page comes without rows.
RespondError(c) ==
  /\ pc[c] = "error"
  /\ asked' = [asked EXCEPT ![c] = NoParams]
  /\ Cache!Take(c)
  /\ UNCHANGED <<rows, request, counted, trail, faults>>

Next ==
  \/ \E a \in Approach : Prune(a) \/ Rescore(a) \/ \E f \in Fact : Load(a, f)
  \/ \E c \in Walker :
       NextPage(c) \/ PrevPage(c) \/ \E v \in {"table", "sentry"} : OpenTable(c, v)
  \/ \E c \in Client \ Walker : OpenDashboard(c) \/ Approaches(c)
  \/ \E c \in Client :
       \/ CountRows(c) \/ FetchRows(c) \/ QueryFails(c) \/ Answer(c) \/ TakeOver(c)
       \/ Leave(c) \/ Respond(c) \/ RespondError(c)
  \/ \E k \in Key : Expire(k)

Spec == Init /\ [][Next]_vars
-----------------------------------------------------------------------------
Row == [id : Approach, fact : Facts, class : Class, created : 0..version]
AnswerType ==
  [asked : Params, total : Nat, countedAt : 0..version, rows : Seq(Row), at : 0..version]

IsSingleton(S) == \E x \in S : S = {x}
AtMostOne(S) == S = {} \/ IsSingleton(S)

\* Every variable holds a value of the kind the code gives it; a count in
\* particular belongs to a query under way.
TypeOK ==
  /\ table \in [Approach -> SUBSET Row] /\ \A a \in Approach : AtMostOne(table[a])
  /\ gone \subseteq Row
  /\ scored \subseteq Approach
  /\ changed \in [Approach -> 0..version]
  /\ version \in 0..MaxChanges
  /\ store \in [Key -> SUBSET AnswerType]
  /\ pc \in [Client -> {"idle", "waiting", "loading", "read", "done", "error"}]
  /\ want \in [Client -> Key]
  /\ got \in [Client -> SUBSET AnswerType]
  /\ asked \in [Client -> Params]
  /\ counted \in [Client -> SUBSET [total : Nat, at : 0..version]]
  /\ \A c \in Client : AtMostOne(counted[c]) /\ (counted[c] # {} => pc[c] = "loading")
  /\ trail \in [Client -> Seq(AnswerType)]
  /\ faults \in 0..MaxFaults

\* cache.rs:39: an answer is shown to who asked that question, whoever's
\* query it came from.
AnswersQuestion ==
  \A c \in Client : \A t \in got[c] : t.asked = asked[c]

\* Where the code cannot wrap around.
Fits(q) == q.page >= 1 /\ q.page * q.size < Word

\* dashboard.rs:276 and :285, the filters of two statements: unless the rows
\* change between them a page holds as many rows as the total leaves for it, and
\* that is what SHOWING x-y OF z says in the table and on the landing page.
LabelsAgree ==
  \A c \in Client : \A t \in got[c] :
    LET q == t.asked
        before == (q.page - 1) * q.size
    IN Fits(q) /\ t.countedAt = t.at =>
         /\ Len(t.rows) = IF t.total <= before THEN 0
                          ELSE IF t.total < before + q.size THEN t.total - before ELSE q.size
         /\ c \in Walker /\ t.rows # <<>> => Len(t.rows) = ShowingEnd(t) + 1 - ShowingStart(t)
         /\ q = Table(1, "landing") /\ t.rows # <<>> => Len(t.rows) = LandingEnd(t) + 1 - LandingStart(t)

Walk(c) == DOMAIN trail[c]

Between(m, n) == (m + 1..n) \cup (n + 1..m)

\* The changes between the pages of a walk, and since the count that ended it.
Drift(t) ==
  (UNION {{i} \X Between(t[i - 1].at, t[i].at) : i \in 2..Len(t)})
    \cup ({1} \X Between(t[Len(t)].countedAt, t[Len(t)].at))

\* The rows there are or were: of two that are tied, each may come first every time anew.
Past == gone \cup UNION {table[a] : a \in Approach}

\* Nothing a walk shows of r has changed since, and r never shared its place.
Settled(c, r) == \A i \in Walk(c) : changed[r.id] <= trail[c][i].at
Untied(c, r) ==
  \A q \in Past : q.id # r.id =>
    Precedes(Shown(c).asked.view, q, r) \/ Precedes(Shown(c).asked.view, r, q)

Pages(c, r) == {i \in Walk(c) : \E j \in DOMAIN trail[c][i].rows : trail[c][i].rows[j].id = r.id}

\* dashboard.rs:273, an offset into rows that move: a walk from the first page to
\* the one that has no NEXT loses or repeats at most as many of the rows that
\* stayed where they were as there were changes between its pages.
DriftBounded ==
  \A c \in Walker :
    trail[c] # <<>> /\ trail[c][1].asked.page = 1 /\ IsLastPage(Shown(c)) /\ Fits(Shown(c).asked) =>
      Cardinality({r \in Listing(Shown(c).asked.view) : Settled(c, r) /\ Untied(c, r) /\ Cardinality(Pages(c, r)) # 1})
        <= Cardinality(Drift(trail[c]))

\* dashboard.rs:276, the number of the last page: NEXT leads to a page without
\* rows only if they changed between that page and a count on the way to it.
NextLeadsOn ==
  \A c \in Walker : Len(trail[c]) > 1 /\ Shown(c).rows = <<>> =>
    \E i \in 1..Len(trail[c]) - 1 : trail[c][i].countedAt # Shown(c).at

\* The classes from the worst to the least.
Ladder == <<"Critical", "High", "Medium", "Low">>

\* No refresh of the asteroid has left the class of r behind.
Current(r) == r.class = Classify(r.fact)

\* dashboard.rs:337: 'Rank it explicitly so sort_by=hazard (and the homepage's "most
\* hazardous" fetch) actually surfaces Critical first': the landing page goes down the
\* ladder of the stored classes; and of two approaches whose classes are still those of
\* what NeoWs says (repository.rs:413 refreshes that, :452 keeps the class), none stands
\* before one that is as dangerous in every respect and passes nearer.
MostHazardousFirst ==
  \A c \in Client : \A t \in got[c] :
    t.asked.view = "landing" =>
      \A i, j \in DOMAIN t.rows :
        LET p == t.rows[i]
            r == t.rows[j]
        IN i < j =>
             /\ \E m \in 1..4 : p.class = Ladder[m] /\ r.class \in {Ladder[n] : n \in m..4}
             /\ Current(p) /\ Current(r) /\ Outranks(r.fact, p.fact) => p.fact.miss = r.fact.miss
=============================================================================
