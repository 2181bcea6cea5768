--------------------------- MODULE DashboardPages ---------------------------
(***************************************************************************)
(* What the dashboard and its API read beside the table of approaches and  *)
(* the catalog: totals, recent approaches, velocity charts, the weekly     *)
(* report, the page of an asteroid with its neighbours, the history of     *)
(* loads.  Each is a query of one to four statements that run one after    *)
(* the other outside of a transaction, each of which sees the database of  *)
(* its moment; the answer as a whole goes into a store of DashboardCache,  *)
(* while loads, sweeps and pruning change the rows.  A handler asks up to  *)
(* three of them in turn.                                                  *)
(*                                                                         *)
(* A statement's result is the set of rows it returned or counted, with    *)
(* the version of the database it saw.                                     *)
(***************************************************************************)
EXTENDS Integers, Sequences, FiniteSets

CONSTANTS
  Client,
  Neo,          \* the asteroids
  Approach,     \* the natural keys of approaches
  Of,           \* Of[a]: the asteroid of a
  Day,          \* Day[a]: close_approach_date
  Miss, Speed,  \* Miss[a], Speed[a]: miss distance and velocity of a
  Diameter,     \* Diameter[n]: estimated_diameter_avg_km
  Pha,          \* the potentially hazardous asteroids
  File,         \* the source files of etl_events
  Today,
  Days,         \* the lengths of the periods (7, 30, 90 and 365 days)
  Date,         \* the dates a range may start or end with
  HistoryLimit, \* APPROACH_HISTORY_LIMIT (50 in the code)
  RecentLimit,  \* rows of the queries that list the latest (50, 100, 20)
  SimilarLimit, \* SIMILAR_LIMIT (5)
  PageSize,     \* rows of a page of etl runs (10 unless asked otherwise)
  Page,         \* the pages a client asks for
  MaxChanges,   \* bound on changes of the rows
  MaxFaults     \* bound on failed queries and dropped handlers

ASSUME ApproachAssumption ==
  /\ IsFiniteSet(Approach) /\ IsFiniteSet(Neo) /\ IsFiniteSet(File)
  /\ Of \in [Approach -> Neo] /\ Neo \cap Approach = {}
  /\ {Day, Miss, Speed} \subseteq [Approach -> Int] /\ Diameter \in [Neo -> Int]
  /\ Pha \subseteq Neo
ASSUME BoundAssumption ==
  /\ Today \in Int /\ Date \subseteq Int /\ 7 \in Days /\ Days \subseteq Nat /\ Page \subseteq Nat \ {0}
  /\ {HistoryLimit, RecentLimit, SimilarLimit, PageSize} \subseteq Nat \ {0}
  /\ MaxChanges \in Nat /\ MaxFaults \in Nat

VARIABLES
  known,    \* the asteroids with a row
  table,    \* the approaches with a row
  measured, \* the asteroids with a row in asteroid_orbits
  vectors,  \* the asteroids with a row in asteroid_embeddings
  started,  \* started[f]: the rank of started_at in etl_events, 0 without a row
  version,  \* history: the number of changes
  enabled, store, pc, want, got,  \* the store of the answers, see DashboardCache
  results,  \* results[c]: what the statements of c's query have returned so far
  todo,     \* todo[c]: what c's handler asks for next
  faults

rows == <<known, table, measured, vectors, started, version>>
cache == <<enabled, store, pc, want, got>>
vars == <<rows, cache, results, todo, faults>>

(***************************************************************************)
(* The questions: the parameters of a query are the key of its answer.  An *)
(* optional date is a set of at most one.                                  *)
(***************************************************************************)
Stats == [kind |-> "stats"]
Recent == [kind |-> "recent"]
Speeds == [kind |-> "speeds"]
Weekly == [kind |-> "weekly"]
Classes == [kind |-> "classes"]
Runs == [kind |-> "runs"]
RunsPage == [kind : {"page"}, page : Page]
Period == [kind : {"period"}, days : Days]
Optional == {{}} \cup {{d} : d \in Date}
DateRange == [kind : {"range"}, from : Optional, to : Optional]
Detail == [kind : {"detail"}, neo : Neo]
Similar == [kind : {"similar"}, neo : Neo]
Question ==
  {Stats, Recent, Speeds, Weekly, Classes, Runs}
    \cup RunsPage \cup Period \cup DateRange \cup Detail \cup Similar

Cache == INSTANCE DashboardCache WITH Key <- Question, Idle <- Stats
-----------------------------------------------------------------------------
(***************************************************************************)
(* The statements.                                                         *)
(***************************************************************************)
\* SELECT ... FROM S ORDER BY column LIMIT n: ties come as they please.
Top(n, S, column) ==
  {T \in SUBSET S :
     /\ Cardinality(T) = IF Cardinality(S) < n THEN Cardinality(S) ELSE n
     /\ \A x \in T, y \in S \ T : column[x] <= column[y]}

\* The columns of ORDER BY ... DESC.
Late == [a \in Approach |-> -Day[a]]
Fast == [a \in Approach |-> -Speed[a]]
Large == [a \in Approach |-> -Diameter[Of[a]]]

\* get_stats
Totals(i) == CASE i = 1 -> {known} [] i = 2 -> {table} [] OTHER -> {known \cap Pha}

\* get_recent_approaches and get_velocity_data, with limits of their own.
Newest == Top(RecentLimit, table, Late)

\* close_approach_date >= NOW() - interval: the time of day excludes the first day;
\* what is still to come is included.
InPeriod(days) == {{a \in table : Day[a] > Today - days}}

\* get_velocity_data_with_filter: both ends included.
InRange(from, to) ==
  {{a \in table : (\A d \in from : Day[a] >= d) /\ (\A d \in to : Day[a] <= d)}}

Recorded == {f \in File : started[f] > 0}
Latest(n) == Top(n, Recorded, [f \in File |-> -started[f]])

\* get_paginated_etl_runs: the count, and LIMIT and OFFSET.
RunsOf(p, i) ==
  IF i = 1 THEN {Recorded}
           ELSE UNION {{T \ S : T \in {T \in Latest(p * PageSize) : S \subseteq T}}
                         : S \in Latest((p - 1) * PageSize)}

\* start_date = end_date - 7 days, both of them included.
ReportDays == Today - 7 .. Today
Reported == {a \in table : Day[a] \in ReportDays}

\* Mutant: the fastest of all approaches.
BugSummary(i) ==
  CASE i = 1 -> {Reported}
    [] i = 2 -> Top(1, Reported, Miss)
    [] i = 3 -> Top(1, table, Fast)
    [] OTHER -> Top(1, Reported, Large)

\* get_weekly_summary: the counts, the closest, the fastest and the largest.
Summary(i) ==
  CASE i = 1 -> {Reported}
    [] i = 2 -> Top(1, Reported, Miss)
    [] i = 3 -> Top(1, Reported, Fast)
    [] OTHER -> Top(1, Reported, Large)

Passes(n) == {a \in table : Of[a] = n}
LatestPass(limit, n) == Top(limit, Passes(n), Late)

\* Mutant: the first of the approaches instead of the last of them.
BugHistory(n) == Top(HistoryLimit, Passes(n), Day)

History(n) == LatestPass(HistoryLimit, n)

\* Mutant: an inner join.
BugElements(n) == {measured \cap {n}}

\* LEFT JOIN asteroid_orbits, one row for an asteroid that is there.
Elements(n) == {known \cap {n}}

\* get_detail: the asteroid and the date of its latest approach, its orbital
\* elements, its approaches.
DetailOf(n, i) ==
  CASE i = 1 -> IF n \in known THEN {{n} \cup T : T \in LatestPass(1, n)} ELSE {{}}
    [] i = 2 -> Elements(n)
    [] OTHER -> History(n)

\* similar: the asteroid if it has a vector, the nearest of the others that have one;
\* any of them may be the nearest.
Neighbours(n, i) ==
  IF i = 1 THEN {vectors \cap {n}}
           ELSE IF n \in vectors THEN Top(SimilarLimit, vectors \ {n}, [m \in Neo |-> 0]) ELSE {{}}

\* What statement i of question q may return.
Statement(q, i) ==
  CASE q = Stats -> Totals(i)
    [] q = Weekly -> Summary(i)
    [] q \in {Recent, Speeds} -> Newest
    [] q = Classes -> {measured}
    [] q = Runs -> Latest(RecentLimit)
    [] q \in RunsPage -> RunsOf(q.page, i)
    [] q \in Period -> InPeriod(q.days)
    [] q \in DateRange -> InRange(q.from, q.to)
    [] q \in Detail -> DetailOf(q.neo, i)
    [] OTHER -> Neighbours(q.neo, i)

\* The last statement of a query.
Length(q) ==
  CASE q = Weekly -> 4
    [] q \in Detail \cup {Stats} -> 3
    [] q \in RunsPage \cup Similar -> 2
    [] OTHER -> 1

\* Nothing follows it, nor the first one if there is no asteroid or no vector.
Complete(q, r) ==
  Len(r) = Length(q) \/ (q \in Detail \cup Similar /\ r[1].rows = {})
-----------------------------------------------------------------------------
Init ==
  /\ known \in SUBSET Neo
  /\ table \in SUBSET {a \in Approach : Of[a] \in known}
  /\ measured \in SUBSET known
  /\ vectors \in SUBSET known
  /\ started \in [File -> 0..1]
  /\ version = 0
  /\ Cache!Empty
  /\ results = [c \in Client |-> <<>>]
  /\ todo = [c \in Client |-> <<>>]
  /\ faults = 0

Changes ==
  /\ version < MaxChanges
  /\ version' = version + 1
  /\ UNCHANGED <<cache, results, todo, faults>>

\* upsert_batch
Load(a) ==
  /\ a \notin table
  /\ known' = known \cup {Of[a]}
  /\ table' = table \cup {a}
  /\ UNCHANGED <<measured, vectors, started>>
  /\ Changes

\* Approaches are pruned, asteroids never.
Prune(a) ==
  /\ a \in table
  /\ table' = table \ {a}
  /\ UNCHANGED <<known, measured, vectors, started>>
  /\ Changes

\* upsert_asteroid_orbits
Measure(n) ==
  /\ n \in known \ measured
  /\ measured' = measured \cup {n}
  /\ UNCHANGED <<known, table, vectors, started>>
  /\ Changes

\* upsert_embeddings
Vectorize(n) ==
  /\ n \in known
  /\ vectors' = vectors \cup {n}
  /\ UNCHANGED <<known, table, measured, started>>
  /\ Changes

\* record_etl_event_start: a file loaded again comes to the front.
StartLoad(f) ==
  /\ started' = [started EXCEPT ![f] = version + 2]
  /\ UNCHANGED <<known, table, measured, vectors>>
  /\ Changes

PruneRun(f) ==
  /\ f \in Recorded
  /\ started' = [started EXCEPT ![f] = 0]
  /\ UNCHANGED <<known, table, measured, vectors>>
  /\ Changes
-----------------------------------------------------------------------------
(***************************************************************************)
(* The handlers.                                                           *)
(***************************************************************************)
Week == [kind |-> "period", days |-> 7]

\* GET /api/stats; the landing page, its table of approaches apart; the catalog, its
\* listing apart; the page of an asteroid.
ApiStats == <<Stats, Recent, Speeds>>
Landing == <<Stats, Week>>
CatalogPage == <<Classes>>
AsteroidPage(n) == <<[kind |-> "detail", neo |-> n], [kind |-> "similar", neo |-> n]>>

\* GET /api/velocity: a period, a range, or the last week; /dashboard/velocity.
Velocity == Period \cup {q \in DateRange : q.from # {} \/ q.to # {}}

\* What a handler asks for, in its order.
Visits ==
  {ApiStats, Landing, CatalogPage} \cup {AsteroidPage(n) : n \in Neo}
    \cup {<<q>> : q \in {Weekly, Runs} \cup RunsPage \cup Velocity \cup Detail \cup Similar}

Visit(c, v) ==
  /\ todo[c] = <<>>
  /\ Cache!Request(c, v[1])
  /\ todo' = [todo EXCEPT ![c] = Tail(v)]
  /\ UNCHANGED <<rows, results, faults>>

Continue(c) ==
  /\ todo[c] # <<>>
  /\ Cache!Request(c, todo[c][1])
  /\ todo' = [todo EXCEPT ![c] = Tail(@)]
  /\ UNCHANGED <<rows, results, faults>>

\* The next statement of the query; with the last one the answer is on its way.
Execute(c) ==
  /\ pc[c] = "loading"
  /\ \E S \in Statement(want[c], Len(results[c]) + 1) :
       LET r == Append(results[c], [rows |-> S, at |-> version])
       IN IF Complete(want[c], r)
            THEN Cache!Read(c, r) /\ results' = [results EXCEPT ![c] = <<>>]
            ELSE results' = [results EXCEPT ![c] = r] /\ UNCHANGED cache
  /\ UNCHANGED <<rows, todo, faults>>

Fault == faults < MaxFaults /\ faults' = faults + 1

QueryFails(c) ==
  /\ Fault
  /\ Cache!Fail(c)
  /\ results' = [results EXCEPT ![c] = <<>>]
  /\ UNCHANGED <<rows, todo>>

Answer(c) ==
  /\ Cache!Finish(c)
  /\ UNCHANGED <<rows, results, todo, faults>>

TakeOver(c) ==
  /\ Cache!Retry(c)
  /\ UNCHANGED <<rows, results, todo, faults>>

Leave(c) ==
  /\ Fault
  /\ Cache!Leave(c)
  /\ results' = [results EXCEPT ![c] = <<>>]
  /\ todo' = [todo EXCEPT ![c] = <<>>]
  /\ UNCHANGED rows

Expire(q) ==
  /\ Cache!Expire(q)
  /\ UNCHANGED <<rows, results, todo, faults>>

\* A handler ends with an asteroid that is not there (404), and with an error, but
\* for the landing page, whose totals are then zeros.
Stops(c) ==
  \/ pc[c] = "error" /\ todo[c] # <<Week>>
  \/ want[c] \in Detail /\ \E r \in got[c] : r[1].rows = {}

Respond(c) ==
  /\ Cache!Take(c)
  /\ todo' = [todo EXCEPT ![c] = IF Stops(c) THEN <<>> ELSE @]
  /\ UNCHANGED <<rows, results, faults>>

Next ==
  \/ \E a \in Approach : Load(a) \/ Prune(a)
  \/ \E n \in Neo : Measure(n) \/ Vectorize(n)
  \/ \E f \in File : StartLoad(f) \/ PruneRun(f)
  \/ \E c \in Client :
       \/ \E v \in Visits : Visit(c, v)
       \/ Continue(c)
       \/ Execute(c) \/ QueryFails(c) \/ Answer(c) \/ TakeOver(c) \/ Leave(c) \/ Respond(c)
  \/ \E q \in Question : Expire(q)

Spec == Init /\ [][Next]_vars
-----------------------------------------------------------------------------
Result == [rows : SUBSET (Neo \cup Approach \cup File), at : 0..MaxChanges]

\* Every variable holds a value of the kind the code gives it; results in
\* particular belong to a query under way.
TypeOK ==
  /\ known \subseteq Neo
  /\ table \subseteq {a \in Approach : Of[a] \in known}
  /\ measured \subseteq known /\ vectors \subseteq known
  /\ started \in [File -> 0..MaxChanges + 1]
  /\ version \in 0..MaxChanges
  /\ enabled \in BOOLEAN
  /\ store \in [Question -> SUBSET Seq(Result)]
  /\ pc \in [Client -> {"idle", "waiting", "loading", "read", "done", "error"}]
  /\ want \in [Client -> Question]
  /\ got \in [Client -> SUBSET Seq(Result)]
  /\ results \in [Client -> Seq(Result)]
  /\ todo \in [Client -> Seq(Question)]
  /\ \A c \in Client : results[c] # <<>> => pc[c] = "loading"
  /\ faults \in 0..MaxFaults

\* The changes between the first statement of an answer and statement i.
Changed(r, i) == r[i].at - r[1].at

\* report.rs:56, four statements: an approach named by the report is one that was
\* counted unless rows have changed since, and the report names none only if as many
\* changes as it counts have come in between.
SummaryAgrees(r) ==
  \A i \in 2..4 :
    /\ Changed(r, i) = 0 => r[i].rows \subseteq r[1].rows
    /\ r[i].rows = {} => Cardinality(r[1].rows) <= Changed(r, i)

\* dashboard.rs:69, three: there are more hazardous asteroids than asteroids by no
\* more than were loaded in between.
TotalsAgree(r) == Cardinality(r[3].rows) <= Cardinality(r[1].rows) + Changed(r, 3)

\* dashboard.rs:414, two: a page of the runs has the rows that the count leaves for
\* it, but for as many as came and went in between.
RunsAgree(p, r) ==
  LET left == Cardinality(r[1].rows) - (p - 1) * PageSize
      due == IF left < 0 THEN 0 ELSE IF left > PageSize THEN PageSize ELSE left
  IN Cardinality(r[2].rows) - due \in -Changed(r, 2) .. Changed(r, 2)

\* The numbers of an answer agree with one another as far as the statements they come
\* from saw the same rows.
CountsAgree ==
  \A c \in Client : \A r \in got[c] :
    /\ want[c] = Weekly => SummaryAgrees(r)
    /\ want[c] = Stats => TotalsAgree(r)
    /\ want[c] \in RunsPage => RunsAgree(want[c].page, r)

\* catalog.rs:311, three statements: the latest approach of an asteroid is the first
\* of the history below it, however few of the approaches that lists, unless rows
\* have changed in between.
DetailAgrees ==
  \A c \in Client : \A r \in got[c] :
    want[c] \in Detail /\ Len(r) = 3 /\ Changed(r, 3) = 0 =>
      \A a \in r[1].rows \cap Approach :
        /\ \E b \in r[3].rows : Day[b] = Day[a]
        /\ \A b \in r[3].rows : Day[b] <= Day[a]

\* catalog.rs:347, fetch_one: an asteroid that was found has its row of elements,
\* and so its page, measured or not, whatever happens to the rows in between.
FoundHasPage ==
  \A c \in Client : \A r \in got[c] :
    want[c] \in Detail /\ Len(r) > 1 => r[2].rows # {}

\* cache.rs:204: with the cache on, an answer never takes the place of a newer one
\* that a client has been given.
FreshestKept ==
  enabled =>
    \A c \in Client : \A r \in got[c], s \in store[want[c]] :
      pc[c] = "done" => \A i \in DOMAIN r \cap DOMAIN s : r[i].at <= s[i].at
=============================================================================
