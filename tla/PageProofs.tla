----------------------------- MODULE PageProofs -----------------------------
(***************************************************************************)
(* Proofs about DashboardPages for any asteroids, approaches, files,       *)
(* limits, clients and changes: what the statements of one answer say      *)
(* agrees as far as they saw the same rows, and an answer never takes the  *)
(* place of a newer one.                                                   *)
(***************************************************************************)
EXTENDS DashboardPages, FiniteSetTheorems, TLAPS

(***************************************************************************)
(* ORDER BY ... LIMIT.                                                     *)
(***************************************************************************)
Smaller(m, n) == IF m < n THEN m ELSE n

LEMMA TopFacts ==
  ASSUME NEW n \in Nat, NEW S, IsFiniteSet(S), NEW column, NEW T \in Top(n, S, column)
  PROVE  /\ T \subseteq S /\ IsFiniteSet(T) /\ Cardinality(S) \in Nat
         /\ Cardinality(T) = Smaller(Cardinality(S), n)
         /\ \A x \in T, y \in S \ T : column[x] <= column[y]
<1>1. T \subseteq S /\ Cardinality(T) = Smaller(Cardinality(S), n)
      /\ \A x \in T, y \in S \ T : column[x] <= column[y]
  BY DEF Top, Smaller
<1>2. QED
  BY <1>1, FS_Subset, FS_CardinalityType

\* A list with a place in it is empty only if there is nothing to list.
LEMMA TopEmpty ==
  ASSUME NEW n \in Nat, n # 0, NEW S, IsFiniteSet(S), NEW column, {} \in Top(n, S, column)
  PROVE  S = {}
<1>1. Cardinality({}) = Smaller(Cardinality(S), n) /\ Cardinality(S) \in Nat
  BY TopFacts
<1>2. Cardinality(S) = 0
  BY <1>1, FS_EmptySet DEF Smaller
<1>3. QED
  BY <1>2, FS_EmptySet

\* The first of a list and the list, however long: both begin with the same value.
LEMMA TopAgrees ==
  ASSUME NEW n \in Nat, n # 0, NEW S, IsFiniteSet(S), NEW column, \A x \in S : column[x] \in Int,
         NEW T \in Top(1, S, column), NEW U \in Top(n, S, column), NEW a \in T
  PROVE  /\ \E b \in U : column[b] = column[a]
         /\ \A b \in U : column[b] >= column[a]
<1>1. /\ T \subseteq S /\ IsFiniteSet(T) /\ Cardinality(T) = Smaller(Cardinality(S), 1)
      /\ \A x \in T, y \in S \ T : column[x] <= column[y]
  BY TopFacts
<1>2. /\ U \subseteq S
      /\ \A x \in U, y \in S \ U : column[x] <= column[y]
  BY TopFacts
<1>3. Cardinality(T) <= 1
  BY <1>1, FS_CardinalityType DEF Smaller
<1>4. T = {a}
  <2>1. Cardinality(T \ {a}) = Cardinality(T) - 1 /\ IsFiniteSet(T \ {a})
    BY <1>1, FS_RemoveElement
  <2>2. Cardinality(T \ {a}) = 0
    BY <1>1, <1>3, <2>1, FS_CardinalityType
  <2>3. QED
    BY <2>1, <2>2, FS_EmptySet
<1>5. \A y \in S : column[a] <= column[y]
  BY <1>1, <1>4
<1>6. U # {}
  BY <1>1, TopEmpty
<1>7. PICK u \in U : TRUE
  BY <1>6
<1>8. CASE a \in U
  BY <1>2, <1>5, <1>8
<1>9. CASE a \notin U
  <2>1. column[u] <= column[a] /\ column[a] <= column[u]
    BY <1>1, <1>2, <1>5, <1>7, <1>9
  <2>2. column[u] = column[a]
    BY <1>1, <1>2, <1>7, <2>1
  <2>3. QED
    BY <1>2, <1>5, <1>7, <2>2
<1>10. QED
  BY <1>8, <1>9
-----------------------------------------------------------------------------
(***************************************************************************)
(* The invariant.                                                          *)
(***************************************************************************)
\* What DetailAgrees and FoundHasPage ask.
DetailSound(r) ==
  /\ Len(r) > 1 => r[2].rows # {}
  /\ Len(r) = 3 /\ Changed(r, 3) = 0 =>
       \A a \in r[1].rows \cap Approach :
         /\ \E b \in r[3].rows : Day[b] = Day[a]
         /\ \A b \in r[3].rows : Day[b] <= Day[a]

\* What the properties ask of an answer, and the dates of its statements.
Agrees(q, r) ==
  /\ q = Weekly => SummaryAgrees(r)
  /\ q = Stats => TotalsAgree(r)
  /\ q \in RunsPage => RunsAgree(q.page, r)
  /\ q \in Detail => DetailSound(r)

Past(q) == {r \in Seq(Result) : Agrees(q, r) /\ \A i \in DOMAIN r : r[i].at <= version}

AnswersOK ==
  /\ \A q \in Question : store[q] \subseteq Past(q) /\ \A r, s \in store[q] : r = s
  /\ \A c \in Client :
       /\ got[c] \subseteq Past(want[c]) /\ \A r, s \in got[c] : r = s
       /\ pc[c] \notin {"read", "done"} => got[c] = {}

\* What a query has found so far, compared with what there is now.
Since(r) == version - r[1].at

WeeklySoFar(r) ==
  /\ Len(r) < 4
  /\ Cardinality(r[1].rows) <= Cardinality(Reported) + Since(r)
  /\ Since(r) = 0 => r[1].rows = Reported
  /\ \A i \in 2..Len(r) :
       /\ Changed(r, i) = 0 => r[i].rows \subseteq r[1].rows
       /\ r[i].rows = {} => Cardinality(r[1].rows) <= Changed(r, i)

StatsSoFar(r) == Len(r) < 3 /\ Cardinality(known) <= Cardinality(r[1].rows) + Since(r)

RunsSoFar(r) == Len(r) = 1 /\ Cardinality(r[1].rows) - Cardinality(Recorded) \in -Since(r)..Since(r)

DetailSoFar(n, r) ==
  /\ Len(r) < 3
  /\ n \in known
  /\ r[1].rows # {}
  /\ Since(r) = 0 => r[1].rows \in {{n} \cup T : T \in LatestPass(1, n)}
  /\ Len(r) = 2 => r[2].rows # {}

SoFar(q, r) ==
  /\ \A i \in DOMAIN r : r[i].at <= version
  /\ q = Weekly => WeeklySoFar(r)
  /\ q = Stats => StatsSoFar(r)
  /\ q \in RunsPage => RunsSoFar(r)
  /\ q \in Detail => DetailSoFar(q.neo, r)

QueriesOK == \A c \in Client : Len(results[c]) >= 1 => SoFar(want[c], results[c])

\* With the cache on, a key has one query at most, and none while it is stored.
Busy(c) == pc[c] \in {"loading", "read"}

SharedOK ==
  enabled => \A c \in Client : Busy(c) =>
    /\ store[want[c]] = {}
    /\ \A d \in Client : Busy(d) /\ want[d] = want[c] => d = c

\* A query under way has seen nothing older than the answers that were given.
Older(r, s) == \A i \in DOMAIN r, j \in DOMAIN s : r[i].at <= s[j].at

FreshOK ==
  enabled => \A c, d \in Client : pc[c] = "done" /\ want[c] = want[d] => \A r \in got[c] :
    /\ Older(r, results[d])
    /\ pc[d] = "read" => \A s \in got[d] : Older(r, s)

PageInv == TypeOK /\ AnswersOK /\ QueriesOK /\ SharedOK /\ FreshOK /\ FreshestKept
-----------------------------------------------------------------------------
(***************************************************************************)
(* The statements.                                                         *)
(***************************************************************************)
LEMMA Limits ==
  /\ HistoryLimit \in Nat \ {0} /\ RecentLimit \in Nat \ {0} /\ SimilarLimit \in Nat \ {0}
  /\ PageSize \in Nat \ {0}
BY BoundAssumption

LEMMA Columns ==
  /\ Late \in [Approach -> Int] /\ Fast \in [Approach -> Int] /\ Large \in [Approach -> Int]
  /\ \A a \in Approach : Late[a] = -Day[a]
<1>1. Day \in [Approach -> Int] /\ Speed \in [Approach -> Int] /\ Of \in [Approach -> Neo] /\ Diameter \in [Neo -> Int]
  BY ApproachAssumption
<1>2. QED
  BY <1>1 DEF Late, Fast, Large

LEMMA RowsFinite ==
  ASSUME TypeOK
  PROVE  /\ IsFiniteSet(known) /\ IsFiniteSet(table) /\ IsFiniteSet(Reported) /\ IsFiniteSet(Recorded)
         /\ \A n : IsFiniteSet(Passes(n))
         /\ Cardinality(known) \in Nat /\ Cardinality(Reported) \in Nat /\ Cardinality(Recorded) \in Nat
<1>1. known \subseteq Neo /\ table \subseteq Approach /\ Reported \subseteq Approach /\ Recorded \subseteq File
      /\ \A n : Passes(n) \subseteq Approach
  BY DEF TypeOK, Reported, Recorded, Passes
<1>2. IsFiniteSet(Neo) /\ IsFiniteSet(Approach) /\ IsFiniteSet(File)
  BY ApproachAssumption
<1>3. QED
  BY <1>1, <1>2, FS_Subset, FS_CardinalityType

\* Statements return rows.
LEMMA StatementRows ==
  ASSUME TypeOK, NEW q \in Question, NEW i \in Nat, NEW S \in Statement(q, i)
  PROVE  S \subseteq Neo \cup Approach \cup File
<1> DEFINE All == Neo \cup Approach \cup File
<1>1. known \subseteq Neo /\ table \subseteq Approach /\ measured \subseteq Neo /\ vectors \subseteq Neo
      /\ Reported \subseteq Approach /\ Recorded \subseteq File /\ \A n : Passes(n) \subseteq Approach
  BY DEF TypeOK, Reported, Recorded, Passes
<1>2. \A n, X, k : \A T \in Top(n, X, k) : T \subseteq X
  BY DEF Top
<1>3. \A T \in Totals(i) : T \subseteq All
  BY <1>1 DEF Totals
<1>4. \A T \in Summary(i) : T \subseteq All
  <2>1. Summary(i) \in {{Reported}, Top(1, Reported, Miss), Top(1, Reported, Fast), Top(1, Reported, Large)}
    BY DEF Summary
  <2>2. QED
    BY <1>1, <1>2, <2>1
<1>5. \A T \in Newest : T \subseteq All
  BY <1>1, <1>2 DEF Newest
<1>6. \A n : \A T \in Latest(n) : T \subseteq All
  BY <1>1, <1>2 DEF Latest
<1>7. \A p : \A T \in RunsOf(p, i) : T \subseteq All
  BY <1>1, <1>6 DEF RunsOf
<1>8. \A d : \A T \in InPeriod(d) : T \subseteq All
  BY <1>1 DEF InPeriod
<1>9. \A f, t : \A T \in InRange(f, t) : T \subseteq All
  BY <1>1 DEF InRange
<1>10. \A n : \A T \in DetailOf(n, i) : T \subseteq All
  BY <1>1, <1>2 DEF DetailOf, LatestPass, Elements, History
<1>11. \A n : \A T \in Neighbours(n, i) : T \subseteq All
  BY <1>1, <1>2 DEF Neighbours
<1>12. measured \subseteq All
  BY <1>1
<1>13. Statement(q, i) \in {Totals(i), Summary(i), Newest, {measured}, Latest(RecentLimit), RunsOf(q.page, i),
                            InPeriod(q.days), InRange(q.from, q.to), DetailOf(q.neo, i), Neighbours(q.neo, i)}
  BY DEF Statement
<1> HIDE DEF All
<1>14. S \subseteq All
  BY <1>3, <1>4, <1>5, <1>6, <1>7, <1>8, <1>9, <1>10, <1>11, <1>12, <1>13
<1>15. QED
  BY <1>14 DEF All

\* The kinds of questions are apart.
LEMMA Kinds ==
  /\ Stats.kind = "stats" /\ Weekly.kind = "weekly"
  /\ Recent.kind = "recent" /\ Speeds.kind = "speeds" /\ Classes.kind = "classes" /\ Runs.kind = "runs"
  /\ \A q \in RunsPage : q.kind = "page" /\ q.page \in Page
  /\ \A q \in Detail : q.kind = "detail" /\ q.neo \in Neo
  /\ \A q \in Period : q.kind = "period"
  /\ \A q \in DateRange : q.kind = "range"
  /\ \A q \in Similar : q.kind = "similar"
<1>1. Stats.kind = "stats" /\ Weekly.kind = "weekly"
  BY DEF Stats, Weekly
<1>2. Recent.kind = "recent" /\ Speeds.kind = "speeds" /\ Classes.kind = "classes" /\ Runs.kind = "runs"
  BY DEF Recent, Speeds, Classes, Runs
<1>3. \A q \in RunsPage : q.kind = "page" /\ q.page \in Page
  BY DEF RunsPage
<1>4. \A q \in Detail : q.kind = "detail" /\ q.neo \in Neo
  BY DEF Detail
<1>5. \A q \in Period : q.kind = "period"
  BY DEF Period
<1>6. \A q \in DateRange : q.kind = "range"
  BY DEF DateRange
<1>7. \A q \in Similar : q.kind = "similar"
  BY DEF Similar
<1>8. QED
  BY <1>1, <1>2, <1>3, <1>4, <1>5, <1>6, <1>7

\* No question has two kinds.
LEMMA Apart ==
  /\ \A q \in RunsPage : q \notin Period \cup DateRange \cup Detail \cup Similar
       /\ q \notin {Stats, Weekly, Recent, Speeds, Classes, Runs}
  /\ \A q \in Detail : q \notin Period \cup DateRange \cup RunsPage \cup Similar
       /\ q \notin {Stats, Weekly, Recent, Speeds, Classes, Runs}
  /\ Stats \notin Period \cup DateRange \cup RunsPage \cup Detail \cup Similar
  /\ Stats \notin {Weekly, Recent, Speeds, Classes, Runs}
  /\ Weekly \notin Period \cup DateRange \cup RunsPage \cup Detail \cup Similar
  /\ Weekly \notin {Stats, Recent, Speeds, Classes, Runs}
BY Kinds

LEMMA StatementOf ==
  ASSUME NEW i
  PROVE  /\ Statement(Stats, i) = Totals(i)
         /\ Statement(Weekly, i) = Summary(i)
         /\ \A q \in RunsPage : Statement(q, i) = RunsOf(q.page, i)
         /\ \A q \in Detail : Statement(q, i) = DetailOf(q.neo, i)
BY Apart DEF Statement

\* How many statements there are.
LEMMA LengthOf ==
  /\ Length(Weekly) = 4 /\ Length(Stats) = 3
  /\ \A q \in RunsPage : Length(q) = 2
  /\ \A q \in Detail : Length(q) = 3
BY Apart DEF Length

\* A query is complete after so many statements, or when nothing was found.
LEMMA CompleteIs ==
  ASSUME NEW r
  PROVE  /\ Complete(Weekly, r) <=> Len(r) = 4
         /\ Complete(Stats, r) <=> Len(r) = 3
         /\ \A q \in RunsPage : Complete(q, r) <=> Len(r) = 2
         /\ \A q \in Detail : Complete(q, r) <=> Len(r) = 3 \/ r[1].rows = {}
BY Apart, LengthOf DEF Complete
-----------------------------------------------------------------------------
(***************************************************************************)
(* One statement more.                                                     *)
(***************************************************************************)
\* r is s with the result e of a statement that saw what there is now.
Longer(s, e, r) ==
  /\ e.at = version /\ IsFiniteSet(e.rows)
  /\ Len(s) \in Nat /\ Len(r) = Len(s) + 1 /\ r[Len(r)] = e
  /\ \A i \in 1..Len(s) : r[i] = s[i] /\ s[i].at \in Nat /\ IsFiniteSet(s[i].rows)
  /\ Len(s) >= 1 => r[1] = s[1] /\ Since(r) = Since(s)
  /\ Len(s) = 0 => r[1] = e /\ Since(r) = 0

LEMMA AppendIsLonger ==
  ASSUME NEW s \in Seq(Result), NEW e \in Result, e.at = version, version \in Nat
  PROVE  Longer(s, e, Append(s, e))
<1> DEFINE r == Append(s, e)
<1>1. r \in Seq(Result) /\ Len(s) \in Nat /\ Len(r) = Len(s) + 1 /\ r[Len(r)] = e
      /\ \A i \in 1..Len(s) : r[i] = s[i] /\ s[i] \in Result
  OBVIOUS
<1>2. ASSUME NEW x \in Result PROVE x.at \in Nat /\ IsFiniteSet(x.rows)
  <2>1. x.at \in 0..MaxChanges /\ x.rows \subseteq Neo \cup Approach \cup File
    BY DEF Result
  <2>2. IsFiniteSet(Neo \cup Approach \cup File)
    BY ApproachAssumption, FS_Union
  <2>3. QED
    BY <2>1, <2>2, BoundAssumption, FS_Subset
<1> HIDE DEF r
<1>3. \A i \in 1..Len(s) : r[i] = s[i] /\ s[i].at \in Nat /\ IsFiniteSet(s[i].rows)
  BY <1>1, <1>2
<1>4. ASSUME Len(s) >= 1 PROVE r[1] = s[1] /\ Since(r) = Since(s)
  <2>1. r[1] = s[1]
    BY <1>1, <1>4
  <2>2. QED
    BY <2>1 DEF Since
<1>5. ASSUME Len(s) = 0 PROVE r[1] = e /\ Since(r) = 0
  <2>1. r[1] = e
    BY <1>1, <1>5
  <2>2. QED
    BY <2>1 DEF Since
<1>6. Longer(s, e, r)
  BY <1>1, <1>2, <1>3, <1>4, <1>5 DEF Longer
<1>7. QED
  BY <1>6 DEF r

\* get_weekly_summary
LEMMA WeeklyFirst ==
  ASSUME TypeOK, NEW r, Len(r) = 1, Since(r) = 0, r[1].rows = Reported
  PROVE  WeeklySoFar(r) /\ ~Complete(Weekly, r)
<1>1. Cardinality(Reported) \in Nat
  BY RowsFinite
<1>2. WeeklySoFar(r)
  BY <1>1 DEF WeeklySoFar
<1>3. QED
  BY <1>2, CompleteIs

LEMMA WeeklyMore ==
  ASSUME TypeOK, NEW s, NEW e, NEW r, Longer(s, e, r), Len(s) >= 1, WeeklySoFar(s),
         e.rows \in Summary(Len(s) + 1)
  PROVE  /\ Complete(Weekly, r) => SummaryAgrees(r)
         /\ ~Complete(Weekly, r) => WeeklySoFar(r)
<1>1. Len(s) \in Nat /\ 1 <= Len(s) /\ Len(s) <= 3
  <2>1. Len(s) \in Nat
    BY DEF Longer
  <2>2. Len(s) < 4
    BY DEF WeeklySoFar
  <2>3. QED
    BY <2>1, <2>2
<1>2. Len(r) = Len(s) + 1 /\ r[Len(r)] = e /\ e.at = version
      /\ \A i \in 1..Len(s) : r[i] = s[i] /\ s[i].at \in Nat
      /\ r[1] = s[1] /\ Since(r) = Since(s)
  <2>1. Len(r) = Len(s) + 1 /\ r[Len(r)] = e /\ e.at = version
    BY DEF Longer
  <2>2. \A i \in 1..Len(s) : r[i] = s[i] /\ s[i].at \in Nat
    BY DEF Longer
  <2>3. r[1] = s[1] /\ Since(r) = Since(s)
    BY DEF Longer
  <2>4. QED
    BY <2>1, <2>2, <2>3
<1>3. PICK column : e.rows \in Top(1, Reported, column)
  <2>1. Len(s) + 1 # 1
    BY <1>1
  <2>2. QED
    BY <2>1 DEF Summary
<1>4. e.rows \subseteq Reported
  BY <1>3 DEF Top
<1>5. e.rows = {} => Reported = {}
  BY <1>3, RowsFinite, TopEmpty
<1>6. Changed(r, Len(r)) = Since(s)
  BY <1>2 DEF Changed, Since
<1>7. Cardinality(s[1].rows) <= Cardinality(Reported) + Since(s) /\ (Since(s) = 0 => s[1].rows = Reported)
  BY DEF WeeklySoFar
<1>8. e.rows = {} => Cardinality(s[1].rows) <= Since(s)
  <2>1. Cardinality(s[1].rows) \in Nat /\ Since(s) \in Int
    <3>1. IsFiniteSet(s[1].rows) /\ s[1].at \in Nat
      BY <1>1 DEF Longer
    <3>2. Cardinality(s[1].rows) \in Nat
      BY <3>1, FS_CardinalityType
    <3>3. Since(s) \in Int
      BY <3>1, BoundAssumption DEF TypeOK, Since
    <3>4. QED
      BY <3>2, <3>3
  <2>2. ASSUME e.rows = {} PROVE Cardinality(Reported) = 0
    BY <1>5, <2>2, FS_EmptySet
  <2>3. QED
    BY <1>7, <2>1, <2>2
<1>9. ASSUME NEW i \in 2..Len(r)
      PROVE  /\ Changed(r, i) = 0 => r[i].rows \subseteq r[1].rows
             /\ r[i].rows = {} => Cardinality(r[1].rows) <= Changed(r, i)
  <2>1. CASE i = Len(r)
    <3>1. r[i].rows = e.rows /\ Changed(r, i) = Since(s) /\ r[1].rows = s[1].rows
      BY <1>2, <1>6, <2>1
    <3>2. /\ Since(s) = 0 => e.rows \subseteq s[1].rows
          /\ e.rows = {} => Cardinality(s[1].rows) <= Since(s)
      BY <1>4, <1>7, <1>8
    <3>3. QED
      BY <3>1, <3>2
  <2>2. CASE i # Len(r)
    <3>1. i \in 2..Len(s) /\ i \in 1..Len(s)
      BY <1>1, <1>2, <2>2
    <3>2. r[i] = s[i] /\ Changed(r, i) = Changed(s, i)
      BY <1>2, <3>1 DEF Changed
    <3>3. /\ Changed(s, i) = 0 => s[i].rows \subseteq s[1].rows
          /\ s[i].rows = {} => Cardinality(s[1].rows) <= Changed(s, i)
      BY <3>1 DEF WeeklySoFar
    <3>4. QED
      BY <1>2, <3>2, <3>3
  <2>3. QED
    BY <2>1, <2>2
<1>10. ASSUME Len(r) = 4 PROVE SummaryAgrees(r)
  BY <1>9, <1>10 DEF SummaryAgrees
<1>11. ASSUME Len(r) # 4 PROVE WeeklySoFar(r)
  <2>1. Len(r) < 4
    BY <1>1, <1>2, <1>11
  <2>2. QED
    BY <1>2, <1>7, <1>9, <2>1 DEF WeeklySoFar
<1>12. QED
  BY <1>10, <1>11, CompleteIs

\* get_stats
LEMMA StatsFirst ==
  ASSUME TypeOK, NEW r, Len(r) = 1, Since(r) = 0, r[1].rows = known
  PROVE  StatsSoFar(r) /\ ~Complete(Stats, r)
<1>1. Cardinality(known) \in Nat
  BY RowsFinite
<1>2. StatsSoFar(r)
  BY <1>1 DEF StatsSoFar
<1>3. QED
  BY <1>2, CompleteIs

LEMMA StatsMore ==
  ASSUME TypeOK, NEW s, NEW e, NEW r, Longer(s, e, r), Len(s) >= 1, StatsSoFar(s),
         e.rows \in Totals(Len(s) + 1)
  PROVE  /\ Complete(Stats, r) => TotalsAgree(r)
         /\ ~Complete(Stats, r) => StatsSoFar(r)
<1>1. Len(s) \in Nat /\ 1 <= Len(s) /\ Len(s) <= 2
  <2>1. Len(s) \in Nat
    BY DEF Longer
  <2>2. Len(s) < 3
    BY DEF StatsSoFar
  <2>3. QED
    BY <2>1, <2>2
<1>2. Len(r) = Len(s) + 1 /\ r[Len(r)] = e /\ e.at = version
      /\ r[1] = s[1] /\ Since(r) = Since(s) /\ s[1].at \in Nat /\ IsFiniteSet(s[1].rows)
  BY <1>1 DEF Longer
<1>3. Cardinality(known) <= Cardinality(s[1].rows) + Since(s)
  BY DEF StatsSoFar
<1>4. ASSUME Len(s) = 2 PROVE Len(r) = 3 /\ TotalsAgree(r)
  <2>1. Len(s) + 1 = 3 /\ Len(r) = 3 /\ r[3] = e
    BY <1>2, <1>4
  <2>2. e.rows = known \cap Pha
    BY <2>1 DEF Totals
  <2>3. Cardinality(e.rows) <= Cardinality(known) /\ Cardinality(e.rows) \in Nat /\ Cardinality(known) \in Nat
    BY <2>2, RowsFinite, FS_Subset, FS_CardinalityType
  <2>4. Changed(r, 3) = Since(s)
    BY <1>2, <2>1 DEF Changed, Since
  <2>5. Cardinality(s[1].rows) \in Nat /\ Since(s) \in Int
    BY <1>2, BoundAssumption, FS_CardinalityType DEF TypeOK, Since
  <2>6. QED
    BY <1>2, <1>3, <2>1, <2>3, <2>4, <2>5 DEF TotalsAgree
<1>5. ASSUME Len(s) = 1 PROVE Len(r) # 3 /\ StatsSoFar(r)
  BY <1>2, <1>3, <1>5 DEF StatsSoFar
<1>6. Len(s) = 1 \/ Len(s) = 2
  <2> DEFINE n == Len(s)
  <2>1. n \in Nat /\ 1 <= n /\ n <= 2
    BY <1>1
  <2> HIDE DEF n
  <2>2. n = 1 \/ n = 2
    BY <2>1
  <2>3. QED
    BY <2>2 DEF n
<1>7. Complete(Stats, r) <=> Len(r) = 3
  BY CompleteIs
<1>8. QED
  BY <1>4, <1>5, <1>6, <1>7

\* get_paginated_etl_runs
LEMMA RunsFirst ==
  ASSUME TypeOK, NEW q \in RunsPage, NEW r, Len(r) = 1, Since(r) = 0, r[1].rows = Recorded
  PROVE  RunsSoFar(r) /\ ~Complete(q, r)
<1>1. Cardinality(Recorded) \in Nat
  BY RowsFinite
<1>2. RunsSoFar(r)
  BY <1>1 DEF RunsSoFar
<1>3. QED
  BY <1>2, CompleteIs

\* How many rows a page has, of so many.
Due(p, n) ==
  LET left == n - (p - 1) * PageSize
  IN IF left < 0 THEN 0 ELSE IF left > PageSize THEN PageSize ELSE left

LEMMA DueFollows ==
  ASSUME NEW p \in Nat \ {0}, NEW m \in Nat, NEW n \in Nat, NEW d \in Nat, m - n \in -d..d
  PROVE  Due(p, n) - Due(p, m) \in -d..d
<1> DEFINE o == (p - 1) * PageSize
<1>1. PageSize \in Nat /\ p - 1 \in Nat
  BY Limits
<1>2. o \in Nat
  BY <1>1
<1>3. Due(p, n) = IF n - o < 0 THEN 0 ELSE IF n - o > PageSize THEN PageSize ELSE n - o
  BY DEF Due
<1>4. Due(p, m) = IF m - o < 0 THEN 0 ELSE IF m - o > PageSize THEN PageSize ELSE m - o
  BY DEF Due
<1> HIDE DEF o
<1>5. QED
  BY <1>1, <1>2, <1>3, <1>4

LEMMA PageIsDue ==
  ASSUME TypeOK, NEW p \in Nat \ {0}, NEW S \in RunsOf(p, 2)
  PROVE  Cardinality(S) = Due(p, Cardinality(Recorded))
<1> DEFINE n == Cardinality(Recorded)
           o == (p - 1) * PageSize
           f == [f \in File |-> -started[f]]
<1>1. PageSize \in Nat /\ p - 1 \in Nat /\ p \in Nat
  BY Limits
<1>2. o \in Nat /\ p * PageSize \in Nat
  BY <1>1
<1>3. p * PageSize = o + PageSize
  BY <1>1
<1>4. PICK U \in Latest(o), T \in Latest(p * PageSize) : U \subseteq T /\ S = T \ U
  BY DEF RunsOf
<1>5. U \in Top(o, Recorded, f) /\ T \in Top(p * PageSize, Recorded, f)
  BY <1>4 DEF Latest
<1>6. IsFiniteSet(U) /\ Cardinality(U) = Smaller(n, o) /\ n \in Nat
  BY <1>2, <1>5, RowsFinite, TopFacts
<1>7. IsFiniteSet(T) /\ Cardinality(T) = Smaller(n, p * PageSize)
  BY <1>2, <1>5, RowsFinite, TopFacts
<1>8. Cardinality(T \ U) = Cardinality(T) - Cardinality(U)
  <2>1. T \cap U = U
    BY <1>4
  <2>2. Cardinality(T \ U) = Cardinality(T) - Cardinality(T \cap U)
    BY <1>6, <1>7, FS_Difference
  <2>3. QED
    BY <2>1, <2>2
<1>9. Due(p, n) = IF n - o < 0 THEN 0 ELSE IF n - o > PageSize THEN PageSize ELSE n - o
  BY DEF Due
<1> HIDE DEF o, n
<1>10. Cardinality(S) = Due(p, n)
  BY <1>1, <1>2, <1>3, <1>4, <1>6, <1>7, <1>8, <1>9 DEF Smaller
<1>11. QED
  BY <1>10 DEF n

LEMMA RunsMore ==
  ASSUME TypeOK, NEW p \in Nat \ {0}, NEW s, NEW e, NEW r, Longer(s, e, r), Len(s) >= 1, RunsSoFar(s),
         e.rows \in RunsOf(p, 2), Since(s) \in Nat
  PROVE  Len(r) = 2 /\ RunsAgree(p, r)
<1>1. Len(s) = 1 /\ Cardinality(s[1].rows) - Cardinality(Recorded) \in -Since(s)..Since(s)
  BY DEF RunsSoFar
<1>2. Len(r) = Len(s) + 1 /\ r[Len(r)] = e /\ e.at = version
      /\ r[1] = s[1] /\ Since(r) = Since(s) /\ IsFiniteSet(s[1].rows)
  <2>1. Len(r) = Len(s) + 1 /\ r[Len(r)] = e /\ e.at = version
    BY DEF Longer
  <2>2. r[1] = s[1] /\ Since(r) = Since(s)
    BY DEF Longer
  <2>3. 1 \in 1..Len(s)
    BY <1>1
  <2>4. IsFiniteSet(s[1].rows)
    BY <2>3 DEF Longer
  <2>5. QED
    BY <2>1, <2>2, <2>4
<1>3. Len(r) = 2 /\ r[2] = e
  BY <1>1, <1>2
<1>4. Changed(r, 2) = Since(s)
  BY <1>2, <1>3 DEF Changed, Since
<1>5. Cardinality(s[1].rows) \in Nat /\ Cardinality(Recorded) \in Nat
  BY <1>2, RowsFinite, FS_CardinalityType
<1>6. Cardinality(e.rows) = Due(p, Cardinality(Recorded))
  BY PageIsDue
<1>7. Cardinality(e.rows) - Due(p, Cardinality(s[1].rows)) \in -Since(s)..Since(s)
  BY <1>1, <1>5, <1>6, DueFollows
<1>8. RunsAgree(p, r) <=> Cardinality(r[2].rows) - Due(p, Cardinality(r[1].rows)) \in -Changed(r, 2)..Changed(r, 2)
  BY DEF RunsAgree, Due
<1>9. QED
  BY <1>2, <1>3, <1>4, <1>7, <1>8

\* get_detail
LEMMA DetailFirst ==
  ASSUME TypeOK, NEW q \in Detail, NEW r, Len(r) = 1, Since(r) = 0, r[1].rows \in DetailOf(q.neo, 1)
  PROVE  ~Complete(q, r) => DetailSoFar(q.neo, r)
<1>1. ASSUME r[1].rows # {} PROVE q.neo \in known /\ r[1].rows \in {{q.neo} \cup T : T \in LatestPass(1, q.neo)}
  BY <1>1 DEF DetailOf
<1>2. Complete(q, r) <=> r[1].rows = {}
  BY CompleteIs
<1>3. QED
  BY <1>1, <1>2 DEF DetailSoFar

LEMMA HistoryAgrees ==
  ASSUME TypeOK, NEW n \in Neo, NEW R \in {{n} \cup T : T \in LatestPass(1, n)}, NEW H \in History(n),
         NEW a \in R \cap Approach
  PROVE  /\ \E b \in H : Day[b] = Day[a]
         /\ \A b \in H : Day[b] <= Day[a]
<1>1. PICK T \in LatestPass(1, n) : R = {n} \cup T
  OBVIOUS
<1>2. a \in T
  BY <1>1, ApproachAssumption
<1>3. Passes(n) \subseteq Approach /\ IsFiniteSet(Passes(n))
  BY RowsFinite DEF TypeOK, Passes
<1>4. T \in Top(1, Passes(n), Late) /\ H \in Top(HistoryLimit, Passes(n), Late)
  BY DEF LatestPass, History
<1>5. /\ \E b \in H : Late[b] = Late[a]
      /\ \A b \in H : Late[b] >= Late[a]
  <2>1. \A x \in Passes(n) : Late[x] \in Int
    BY <1>3, Columns
  <2>2. HistoryLimit \in Nat /\ HistoryLimit # 0
    BY Limits
  <2>3. QED
    BY <1>2, <1>3, <1>4, <2>1, <2>2, TopAgrees
<1>6. H \subseteq Approach
  BY <1>3, <1>4 DEF Top
<1>7. \A b \in Approach : Late[b] = -Day[b] /\ Day[b] \in Int
  BY Columns, ApproachAssumption
<1>8. QED
  BY <1>5, <1>6, <1>7

LEMMA DetailMore ==
  ASSUME TypeOK, NEW q \in Detail, NEW s, NEW e, NEW r, Longer(s, e, r), Len(s) >= 1, DetailSoFar(q.neo, s),
         e.rows \in DetailOf(q.neo, Len(s) + 1)
  PROVE  /\ Complete(q, r) => DetailSound(r)
         /\ ~Complete(q, r) => DetailSoFar(q.neo, r)
<1> DEFINE l == Len(s)
           n == q.neo
<1>1. l = 1 \/ l = 2
  <2>1. l \in Nat
    BY DEF Longer
  <2>2. l < 3 /\ l >= 1
    BY DEF DetailSoFar
  <2> HIDE DEF l
  <2>3. QED
    BY <2>1, <2>2
<1>2. Len(r) = l + 1 /\ r[Len(r)] = e /\ e.at = version
  BY DEF Longer
<1>3. r[1] = s[1] /\ Since(r) = Since(s)
  BY DEF Longer
<1>4. \A i \in 1..l : r[i] = s[i]
  BY DEF Longer
<1>5. n \in Neo /\ n \in known /\ s[1].rows # {} /\ (Since(s) = 0 => s[1].rows \in {{n} \cup T : T \in LatestPass(1, n)})
      /\ (l = 2 => s[2].rows # {})
  BY Kinds DEF DetailSoFar
<1>6. e.rows \in DetailOf(n, l + 1)
  OBVIOUS
<1>7. Complete(q, r) <=> Len(r) = 3
  BY <1>3, <1>5, CompleteIs
<1> HIDE DEF l, n
<1>8. CASE l = 1
  <2>1. Len(r) = 2 /\ r[2] = e /\ l + 1 = 2
    BY <1>2, <1>8
  <2>2. e.rows = known \cap {n}
    BY <1>6, <2>1 DEF DetailOf, Elements
  <2>3. r[2].rows # {}
    BY <1>5, <2>1, <2>2
  <2>4. DetailSoFar(n, r)
    BY <1>3, <1>5, <2>1, <2>3 DEF DetailSoFar
  <2>5. QED
    BY <1>7, <2>1, <2>4 DEF n
<1>9. CASE l = 2
  <2>1. Len(r) = 3 /\ r[3] = e /\ l + 1 = 3 /\ r[2] = s[2]
    BY <1>2, <1>4, <1>9
  <2>2. e.rows \in History(n)
    BY <1>6, <2>1 DEF DetailOf
  <2>3. Changed(r, 3) = Since(s)
    BY <1>2, <1>3, <2>1 DEF Changed, Since
  <2>4. ASSUME Changed(r, 3) = 0, NEW a \in r[1].rows \cap Approach
        PROVE  /\ \E b \in e.rows : Day[b] = Day[a]
               /\ \A b \in e.rows : Day[b] <= Day[a]
    <3>1. s[1].rows \in {{n} \cup T : T \in LatestPass(1, n)} /\ a \in s[1].rows \cap Approach
      BY <1>3, <1>5, <2>3, <2>4
    <3> DEFINE R == s[1].rows
               H == e.rows
    <3>2. n \in Neo /\ R \in {{n} \cup T : T \in LatestPass(1, n)} /\ H \in History(n) /\ a \in R \cap Approach
      BY <1>5, <2>2, <3>1
    <3> HIDE DEF R, H
    <3>3. (\E b \in H : Day[b] = Day[a]) /\ (\A b \in H : Day[b] <= Day[a])
      BY <3>2, HistoryAgrees
    <3>4. QED
      BY <3>3 DEF H
  <2>5. DetailSound(r)
    BY <1>5, <1>9, <2>1, <2>4 DEF DetailSound
  <2>6. QED
    BY <1>7, <2>1, <2>5
<1>10. QED
  BY <1>1, <1>8, <1>9

\* Whatever the question: a statement leaves a query that agrees with the rows, or an
\* answer that agrees with itself.
LEMMA StatementSound ==
  ASSUME TypeOK, NEW q \in Question, NEW s \in Seq(Result), Len(s) >= 1 => SoFar(q, s),
         NEW S \in Statement(q, Len(s) + 1), NEW r, r = Append(s, [rows |-> S, at |-> version])
  PROVE  /\ r \in Seq(Result) /\ \A i \in DOMAIN r : r[i].at <= version
         /\ \A i \in DOMAIN r : (i \in DOMAIN s /\ r[i] = s[i]) \/ r[i].at = version
         /\ Complete(q, r) => Agrees(q, r)
         /\ ~Complete(q, r) => SoFar(q, r)
<1> DEFINE e == [rows |-> S, at |-> version]
<1>1. version \in Nat /\ version \in 0..MaxChanges
  BY BoundAssumption DEF TypeOK
<1>2. Len(s) \in Nat /\ Len(s) + 1 \in Nat
  OBVIOUS
<1>3. S \subseteq Neo \cup Approach \cup File
  BY <1>2, StatementRows
<1>4. e \in Result /\ e.at = version /\ e.rows = S
  BY <1>1, <1>3 DEF Result
<1>5. r = Append(s, e)
  OBVIOUS
<1> HIDE DEF e
<1>6. Longer(s, e, r)
  BY <1>1, <1>4, <1>5, AppendIsLonger
<1>7. r \in Seq(Result) /\ DOMAIN r = 1..Len(s) + 1 /\ DOMAIN s = 1..Len(s) /\ r[Len(s) + 1] = e
      /\ \A i \in DOMAIN s : r[i] = s[i]
  BY <1>4, <1>5
<1>8. \A i \in DOMAIN r : (i \in DOMAIN s /\ r[i] = s[i]) \/ r[i].at = version
  BY <1>2, <1>4, <1>7
<1>9. \A i \in DOMAIN r : r[i].at <= version
  <2> SUFFICES ASSUME NEW i \in DOMAIN r PROVE r[i].at <= version
    OBVIOUS
  <2>1. CASE i \in DOMAIN s /\ r[i] = s[i]
    <3>1. Len(s) >= 1
      BY <1>2, <1>7, <2>1
    <3>2. QED
      BY <2>1, <3>1 DEF SoFar
  <2>2. CASE r[i].at = version
    BY <1>1, <2>2
  <2>3. QED
    BY <1>8, <2>1, <2>2
<1>10. CASE Len(s) >= 1
  <2>1. SoFar(q, s)
    BY <1>10
  <2>2. Since(s) \in Nat
    <3>1. 1 \in DOMAIN s /\ s[1] \in Result
      BY <1>2, <1>7, <1>10
    <3>2. s[1].at \in 0..MaxChanges /\ s[1].at <= version
      BY <2>1, <3>1 DEF SoFar, Result
    <3>3. QED
      BY <1>1, <3>2, BoundAssumption DEF Since
  <2>3. ASSUME q = Weekly
        PROVE  /\ Complete(q, r) => SummaryAgrees(r)
               /\ ~Complete(q, r) => WeeklySoFar(r)
    <3>1. e.rows \in Summary(Len(s) + 1) /\ WeeklySoFar(s)
      BY <1>4, <2>1, <2>3, StatementOf DEF SoFar
    <3>2. QED
      BY <1>6, <1>10, <2>3, <3>1, WeeklyMore
  <2>4. ASSUME q = Stats
        PROVE  /\ Complete(q, r) => TotalsAgree(r)
               /\ ~Complete(q, r) => StatsSoFar(r)
    <3>1. e.rows \in Totals(Len(s) + 1) /\ StatsSoFar(s)
      BY <1>4, <2>1, <2>4, StatementOf DEF SoFar
    <3>2. QED
      BY <1>6, <1>10, <2>4, <3>1, StatsMore
  <2>5. ASSUME q \in RunsPage
        PROVE  Complete(q, r) /\ RunsAgree(q.page, r)
    <3>1. q.page \in Nat \ {0}
      BY <2>5, Kinds, BoundAssumption
    <3>2. RunsSoFar(s)
      BY <2>1, <2>5 DEF SoFar
    <3>3. Len(s) + 1 = 2
      BY <3>2 DEF RunsSoFar
    <3>4. e.rows \in RunsOf(q.page, 2)
      BY <1>4, <2>5, <3>3, StatementOf
    <3>5. Len(r) = 2 /\ RunsAgree(q.page, r)
      BY <1>6, <1>10, <2>2, <3>1, <3>2, <3>4, RunsMore
    <3>6. QED
      BY <2>5, <3>5, CompleteIs
  <2>6. ASSUME q \in Detail
        PROVE  /\ Complete(q, r) => DetailSound(r)
               /\ ~Complete(q, r) => DetailSoFar(q.neo, r)
    <3>1. e.rows \in DetailOf(q.neo, Len(s) + 1) /\ DetailSoFar(q.neo, s)
      BY <1>4, <2>1, <2>6, StatementOf DEF SoFar
    <3>2. QED
      BY <1>6, <1>10, <2>6, <3>1, DetailMore
  <2>7. QED
    BY <1>7, <1>8, <1>9, <2>3, <2>4, <2>5, <2>6 DEF Agrees, SoFar
<1>11. CASE ~(Len(s) >= 1)
  <2>1. Len(s) + 1 = 1
    BY <1>2, <1>11
  <2>2. Len(r) = 1 /\ r[1] = e /\ Since(r) = 0
    <3>1. Len(r) = Len(s) + 1 /\ r[Len(r)] = e
      BY <1>6 DEF Longer
    <3>2. Len(r) = 1 /\ r[1] = e
      BY <2>1, <3>1
    <3>3. QED
      BY <1>1, <1>4, <3>2 DEF Since
  <2>3. S \in Statement(q, 1)
    BY <2>1
  <2>4. ASSUME q = Weekly PROVE ~Complete(q, r) /\ WeeklySoFar(r)
    <3>1. r[1].rows = Reported
      BY <1>4, <2>2, <2>3, <2>4, StatementOf DEF Summary
    <3>2. QED
      BY <2>2, <2>4, <3>1, WeeklyFirst
  <2>5. ASSUME q = Stats PROVE ~Complete(q, r) /\ StatsSoFar(r)
    <3>1. r[1].rows = known
      BY <1>4, <2>2, <2>3, <2>5, StatementOf DEF Totals
    <3>2. QED
      BY <2>2, <2>5, <3>1, StatsFirst
  <2>6. ASSUME q \in RunsPage PROVE ~Complete(q, r) /\ RunsSoFar(r)
    <3>1. r[1].rows = Recorded
      BY <1>4, <2>2, <2>3, <2>6, StatementOf DEF RunsOf
    <3>2. QED
      BY <2>2, <2>6, <3>1, RunsFirst
  <2>7. ASSUME q \in Detail
        PROVE  /\ Complete(q, r) => DetailSound(r)
               /\ ~Complete(q, r) => DetailSoFar(q.neo, r)
    <3>1. r[1].rows \in DetailOf(q.neo, 1)
      BY <1>4, <2>2, <2>3, <2>7, StatementOf
    <3>2. ~Complete(q, r) => DetailSoFar(q.neo, r)
      BY <2>2, <2>7, <3>1, DetailFirst
    <3>3. DetailSound(r)
      BY <2>2 DEF DetailSound
    <3>4. QED
      BY <3>2, <3>3
  <2>8. QED
    BY <1>7, <1>8, <1>9, <2>4, <2>5, <2>6, <2>7 DEF Agrees, SoFar
<1>12. QED
  BY <1>10, <1>11
-----------------------------------------------------------------------------
(***************************************************************************)
(* The rows change.                                                        *)
(***************************************************************************)
LEMMA OneMore ==
  ASSUME NEW A, NEW B, NEW x, IsFiniteSet(A), IsFiniteSet(B), A \subseteq B \cup {x}
  PROVE  Cardinality(A) <= Cardinality(B) + 1 /\ Cardinality(A) \in Nat /\ Cardinality(B) \in Nat
<1>1. IsFiniteSet(B \cup {x}) /\ Cardinality(B \cup {x}) <= Cardinality(B) + 1
  <2>1. Cardinality(B) \in Nat
    BY FS_CardinalityType
  <2>2. IsFiniteSet(B \cup {x}) /\ (Cardinality(B \cup {x}) = Cardinality(B) \/ Cardinality(B \cup {x}) = Cardinality(B) + 1)
    BY FS_AddElement
  <2>3. QED
    BY <2>1, <2>2
<1>2. Cardinality(A) <= Cardinality(B \cup {x})
  BY <1>1, FS_Subset
<1>3. Cardinality(A) \in Nat /\ Cardinality(B) \in Nat /\ Cardinality(B \cup {x}) \in Nat
  BY <1>1, FS_CardinalityType
<1>4. QED
  BY <1>1, <1>2, <1>3

\* A change of the rows, whichever.
SmallChange ==
  /\ known \subseteq known'
  /\ \E x : known' \subseteq known \cup {x}
  /\ \E x : Reported \subseteq Reported' \cup {x}
  /\ \E x : Recorded \subseteq Recorded' \cup {x} /\ Recorded' \subseteq Recorded \cup {x}

LEMMA SoFarKept ==
  ASSUME TypeOK, TypeOK', Changes, SmallChange, NEW q, NEW r \in Seq(Result), Len(r) >= 1, SoFar(q, r)
  PROVE  SoFar(q, r)'
<1>1. version \in Nat /\ version' = version + 1
  BY BoundAssumption DEF TypeOK, Changes
<1>2. Len(r) \in Nat /\ 1 \in DOMAIN r /\ \A i \in DOMAIN r : r[i] \in Result
  OBVIOUS
<1>3. \A i \in DOMAIN r : r[i].at \in Nat /\ r[i].at <= version
  BY <1>2, BoundAssumption DEF SoFar, Result
<1>4. Since(r) \in Nat /\ Since(r)' = Since(r) + 1
  BY <1>1, <1>2, <1>3 DEF Since
<1>5. \A i \in DOMAIN r : r[i].at <= version'
  BY <1>1, <1>3
<1>6. IsFiniteSet(r[1].rows) /\ Cardinality(r[1].rows) \in Nat
  <2>1. r[1].rows \subseteq Neo \cup Approach \cup File
    BY <1>2 DEF Result
  <2>2. IsFiniteSet(Neo \cup Approach \cup File)
    BY ApproachAssumption, FS_Union
  <2>3. QED
    BY <2>1, <2>2, FS_Subset, FS_CardinalityType
<1>7. /\ IsFiniteSet(known) /\ IsFiniteSet(Reported) /\ IsFiniteSet(Recorded)
      /\ IsFiniteSet(known') /\ IsFiniteSet(Reported') /\ IsFiniteSet(Recorded')
  <2>1. IsFiniteSet(known) /\ IsFiniteSet(Reported) /\ IsFiniteSet(Recorded)
    BY RowsFinite
  <2>2. known' \subseteq Neo /\ Reported' \subseteq Approach /\ Recorded' \subseteq File
    BY DEF TypeOK, Reported, Recorded
  <2>3. QED
    BY <2>1, <2>2, ApproachAssumption, FS_Subset
<1>8. q = Weekly => WeeklySoFar(r)'
  <2> SUFFICES ASSUME q = Weekly PROVE WeeklySoFar(r)'
    OBVIOUS
  <2>1. WeeklySoFar(r)
    BY DEF SoFar
  <2>2. Cardinality(Reported) <= Cardinality(Reported') + 1 /\ Cardinality(Reported) \in Nat /\ Cardinality(Reported') \in Nat
    BY <1>7, OneMore DEF SmallChange
  <2>3. Cardinality(r[1].rows) <= Cardinality(Reported) + Since(r)
    BY <2>1 DEF WeeklySoFar
  <2>4. Cardinality(r[1].rows) <= Cardinality(Reported') + Since(r)'
    BY <1>4, <1>6, <2>2, <2>3
  <2>5. \A i : Changed(r, i)' = Changed(r, i)
    BY DEF Changed
  <2>6. Since(r)' # 0
    BY <1>4
  <2>7. QED
    BY <2>1, <2>4, <2>5, <2>6 DEF WeeklySoFar
<1>9. q = Stats => StatsSoFar(r)'
  <2> SUFFICES ASSUME q = Stats PROVE StatsSoFar(r)'
    OBVIOUS
  <2>1. StatsSoFar(r)
    BY DEF SoFar
  <2>2. Cardinality(known') <= Cardinality(known) + 1 /\ Cardinality(known) \in Nat /\ Cardinality(known') \in Nat
    BY <1>7, OneMore DEF SmallChange
  <2>3. QED
    BY <1>4, <1>6, <2>1, <2>2 DEF StatsSoFar
<1>10. q \in RunsPage => RunsSoFar(r)'
  <2> SUFFICES ASSUME q \in RunsPage PROVE RunsSoFar(r)'
    OBVIOUS
  <2>1. RunsSoFar(r)
    BY DEF SoFar
  <2>2. PICK x : Recorded \subseteq Recorded' \cup {x} /\ Recorded' \subseteq Recorded \cup {x}
    BY DEF SmallChange
  <2>3. Cardinality(Recorded) <= Cardinality(Recorded') + 1 /\ Cardinality(Recorded') <= Cardinality(Recorded) + 1
        /\ Cardinality(Recorded) \in Nat /\ Cardinality(Recorded') \in Nat
    BY <1>7, <2>2, OneMore
  <2>4. QED
    BY <1>4, <1>6, <2>1, <2>3 DEF RunsSoFar
<1>11. q \in Detail => DetailSoFar(q.neo, r)'
  <2> SUFFICES ASSUME q \in Detail PROVE DetailSoFar(q.neo, r)'
    OBVIOUS
  <2>1. DetailSoFar(q.neo, r)
    BY DEF SoFar
  <2>2. Since(r)' # 0
    BY <1>4
  <2>3. QED
    BY <2>1, <2>2 DEF DetailSoFar, SmallChange
<1>12. QED
  BY <1>5, <1>8, <1>9, <1>10, <1>11 DEF SoFar

LEMMA ChangeKeeps ==
  ASSUME PageInv, Changes, SmallChange, TypeOK'
  PROVE  PageInv'
<1> USE DEF PageInv, cache
<1>1. version \in Nat /\ version' = version + 1
  BY BoundAssumption DEF TypeOK, Changes
<1>2. UNCHANGED <<enabled, store, pc, want, got, results>>
  BY DEF Changes
<1>3. \A q : Past(q) \subseteq Past(q)'
  <2> SUFFICES ASSUME NEW q, NEW r \in Past(q) PROVE r \in Past(q)'
    OBVIOUS
  <2>1. r \in Seq(Result) /\ Agrees(q, r) /\ \A i \in DOMAIN r : r[i].at <= version
    BY DEF Past
  <2>2. \A i \in DOMAIN r : r[i].at \in Nat
    <3>1. \A i \in DOMAIN r : r[i] \in Result
      BY <2>1
    <3>2. QED
      BY <3>1, BoundAssumption DEF Result
  <2>3. \A i \in DOMAIN r : r[i].at <= version'
    BY <1>1, <2>1, <2>2
  <2>4. Agrees(q, r)' = Agrees(q, r)
    BY DEF Agrees, SummaryAgrees, TotalsAgree, RunsAgree, DetailSound, Changed
  <2>5. QED
    BY <2>1, <2>3, <2>4 DEF Past
<1>4. AnswersOK'
  BY <1>2, <1>3 DEF AnswersOK
<1>5. QueriesOK'
  <2> SUFFICES ASSUME NEW c \in Client, Len(results[c]) >= 1 PROVE SoFar(want[c], results[c])'
    BY <1>2 DEF QueriesOK
  <2> DEFINE q == want[c]
             r == results[c]
  <2>1. r \in Seq(Result) /\ SoFar(q, r) /\ Len(r) >= 1 /\ q' = q /\ r' = r
    BY <1>2 DEF TypeOK, QueriesOK
  <2> HIDE DEF q, r
  <2>2. SoFar(q, r)'
    BY <2>1, SoFarKept
  <2>3. QED
    BY <2>2 DEF q, r
<1>6. SharedOK' /\ FreshOK' /\ FreshestKept'
  BY <1>2 DEF SharedOK, Busy, FreshOK, Older, FreshestKept
<1>7. QED
  BY <1>4, <1>5, <1>6

\* upsert_batch, retention, the sweeps of orbits and vectorize, the ledger.
LEMMA RowsStep ==
  ASSUME PageInv,
         \/ \E a \in Approach : Load(a) \/ Prune(a)
         \/ \E n \in Neo : Measure(n) \/ Vectorize(n)
         \/ \E f \in File : StartLoad(f) \/ PruneRun(f)
  PROVE  PageInv'
<1>1. Changes
  BY DEF Load, Prune, Measure, Vectorize, StartLoad, PruneRun
<1>2. version \in Nat /\ version' = version + 1 /\ version' \in 0..MaxChanges /\ version < MaxChanges
  BY <1>1, BoundAssumption DEF PageInv, TypeOK, Changes
<1>3. ASSUME /\ known' \subseteq Neo /\ known \subseteq known'
             /\ table' \subseteq {a \in Approach : Of[a] \in known'}
             /\ measured' \subseteq known' /\ vectors' \subseteq known'
             /\ started' \in [File -> 0..MaxChanges + 1]
             /\ \E x : known' \subseteq known \cup {x}
             /\ \E x : table \subseteq table' \cup {x}
             /\ \E x : \A f \in File \ {x} : started'[f] = started[f]
      PROVE  PageInv'
  <2>1. TypeOK'
    BY <1>1, <1>2, <1>3 DEF PageInv, TypeOK, Changes, cache
  <2>2. \E x : Reported \subseteq Reported' \cup {x}
    BY <1>3 DEF Reported
  <2>3. \E x : Recorded \subseteq Recorded' \cup {x} /\ Recorded' \subseteq Recorded \cup {x}
    <3>1. PICK x : \A f \in File \ {x} : started'[f] = started[f]
      BY <1>3
    <3>2. QED
      BY <3>1 DEF Recorded
  <2>4. SmallChange
    BY <1>3, <2>2, <2>3 DEF SmallChange
  <2>5. QED
    BY <1>1, <2>1, <2>4, ChangeKeeps
<1> USE DEF PageInv, TypeOK
<1>4. ASSUME NEW a \in Approach, Load(a) PROVE PageInv'
  <2>1. Of[a] \in Neo
    BY ApproachAssumption
  <2>2. known' = known \cup {Of[a]} /\ table' = table \cup {a} /\ UNCHANGED <<measured, vectors, started>>
    BY <1>4 DEF Load
  <2>3. QED
    BY <1>3, <2>1, <2>2
<1>5. ASSUME NEW a \in Approach, Prune(a) PROVE PageInv'
  <2>1. table' = table \ {a} /\ UNCHANGED <<known, measured, vectors, started>>
    BY <1>5 DEF Prune
  <2>2. table \subseteq table' \cup {a}
    BY <2>1
  <2>3. QED
    BY <1>3, <2>1, <2>2
<1>6. ASSUME NEW n \in Neo, Measure(n) \/ Vectorize(n) PROVE PageInv'
  <2>1. n \in known /\ measured' \subseteq measured \cup {n} /\ vectors' \subseteq vectors \cup {n}
        /\ UNCHANGED <<known, table, started>>
    BY <1>6 DEF Measure, Vectorize
  <2>2. QED
    BY <1>3, <2>1
<1>7. ASSUME NEW f \in File, StartLoad(f) \/ PruneRun(f) PROVE PageInv'
  <2>1. PICK v \in {version + 2, 0} : started' = [started EXCEPT ![f] = v] /\ UNCHANGED <<known, table, measured, vectors>>
    BY <1>7 DEF StartLoad, PruneRun
  <2>2. v \in 0..MaxChanges + 1
    BY <1>2, BoundAssumption
  <2>3. started' \in [File -> 0..MaxChanges + 1] /\ \A g \in File \ {f} : started'[g] = started[g]
    BY <2>1, <2>2
  <2>4. QED
    BY <1>3, <2>1, <2>3
<1>8. QED
  BY <1>4, <1>5, <1>6, <1>7
-----------------------------------------------------------------------------
(***************************************************************************)
(* The handlers.                                                           *)
(***************************************************************************)
\* While the rows stay, so does what is said of answers and queries.
LEMMA RowsStay ==
  ASSUME UNCHANGED rows
  PROVE  \A q : Past(q)' = Past(q) /\ \A r : SoFar(q, r)' = SoFar(q, r)
<1>1. UNCHANGED <<known, table, measured, vectors, started, version>>
  BY DEF rows
<1>2. UNCHANGED <<Reported, Recorded>>
  BY <1>1 DEF Reported, Recorded
<1>3. \A n : LatestPass(1, n)' = LatestPass(1, n)
  BY <1>1 DEF LatestPass, Passes, Top
<1>4. \A r : Since(r)' = Since(r) /\ \A i : Changed(r, i)' = Changed(r, i)
  BY <1>1 DEF Since, Changed
<1>5. ASSUME NEW q, NEW r PROVE Agrees(q, r)' = Agrees(q, r)
  BY DEF Agrees, SummaryAgrees, TotalsAgree, RunsAgree, DetailSound, Changed
<1>6. ASSUME NEW q, NEW r PROVE SoFar(q, r)' = SoFar(q, r)
  <2>1. WeeklySoFar(r)' = WeeklySoFar(r)
    BY <1>2, <1>4 DEF WeeklySoFar
  <2>2. StatsSoFar(r)' = StatsSoFar(r) /\ RunsSoFar(r)' = RunsSoFar(r)
    BY <1>1, <1>2, <1>4 DEF StatsSoFar, RunsSoFar
  <2>3. DetailSoFar(q.neo, r)' = DetailSoFar(q.neo, r)
    BY <1>1, <1>3, <1>4 DEF DetailSoFar
  <2>4. QED
    BY <1>1, <2>1, <2>2, <2>3 DEF SoFar
<1>7. ASSUME NEW q PROVE Past(q)' = Past(q)
  BY <1>1, <1>5 DEF Past
<1>8. QED
  BY <1>6, <1>7

LEMMA QueriesKept ==
  ASSUME QueriesOK, UNCHANGED rows,
         \A d \in Client : Len(results'[d]) >= 1 => want'[d] = want[d] /\ results'[d] = results[d]
  PROVE  QueriesOK'
<1> SUFFICES ASSUME NEW d \in Client, Len(results'[d]) >= 1 PROVE SoFar(want[d], results[d])'
  BY DEF QueriesOK
<1> DEFINE q == want[d]
           r == results[d]
<1>1. SoFar(q, r) /\ q' = q /\ r' = r
  BY DEF QueriesOK
<1> HIDE DEF q, r
<1>2. SoFar(q, r)'
  BY <1>1, RowsStay
<1>3. QED
  BY <1>2 DEF q, r

\* A request, and a waiter that takes over.
LEMMA RequestKeeps ==
  ASSUME PageInv, NEW c \in Client, NEW k \in Question, pc[c] \in {"idle", "waiting"},
         Cache!TryGetWith(c, k), want' = [want EXCEPT ![c] = k],
         UNCHANGED <<rows, enabled, store, results, faults>>, todo' \in [Client -> Seq(Question)]
  PROVE  PageInv'
<1> USE DEF PageInv
<1>1. got[c] = {} /\ results[c] = <<>> /\ ~Busy(c)
  BY DEF AnswersOK, TypeOK, Busy
<1>2. PICK p \in {"done", "waiting", "loading"} :
        /\ pc' = [pc EXCEPT ![c] = p]
        /\ got' = [got EXCEPT ![c] = IF p = "done" THEN store[k] ELSE {}]
        /\ p = "done" => store[k] # {} /\ enabled
        /\ p = "loading" => (enabled => store[k] = {} /\ Cache!Loading(k) = {})
  <2>1. got = [got EXCEPT ![c] = {}]
    BY <1>1 DEF TypeOK
  <2>2. QED
    BY <2>1 DEF Cache!TryGetWith
<1>3. /\ pc'[c] = p /\ want'[c] = k /\ got'[c] = IF p = "done" THEN store[k] ELSE {}
      /\ \A d \in Client \ {c} : pc'[d] = pc[d] /\ want'[d] = want[d] /\ got'[d] = got[d]
      /\ UNCHANGED <<known, table, measured, vectors, started, version, enabled, store, results, faults>>
  BY <1>2 DEF TypeOK, rows
<1>4. TypeOK'
  <2>1. store[k] \in SUBSET Seq(Result)
    BY DEF TypeOK
  <2>2. got' \in [Client -> SUBSET Seq(Result)]
    BY <1>2, <2>1 DEF TypeOK
  <2>3. pc' \in [Client -> {"idle", "waiting", "loading", "read", "done", "error"}]
        /\ want' \in [Client -> Question]
    BY <1>2 DEF TypeOK
  <2>4. \A d \in Client : results'[d] # <<>> => pc'[d] = "loading"
    BY <1>1, <1>3 DEF TypeOK
  <2>5. QED
    BY <1>3, <2>2, <2>3, <2>4 DEF TypeOK
<1>5. AnswersOK'
  BY <1>3, RowsStay DEF AnswersOK
<1>6. QueriesOK'
  <2>1. \A d \in Client : Len(results'[d]) >= 1 => want'[d] = want[d] /\ results'[d] = results[d]
    BY <1>1, <1>3
  <2>2. QED
    BY <1>3, <2>1, QueriesKept
<1>7. SharedOK'
  <2> SUFFICES ASSUME enabled, NEW d \in Client, Busy(d)'
               PROVE  /\ store[want'[d]] = {}
                      /\ \A e \in Client : Busy(e)' /\ want'[e] = want'[d] => e = d
    BY <1>3 DEF SharedOK
  <2>1. \A e \in Client \ {c} : Busy(e)' = Busy(e)
    BY <1>3 DEF Busy
  <2>2. Busy(c)' => store[k] = {} /\ Cache!Loading(k) = {}
    BY <1>2, <1>3 DEF Busy
  <2>3. Busy(c)' => \A e \in Client \ {c} : Busy(e)' => want'[e] # k
    BY <1>3, <2>1, <2>2 DEF Busy, Cache!Loading
  <2>4. CASE d = c
    BY <1>3, <2>2, <2>3, <2>4
  <2>5. CASE d # c
    BY <1>3, <2>1, <2>3, <2>5 DEF SharedOK
  <2>6. QED
    BY <2>4, <2>5
<1>8. FreshOK'
  <2> SUFFICES ASSUME enabled, NEW d \in Client, NEW e \in Client, pc'[d] = "done", want'[d] = want'[e],
                      NEW r \in got'[d]
               PROVE  Older(r, results[e]) /\ (pc'[e] = "read" => \A t \in got'[e] : Older(r, t))
    BY <1>3 DEF FreshOK, Older
  <2>1. results[e] = <<>> => Older(r, results[e])
    BY DEF Older
  <2>2. CASE e = c
    BY <1>1, <1>3, <2>1, <2>2
  <2>3. CASE e # c /\ d = c
    <3>1. store[k] # {} /\ want[e] = k
      BY <1>2, <1>3, <2>3
    <3>2. ~Busy(e)
      BY <3>1 DEF SharedOK
    <3>3. pc'[e] # "read" /\ results[e] = <<>>
      BY <1>3, <2>3, <3>2 DEF Busy, TypeOK
    <3>4. QED
      BY <2>1, <3>3
  <2>4. CASE e # c /\ d # c
    BY <1>3, <2>4 DEF FreshOK
  <2>5. QED
    BY <2>2, <2>3, <2>4
<1>9. FreshestKept'
  <2> SUFFICES ASSUME enabled, NEW d \in Client, NEW r \in got'[d], NEW t \in store[want'[d]], pc'[d] = "done",
                      NEW i \in DOMAIN r \cap DOMAIN t
               PROVE  r[i].at <= t[i].at
    BY <1>3 DEF FreshestKept
  <2>1. CASE d = c
    <3>1. r \in store[k] /\ t \in store[k]
      BY <1>3, <2>1
    <3>2. r = t /\ t \in Seq(Result)
      BY <3>1 DEF AnswersOK, Past
    <3>3. t[i] \in Result
      BY <3>2
    <3>4. t[i].at \in Nat
      BY <3>3, BoundAssumption DEF Result
    <3>5. QED
      BY <3>2, <3>4
  <2>2. CASE d # c
    BY <1>3, <2>2 DEF FreshestKept
  <2>3. QED
    BY <2>1, <2>2
<1>10. QED
  BY <1>4, <1>5, <1>6, <1>7, <1>8, <1>9

\* Handlers that are done with their questions, one way or the other.
LEMMA EndKeeps ==
  ASSUME PageInv, TypeOK', UNCHANGED <<rows, enabled, store>>,
         \A d \in Client :
           \/ pc'[d] = pc[d] /\ want'[d] = want[d] /\ got'[d] = got[d] /\ results'[d] = results[d]
           \/ pc'[d] \in {"idle", "error"} /\ got'[d] = {} /\ results'[d] = <<>>
  PROVE  PageInv'
<1> USE DEF PageInv
<1> DEFINE Same(d) == pc'[d] = pc[d] /\ want'[d] = want[d] /\ got'[d] = got[d] /\ results'[d] = results[d]
<1>1. \A d \in Client : Same(d) \/ (pc'[d] \in {"idle", "error"} /\ got'[d] = {} /\ results'[d] = <<>>)
  OBVIOUS
<1>2. \A d \in Client : Busy(d)' \/ pc'[d] = "done" \/ got'[d] # {} \/ Len(results'[d]) >= 1 => Same(d)
  <2> SUFFICES ASSUME NEW d \in Client, pc'[d] \in {"idle", "error"}, got'[d] = {}, results'[d] = <<>>
               PROVE  ~Busy(d)' /\ pc'[d] # "done" /\ ~(Len(results'[d]) >= 1)
    BY <1>1
  <2>1. ~Busy(d)' /\ pc'[d] # "done"
    BY DEF Busy
  <2>2. Len(results'[d]) = 0
    OBVIOUS
  <2>3. QED
    BY <2>1, <2>2
<1> HIDE DEF Same
<1>3. AnswersOK'
  <2>1. \A q \in Question : store'[q] \subseteq Past(q)' /\ \A r, s \in store'[q] : r = s
    BY RowsStay DEF AnswersOK
  <2>2. ASSUME NEW d \in Client, Same(d)
        PROVE  (/\ got[d] \subseteq Past(want[d]) /\ \A r, s \in got[d] : r = s
                /\ pc[d] \notin {"read", "done"} => got[d] = {})'
    <3>1. got'[d] = got[d] /\ pc'[d] = pc[d] /\ want'[d] = want[d]
      BY <2>2 DEF Same
    <3>2. QED
      BY <3>1, RowsStay DEF AnswersOK
  <2>3. QED
    BY <1>1, <2>1, <2>2 DEF AnswersOK
<1>4. QueriesOK'
  BY <1>2, QueriesKept DEF Same
<1>5. SharedOK'
  <2> SUFFICES ASSUME enabled, NEW d \in Client, Busy(d)'
               PROVE  /\ store[want'[d]] = {}
                      /\ \A e \in Client : Busy(e)' /\ want'[e] = want'[d] => e = d
    BY DEF SharedOK
  <2>1. \A e \in Client : Busy(e)' => Busy(e) /\ want'[e] = want[e]
    BY <1>2 DEF Busy, Same
  <2>2. QED
    BY <2>1 DEF SharedOK
<1>6. FreshOK'
  <2> SUFFICES ASSUME enabled, NEW d \in Client, NEW e \in Client, pc'[d] = "done", want'[d] = want'[e],
                      NEW r \in got'[d]
               PROVE  Older(r, results'[e]) /\ (pc'[e] = "read" => \A t \in got'[e] : Older(r, t))
    BY DEF FreshOK, Older
  <2>1. Same(d)
    BY <1>2
  <2>2. CASE Same(e)
    BY <2>1, <2>2 DEF Same, FreshOK
  <2>3. CASE pc'[e] \in {"idle", "error"} /\ got'[e] = {} /\ results'[e] = <<>>
    BY <2>3 DEF Older
  <2>4. QED
    BY <1>1, <2>2, <2>3
<1>7. FreshestKept'
  <2> SUFFICES ASSUME enabled, NEW d \in Client, NEW r \in got'[d], NEW t \in store[want'[d]], pc'[d] = "done",
                      NEW i \in DOMAIN r \cap DOMAIN t
               PROVE  r[i].at <= t[i].at
    BY DEF FreshestKept
  <2>1. Same(d)
    BY <1>2
  <2>2. QED
    BY <2>1 DEF Same, FreshestKept
<1>8. QED
  BY <1>3, <1>4, <1>5, <1>6, <1>7

LEMMA FailsKeeps ==
  ASSUME PageInv, NEW c \in Client, QueryFails(c)
  PROVE  PageInv'
<1> USE DEF PageInv
<1> DEFINE D == {c} \cup Cache!Waiting(want[c])
<1>1. /\ pc[c] = "loading" /\ UNCHANGED <<enabled, store, want, got>> /\ UNCHANGED <<rows, todo>>
      /\ pc' = [d \in Client |-> IF d \in D THEN "error" ELSE pc[d]]
      /\ results' = [results EXCEPT ![c] = <<>>]
      /\ faults' \in 0..MaxFaults
  BY BoundAssumption DEF QueryFails, Fault, Cache!Fail, TypeOK
<1>2. \A d \in D : pc[d] \in {"loading", "waiting"} /\ got[d] = {}
  <2>1. \A d \in D : d \in Client /\ pc[d] \in {"loading", "waiting"}
    BY <1>1 DEF Cache!Waiting
  <2>2. QED
    BY <2>1 DEF AnswersOK
<1>3. \A d \in D \ {c} : pc[d] = "waiting" /\ results[d] = <<>>
  <2>1. \A d \in D \ {c} : d \in Client /\ pc[d] = "waiting"
    BY DEF Cache!Waiting
  <2>2. QED
    BY <2>1 DEF TypeOK
<1>4. \A d \in Client : IF d \in D THEN pc'[d] = "error" /\ got'[d] = {} /\ results'[d] = <<>>
                        ELSE pc'[d] = pc[d] /\ want'[d] = want[d] /\ got'[d] = got[d] /\ results'[d] = results[d]
  BY <1>1, <1>2, <1>3 DEF TypeOK
<1> HIDE DEF D
<1>5. TypeOK'
  <2>1. pc' \in [Client -> {"idle", "waiting", "loading", "read", "done", "error"}]
    BY <1>1 DEF TypeOK
  <2>2. results' \in [Client -> Seq(Result)]
    BY <1>1 DEF TypeOK
  <2>3. \A d \in Client : results'[d] # <<>> => pc'[d] = "loading"
    BY <1>4 DEF TypeOK
  <2>4. UNCHANGED <<known, table, measured, vectors, started, version>>
    BY <1>1 DEF rows
  <2>5. QED
    BY <1>1, <2>1, <2>2, <2>3, <2>4 DEF TypeOK
<1>6. QED
  BY <1>1, <1>4, <1>5, EndKeeps

\* Leave and Respond.
LEMMA IdleKeeps ==
  ASSUME PageInv, NEW c \in Client, UNCHANGED <<rows, enabled, store>>,
         pc' = [pc EXCEPT ![c] = "idle"], want' = [want EXCEPT ![c] = Stats], got' = [got EXCEPT ![c] = {}],
         results' = [results EXCEPT ![c] = <<>>], todo' \in [Client -> Seq(Question)], faults' \in 0..MaxFaults
  PROVE  PageInv'
<1> USE DEF PageInv
<1>1. UNCHANGED <<known, table, measured, vectors, started, version>>
  BY DEF rows
<1>2. Stats \in Question
  BY DEF Question
<1>3. pc' \in [Client -> {"idle", "waiting", "loading", "read", "done", "error"}] /\ want' \in [Client -> Question]
  BY <1>2 DEF TypeOK
<1>4. got' \in [Client -> SUBSET Seq(Result)] /\ results' \in [Client -> Seq(Result)]
  BY DEF TypeOK
<1>5. \A d \in Client : IF d = c THEN pc'[d] = "idle" /\ got'[d] = {} /\ results'[d] = <<>>
                        ELSE pc'[d] = pc[d] /\ want'[d] = want[d] /\ got'[d] = got[d] /\ results'[d] = results[d]
  BY DEF TypeOK
<1>6. \A d \in Client : results'[d] # <<>> => pc'[d] = "loading"
  BY <1>5 DEF TypeOK
<1>7. TypeOK'
  BY <1>1, <1>3, <1>4, <1>6 DEF TypeOK
<1>8. QED
  BY <1>5, <1>7, EndKeeps

LEMMA LeaveKeeps ==
  ASSUME PageInv, NEW c \in Client, Leave(c) \/ Respond(c)
  PROVE  PageInv'
<1>1. CASE Leave(c)
  <2>1. /\ UNCHANGED <<rows, enabled, store>> /\ pc' = [pc EXCEPT ![c] = "idle"]
        /\ want' = [want EXCEPT ![c] = Stats] /\ got' = [got EXCEPT ![c] = {}]
        /\ results' = [results EXCEPT ![c] = <<>>] /\ faults' \in 0..MaxFaults
    BY <1>1, BoundAssumption DEF Leave, Cache!Leave, Fault, PageInv, TypeOK
  <2>2. todo' \in [Client -> Seq(Question)]
    BY <1>1 DEF Leave, PageInv, TypeOK
  <2>3. QED
    BY <2>1, <2>2, IdleKeeps
<1>2. CASE Respond(c)
  <2>1. /\ UNCHANGED <<rows, enabled, store, results, faults>> /\ pc' = [pc EXCEPT ![c] = "idle"]
        /\ want' = [want EXCEPT ![c] = Stats] /\ got' = [got EXCEPT ![c] = {}]
        /\ pc[c] \in {"done", "error"}
    BY <1>2 DEF Respond, Cache!Take
  <2>2. todo' \in [Client -> Seq(Question)]
    BY <1>2 DEF Respond, PageInv, TypeOK
  <2>3. results[c] = <<>> /\ results \in [Client -> Seq(Result)] /\ faults \in 0..MaxFaults
    BY <2>1 DEF PageInv, TypeOK
  <2>4. results' = [results EXCEPT ![c] = <<>>]
    BY <2>1, <2>3
  <2>5. QED
    BY <2>1, <2>2, <2>3, <2>4, IdleKeeps
<1>3. QED
  BY <1>1, <1>2

\* A handler's next question, and a waiter that takes over.
LEMMA AskKeeps ==
  ASSUME PageInv, NEW c \in Client, (\E v \in Visits : Visit(c, v)) \/ Continue(c) \/ TakeOver(c)
  PROVE  PageInv'
<1>1. ASSUME NEW v \in Visits, Visit(c, v) PROVE PageInv'
  <2>1. v \in Seq(Question) /\ v # <<>>
    <3>1. \A n \in Neo : [kind |-> "detail", neo |-> n] \in Question /\ [kind |-> "similar", neo |-> n] \in Question
      BY DEF Question, Detail, Similar
    <3>2. Week \in Question
      BY BoundAssumption DEF Week, Question, Period
    <3>3. {Stats, Recent, Speeds, Classes, Weekly, Runs} \cup RunsPage \cup Velocity \cup Detail \cup Similar \subseteq Question
      BY DEF Question, Velocity
    <3>4. \A p, q, r \in Question : {<<p>>, <<p, q>>, <<p, q, r>>} \subseteq Seq(Question) \ {<<>>}
      OBVIOUS
    <3>5. CASE v \in {ApiStats, Landing, CatalogPage} \cup {AsteroidPage(n) : n \in Neo}
      <4>1. Stats \in Question /\ Recent \in Question /\ Speeds \in Question /\ Classes \in Question
        BY <3>3
      <4>2. {ApiStats, Landing, CatalogPage} \subseteq Seq(Question) \ {<<>>}
        BY <3>2, <3>4, <4>1 DEF ApiStats, Landing, CatalogPage
      <4>3. \A n \in Neo : AsteroidPage(n) \in Seq(Question) \ {<<>>}
        BY <3>1, <3>4 DEF AsteroidPage
      <4>4. QED
        BY <3>5, <4>2, <4>3
    <3>6. CASE v \in {<<q>> : q \in {Weekly, Runs} \cup RunsPage \cup Velocity \cup Detail \cup Similar}
      BY <3>3, <3>4, <3>6
    <3>7. QED
      BY <3>5, <3>6 DEF Visits
  <2>2. v[1] \in Question /\ Tail(v) \in Seq(Question)
    BY <2>1
  <2>3. todo' \in [Client -> Seq(Question)]
    BY <1>1, <2>2 DEF Visit, PageInv, TypeOK
  <2>4. /\ pc[c] = "idle" /\ Cache!TryGetWith(c, v[1]) /\ want' = [want EXCEPT ![c] = v[1]]
        /\ UNCHANGED <<rows, enabled, store, results, faults>>
    BY <1>1 DEF Visit, Cache!Request
  <2>5. QED
    BY <2>2, <2>3, <2>4, RequestKeeps
<1>2. CASE Continue(c)
  <2>1. todo[c] \in Seq(Question) /\ todo[c] # <<>>
    BY <1>2 DEF Continue, PageInv, TypeOK
  <2>2. todo[c][1] \in Question /\ Tail(todo[c]) \in Seq(Question)
    BY <2>1
  <2>3. todo' \in [Client -> Seq(Question)]
    BY <1>2, <2>2 DEF Continue, PageInv, TypeOK
  <2>4. /\ pc[c] = "idle" /\ Cache!TryGetWith(c, todo[c][1]) /\ want' = [want EXCEPT ![c] = todo[c][1]]
        /\ UNCHANGED <<rows, enabled, store, results, faults>>
    BY <1>2 DEF Continue, Cache!Request
  <2>5. QED
    BY <2>2, <2>3, <2>4, RequestKeeps
<1>3. CASE TakeOver(c)
  <2>1. want[c] \in Question /\ want = [want EXCEPT ![c] = want[c]] /\ todo \in [Client -> Seq(Question)]
    BY DEF PageInv, TypeOK
  <2>2. /\ pc[c] = "waiting" /\ Cache!TryGetWith(c, want[c]) /\ want' = want /\ todo' = todo
        /\ UNCHANGED <<rows, enabled, store, results, faults>>
    BY <1>3 DEF TakeOver, Cache!Retry
  <2>3. QED
    BY <2>1, <2>2, RequestKeeps
<1>4. QED
  BY <1>1, <1>2, <1>3

LEMMA ExecuteKeeps ==
  ASSUME PageInv, NEW c \in Client, Execute(c)
  PROVE  PageInv'
<1> USE DEF PageInv
<1>1. pc[c] = "loading" /\ UNCHANGED <<rows, todo, faults>>
  BY DEF Execute
<1>2. PICK q \in Question, s \in Seq(Result) : q = want[c] /\ s = results[c] /\ (Len(s) >= 1 => SoFar(q, s))
  BY DEF TypeOK, QueriesOK
<1>3. PICK S \in Statement(q, Len(s) + 1) :
        LET r == Append(s, [rows |-> S, at |-> version])
        IN IF Complete(q, r) THEN Cache!Read(c, r) /\ results' = [results EXCEPT ![c] = <<>>]
                             ELSE results' = [results EXCEPT ![c] = r] /\ UNCHANGED cache
  BY <1>2 DEF Execute
<1> PICK r : r = Append(s, [rows |-> S, at |-> version])
  OBVIOUS
<1>4. /\ r \in Seq(Result) /\ \A i \in DOMAIN r : r[i].at <= version
      /\ \A i \in DOMAIN r : (i \in DOMAIN s /\ r[i] = s[i]) \/ r[i].at = version
      /\ Complete(q, r) => Agrees(q, r)
      /\ ~Complete(q, r) => SoFar(q, r)
  <2>1. TypeOK /\ (Len(s) >= 1 => SoFar(q, s))
    BY <1>2
  <2> HIDE DEF PageInv
  <2>2. QED
    BY <2>1, StatementSound
\* What was answered before is older than what the statement saw.
<1>5. ASSUME enabled, NEW d \in Client, pc[d] = "done", want[d] = q, NEW t \in got[d]
      PROVE  Older(t, r)
  <2>1. Older(t, s)
    BY <1>2, <1>5 DEF FreshOK
  <2>2. \A i \in DOMAIN t : t[i].at <= version
    BY <1>5 DEF AnswersOK, Past
  <2>3. QED
    BY <1>4, <2>1, <2>2 DEF Older
<1>6. UNCHANGED <<known, table, measured, vectors, started, version, todo, faults>>
  BY <1>1 DEF rows
<1>7. CASE Complete(q, r)
  <2>1. /\ UNCHANGED <<enabled, store, want>> /\ pc' = [pc EXCEPT ![c] = "read"]
        /\ got' = [got EXCEPT ![c] = {r}] /\ results' = [results EXCEPT ![c] = <<>>]
    BY <1>3, <1>7 DEF Cache!Read
  <2>2. /\ pc'[c] = "read" /\ got'[c] = {r} /\ results'[c] = <<>> /\ want'[c] = q
        /\ \A d \in Client \ {c} : pc'[d] = pc[d] /\ got'[d] = got[d] /\ results'[d] = results[d] /\ want'[d] = want[d]
    BY <1>2, <2>1 DEF TypeOK
  <2>3. r \in Past(q)
    BY <1>4, <1>7 DEF Past
  <2>4. TypeOK'
    <3>1. pc' \in [Client -> {"idle", "waiting", "loading", "read", "done", "error"}]
      BY <2>1 DEF TypeOK
    <3>2. got' \in [Client -> SUBSET Seq(Result)] /\ results' \in [Client -> Seq(Result)]
      BY <1>4, <2>1 DEF TypeOK
    <3>3. \A d \in Client : results'[d] # <<>> => pc'[d] = "loading"
      BY <2>2 DEF TypeOK
    <3>4. QED
      BY <1>6, <2>1, <3>1, <3>2, <3>3 DEF TypeOK
  <2>5. AnswersOK'
    <3>1. \A k \in Question : store'[k] \subseteq Past(k)' /\ \A u, v \in store'[k] : u = v
      BY <1>1, <2>1, RowsStay DEF AnswersOK
    <3>2. r \in Past(q)' /\ \A u \in got'[c] : u = r
      BY <1>1, <2>2, <2>3, RowsStay
    <3>3. ASSUME NEW d \in Client
          PROVE  (/\ got[d] \subseteq Past(want[d]) /\ \A u, v \in got[d] : u = v
                  /\ pc[d] \notin {"read", "done"} => got[d] = {})'
      <4>1. CASE d = c
        BY <2>2, <3>2, <4>1
      <4>2. CASE d # c
        BY <1>1, <2>2, <4>2, RowsStay DEF AnswersOK
      <4>3. QED
        BY <4>1, <4>2
    <3>4. QED
      BY <3>1, <3>3 DEF AnswersOK
  <2>6. QueriesOK'
    <3>1. Len(results'[c]) = 0
      BY <2>2
    <3>2. \A d \in Client : Len(results'[d]) >= 1 => want'[d] = want[d] /\ results'[d] = results[d]
      BY <2>2, <3>1
    <3>3. QED
      BY <1>1, <3>2, QueriesKept
  <2>7. SharedOK'
    <3>1. \A d \in Client : Busy(d)' = Busy(d)
      BY <1>1, <2>2 DEF Busy
    <3>2. QED
      BY <2>1, <3>1 DEF SharedOK
  <2>8. FreshOK'
    <3> SUFFICES ASSUME enabled, NEW d \in Client, NEW e \in Client, pc'[d] = "done", want'[d] = want'[e],
                        NEW t \in got'[d]
                 PROVE  Older(t, results'[e]) /\ (pc'[e] = "read" => \A u \in got'[e] : Older(t, u))
      BY <2>1 DEF FreshOK, Older
    <3>1. d # c /\ pc[d] = "done" /\ t \in got[d] /\ want[d] = want'[e]
      BY <2>2
    <3>2. CASE e = c
      <4>1. results'[e] = <<>> /\ got'[e] = {r} /\ want[d] = q
        BY <2>2, <3>1, <3>2
      <4>2. Older(t, results'[e])
        BY <4>1 DEF Older
      <4>3. Older(t, r)
        BY <1>5, <2>1, <3>1, <4>1
      <4>4. QED
        BY <4>1, <4>2, <4>3
    <3>3. CASE e # c
      BY <2>2, <3>1, <3>3 DEF FreshOK
    <3>4. QED
      BY <3>2, <3>3
  <2>9. FreshestKept'
    BY <2>1, <2>2 DEF FreshestKept
  <2>10. QED
    BY <2>4, <2>5, <2>6, <2>7, <2>8, <2>9
<1>8. CASE ~Complete(q, r)
  <2>1. UNCHANGED <<enabled, store, pc, want, got>> /\ results' = [results EXCEPT ![c] = r]
    BY <1>3, <1>8 DEF cache
  <2>2. results'[c] = r /\ \A d \in Client \ {c} : results'[d] = results[d]
    BY <2>1 DEF TypeOK
  <2>3. TypeOK'
    <3>1. results' \in [Client -> Seq(Result)]
      BY <1>4, <2>1 DEF TypeOK
    <3>2. \A d \in Client : results'[d] # <<>> => pc'[d] = "loading"
      BY <1>1, <2>1, <2>2 DEF TypeOK
    <3>3. QED
      BY <1>6, <2>1, <3>1, <3>2 DEF TypeOK
  <2>4. AnswersOK'
    BY <1>1, <2>1, RowsStay DEF AnswersOK
  <2>5. QueriesOK'
    <3>1. SoFar(q, r)'
      BY <1>1, <1>4, <1>8, RowsStay
    <3> SUFFICES ASSUME NEW d \in Client, Len(results'[d]) >= 1 PROVE SoFar(want[d], results[d])'
      BY DEF QueriesOK
    <3> DEFINE p == want[d]
               t == results[d]
    <3>2. CASE d = c
      BY <1>2, <2>1, <2>2, <3>1, <3>2
    <3>3. CASE d # c
      <4>1. SoFar(p, t) /\ p' = p /\ t' = t
        BY <2>1, <2>2, <3>3 DEF QueriesOK
      <4> HIDE DEF p, t
      <4>2. SoFar(p, t)'
        BY <1>1, <4>1, RowsStay
      <4>3. QED
        BY <4>2 DEF p, t
    <3>4. QED
      BY <3>2, <3>3
  <2>6. SharedOK' /\ FreshestKept'
    BY <2>1 DEF SharedOK, Busy, FreshestKept
  <2>7. FreshOK'
    <3> SUFFICES ASSUME enabled, NEW d \in Client, NEW e \in Client, pc[d] = "done", want[d] = want[e],
                        NEW t \in got[d]
                 PROVE  Older(t, results'[e]) /\ (pc[e] = "read" => \A u \in got[e] : Older(t, u))
      BY <2>1 DEF FreshOK, Older
    <3>1. CASE e = c
      BY <1>1, <1>2, <1>5, <2>2, <3>1
    <3>2. CASE e # c
      BY <2>2, <3>2 DEF FreshOK
    <3>3. QED
      BY <3>1, <3>2
  <2>8. QED
    BY <2>3, <2>4, <2>5, <2>6, <2>7
<1>9. QED
  BY <1>7, <1>8

\* The answer is stored and given to all that wait for it.
LEMMA AnswerKeeps ==
  ASSUME PageInv, NEW c \in Client, Answer(c)
  PROVE  PageInv'
<1> USE DEF PageInv
<1> DEFINE k == want[c]
           D == {c} \cup Cache!Waiting(k)
<1>1. /\ pc[c] = "read" /\ UNCHANGED <<rows, results, todo, faults, enabled, want>>
      /\ store' = IF enabled THEN [store EXCEPT ![k] = got[c]] ELSE store
      /\ pc' = [d \in Client |-> IF d \in D THEN "done" ELSE pc[d]]
      /\ got' = [d \in Client |-> IF d \in D THEN got[c] ELSE got[d]]
  BY DEF Answer, Cache!Finish
<1>2. k \in Question /\ c \in D /\ \A d \in D : d \in Client /\ want[d] = k /\ (d = c \/ pc[d] = "waiting")
  BY DEF TypeOK, Cache!Waiting
<1>3. \A d \in D : results[d] = <<>>
  BY <1>1, <1>2 DEF TypeOK
<1> HIDE DEF k, D
<1>4. \A d \in Client : IF d \in D THEN pc'[d] = "done" /\ got'[d] = got[c] ELSE pc'[d] = pc[d] /\ got'[d] = got[d]
  BY <1>1
<1>5. got[c] \subseteq Past(k) /\ got[c] \in SUBSET Seq(Result) /\ \A r, t \in got[c] : r = t
  BY DEF AnswersOK, TypeOK, k
<1>6. store' \in [Question -> SUBSET Seq(Result)]
      /\ \A q \in Question : IF enabled /\ q = k THEN store'[q] = got[c] ELSE store'[q] = store[q]
  BY <1>1, <1>2, <1>5 DEF TypeOK
<1>7. UNCHANGED <<known, table, measured, vectors, started, version>>
  BY <1>1 DEF rows
<1>8. TypeOK'
  <2>1. pc' \in [Client -> {"idle", "waiting", "loading", "read", "done", "error"}]
        /\ got' \in [Client -> SUBSET Seq(Result)]
    BY <1>1, <1>5 DEF TypeOK
  <2>2. \A d \in Client : results'[d] # <<>> => pc'[d] = "loading"
    BY <1>1, <1>3, <1>4 DEF TypeOK
  <2>3. QED
    BY <1>1, <1>6, <1>7, <2>1, <2>2 DEF TypeOK
<1>9. AnswersOK'
  BY <1>1, <1>2, <1>4, <1>5, <1>6, RowsStay DEF AnswersOK
<1>10. QueriesOK'
  BY <1>1, QueriesKept

\* Nobody else asks the database for the same key.
<1>11. \A d \in Client : Busy(d)' => Busy(d) /\ d # c /\ (enabled => want[d] # k)
  <2> SUFFICES ASSUME NEW d \in Client, Busy(d)' PROVE Busy(d) /\ d # c /\ (enabled => want[d] # k)
    OBVIOUS
  <2>1. pc'[d] # "done"
    BY DEF Busy
  <2>2. d \notin D /\ pc'[d] = pc[d]
    BY <1>4, <2>1
  <2>3. Busy(d) /\ d # c /\ Busy(c)
    BY <1>1, <1>2, <2>2 DEF Busy
  <2>4. QED
    BY <2>3 DEF SharedOK, k
<1>12. SharedOK'
  <2> SUFFICES ASSUME enabled, NEW d \in Client, Busy(d)'
               PROVE  /\ store'[want[d]] = {}
                      /\ \A e \in Client : Busy(e)' /\ want[e] = want[d] => e = d
    BY <1>1 DEF SharedOK
  <2>1. want[d] \in Question
    BY DEF TypeOK
  <2>2. QED
    BY <1>6, <1>11, <2>1 DEF SharedOK
<1>13. FreshOK'
  <2> SUFFICES ASSUME enabled, NEW d \in Client, NEW e \in Client, pc'[d] = "done", want[d] = want[e],
                      NEW t \in got'[d]
               PROVE  Older(t, results[e]) /\ (pc'[e] = "read" => \A u \in got'[e] : Older(t, u))
    BY <1>1 DEF FreshOK, Older
  <2>1. CASE e \in D
    <3>1. results[e] = <<>> /\ pc'[e] = "done"
      BY <1>3, <1>4, <2>1
    <3>2. QED
      BY <3>1 DEF Older
  <2>2. CASE e \notin D /\ d \in D
    <3>1. want[e] = k
      BY <1>2, <2>2
    <3>2. ~Busy(e)
      <4>1. e # c /\ want[e] = want[c] /\ Busy(c)
        BY <1>1, <1>2, <2>2, <3>1 DEF k, Busy
      <4>2. QED
        BY <4>1 DEF SharedOK
    <3>3. pc'[e] # "read" /\ results[e] = <<>>
      BY <1>4, <2>2, <3>2 DEF Busy, TypeOK
    <3>4. QED
      BY <3>3 DEF Older
  <2>3. CASE e \notin D /\ d \notin D
    BY <1>4, <2>3 DEF FreshOK
  <2>4. QED
    BY <2>1, <2>2, <2>3
<1>14. FreshestKept'
  <2> SUFFICES ASSUME enabled, NEW d \in Client, NEW r \in got'[d], NEW t \in store'[want[d]], pc'[d] = "done",
                      NEW i \in DOMAIN r \cap DOMAIN t
               PROVE  r[i].at <= t[i].at
    BY <1>1 DEF FreshestKept
  <2>1. want[d] \in Question
    BY DEF TypeOK
  <2>2. CASE d \in D
    <3>1. r \in got[c] /\ t \in got[c]
      BY <1>2, <1>4, <1>6, <2>1, <2>2
    <3>2. r = t /\ t \in Seq(Result)
      BY <1>5, <3>1
    <3>3. t[i] \in Result
      BY <3>2
    <3>4. t[i].at \in Nat
      BY <3>3, BoundAssumption DEF Result
    <3>5. QED
      BY <3>2, <3>4
  <2>3. CASE d \notin D /\ want[d] = k
    <3>1. pc[d] = "done" /\ r \in got[d] /\ t \in got[c] /\ want[d] = want[c]
      BY <1>4, <1>6, <2>1, <2>3 DEF k
    <3>2. Older(r, t)
      BY <1>1, <3>1 DEF FreshOK
    <3>3. QED
      BY <3>2 DEF Older
  <2>4. CASE d \notin D /\ want[d] # k
    BY <1>4, <1>6, <2>1, <2>4 DEF FreshestKept
  <2>5. QED
    BY <2>2, <2>3, <2>4
<1>15. QED
  BY <1>8, <1>9, <1>10, <1>12, <1>13, <1>14

LEMMA ExpireKeeps ==
  ASSUME PageInv, NEW q \in Question, Expire(q)
  PROVE  PageInv'
<1> USE DEF PageInv
<1>1. UNCHANGED <<rows, results, todo, faults, enabled, pc, want, got>> /\ store' = [store EXCEPT ![q] = {}]
  BY DEF Expire, Cache!Expire
<1>2. store' \in [Question -> SUBSET Seq(Result)] /\ \A k \in Question : store'[k] = {} \/ store'[k] = store[k]
  BY <1>1 DEF TypeOK
<1>3. UNCHANGED <<known, table, measured, vectors, started, version>>
  BY <1>1 DEF rows
<1>4. \A c \in Client : want[c] \in Question
  BY DEF TypeOK
<1>5. TypeOK'
  BY <1>1, <1>2, <1>3 DEF TypeOK
<1>6. AnswersOK'
  BY <1>1, <1>2, RowsStay DEF AnswersOK
<1>7. QueriesOK'
  BY <1>1, QueriesKept
<1>8. SharedOK' /\ FreshOK' /\ FreshestKept'
  BY <1>1, <1>2, <1>4 DEF SharedOK, Busy, FreshOK, Older, FreshestKept
<1>9. QED
  BY <1>5, <1>6, <1>7, <1>8
-----------------------------------------------------------------------------
(***************************************************************************)
(* The theorems.                                                           *)
(***************************************************************************)
LEMMA PageStart == Init => PageInv
<1> SUFFICES ASSUME Init PROVE PageInv
  OBVIOUS
<1>1. /\ store = [k \in Question |-> {}] /\ pc = [c \in Client |-> "idle"] /\ want = [c \in Client |-> Stats]
      /\ got = [c \in Client |-> {}] /\ results = [c \in Client |-> <<>>] /\ enabled \in BOOLEAN
  BY DEF Init, Cache!Empty
<1>2. /\ known \subseteq Neo /\ table \subseteq {a \in Approach : Of[a] \in known} /\ measured \subseteq known
      /\ vectors \subseteq known /\ version \in 0..MaxChanges /\ started \in [File -> 0..MaxChanges + 1]
      /\ faults \in 0..MaxFaults /\ todo = [c \in Client |-> <<>>]
  <2>1. 0..1 \subseteq 0..MaxChanges + 1 /\ 0 \in 0..MaxChanges /\ 0 \in 0..MaxFaults
    BY BoundAssumption
  <2>2. QED
    BY <2>1 DEF Init
<1>3. Stats \in Question
  BY DEF Question
<1>4. TypeOK
  BY <1>1, <1>2, <1>3 DEF TypeOK
<1>5. AnswersOK /\ SharedOK /\ FreshOK /\ FreshestKept
  BY <1>1, <1>3 DEF AnswersOK, SharedOK, Busy, FreshOK, FreshestKept
<1>6. QueriesOK
  <2>1. \A c \in Client : Len(results[c]) = 0
    BY <1>1
  <2>2. QED
    BY <2>1 DEF QueriesOK
<1>7. QED
  BY <1>4, <1>5, <1>6 DEF PageInv

LEMMA PageStep == PageInv /\ [Next]_vars => PageInv'
<1> SUFFICES ASSUME PageInv, [Next]_vars PROVE PageInv'
  OBVIOUS
<1>1. CASE UNCHANGED vars
  <2>1. UNCHANGED <<rows, enabled, store, pc, want, got, results, todo, faults>>
    BY <1>1 DEF vars, cache
  <2>2. TypeOK'
    BY <2>1 DEF rows, PageInv, TypeOK
  <2>3. QED
    BY <2>1, <2>2, EndKeeps
<1>2. CASE \/ \E a \in Approach : Load(a) \/ Prune(a)
           \/ \E n \in Neo : Measure(n) \/ Vectorize(n)
           \/ \E f \in File : StartLoad(f) \/ PruneRun(f)
  BY <1>2, RowsStep
<1>3. ASSUME NEW c \in Client, (\E v \in Visits : Visit(c, v)) \/ Continue(c) \/ TakeOver(c) PROVE PageInv'
  BY <1>3, AskKeeps
<1>4. ASSUME NEW c \in Client, Execute(c) PROVE PageInv'
  BY <1>4, ExecuteKeeps
<1>5. ASSUME NEW c \in Client, QueryFails(c) PROVE PageInv'
  BY <1>5, FailsKeeps
<1>6. ASSUME NEW c \in Client, Answer(c) PROVE PageInv'
  BY <1>6, AnswerKeeps
<1>7. ASSUME NEW c \in Client, Leave(c) \/ Respond(c) PROVE PageInv'
  BY <1>7, LeaveKeeps
<1>8. ASSUME NEW q \in Question, Expire(q) PROVE PageInv'
  BY <1>8, ExpireKeeps
<1>9. QED
  BY <1>1, <1>2, <1>3, <1>4, <1>5, <1>6, <1>7, <1>8 DEF Next

LEMMA PageAlways == Spec => []PageInv
BY PageStart, PageStep, PTL DEF Spec

\* Rows are of the kinds the tables have, and an unfinished result belongs to a query
\* under way.
THEOREM PagesHaveTypes == Spec => []TypeOK
<1>1. PageInv => TypeOK
  BY DEF PageInv
<1>2. QED
  BY <1>1, PageAlways, PTL

LEMMA AnswersAgree ==
  ASSUME PageInv, NEW c \in Client, NEW r \in got[c]
  PROVE  Agrees(want[c], r)
BY DEF PageInv, AnswersOK, Past

\* get_stats, get_weekly_summary, get_paginated_etl_runs: whatever changes between the
\* statements, the numbers of one answer differ by no more than has changed.
THEOREM NumbersAgree == Spec => []CountsAgree
<1>1. PageInv => CountsAgree
  BY AnswersAgree DEF CountsAgree, Agrees
<1>2. QED
  BY <1>1, PageAlways, PTL

\* get_detail: the latest approach heads the history below it.
THEOREM PageIsConsistent == Spec => []DetailAgrees
<1>1. PageInv => DetailAgrees
  BY AnswersAgree DEF DetailAgrees, Agrees, DetailSound
<1>2. QED
  BY <1>1, PageAlways, PTL

\* get_detail: fetch_one of the elements finds its row.
THEOREM FoundAreShown == Spec => []FoundHasPage
<1>1. PageInv => FoundHasPage
  BY AnswersAgree DEF FoundHasPage, Agrees, DetailSound
<1>2. QED
  BY <1>1, PageAlways, PTL

\* try_get_with: what the cache holds is no older, statement by statement, than what
\* anybody has been given.
THEOREM NewestIsKept == Spec => []FreshestKept
<1>1. PageInv => FreshestKept
  BY DEF PageInv
<1>2. QED
  BY <1>1, PageAlways, PTL
=============================================================================
