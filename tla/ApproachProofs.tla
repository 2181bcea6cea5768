--------------------------- MODULE ApproachProofs ---------------------------
(***************************************************************************)
(* Proofs about HazardRules and ApproachPaging for any facts, approaches,  *)
(* page sizes, clients and word size: the classes follow the danger; an    *)
(* answer belongs to its question; its labels are right unless the rows    *)
(* changed between its two statements; the landing page shows the most     *)
(* hazardous approaches first, where an asteroid is as it was when they    *)
(* were classified; NEXT leads to rows.                                    *)
(***************************************************************************)
EXTENDS ApproachPaging, FiniteSetTheorems, FunctionTheorems, SequenceTheorems, WellFoundedInduction, TLAPS

\* classify_hazard: what is as dangerous in every respect is not called less so.
THEOREM ClassesFollowDanger ==
  ASSUME NEW f \in Facts, NEW g \in Facts, Outranks(f, g)
  PROVE  Severity(Classify(f)) >= Severity(Classify(g))
BY DEF Outranks, Classify, Severity, Facts

\* calculate_page_range: the buttons lead to pages there are, this one among them.
THEOREM ButtonsLeadToPages ==
  ASSUME NEW current \in Page, NEW total \in Page, current \in 1..total, current + 2 < Word
  PROVE  /\ PageRange(current, total) \subseteq 1..total
         /\ current \in PageRange(current, total)
<1>1. (current + 2) % Word = current + 2
  BY ApproachAssumption DEF Page
<1>2. QED
  BY <1>1 DEF PageRange, Page
-----------------------------------------------------------------------------
(***************************************************************************)
(* The statements.                                                         *)
(***************************************************************************)
RowsOK ==
  \A a \in Approach : \A r \in table[a] : r.id = a /\ r.fact \in Facts /\ r.class \in Class

\* An asteroid refreshed is one NeoWs may tell of.
LEMMA RefreshedIsFact ==
  ASSUME NEW g \in Facts, NEW f \in Facts
  PROVE  Refreshed(g, f) \in Facts
BY DEF Refreshed, Facts

\* There are as many rows as approaches at most.
LEMMA RowsFinite ==
  ASSUME TypeOK, NEW view \in View
  PROVE  /\ IsFiniteSet(Listing(view)) /\ Cardinality(Listing(view)) \in Nat
         /\ Listing(view) \subseteq Row
<1>1. ASSUME NEW a \in Approach PROVE IsFiniteSet(table[a])
  <2>1. table[a] = {} \/ \E x : table[a] = {x}
    BY DEF TypeOK, AtMostOne, IsSingleton
  <2>2. QED
    BY <2>1, FS_EmptySet, FS_Singleton
<1>2. IsFiniteSet({table[a] : a \in Approach})
  <2>1. table \in Surjection(Approach, {table[a] : a \in Approach})
    BY DEF TypeOK, Surjection
  <2>2. QED
    BY <2>1, FS_Surjection, ApproachAssumption
<1>3. IsFiniteSet(UNION {table[a] : a \in Approach})
  BY <1>1, <1>2, FS_UNION
<1>4. IsFiniteSet(Listing(view))
  BY <1>3, FS_Subset DEF Listing
<1>5. Listing(view) \subseteq Row
  BY DEF Listing, TypeOK
<1>6. QED
  BY <1>4, <1>5, FS_CardinalityType

\* Where nothing wraps around, the offset is that of the rows of the pages before.
LEMMA OffsetExact ==
  ASSUME NEW q \in Params
  PROVE  /\ q.page \in Nat /\ q.size \in Nat
         /\ Offset(q) \in Nat
         /\ Fits(q) => Offset(q) = (q.page - 1) * q.size
<1>1. q.page \in Nat /\ q.size \in Nat
  <2>1. Page \subseteq Nat
    BY ApproachAssumption DEF Page
  <2>2. q.page \in Page /\ q.size \in Page
    BY ApproachAssumption DEF Params, Size
  <2>3. QED
    BY <2>1, <2>2
<1>2. (q.page - 1) * q.size \in Int
  BY <1>1
<1>3. Offset(q) \in Nat
  BY <1>2, ApproachAssumption DEF Offset
<1>4. ASSUME Fits(q) PROVE Offset(q) = (q.page - 1) * q.size
  <2>1. (q.page - 1) * q.size = q.page * q.size - q.size
    BY <1>1
  <2>2. q.page * q.size \in Nat
    BY <1>1
  <2>3. (q.page - 1) * q.size \in Nat
    <3>1. q.page - 1 \in Nat
      BY <1>1, <1>4 DEF Fits
    <3>2. QED
      BY <1>1, <3>1
  <2>4. (q.page - 1) * q.size < Word
    BY <1>1, <1>4, <2>1, <2>2, <2>3, ApproachAssumption DEF Fits
  <2>5. \A x \in Nat : x < Word => x % Word = x
    BY ApproachAssumption
  <2>6. QED
    BY <2>3, <2>4, <2>5 DEF Offset
<1>5. QED
  BY <1>1, <1>3, <1>4

\* What LIMIT and OFFSET leave of a sequence.
LEMMA CutParts ==
  ASSUME NEW S, NEW n \in Nat, NEW s \in [1..n -> S], NEW q \in Params
  PROVE  /\ Cut(s, q) \in Seq(S)
         /\ Len(Cut(s, q)) = IF n <= Offset(q) THEN 0
                             ELSE IF n < Offset(q) + q.size THEN n - Offset(q) ELSE q.size
         /\ \A i \in DOMAIN Cut(s, q) : Offset(q) + i \in 1..n /\ Cut(s, q)[i] = s[Offset(q) + i]
<1>1. q.size \in Nat /\ Offset(q) \in Nat
  BY OffsetExact
<1>2. s \in Seq(S) /\ Len(s) = n
  OBVIOUS
<1>3. CASE Offset(q) + q.size < n
  <2>1. Cut(s, q) = SubSeq(s, Offset(q) + 1, Offset(q) + q.size)
    BY <1>2, <1>3 DEF Cut
  <2>2. CASE q.size = 0
    <3>1. Cut(s, q) = SubSeq(s, Offset(q) + 1, Offset(q))
      BY <1>1, <2>1, <2>2
    <3>2. Cut(s, q) = << >>
      BY <1>1, <1>2, <3>1
    <3>3. QED
      BY <1>1, <1>3, <2>2, <3>2
  <2>3. CASE q.size # 0
    <3> DEFINE o == Offset(q)
               z == q.size
    <3>1. o \in Nat /\ z \in Nat /\ z # 0 /\ o + z < n /\ Cut(s, q) = SubSeq(s, o + 1, o + z)
      BY <1>1, <1>3, <2>1, <2>3
    <3> HIDE DEF o, z
    <3>2. \A i \in o + 1..o + z : i \in 1..n
      BY <3>1
    <3>3. \A i \in o + 1..o + z : s[i] \in S
      BY <3>2
    <3>4. /\ Cut(s, q) \in Seq(S)
          /\ Len(Cut(s, q)) = z
          /\ \A i \in 1..z : Cut(s, q)[i] = s[o + i]
      <4> DEFINE f == o + 1
                 l == o + z
      <4>1. f \in Int /\ l \in Int /\ f <= l /\ l - f + 1 = z /\ \A i \in 1..z : f + i - 1 = o + i
        BY <3>1
      <4>2. \A i \in f..l : s[i] \in S
        BY <3>3
      <4>3. Cut(s, q) = SubSeq(s, f, l)
        BY <3>1
      <4> HIDE DEF f, l
      <4>4. /\ SubSeq(s, f, l) \in Seq(S)
            /\ Len(SubSeq(s, f, l)) = IF f <= l THEN l - f + 1 ELSE 0
            /\ \A i \in 1..l - f + 1 : SubSeq(s, f, l)[i] = s[f + i - 1]
        BY <4>1, <4>2, SubSeqProperties
      <4>5. QED
        BY <4>1, <4>3, <4>4
    <3>5. DOMAIN Cut(s, q) = 1..z /\ \A i \in 1..z : o + i \in 1..n
      BY <3>1, <3>4
    <3>6. /\ Len(Cut(s, q)) = IF n <= o THEN 0 ELSE IF n < o + z THEN n - o ELSE z
          /\ \A i \in DOMAIN Cut(s, q) : o + i \in 1..n /\ Cut(s, q)[i] = s[o + i]
      BY <3>1, <3>4, <3>5
    <3>7. QED
      BY <3>4, <3>6 DEF o, z
  <2>4. QED
    BY <2>2, <2>3
<1>4. CASE ~(Offset(q) + q.size < n) /\ Offset(q) < n
  <2> DEFINE o == Offset(q)
             z == q.size
             u == Cut(s, q)
  <2>1. o \in Nat /\ z \in Nat /\ o < n /\ ~(o + z < n) /\ u = SubSeq(s, o + 1, n)
    BY <1>1, <1>2, <1>4 DEF Cut
  <2>2. \A i \in o + 1..n : i \in 1..n /\ s[i] \in S
    BY <2>1
  <2>3. /\ u \in Seq(S) /\ Len(u) = n - o
        /\ \A i \in 1..n - o : u[i] = s[o + i]
    <3>1. PICK m \in Nat : m = o + 1 /\ m <= n
      BY <2>1
    <3> HIDE DEF u, o
    <3>2. u = SubSeq(s, m, n) /\ \A i \in m..n : s[i] \in S
      BY <2>1, <2>2, <3>1
    <3>3. /\ SubSeq(s, m, n) \in Seq(S)
          /\ Len(SubSeq(s, m, n)) = IF m <= n THEN n - m + 1 ELSE 0
          /\ \A i \in 1..n - m + 1 : SubSeq(s, m, n)[i] = s[m + i - 1]
      BY <3>1, <3>2, SubSeqProperties
    <3>4. n - m + 1 = n - o /\ \A i \in 1..n - o : m + i - 1 = o + i
      BY <2>1, <3>1
    <3>5. QED
      BY <3>1, <3>2, <3>3, <3>4
  <2> HIDE DEF u, o, z
  <2>4. DOMAIN u = 1..n - o /\ \A i \in 1..n - o : o + i \in 1..n
    BY <2>1, <2>3
  <2>5. /\ Len(u) = IF n <= o THEN 0 ELSE IF n < o + z THEN n - o ELSE z
        /\ \A i \in DOMAIN u : o + i \in 1..n /\ u[i] = s[o + i]
    BY <2>1, <2>3, <2>4
  <2>6. QED
    BY <2>3, <2>5 DEF u, o, z
<1>5. CASE ~(Offset(q) < n)
  <2>1. Cut(s, q) = SubSeq(s, Offset(q) + 1, n)
    BY <1>1, <1>2, <1>5 DEF Cut
  <2>2. Cut(s, q) = << >>
    BY <1>1, <1>2, <1>5, <2>1
  <2>3. QED
    BY <1>1, <1>5, <2>2
<1>6. QED
  BY <1>1, <1>3, <1>4, <1>5
-----------------------------------------------------------------------------
(***************************************************************************)
(* The invariant: what is stored or given to a handler answers its key,    *)
(* a count that is as old as the rows is right.                            *)
(***************************************************************************)
\* p may stand before r on the landing page.
Safe(p, r) ==
  /\ \E m \in 1..4 : p.class = Ladder[m] /\ r.class \in {Ladder[n] : n \in m..4}
  /\ Current(p) /\ Current(r) /\ Outranks(r.fact, p.fact) => p.fact.miss = r.fact.miss

Nearest(t) ==
  t.asked.view = "landing" =>
    \A i, j \in DOMAIN t.rows : i < j => Safe(t.rows[i], t.rows[j])

Expected(total, q) ==
  IF total <= (q.page - 1) * q.size THEN 0
  ELSE IF total < (q.page - 1) * q.size + q.size THEN total - (q.page - 1) * q.size ELSE q.size

Labelled(t) == Fits(t.asked) /\ t.countedAt = t.at => Len(t.rows) = Expected(t.total, t.asked)

Good(t, k) == ApproachQueryKey(t.asked) = k /\ Labelled(t) /\ Nearest(t)

AskedOK ==
  \A c \in Client :
    /\ want[c] = ApproachQueryKey(asked[c])
    /\ c \in Walker => asked[c].size = PageSize
    /\ pc[c] \notin {"read", "done"} => got[c] = {}

CountsOK ==
  \A c \in Client : \A n \in counted[c] :
    n.at = version => n.total = Cardinality(Listing(asked[c].view))

GoodStore == \A k \in Key : \A t \in store[k] : Good(t, k)
GoodAnswers == \A c \in Client : \A t \in got[c] : Good(t, want[c])
AnswersOK == GoodStore /\ GoodAnswers

ApproachInv == TypeOK /\ RowsOK /\ AskedOK /\ CountsOK /\ AnswersOK

\* The key tells all parameters apart.
LEMMA KeyTells ==
  ASSUME NEW p \in Params, NEW q \in Params
  PROVE  /\ ApproachQueryKey(p) \in Key
         /\ ApproachQueryKey(p) = ApproachQueryKey(q) => p = q
BY DEF Params, ApproachQueryKey, Key

LEMMA ApproachInit == Init => ApproachInv
<1> SUFFICES ASSUME Init PROVE ApproachInv
  OBVIOUS
<1> USE DEF Init, Cache!Empty
<1>1. NoParams \in Params /\ IdleKey \in Key /\ NoParams.size = PageSize
  BY ApproachAssumption DEF NoParams, IdleKey, ApproachQueryKey, Params, Key, Page, Size, View
<1>2. ASSUME NEW a \in Approach
      PROVE  /\ table[a] \subseteq Row /\ AtMostOne(table[a])
             /\ \A r \in table[a] : r.id = a /\ r.fact \in Facts /\ r.class \in Class
  <2>1. table[a] = {} \/ \E b \in Approach, g, f \in Fact :
          table[a] = {Stored(b, g, f)}
    OBVIOUS
  <2>2. CASE table[a] = {}
    BY <2>2 DEF AtMostOne
  <2>3. ASSUME NEW b \in Approach, NEW g \in Fact, NEW f \in Fact,
               table[a] = {Stored(b, g, f)}
        PROVE  /\ table[a] \subseteq Row /\ AtMostOne(table[a])
               /\ \A r \in table[a] : r.id = a /\ r.fact \in Facts /\ r.class \in Class
    <3>1. Refreshed(g, f) \in Facts /\ Classify(g) \in Class
      BY RefreshedIsFact, ApproachAssumption DEF Classify, Class
    <3>2. 0 \in 0..version
      OBVIOUS
    <3>3. Stored(b, g, f) \in Row /\ Stored(b, g, f).fact \in Facts /\ Stored(b, g, f).class \in Class
      BY <3>1, <3>2 DEF Row, Stored
    <3>4. \A r \in table[a] : r.id = a
      OBVIOUS
    <3>5. QED
      BY <2>3, <3>3, <3>4 DEF AtMostOne, IsSingleton
  <2>4. QED
    BY <2>1, <2>2, <2>3
<1>3. version \in 0..MaxChanges /\ faults \in 0..MaxFaults /\ changed \in [Approach -> 0..version]
  BY ApproachAssumption
<1>4. table \in [Approach -> SUBSET Row] /\ \A a \in Approach : AtMostOne(table[a])
  <2>1. table = [a \in Approach |-> table[a]]
    OBVIOUS
  <2>2. QED
    BY <1>2, <2>1
<1>5. TypeOK /\ RowsOK
  BY <1>1, <1>2, <1>3, <1>4 DEF TypeOK, AtMostOne, RowsOK
<1>6. AskedOK /\ CountsOK /\ AnswersOK
  BY <1>1 DEF AskedOK, CountsOK, AnswersOK, GoodStore, GoodAnswers, IdleKey
<1>7. QED
  BY <1>5, <1>6 DEF ApproachInv
-----------------------------------------------------------------------------
\* Rows of the landing page: the order of the listing is the order of danger.
LEMMA ListingIsSafe ==
  ASSUME ApproachInv, NEW p \in Listing("landing"), NEW r \in Listing("landing"),
         ~Precedes("landing", r, p)
  PROVE  Safe(p, r)
<1>1. /\ p.fact \in Facts /\ r.fact \in Facts
      /\ p.class \in Class /\ r.class \in Class
  BY DEF ApproachInv, RowsOK, Listing
<1>2. Severity(r.class) \in Int /\ Severity(p.class) \in Int
  BY DEF Severity
<1>3. ~(Severity(r.class) > Severity(p.class))
  BY DEF Precedes, Column
<1>4. ~(Severity(r.class) = Severity(p.class) /\ r.fact.miss < p.fact.miss)
  BY DEF Precedes, Column
<1>5. \E m \in 1..4 : p.class = Ladder[m] /\ r.class \in {Ladder[n] : n \in m..4}
  <2>1. ASSUME NEW k \in Class PROVE Ladder[5 - Severity(k)] = k /\ Severity(k) \in 1..4
    BY DEF Class, Ladder, Severity
  <2>2. 5 - Severity(p.class) \in 1..4 /\ 5 - Severity(r.class) \in (5 - Severity(p.class))..4
    BY <1>1, <1>2, <1>3, <2>1
  <2>3. QED
    BY <1>1, <2>1, <2>2
<1>6. ASSUME Current(p), Current(r), Outranks(r.fact, p.fact) PROVE p.fact.miss = r.fact.miss
  <2>1. Severity(r.class) >= Severity(p.class)
    BY <1>1, <1>6, ClassesFollowDanger DEF Current
  <2>2. r.fact.miss <= p.fact.miss /\ r.fact.miss \in Int /\ p.fact.miss \in Int
    BY <1>1, <1>6 DEF Outranks, Facts
  <2>3. QED
    BY <1>2, <1>3, <1>4, <2>1, <2>2
<1>7. QED
  BY <1>5, <1>6 DEF Safe

\* What the second statement brings together.
LEMMA FetchIsGood ==
  ASSUME ApproachInv, NEW c \in Client, NEW n \in counted[c], NEW s \in Orders(asked[c].view),
         NEW t, t = [asked |-> asked[c], total |-> n.total, countedAt |-> n.at,
                     rows |-> Cut(s, asked[c]), at |-> version]
  PROVE  t \in AnswerType /\ Good(t, want[c])
<1> USE DEF ApproachInv
<1> DEFINE q == asked[c]
           L == Listing(q.view)
<1>1. q \in Params /\ q.view \in View
  BY DEF TypeOK, Params
<1>2. Cardinality(L) \in Nat /\ L \subseteq Row
  BY <1>1, RowsFinite
<1>3. s \in [1..Cardinality(L) -> L]
  BY DEF Orders
<1>4. /\ Cut(s, q) \in Seq(L)
      /\ Len(Cut(s, q)) = IF Cardinality(L) <= Offset(q) THEN 0
                          ELSE IF Cardinality(L) < Offset(q) + q.size THEN Cardinality(L) - Offset(q) ELSE q.size
      /\ \A i \in DOMAIN Cut(s, q) : Offset(q) + i \in 1..Cardinality(L) /\ Cut(s, q)[i] = s[Offset(q) + i]
  <2> DEFINE N == Cardinality(L)
  <2>1. q \in Params /\ N \in Nat /\ s \in [1..N -> L]
    BY <1>1, <1>2, <1>3
  <2> HIDE DEF q, L, N
  <2>2. /\ Cut(s, q) \in Seq(L)
        /\ Len(Cut(s, q)) = IF N <= Offset(q) THEN 0
                            ELSE IF N < Offset(q) + q.size THEN N - Offset(q) ELSE q.size
        /\ \A i \in DOMAIN Cut(s, q) : Offset(q) + i \in 1..N /\ Cut(s, q)[i] = s[Offset(q) + i]
    BY <2>1, CutParts
  <2>3. QED
    BY <2>2 DEF N
<1>5. version \in Nat /\ n.at \in 0..version /\ n.total \in Nat
  BY DEF TypeOK
<1>6. t \in AnswerType
  <2>1. Cut(s, q) \in Seq(Row)
    BY <1>2, <1>4
  <2>2. QED
    BY <1>1, <1>5, <2>1 DEF AnswerType
<1>7. Labelled(t)
  <2> SUFFICES ASSUME Fits(q), n.at = version PROVE Len(Cut(s, q)) = Expected(n.total, q)
    BY DEF Labelled
  <2>1. n.total = Cardinality(L)
    BY DEF CountsOK
  <2>2. Offset(q) = (q.page - 1) * q.size
    BY <1>1, OffsetExact
  <2>3. QED
    BY <1>4, <2>1, <2>2 DEF Expected
<1>8. Nearest(t)
  <2> SUFFICES ASSUME q.view = "landing", NEW i \in DOMAIN Cut(s, q), NEW j \in DOMAIN Cut(s, q), i < j
               PROVE  Safe(Cut(s, q)[i], Cut(s, q)[j])
    BY DEF Nearest
  <2>1. i \in Nat /\ j \in Nat /\ Offset(q) \in Nat
    BY <1>1, <1>4, OffsetExact
  <2> DEFINE x == Offset(q) + i
             y == Offset(q) + j
  <2>2. x < y /\ x \in DOMAIN s /\ y \in DOMAIN s /\ Cut(s, q)[i] = s[x] /\ Cut(s, q)[j] = s[y]
    BY <1>3, <1>4, <2>1
  <2>3. ~Precedes("landing", s[y], s[x])
    <3>1. \A k, l \in DOMAIN s : k < l => ~Precedes(q.view, s[l], s[k])
      BY DEF Orders
    <3>2. QED
      BY <2>2, <3>1
  <2>4. s[x] \in Listing("landing") /\ s[y] \in Listing("landing")
    BY <1>3, <2>2
  <2>5. QED
    BY <2>2, <2>3, <2>4, ListingIsSafe
<1>9. ApproachQueryKey(q) = want[c]
  BY DEF AskedOK
<1>10. QED
  BY <1>6, <1>7, <1>8, <1>9 DEF Good
-----------------------------------------------------------------------------
\* A request finds a good answer in the store, or none.
LEMMA RequestKeeps ==
  ASSUME ApproachInv, NEW c \in Client, NEW k \in Key, Cache!TryGetWith(c, k),
         pc[c] \in {"idle", "waiting"}, want' = [want EXCEPT ![c] = k], UNCHANGED version
  PROVE  /\ pc' \in [Client -> {"idle", "waiting", "loading", "read", "done", "error"}]
         /\ want' \in [Client -> Key]
         /\ got' \in [Client -> SUBSET AnswerType] /\ AnswerType' = AnswerType
         /\ GoodAnswers'
         /\ \A d \in Client : pc'[d] \notin {"read", "done"} => got'[d] = {}
         /\ \A d \in Client \ {c} : pc'[d] = pc[d]
<1> USE DEF ApproachInv, TypeOK
<1>1. AnswerType' = AnswerType
  BY DEF AnswerType, Row
<1>2. got[c] = {}
  BY DEF AskedOK
<1>3. CASE pc' = [pc EXCEPT ![c] = "done"] /\ got' = [got EXCEPT ![c] = store[k]]
  <2>1. \A t \in store[k] : Good(t, k)
    BY DEF AnswersOK, GoodStore
  <2>2. GoodAnswers'
    BY <1>3, <2>1 DEF AnswersOK, GoodAnswers, Good, Labelled, Nearest
  <2>3. QED
    BY <1>1, <1>3, <2>2 DEF AskedOK
<1>4. ASSUME NEW l \in {"waiting", "loading"}, pc' = [pc EXCEPT ![c] = l], UNCHANGED got
      PROVE  /\ pc' \in [Client -> {"idle", "waiting", "loading", "read", "done", "error"}]
             /\ GoodAnswers'
             /\ \A d \in Client : pc'[d] \notin {"read", "done"} => got'[d] = {}
             /\ \A d \in Client \ {c} : pc'[d] = pc[d]
  <2>1. GoodAnswers'
    BY <1>2, <1>4 DEF AnswersOK, GoodAnswers, Good, Labelled, Nearest
  <2>2. QED
    BY <1>2, <1>4, <2>1 DEF AskedOK
<1>5. QED
  BY <1>1, <1>3, <1>4 DEF Cache!TryGetWith

\* While the rows stay, so does what the views list.
LEMMA ListingKept ==
  ASSUME UNCHANGED <<table, scored>>
  PROVE  \A v : Listing(v)' = Listing(v)
BY DEF Listing, Filter

\* Asking a question keeps the invariant.
LEMMA AskKeeps ==
  ASSUME ApproachInv, NEW c \in Client, NEW q \in Params, c \in Walker => q.size = PageSize, Ask(c, q)
  PROVE  ApproachInv'
<1> USE DEF ApproachInv, Ask, Cache!Request, rows, request
<1>1. ApproachQueryKey(q) \in Key
  BY KeyTells
<1>2. /\ pc' \in [Client -> {"idle", "waiting", "loading", "read", "done", "error"}]
      /\ want' \in [Client -> Key]
      /\ got' \in [Client -> SUBSET AnswerType] /\ AnswerType' = AnswerType
      /\ GoodAnswers'
      /\ \A d \in Client : pc'[d] \notin {"read", "done"} => got'[d] = {}
      /\ \A d \in Client \ {c} : pc'[d] = pc[d]
  BY <1>1, RequestKeeps
<1>3. counted[c] = {}
  BY DEF TypeOK
<1>4. TypeOK'
  BY <1>2, <1>3 DEF TypeOK, Row
<1>5. RowsOK'
  BY DEF RowsOK
<1>6. AskedOK'
  BY <1>2 DEF AskedOK, TypeOK
<1>7. CountsOK'
  <2>1. ASSUME NEW d \in Client, NEW n \in counted[d] PROVE asked'[d] = asked[d]
    BY <1>3, <2>1 DEF TypeOK
  <2>2. QED
    BY <2>1, ListingKept DEF CountsOK
<1>8. AnswersOK'
  BY <1>2 DEF AnswersOK, GoodStore, Good, Labelled, Nearest
<1>9. QED
  BY <1>4, <1>5, <1>6, <1>7, <1>8
-----------------------------------------------------------------------------
\* A request of the table, the landing page or the API has parameters.
LEMMA ParamsExist ==
  ASSUME NEW p \in Int, NEW v \in View
  PROVE  /\ Table(p % Word, v) \in Params /\ Table(p % Word, v).size = PageSize
         /\ Table(1, v) \in Params /\ Table(1, v).size = PageSize
<1>1. p % Word \in Page /\ 1 \in Page
  BY ApproachAssumption DEF Page
<1>2. QED
  BY <1>1 DEF Table, Params, Size

LEMMA ShownIsAnswer ==
  ASSUME TypeOK, NEW c \in Client, trail[c] # <<>>
  PROVE  Shown(c).asked.page \in Int /\ Shown(c).asked.view \in View
<1>1. Shown(c) \in AnswerType
  BY DEF TypeOK, Shown
<1>2. Shown(c).asked \in Params
  BY <1>1 DEF AnswerType
<1>3. Page \subseteq Int
  BY ApproachAssumption DEF Page
<1>4. QED
  BY <1>2, <1>3 DEF Params

\* A change of the rows makes every count older than they are.
LEMMA ChangeKeeps ==
  ASSUME ApproachInv, NEW a \in Approach, Changes(a), RowsOK',
         table' \in [Approach -> SUBSET Row'], \A b \in Approach : AtMostOne(table'[b]),
         scored' \subseteq Approach, gone' \subseteq Row'
  PROVE  ApproachInv'
<1> USE DEF ApproachInv, Changes, request, cache, client
<1>1. version \in Nat /\ version' = version + 1 /\ version' \in 0..MaxChanges
  BY ApproachAssumption DEF TypeOK
<1>2. AnswerType \subseteq AnswerType'
  <2>1. 0..version \subseteq 0..version'
    BY <1>1
  <2>2. Row \subseteq Row'
    BY <2>1 DEF Row
  <2>3. \A x \in Seq(Row) : x \in Seq(Row')
    BY <2>2
  <2>4. QED
    BY <2>1, <2>3 DEF AnswerType
<1>3. TypeOK'
  <2>1. changed' \in [Approach -> 0..version']
    BY <1>1 DEF TypeOK
  <2>2. store' \in [Key -> SUBSET AnswerType'] /\ got' \in [Client -> SUBSET AnswerType']
    BY <1>2 DEF TypeOK
  <2>3. counted' \in [Client -> SUBSET [total : Nat, at : 0..version']]
    <3>1. [total : Nat, at : 0..version] \subseteq [total : Nat, at : 0..version']
      BY <1>1
    <3>2. QED
      BY <3>1 DEF TypeOK
  <2>4. trail' \in [Client -> Seq(AnswerType')]
    <3>1. \A x \in Seq(AnswerType) : x \in Seq(AnswerType')
      BY <1>2
    <3>2. QED
      BY <3>1 DEF TypeOK
  <2>5. QED
    BY <1>1, <2>1, <2>2, <2>3, <2>4 DEF TypeOK
<1>4. CountsOK'
  <2> SUFFICES ASSUME NEW c \in Client, NEW n \in counted[c] PROVE n.at # version'
    BY DEF CountsOK
  <2>1. n.at \in 0..version
    BY DEF TypeOK
  <2>2. QED
    BY <1>1, <2>1
<1>5. AskedOK' /\ AnswersOK'
  BY DEF AskedOK, AnswersOK, GoodStore, GoodAnswers, Good, Labelled, Nearest
<1>6. QED
  BY <1>3, <1>4, <1>5

\* Where the rows, the questions and the counts stay, only the answers matter.
LEMMA AnswersKeep ==
  ASSUME ApproachInv, UNCHANGED rows, UNCHANGED <<asked, counted>>, UNCHANGED want,
         faults' \in 0..MaxFaults,
         pc' \in [Client -> {"idle", "waiting", "loading", "read", "done", "error"}],
         \A c \in Client : pc'[c] = pc[c] \/ pc[c] # "loading" \/ counted[c] = {},
         \A c \in Client : pc'[c] \notin {"read", "done"} => got'[c] = {},
         store' \in [Key -> SUBSET AnswerType], got' \in [Client -> SUBSET AnswerType],
         UNCHANGED trail,
         GoodStore', GoodAnswers'
  PROVE  ApproachInv'
<1> USE DEF ApproachInv, rows
<1>1. AnswerType' = AnswerType /\ Row' = Row
  BY DEF AnswerType, Row
<1>2. TypeOK'
  BY <1>1 DEF TypeOK
<1>3. RowsOK' /\ AskedOK'
  BY DEF RowsOK, AskedOK
<1>4. CountsOK'
  BY ListingKept DEF CountsOK
<1>5. QED
  BY <1>2, <1>3, <1>4 DEF AnswersOK
-----------------------------------------------------------------------------
\* Load, prune and sentry sweep.
LEMMA RowsStep ==
  ASSUME ApproachInv, NEW a \in Approach,
         Prune(a) \/ Rescore(a) \/ \E f \in Fact : Load(a, f)
  PROVE  ApproachInv'
<1> USE DEF ApproachInv
<1>1. version \in Nat /\ Row \subseteq Row'
  <2>1. version \in Nat /\ version' = version + 1
    BY ApproachAssumption DEF TypeOK, Prune, Rescore, Load, Changes
  <2>2. 0..version \subseteq 0..version'
    BY <2>1
  <2>3. QED
    BY <2>1, <2>2 DEF Row
<1>2. table \in [Approach -> SUBSET Row'] /\ scored \subseteq Approach /\ gone \subseteq Row'
  BY <1>1 DEF TypeOK
<1>3. CASE Prune(a)
  <2>1. Changes(a) /\ scored' = scored /\ table' = [table EXCEPT ![a] = {}] /\ gone' \subseteq Row'
    BY <1>2, <1>3 DEF Prune
  <2>2. table' \in [Approach -> SUBSET Row'] /\ \A b \in Approach : AtMostOne(table'[b])
    BY <1>2, <2>1 DEF TypeOK, AtMostOne
  <2>3. RowsOK'
    BY <1>2, <2>1 DEF RowsOK
  <2>4. QED
    BY <1>2, <2>1, <2>2, <2>3, ChangeKeeps
<1>4. CASE Rescore(a)
  <2>1. Changes(a) /\ scored' \subseteq Approach /\ table' = table /\ gone' = gone
    BY <1>2, <1>4 DEF Rescore
  <2>2. RowsOK' /\ \A b \in Approach : AtMostOne(table'[b])
    BY <2>1 DEF RowsOK, TypeOK
  <2>3. QED
    BY <1>2, <2>1, <2>2, ChangeKeeps
<1>5. ASSUME NEW f \in Fact, Load(a, f) PROVE ApproachInv'
  <2>1. /\ Changes(a) /\ scored' = scored /\ gone' = gone \cup table[a] /\ version' = version + 1
        /\ table[a] \subseteq Row' /\ f \in Facts
    BY <1>2, <1>5, ApproachAssumption DEF Load, Changes
  <2>2. PICK r : /\ table' = [table EXCEPT ![a] = {r}]
                 /\ r \in Row' /\ r.id = a /\ r.fact \in Facts /\ r.class \in Class
    <3>1. CASE table[a] = {}
      <4> DEFINE n == [id |-> a, fact |-> f, class |-> Classify(f), created |-> version + 1]
      <4>1. table' = [table EXCEPT ![a] = {n}]
        BY <1>5, <3>1 DEF Load
      <4>2. n \in Row' /\ n.id = a /\ n.fact \in Facts /\ n.class \in Class
        BY <1>1, <2>1 DEF Row, Class, Classify
      <4>3. QED
        BY <4>1, <4>2
    <3>2. CASE table[a] # {}
      <4>1. PICK o \in table[a] : table' = [table EXCEPT ![a] = {[o EXCEPT !.fact = Refreshed(o.fact, f)]}]
        BY <1>5, <3>2 DEF Load
      <4>2. o \in Row' /\ o.id = a /\ o.fact \in Facts /\ o.class \in Class
        BY <2>1 DEF RowsOK
      <4>3. Refreshed(o.fact, f) \in Facts
        BY <2>1, <4>2, RefreshedIsFact
      <4> DEFINE n == [o EXCEPT !.fact = Refreshed(o.fact, f)]
      <4>4. n \in Row' /\ n.id = a /\ n.fact \in Facts /\ n.class \in Class
        BY <4>2, <4>3 DEF Row
      <4>5. QED
        BY <4>1, <4>4
    <3>3. QED
      BY <3>1, <3>2
  <2>3. table' \in [Approach -> SUBSET Row'] /\ \A b \in Approach : AtMostOne(table'[b])
    BY <1>2, <2>2 DEF TypeOK, AtMostOne, IsSingleton
  <2>4. RowsOK'
    BY <1>2, <2>2 DEF RowsOK
  <2>5. gone' \subseteq Row'
    BY <1>2, <2>1
  <2>6. QED
    BY <1>2, <2>1, <2>3, <2>4, <2>5, ChangeKeeps
<1>6. QED
  BY <1>3, <1>4, <1>5

\* The requests of the clients.
LEMMA RequestStep ==
  ASSUME ApproachInv, NEW c \in Client,
         \/ c \in Walker /\ (NextPage(c) \/ PrevPage(c) \/ \E v \in {"table", "sentry"} : OpenTable(c, v))
         \/ c \in Client \ Walker /\ (OpenDashboard(c) \/ Approaches(c))
  PROVE  ApproachInv'
<1> USE DEF ApproachInv
<1>1. CASE NextPage(c)
  <2>1. Shown(c).asked.page + 1 \in Int /\ Shown(c).asked.view \in View
    BY <1>1, ShownIsAnswer DEF NextPage, Link
  <2>2. QED
    BY <1>1, <2>1, ParamsExist, AskKeeps DEF NextPage, Link
<1>2. CASE PrevPage(c)
  <2>1. Shown(c).asked.page - 1 \in Int /\ Shown(c).asked.view \in View
    BY <1>2, ShownIsAnswer DEF PrevPage, Link
  <2>2. QED
    BY <1>2, <2>1, ParamsExist, AskKeeps DEF PrevPage, Link
<1>3. ASSUME NEW v \in {"table", "sentry"}, OpenTable(c, v) PROVE ApproachInv'
  BY <1>3, ParamsExist, AskKeeps DEF OpenTable, View
<1>4. CASE OpenDashboard(c)
  BY <1>4, ParamsExist, AskKeeps DEF OpenDashboard, View
<1>5. CASE c \in Client \ Walker /\ Approaches(c)
  <2>1. PICK p \in ApiPage, z \in ApiSize, v \in {"table", "sentry"} : Ask(c, [page |-> p, size |-> z, view |-> v])
    BY <1>5 DEF Approaches
  <2>2. [page |-> p, size |-> z, view |-> v] \in Params
    BY ApproachAssumption DEF Params, Size, View
  <2>3. QED
    BY <1>5, <2>1, <2>2, AskKeeps
<1>6. QED
  BY <1>1, <1>2, <1>3, <1>4, <1>5

\* The statements of a query, and what becomes of them.
LEMMA QueryStep ==
  ASSUME ApproachInv, NEW c \in Client, CountRows(c) \/ FetchRows(c) \/ QueryFails(c)
  PROVE  ApproachInv'
<1> USE DEF ApproachInv, request, cache, rows
<1>1. CASE CountRows(c)
  <2>1. counted' = [counted EXCEPT ![c] = {[total |-> Count(asked[c].view), at |-> version]}] /\ pc[c] = "loading"
        /\ UNCHANGED <<table, gone, scored, changed, version, enabled, store, pc, want, got, asked, trail, faults>>
    BY <1>1 DEF CountRows
  <2>2. asked[c].view \in View /\ version \in 0..version
    BY ApproachAssumption DEF TypeOK, Params
  <2>3. Count(asked[c].view) \in Nat
    BY <2>2, RowsFinite DEF Count
  <2>4. counted' \in [Client -> SUBSET [total : Nat, at : 0..version]]
        /\ \A d \in Client : AtMostOne(counted'[d]) /\ (counted'[d] # {} => pc[d] = "loading")
    <3> DEFINE e == [total |-> Count(asked[c].view), at |-> version]
    <3>1. e \in [total : Nat, at : 0..version]
      BY <2>2, <2>3
    <3> HIDE DEF e
    <3>2. counted' = [counted EXCEPT ![c] = {e}]
      BY <2>1 DEF e
    <3>3. counted' \in [Client -> SUBSET [total : Nat, at : 0..version]]
      BY <3>1, <3>2 DEF TypeOK
    <3>4. counted'[c] = {e} /\ \A d \in Client \ {c} : counted'[d] = counted[d]
      BY <3>2 DEF TypeOK
    <3>5. \A d \in Client : AtMostOne(counted'[d]) /\ (counted'[d] # {} => pc[d] = "loading")
      BY <2>1, <3>4 DEF TypeOK, AtMostOne, IsSingleton
    <3>6. QED
      BY <3>3, <3>5
  <2>5. TypeOK'
    BY <2>1, <2>4 DEF TypeOK, AnswerType, Row
  <2>6. CountsOK'
    BY <2>1, ListingKept DEF CountsOK, TypeOK, Count
  <2>7. RowsOK' /\ AskedOK' /\ AnswersOK'
    BY <2>1 DEF RowsOK, AskedOK, AnswersOK, GoodStore, GoodAnswers, Good, Labelled, Nearest
  <2>8. QED
    BY <2>5, <2>6, <2>7
<1>2. CASE FetchRows(c)
  <2>1. PICK n \in counted[c], s \in Orders(asked[c].view) :
          Cache!Read(c, [asked |-> asked[c], total |-> n.total, countedAt |-> n.at,
                         rows |-> Cut(s, asked[c]), at |-> version])
    BY <1>2 DEF FetchRows
  <2> DEFINE t == [asked |-> asked[c], total |-> n.total, countedAt |-> n.at,
                   rows |-> Cut(s, asked[c]), at |-> version]
  <2>2. t \in AnswerType /\ Good(t, want[c])
    BY FetchIsGood
  <2> HIDE DEF t
  <2>3. /\ pc' = [pc EXCEPT ![c] = "read"] /\ got' = [got EXCEPT ![c] = {t}]
        /\ counted' = [counted EXCEPT ![c] = {}]
        /\ UNCHANGED <<table, gone, scored, changed, version, enabled, store, want, asked, trail, faults>>
    BY <1>2, <2>1 DEF FetchRows, Cache!Read, t
  <2>4. TypeOK'
    BY <2>2, <2>3 DEF TypeOK, AnswerType, Row, AtMostOne
  <2>5. CountsOK'
    BY <2>3, ListingKept DEF CountsOK, TypeOK
  <2>6. GoodStore' /\ GoodAnswers'
    BY <2>2, <2>3 DEF TypeOK, AnswersOK, GoodStore, GoodAnswers
  <2>7. RowsOK' /\ AskedOK'
    BY <2>3 DEF RowsOK, AskedOK, TypeOK
  <2>8. QED
    BY <2>4, <2>5, <2>6, <2>7 DEF AnswersOK
<1>3. CASE QueryFails(c)
  <2>1. /\ pc' = [d \in Client |-> IF d \in {c} \cup Cache!Waiting(want[c]) THEN "error" ELSE pc[d]]
        /\ pc[c] = "loading" /\ counted' = [counted EXCEPT ![c] = {}]
        /\ faults' \in 0..MaxFaults
        /\ UNCHANGED <<table, gone, scored, changed, version, enabled, store, want, got, asked, trail>>
    BY <1>3, ApproachAssumption DEF QueryFails, Cache!Fail, TypeOK
  <2>2. \A d \in Client : pc'[d] = pc[d] \/ (pc'[d] = "error" /\ counted'[d] = {} /\ pc[d] \in {"loading", "waiting"})
    BY <2>1 DEF Cache!Waiting, TypeOK
  <2>3. TypeOK'
    BY <2>1, <2>2 DEF TypeOK, AnswerType, Row, AtMostOne
  <2>4. CountsOK'
    BY <2>1, ListingKept DEF CountsOK, TypeOK
  <2>5. RowsOK' /\ AskedOK'
    BY <2>1, <2>2 DEF RowsOK, AskedOK, TypeOK
  <2>6. AnswersOK'
    BY <2>1 DEF AnswersOK, GoodStore, GoodAnswers, Good, Labelled, Nearest
  <2>7. QED
    BY <2>3, <2>4, <2>5, <2>6
<1>4. QED
  BY <1>1, <1>2, <1>3

\* The answer reaches those who wait, is kept, is dropped, and is shown.
LEMMA AnswerStep ==
  ASSUME ApproachInv, NEW c \in Client, Answer(c) \/ TakeOver(c)
  PROVE  ApproachInv'
<1> USE DEF ApproachInv, request, client
<1>1. CASE Answer(c)
  <2> DEFINE served == {c} \cup Cache!Waiting(want[c])
  <2>1. /\ store' = IF enabled THEN [store EXCEPT ![want[c]] = got[c]] ELSE store
        /\ pc' = [d \in Client |-> IF d \in served THEN "done" ELSE pc[d]]
        /\ got' = [d \in Client |-> IF d \in served THEN got[c] ELSE got[d]]
        /\ pc[c] = "read"
        /\ UNCHANGED <<rows, enabled, want, asked, counted, trail, faults>>
    BY <1>1 DEF Answer, Cache!Finish
  <2>2. \A d \in served : want[d] = want[c] /\ pc[d] \in {"read", "waiting"}
    BY <2>1 DEF Cache!Waiting
  <2>3. store' \in [Key -> SUBSET AnswerType] /\ got' \in [Client -> SUBSET AnswerType]
    BY <2>1 DEF TypeOK
  <2>4. GoodStore'
    BY <2>1 DEF AnswersOK, GoodStore, GoodAnswers, TypeOK
  <2>5. GoodAnswers'
    BY <2>1, <2>2 DEF AnswersOK, GoodAnswers, TypeOK
  <2>6. \A d \in Client : pc'[d] \notin {"read", "done"} => got'[d] = {}
    BY <2>1 DEF AskedOK
  <2>7. /\ pc' \in [Client -> {"idle", "waiting", "loading", "read", "done", "error"}]
        /\ \A d \in Client : pc'[d] = pc[d] \/ pc[d] # "loading" \/ counted[d] = {}
        /\ faults' \in 0..MaxFaults
    BY <2>1, <2>2 DEF TypeOK
  <2>8. QED
    BY <2>1, <2>3, <2>4, <2>5, <2>6, <2>7, AnswersKeep
<1>2. CASE TakeOver(c)
  <2>1. /\ Cache!TryGetWith(c, want[c]) /\ pc[c] = "waiting"
        /\ UNCHANGED <<rows, enabled, store, want, asked, counted, trail, faults>>
    BY <1>2 DEF TakeOver, Cache!Retry
  <2>2. want[c] \in Key /\ want' = [want EXCEPT ![c] = want[c]]
    BY <2>1 DEF TypeOK
  <2>3. /\ pc' \in [Client -> {"idle", "waiting", "loading", "read", "done", "error"}]
        /\ got' \in [Client -> SUBSET AnswerType]
        /\ GoodAnswers'
        /\ \A d \in Client : pc'[d] \notin {"read", "done"} => got'[d] = {}
        /\ \A d \in Client \ {c} : pc'[d] = pc[d]
    BY <2>1, <2>2, RequestKeeps DEF rows
  <2>4. store' \in [Key -> SUBSET AnswerType] /\ GoodStore' /\ faults' \in 0..MaxFaults
    BY <2>1 DEF TypeOK, AnswersOK, GoodStore
  <2>5. \A d \in Client : pc'[d] = pc[d] \/ (pc[d] # "loading" \/ counted[d] = {})
    BY <2>1, <2>3
  <2>6. QED
    BY <2>1, <2>3, <2>4, <2>5, AnswersKeep
<1>3. QED
  BY <1>1, <1>2

\* A handler is done, with an answer or without.
LEMMA EndStep ==
  ASSUME ApproachInv, NEW c \in Client, Leave(c) \/ Respond(c) \/ RespondError(c)
  PROVE  ApproachInv'
<1> USE DEF ApproachInv, request, rows
<1>1. /\ pc' = [pc EXCEPT ![c] = "idle"] /\ want' = [want EXCEPT ![c] = IdleKey]
      /\ got' = [got EXCEPT ![c] = {}] /\ asked' = [asked EXCEPT ![c] = NoParams]
      /\ counted' = [counted EXCEPT ![c] = {}]
      /\ UNCHANGED <<table, gone, scored, changed, version, enabled, store>>
  <2>1. CASE Leave(c)
    BY <2>1 DEF Leave, Cache!Leave
  <2>2. CASE Respond(c)
    <3>1. counted[c] = {}
      BY <2>2 DEF Respond, TypeOK
    <3>2. counted' = [counted EXCEPT ![c] = {}]
      BY <2>2, <3>1 DEF Respond, TypeOK
    <3>3. QED
      BY <2>2, <3>2 DEF Respond, Cache!Take
  <2>3. CASE RespondError(c)
    <3>1. counted[c] = {}
      BY <2>3 DEF RespondError, TypeOK
    <3>2. counted' = [counted EXCEPT ![c] = {}]
      BY <2>3, <3>1 DEF RespondError, TypeOK
    <3>3. QED
      BY <2>3, <3>2 DEF RespondError, Cache!Take
  <2>4. QED
    BY <2>1, <2>2, <2>3
<1>2. NoParams \in Params /\ IdleKey \in Key /\ NoParams.size = PageSize
  BY ApproachAssumption DEF NoParams, IdleKey, ApproachQueryKey, Params, Key, Page, Size, View
<1>3. faults' \in 0..MaxFaults
  BY ApproachAssumption DEF Leave, Respond, RespondError, TypeOK
<1>4. trail' \in [Client -> Seq(AnswerType)]
  <2>1. CASE Respond(c)
    <3>1. PICK t \in got[c] : trail' = [trail EXCEPT ![c] =
            IF c \notin Walker THEN @
            ELSE IF asked[c].page \in 2..Len(@) + 1 /\ @[1].asked.page = 1
                   THEN Append(SubSeq(@, 1, asked[c].page - 1), t)
            ELSE <<t>>]
      BY <2>1 DEF Respond
    <3>2. t \in AnswerType /\ trail[c] \in Seq(AnswerType)
      BY DEF TypeOK
    <3>3. asked[c].page \in Nat
      BY OffsetExact DEF TypeOK
    <3>4. ASSUME asked[c].page \in 2..Len(trail[c]) + 1
          PROVE  Append(SubSeq(trail[c], 1, asked[c].page - 1), t) \in Seq(AnswerType)
      <4>1. SubSeq(trail[c], 1, asked[c].page - 1) \in Seq(AnswerType)
        BY <3>2, <3>3, <3>4
      <4>2. QED
        BY <3>2, <4>1
    <3>5. <<t>> \in Seq(AnswerType)
      BY <3>2
    <3>6. QED
      BY <3>1, <3>2, <3>4, <3>5 DEF TypeOK
  <2>2. CASE Leave(c) \/ RespondError(c)
    BY <2>2 DEF Leave, RespondError, TypeOK
  <2>3. QED
    BY <2>1, <2>2
<1>5. TypeOK'
  <2>1. AnswerType' = AnswerType /\ Row' = Row
    BY <1>1 DEF AnswerType, Row
  <2>2. QED
    BY <1>1, <1>2, <1>3, <1>4, <2>1 DEF TypeOK, AtMostOne
<1>6. RowsOK' /\ AskedOK'
  BY <1>1, <1>2 DEF RowsOK, AskedOK, TypeOK, IdleKey
<1>7. CountsOK'
  BY <1>1, ListingKept DEF CountsOK, TypeOK
<1>8. AnswersOK'
  BY <1>1 DEF AnswersOK, GoodStore, GoodAnswers, TypeOK
<1>9. QED
  BY <1>5, <1>6, <1>7, <1>8

\* An answer runs out of the store.
LEMMA ExpireStep ==
  ASSUME ApproachInv, NEW k \in Key, Expire(k)
  PROVE  ApproachInv'
<1> USE DEF ApproachInv, request, client
<1>1. /\ store' = [store EXCEPT ![k] = {}]
      /\ UNCHANGED <<rows, enabled, pc, want, got, asked, counted, trail, faults>>
  BY DEF Expire, Cache!Expire
<1>2. store' \in [Key -> SUBSET AnswerType] /\ GoodStore'
  BY <1>1 DEF TypeOK, AnswersOK, GoodStore
<1>3. GoodAnswers' /\ faults' \in 0..MaxFaults /\ got' \in [Client -> SUBSET AnswerType]
  BY <1>1 DEF TypeOK, AnswersOK, GoodAnswers
<1>4. /\ pc' \in [Client -> {"idle", "waiting", "loading", "read", "done", "error"}]
      /\ \A c \in Client : pc'[c] \notin {"read", "done"} => got'[c] = {}
  BY <1>1 DEF TypeOK, AskedOK
<1>5. QED
  BY <1>1, <1>2, <1>3, <1>4, AnswersKeep

LEMMA ApproachStep == ApproachInv /\ [Next]_vars => ApproachInv'
<1> SUFFICES ASSUME ApproachInv, [Next]_vars PROVE ApproachInv'
  OBVIOUS
<1>1. Walker \subseteq Client
  BY ApproachAssumption
<1>2. ASSUME NEW a \in Approach, Prune(a) \/ Rescore(a) \/ \E f \in Fact : Load(a, f) PROVE ApproachInv'
  BY <1>2, RowsStep
<1>3. ASSUME NEW c \in Walker, NextPage(c) \/ PrevPage(c) \/ \E v \in {"table", "sentry"} : OpenTable(c, v)
      PROVE  ApproachInv'
  BY <1>1, <1>3, RequestStep
<1>4. ASSUME NEW c \in Client \ Walker, OpenDashboard(c) \/ Approaches(c) PROVE ApproachInv'
  BY <1>4, RequestStep
<1>5. ASSUME NEW c \in Client, CountRows(c) \/ FetchRows(c) \/ QueryFails(c) PROVE ApproachInv'
  BY <1>5, QueryStep
<1>6. ASSUME NEW c \in Client, Answer(c) \/ TakeOver(c) PROVE ApproachInv'
  BY <1>6, AnswerStep
<1>7. ASSUME NEW c \in Client, Leave(c) \/ Respond(c) \/ RespondError(c) PROVE ApproachInv'
  BY <1>7, EndStep
<1>8. ASSUME NEW k \in Key, Expire(k) PROVE ApproachInv'
  BY <1>8, ExpireStep
<1>9. CASE UNCHANGED vars
  <2>1. UNCHANGED <<table, gone, scored, changed, version, sort, dir, enabled, store, pc, want, got,
                    asked, counted, trail, faults>>
    BY <1>9 DEF vars, rows, request, cache, client
  <2>2. UNCHANGED <<TypeOK, RowsOK, AskedOK>>
    BY <2>1 DEF TypeOK, RowsOK, AskedOK, AnswerType, Row
  <2>3. CountsOK' = CountsOK
    BY <2>1, ListingKept DEF CountsOK
  <2>4. AnswersOK' = AnswersOK
    BY <2>1 DEF AnswersOK, GoodStore, GoodAnswers
  <2>5. QED
    BY <2>2, <2>3, <2>4 DEF ApproachInv
<1>10. QED
  BY <1>2, <1>3, <1>4, <1>5, <1>6, <1>7, <1>8, <1>9 DEF Next

LEMMA ApproachAlways == Spec => []ApproachInv
BY ApproachInit, ApproachStep, PTL DEF Spec
-----------------------------------------------------------------------------
(***************************************************************************)
(* Counting what moves.                                                    *)
(***************************************************************************)
\* A set of numbers has a least one.
LEMMA LeastExists ==
  ASSUME NEW T \in SUBSET Nat, T # {}
  PROVE  \E x \in T : \A y \in T : x <= y
<1>1. PICK x \in T : \A y \in T : <<y, x>> \notin OpToRel(<, Nat)
  BY NatLessThanWellFounded, WFMin
<1>2. \A y \in T : ~(y < x)
  BY <1>1 DEF OpToRel
<1>3. QED
  BY <1>2

-----------------------------------------------------------------------------
(***************************************************************************)
(* Listings as they change: f lists A, each row once.                      *)
(***************************************************************************)
Lists(f, A) ==
  /\ f \in [1..Cardinality(A) -> A]
  /\ \A i, j \in 1..Cardinality(A) : i < j => f[i] # f[j]

\* The rows among the first b.
Leading(f, b) == {f[i] : i \in {k \in DOMAIN f : k <= b}}

\* c comes before or after the same rows in both.
KeepsOrder(f, g, c) ==
  \A i, k \in DOMAIN f, j, l \in DOMAIN g :
    f[i] = c /\ g[j] = c /\ f[k] = g[l] /\ f[k] # c => (i < k <=> j < l)

LEMMA ListParts ==
  ASSUME NEW A, IsFiniteSet(A), NEW f, Lists(f, A)
  PROVE  /\ Cardinality(A) \in Nat /\ DOMAIN f = 1..Cardinality(A)
         /\ \A i, j \in DOMAIN f : f[i] = f[j] => i = j
         /\ \A i \in DOMAIN f : f[i] \in A
         /\ \A x \in A : \E i \in DOMAIN f : f[i] = x
<1> DEFINE n == Cardinality(A)
<1>1. n \in Nat /\ IsFiniteSet(1..n) /\ Cardinality(1..n) = n
  BY FS_CardinalityType, FS_Interval
<1>2. f \in [1..n -> A] /\ \A i, j \in 1..n : i < j => f[i] # f[j]
  BY DEF Lists
<1> HIDE DEF n
<1>3. \A i, j \in 1..n : f[i] = f[j] => i = j
  <2> SUFFICES ASSUME NEW i \in 1..n, NEW j \in 1..n, f[i] = f[j] PROVE i = j
    OBVIOUS
  <2>1. ~(i < j) /\ ~(j < i)
    BY <1>2
  <2>2. QED
    BY <1>1, <2>1
<1>4. f \in Injection(1..n, A)
  BY <1>2, <1>3 DEF Injection, IsInjective
<1>5. f \in Surjection(1..n, A)
  BY <1>1, <1>4, FS_Injection DEF n
<1>6. \A x \in A : \E i \in 1..n : f[i] = x
  BY <1>5 DEF Surjection
<1>7. QED
  BY <1>1, <1>2, <1>3, <1>6 DEF n

LEMMA LeadingParts ==
  ASSUME NEW A, IsFiniteSet(A), NEW f, Lists(f, A), NEW b \in Nat
  PROVE  /\ Leading(f, b) \subseteq A /\ IsFiniteSet(Leading(f, b))
         /\ Cardinality(Leading(f, b)) = IF b < Cardinality(A) THEN b ELSE Cardinality(A)
         /\ \A i \in DOMAIN f : f[i] \in Leading(f, b) <=> i <= b
<1> DEFINE n == Cardinality(A)
           m == IF b < n THEN b ELSE n
           P == Leading(f, b)
<1>1. /\ n \in Nat /\ DOMAIN f = 1..n
      /\ \A i, j \in 1..n : f[i] = f[j] => i = j
      /\ \A i \in 1..n : f[i] \in A
  BY ListParts
<1> HIDE DEF n
<1>2. m \in Nat /\ m <= n /\ {k \in 1..n : k <= b} = 1..m
  BY <1>1
<1>3. P = {f[i] : i \in 1..m}
  BY <1>1, <1>2 DEF Leading
<1> HIDE DEF m, P
<1>4. P \subseteq A
  BY <1>1, <1>2, <1>3
<1>5. IsFiniteSet(P)
  BY <1>4, FS_Subset
<1> DEFINE h == [i \in 1..m |-> f[i]]
<1>6. h \in [1..m -> P] /\ (\A i, j \in 1..m : h[i] = h[j] => i = j) /\ (\A x \in P : \E i \in 1..m : h[i] = x)
  BY <1>1, <1>2, <1>3
<1> HIDE DEF h
<1>7. h \in Bijection(1..m, P)
  BY <1>6, Fun_IsBij
<1>8. ExistsBijection(1..m, P)
  BY <1>7 DEF ExistsBijection
<1>9. Cardinality(P) = m
  BY <1>2, <1>8, FS_CountingElements
<1>10. \A i \in 1..n : f[i] \in P <=> i <= b
  <2> SUFFICES ASSUME NEW i \in 1..n PROVE f[i] \in P <=> i <= b
    OBVIOUS
  <2>1. i <= b => f[i] \in P
    BY <1>1, <1>2, <1>3 DEF m
  <2>2. ASSUME f[i] \in P PROVE i <= b
    <3>1. PICK j \in 1..m : f[i] = f[j]
      BY <1>3, <2>2
    <3>2. j = i
      BY <1>1, <1>2, <3>1
    <3>3. QED
      BY <1>1, <1>2, <3>1, <3>2 DEF m
  <2>3. QED
    BY <2>1, <2>2
<1>11. QED
  BY <1>1, <1>4, <1>5, <1>9, <1>10 DEF m, n, P

\* As many rows enter the first b as leave them: rows that stay in the table and keep
\* their order leave only for rows that are new to it.
LEMMA LeaversAreReplaced ==
  ASSUME NEW A, IsFiniteSet(A), NEW B, IsFiniteSet(B), NEW f, Lists(f, A), NEW g, Lists(g, B),
         NEW b \in Nat, NEW C, C \subseteq Leading(f, b) \ Leading(g, b), C \subseteq B,
         \A c \in C : KeepsOrder(f, g, c)
  PROVE  Cardinality(C) <= Cardinality(B \ A)
<1> DEFINE P == Leading(f, b)
           Q == Leading(g, b)
<1>1. /\ P \subseteq A /\ IsFiniteSet(P) /\ Cardinality(P) = IF b < Cardinality(A) THEN b ELSE Cardinality(A)
      /\ Q \subseteq B /\ IsFiniteSet(Q) /\ Cardinality(Q) = IF b < Cardinality(B) THEN b ELSE Cardinality(B)
      /\ \A i \in DOMAIN f : f[i] \in P <=> i <= b
      /\ \A i \in DOMAIN g : g[i] \in Q <=> i <= b
  BY LeadingParts
<1>2. /\ Cardinality(A) \in Nat /\ DOMAIN f = 1..Cardinality(A) /\ (\A x \in A : \E i \in DOMAIN f : f[i] = x)
      /\ Cardinality(B) \in Nat /\ DOMAIN g = 1..Cardinality(B) /\ (\A x \in B : \E i \in DOMAIN g : g[i] = x)
  BY ListParts
<1> HIDE DEF P, Q
<1>3. CASE C = {}
  <2>1. Cardinality(C) = 0
    BY <1>3, FS_EmptySet
  <2>2. Cardinality(B \ A) \in Nat
    BY FS_Difference, FS_CardinalityType
  <2>3. QED
    BY <2>1, <2>2
<1>4. CASE C # {}
  <2>1. PICK u \in C : u \in P /\ u \notin Q /\ u \in A /\ u \in B
    BY <1>1, <1>4 DEF P, Q
  <2>2. PICK i \in DOMAIN f, j \in DOMAIN g : f[i] = u /\ g[j] = u
    BY <1>2, <2>1
  <2>3. i <= b /\ ~(j <= b) /\ i \in Nat /\ j \in 1..Cardinality(B)
    BY <1>1, <1>2, <2>1, <2>2
  <2>4. Cardinality(Q) = b /\ Cardinality(P) <= b
    BY <1>1, <1>2, <2>3
  <2>5. Q \ P \subseteq B \ A
    <3> SUFFICES ASSUME NEW x \in Q, x \notin P, x \in A PROVE FALSE
      BY <1>1
    <3>1. PICK k \in DOMAIN f, l \in DOMAIN g : f[k] = x /\ g[l] = x
      BY <1>1, <1>2
    <3>2. ~(k <= b) /\ l <= b /\ k \in Nat /\ l \in Nat
      BY <1>1, <1>2, <3>1
    <3>3. i < k <=> j < l
      BY <2>1, <2>2, <3>1 DEF KeepsOrder
    <3>4. QED
      BY <2>3, <3>2, <3>3
  <2>6. /\ IsFiniteSet(P \ Q) /\ Cardinality(P \ Q) = Cardinality(P) - Cardinality(P \cap Q)
        /\ IsFiniteSet(Q \ P) /\ Cardinality(Q \ P) = Cardinality(Q) - Cardinality(Q \cap P)
    BY <1>1, FS_Difference
  <2>7. Cardinality(P \ Q) <= Cardinality(Q \ P)
    <3>1. Cardinality(P \cap Q) = Cardinality(Q \cap P)
      <4>1. P \cap Q = Q \cap P
        OBVIOUS
      <4>2. QED
        BY <4>1
    <3>2. Cardinality(P) \in Nat /\ Cardinality(Q) \in Nat /\ Cardinality(P \cap Q) \in Nat
      BY <1>1, FS_CardinalityType, FS_Intersection
    <3>3. QED
      BY <2>4, <2>6, <3>1, <3>2
  <2>8. Cardinality(Q \ P) <= Cardinality(B \ A)
    BY <2>5, FS_Difference, FS_Subset
  <2>9. Cardinality(C) <= Cardinality(P \ Q)
    BY <2>6, FS_Subset DEF P, Q
  <2>10. /\ Cardinality(C) \in Nat /\ Cardinality(P \ Q) \in Nat
         /\ Cardinality(Q \ P) \in Nat /\ Cardinality(B \ A) \in Nat
    <3>1. IsFiniteSet(C) /\ IsFiniteSet(B \ A)
      BY <2>6, FS_Subset, FS_Difference DEF P, Q
    <3>2. QED
      BY <2>6, <3>1, FS_CardinalityType
  <2>11. QED
    BY <2>7, <2>8, <2>9, <2>10
<1>5. QED
  BY <1>3, <1>4

\* Rows that keep their order cross a boundary in one direction only, so that no more of
\* them cross it than rows have come or gone.
LEMMA FewCross ==
  ASSUME NEW A, IsFiniteSet(A), NEW B, IsFiniteSet(B), NEW f, Lists(f, A), NEW g, Lists(g, B),
         NEW b \in Nat, NEW C, C \subseteq A \cap B,
         \A c \in C : KeepsOrder(f, g, c) /\ ~(c \in Leading(f, b) <=> c \in Leading(g, b)),
         NEW m \in Nat, Cardinality(A \ B) <= m, Cardinality(B \ A) <= m
  PROVE  IsFiniteSet(C) /\ Cardinality(C) <= m
<1> DEFINE P == Leading(f, b)
           Q == Leading(g, b)
<1>1. /\ \A i \in DOMAIN f : f[i] \in P <=> i <= b
      /\ \A i \in DOMAIN g : g[i] \in Q <=> i <= b
  BY LeadingParts
<1>2. /\ Cardinality(A) \in Nat /\ DOMAIN f = 1..Cardinality(A) /\ (\A x \in A : \E i \in DOMAIN f : f[i] = x)
      /\ Cardinality(B) \in Nat /\ DOMAIN g = 1..Cardinality(B) /\ (\A x \in B : \E i \in DOMAIN g : g[i] = x)
  BY ListParts
<1>3. IsFiniteSet(C) /\ Cardinality(C) \in Nat
  <2>1. C \in SUBSET A
    OBVIOUS
  <2>2. IsFiniteSet(C)
    BY <2>1, FS_Subset
  <2>3. QED
    BY <2>2, FS_CardinalityType
<1>4. Cardinality(A \ B) \in Nat /\ Cardinality(B \ A) \in Nat
  BY FS_Difference, FS_CardinalityType
<1>5. C \subseteq P \ Q \/ C \subseteq Q \ P
  <2> SUFFICES ASSUME NEW u \in C, u \in P, u \notin Q, NEW d \in C, d \in Q, d \notin P PROVE FALSE
    OBVIOUS
  <2>1. PICK i \in DOMAIN f, j \in DOMAIN g, k \in DOMAIN f, l \in DOMAIN g :
          f[i] = u /\ g[j] = u /\ f[k] = d /\ g[l] = d
    BY <1>2
  <2>2. i <= b /\ ~(k <= b) /\ ~(j <= b) /\ l <= b /\ i \in Nat /\ j \in Nat /\ k \in Nat /\ l \in Nat
    BY <1>1, <1>2, <2>1
  <2>3. i < k <=> j < l
    BY <2>1 DEF KeepsOrder
  <2>4. QED
    BY <2>2, <2>3
<1>6. CASE C \subseteq P \ Q
  <2>1. Cardinality(C) <= Cardinality(B \ A)
    BY <1>6, LeaversAreReplaced DEF P, Q
  <2>2. QED
    BY <1>3, <1>4, <2>1
<1>7. CASE C \subseteq Q \ P
  <2>1. \A c \in C : KeepsOrder(g, f, c)
    BY DEF KeepsOrder
  <2>2. Cardinality(C) <= Cardinality(A \ B)
    BY <1>7, <2>1, LeaversAreReplaced DEF P, Q
  <2>3. QED
    BY <1>3, <1>4, <2>2
<1>8. QED
  BY <1>5, <1>6, <1>7

\* No more rows lie beyond what was counted than have come since.
LEMMA FewBeyond ==
  ASSUME NEW A, IsFiniteSet(A), NEW B, IsFiniteSet(B), NEW g, Lists(g, B),
         NEW b \in Nat, Cardinality(A) <= b, NEW C, C \subseteq B \ Leading(g, b),
         NEW m \in Nat, Cardinality(B \ A) <= m
  PROVE  IsFiniteSet(C) /\ Cardinality(C) <= m
<1> DEFINE Q == Leading(g, b)
<1>1. Q \subseteq B /\ IsFiniteSet(Q) /\ Cardinality(Q) = IF b < Cardinality(B) THEN b ELSE Cardinality(B)
  BY LeadingParts
<1> HIDE DEF Q
<1>2. /\ IsFiniteSet(B \ Q) /\ Cardinality(B \ Q) = Cardinality(B) - Cardinality(B \cap Q)
      /\ IsFiniteSet(B \ A) /\ Cardinality(B \ A) = Cardinality(B) - Cardinality(B \cap A)
  BY FS_Difference
<1>3. Cardinality(B \cap Q) = Cardinality(Q)
  <2>1. B \cap Q = Q
    BY <1>1
  <2>2. QED
    BY <2>1
<1>4. Cardinality(B \cap A) <= Cardinality(A) /\ IsFiniteSet(B \cap A) /\ IsFiniteSet(B \ Q)
  BY <1>2, FS_Intersection
<1>5. IsFiniteSet(C) /\ Cardinality(C) <= Cardinality(B \ Q)
  BY <1>2, FS_Subset DEF Q
<1>6. /\ Cardinality(A) \in Nat /\ Cardinality(B) \in Nat /\ Cardinality(C) \in Nat /\ Cardinality(B \cap A) \in Nat
      /\ Cardinality(B \ A) \in Nat
  BY <1>2, <1>4, <1>5, FS_CardinalityType
<1>7. CASE b < Cardinality(B)
  BY <1>1, <1>2, <1>3, <1>4, <1>5, <1>6, <1>7
<1>8. CASE ~(b < Cardinality(B))
  BY <1>1, <1>2, <1>3, <1>4, <1>5, <1>6, <1>8
<1>9. QED
  BY <1>5, <1>7, <1>8

-----------------------------------------------------------------------------
(***************************************************************************)
(* Sums over the pages of a walk.                                          *)
(***************************************************************************)
\* What lies in one of n small sets is not more than these allow together.
LEMMA UnionBound ==
  ASSUME NEW n \in Nat, NEW C, NEW D, NEW Bad, NEW W, W = UNION {{k} \X D[k] : k \in 1..n},
         \A k \in 1..n : /\ IsFiniteSet(C[k]) /\ IsFiniteSet(D[k])
                         /\ Cardinality(C[k]) <= Cardinality(D[k]),
         \A r \in Bad : \E k \in 1..n : r \in C[k]
  PROVE  IsFiniteSet(W) /\ IsFiniteSet(Bad) /\ Cardinality(Bad) <= Cardinality(W)
<1>1. IsFiniteSet(W)
  <2> DEFINE h == [k \in 1..n |-> {k} \X D[k]]
             R == {{k} \X D[k] : k \in 1..n}
  <2>1. h \in Surjection(1..n, R)
    BY DEF Surjection
  <2>2. IsFiniteSet(1..n)
    BY FS_Interval
  <2>3. IsFiniteSet(R)
    BY <2>1, <2>2, FS_Surjection
  <2>4. \A k \in 1..n : IsFiniteSet({k} \X D[k])
    BY FS_Singleton, FS_Product
  <2>5. QED
    BY <2>3, <2>4, FS_UNION
<1>2. \A k \in 1..n : \E g : g \in Injection(C[k], D[k])
  <2> SUFFICES ASSUME NEW k \in 1..n PROVE \E g : g \in Injection(C[k], D[k])
    OBVIOUS
  <2>1. PICK a \in Nat : a = Cardinality(C[k]) /\ ExistsBijection(1..a, C[k])
    BY FS_CardinalityType
  <2>2. PICK b \in Nat : b = Cardinality(D[k]) /\ ExistsBijection(1..b, D[k])
    BY FS_CardinalityType
  <2>3. PICK p \in Bijection(1..a, C[k]) : TRUE
    BY <2>1 DEF ExistsBijection
  <2>4. PICK q \in Bijection(1..b, D[k]) : TRUE
    BY <2>2 DEF ExistsBijection
  <2>5. p \in [1..a -> C[k]] /\ \A x \in C[k] : \E i \in 1..a : p[i] = x
    BY <2>3, Fun_BijectionProperties
  <2>6. q \in [1..b -> D[k]] /\ \A i, j \in 1..b : q[i] = q[j] => i = j
    BY <2>4, Fun_BijectionProperties
  <2>7. 1..a \subseteq 1..b
    BY <2>1, <2>2
  <2> DEFINE idx(x) == CHOOSE i \in 1..a : p[i] = x
             g == [x \in C[k] |-> q[idx(x)]]
  <2>8. \A x \in C[k] : idx(x) \in 1..a /\ p[idx(x)] = x
    BY <2>5
  <2> HIDE DEF idx
  <2>9. g \in [C[k] -> D[k]]
    BY <2>6, <2>7, <2>8
  <2>10. \A x, y \in C[k] : g[x] = g[y] => x = y
    <3> SUFFICES ASSUME NEW x \in C[k], NEW y \in C[k], g[x] = g[y] PROVE x = y
      OBVIOUS
    <3>1. idx(x) = idx(y)
      BY <2>6, <2>7, <2>8
    <3>2. QED
      BY <2>8, <3>1
  <2> HIDE DEF g
  <2>11. g \in Injection(C[k], D[k])
    BY <2>9, <2>10, Fun_IsInj
  <2>12. QED
    BY <2>11
<1> DEFINE G == [k \in 1..n |-> CHOOSE g : g \in Injection(C[k], D[k])]
           at(r) == CHOOSE k \in 1..n : r \in C[k]
           m == [r \in Bad |-> <<at(r), G[at(r)][r]>>]
<1>3. \A k \in 1..n : G[k] \in [C[k] -> D[k]] /\ \A x, y \in C[k] : G[k][x] = G[k][y] => x = y
  <2>1. \A k \in 1..n : G[k] \in Injection(C[k], D[k])
    BY <1>2
  <2> HIDE DEF G
  <2>2. QED
    BY <2>1, Fun_InjectionProperties
<1>4. \A r \in Bad : at(r) \in 1..n /\ r \in C[at(r)]
  OBVIOUS
<1> HIDE DEF G, at
<1>5. m \in [Bad -> W]
  <2>1. \A r \in Bad : G[at(r)][r] \in D[at(r)]
    BY <1>3, <1>4
  <2>2. \A r \in Bad : m[r] \in {at(r)} \X D[at(r)]
    BY <2>1
  <2>3. QED
    BY <1>4, <2>2
<1>6. \A x, y \in Bad : m[x] = m[y] => x = y
  <2> SUFFICES ASSUME NEW x \in Bad, NEW y \in Bad, m[x] = m[y] PROVE x = y
    OBVIOUS
  <2>1. at(x) = at(y) /\ G[at(x)][x] = G[at(y)][y]
    OBVIOUS
  <2>2. QED
    BY <1>3, <1>4, <2>1
<1> HIDE DEF m
<1>7. m \in Injection(Bad, W)
  BY <1>5, <1>6, Fun_IsInj
<1>8. IsFiniteSet(Bad) /\ Cardinality(Bad) <= Cardinality(W)
  BY <1>1, <1>7, FS_Injection
<1>9. QED
  BY <1>1, <1>8

\* Page k holds the places after b[k - 1] up to b[k].  A row that crosses no boundary between
\* two pages, and is not beyond the last, is on one page.
LEMMA OnOnePage ==
  ASSUME NEW n \in Nat \ {0}, NEW b \in [0..n -> Nat], b[0] = 0, \A k \in 1..n : b[k - 1] <= b[k],
         NEW p \in [1..n -> Nat], p[1] > 0, p[n] <= b[n],
         \A k \in 2..n : p[k - 1] <= b[k - 1] <=> p[k] <= b[k - 1]
  PROVE  \E i \in 1..n : \A k \in 1..n : b[k - 1] < p[k] /\ p[k] <= b[k] <=> k = i
<1> DEFINE T == {k \in 1..n : p[k] <= b[k]}
<1>1. T \in SUBSET Nat /\ n \in T
  OBVIOUS
<1>2. PICK i \in T : \A k \in T : i <= k
  BY <1>1, LeastExists
<1>3. i \in 1..n /\ p[i] <= b[i] /\ \A k \in 1..n : k < i => ~(p[k] <= b[k])
  BY <1>1, <1>2
<1> HIDE DEF T
<1>4. b[i - 1] < p[i]
  <2>1. CASE i = 1
    BY <1>3, <2>1
  <2>2. CASE i # 1
    <3>1. i \in 2..n /\ i - 1 \in 1..n /\ i - 1 < i
      BY <1>3, <2>2
    <3>2. ~(p[i - 1] <= b[i - 1])
      BY <1>3, <3>1
    <3>3. ~(p[i] <= b[i - 1])
      BY <3>1, <3>2
    <3>4. p[i] \in Nat /\ b[i - 1] \in Nat
      BY <3>1
    <3>5. QED
      BY <3>3, <3>4
  <2>3. QED
    BY <2>1, <2>2
<1>5. \A j \in 1..n : i < j => p[j] <= b[j - 1]
  <2> DEFINE U == {j \in 1..n : i < j /\ ~(p[j] <= b[j - 1])}
  <2> SUFFICES ASSUME U # {} PROVE FALSE
    OBVIOUS
  <2>1. U \in SUBSET Nat
    OBVIOUS
  <2>2. PICK j \in U : \A k \in U : j <= k
    BY <2>1, LeastExists
  <2>3. j \in 2..n /\ j - 1 \in 1..n /\ i <= j - 1 /\ ~(p[j] <= b[j - 1]) /\ j - 1 \notin U
    BY <1>3, <2>1, <2>2
  <2>4. p[j - 1] <= b[j - 1]
    <3>1. CASE i = j - 1
      BY <1>3, <3>1
    <3>2. CASE i # j - 1
      <4>1. PICK h \in 1..n : h = j - 1
        BY <2>3
      <4>2. p[h] <= b[h - 1] /\ b[h - 1] <= b[h]
        BY <1>3, <2>3, <3>2, <4>1
      <4>3. p[h] \in Nat /\ b[h - 1] \in Nat /\ b[h] \in Nat
        BY <4>1
      <4>4. p[h] <= b[h]
        <5> DEFINE x == p[h]  y == b[h - 1]  z == b[h]
        <5>1. x \in Nat /\ y \in Nat /\ z \in Nat /\ x <= y /\ y <= z
          BY <4>2, <4>3
        <5> HIDE DEF x, y, z
        <5>2. x <= z
          BY <5>1
        <5>3. QED
          BY <5>2 DEF x, z
      <4>5. QED
        BY <4>1, <4>4
    <3>3. QED
      BY <3>1, <3>2
  <2>5. QED
    BY <2>3, <2>4
<1>6. \A k \in 1..n : b[k - 1] < p[k] /\ p[k] <= b[k] <=> k = i
  <2> SUFFICES ASSUME NEW k \in 1..n PROVE b[k - 1] < p[k] /\ p[k] <= b[k] <=> k = i
    OBVIOUS
  <2>1. p[k] \in Nat /\ b[k - 1] \in Nat /\ b[k] \in Nat
    OBVIOUS
  <2>2. CASE k = i
    BY <1>3, <1>4, <2>2
  <2>3. CASE k < i
    BY <1>3, <2>1, <2>3
  <2>4. CASE i < k
    <3>1. p[k] <= b[k - 1] /\ k # i
      BY <1>3, <1>5, <2>4
    <3>2. ~(b[k - 1] < p[k])
      <4> DEFINE x == p[k]  y == b[k - 1]
      <4>1. x \in Nat /\ y \in Nat /\ x <= y
        BY <2>1, <3>1
      <4> HIDE DEF x, y
      <4>2. ~(y < x)
        BY <4>1
      <4>3. QED
        BY <4>2 DEF x, y
    <3>3. QED
      BY <3>1, <3>2
  <2>5. QED
    BY <1>3, <2>2, <2>3, <2>4
<1>7. QED
  BY <1>3, <1>6

\* The pages of size z that r is on, when o[k] is the order page k is cut from.
Landed(o, z, n, r) ==
  {k \in 1..n : \E i \in DOMAIN o[k] : o[k][i] = r /\ (k - 1) * z < i /\ i <= k * z}

\* Page k is cut from A[k] and the last from the rows L were counted of: when D[k] bounds what
\* came and went, all but so many of the rows that stayed are on one page.
LEMMA FewLost ==
  ASSUME NEW n \in Nat \ {0}, NEW z \in Nat, NEW A, NEW o, NEW D, NEW L, NEW R,
         NEW Bad, Bad \subseteq R, \A r \in Bad : \A k \in 1..n : Landed(o, z, n, r) # {k},
         NEW W, W = UNION {{k} \X D[k] : k \in 1..n},
         \A k \in 1..n : IsFiniteSet(A[k]) /\ Lists(o[k], A[k]) /\ R \subseteq A[k] /\ IsFiniteSet(D[k]),
         IsFiniteSet(L), Cardinality(L) <= n * z, Cardinality(A[n] \ L) <= Cardinality(D[1]),
         \A k \in 2..n : /\ Cardinality(A[k - 1] \ A[k]) <= Cardinality(D[k])
                         /\ Cardinality(A[k] \ A[k - 1]) <= Cardinality(D[k])
                         /\ \A r \in R : KeepsOrder(o[k - 1], o[k], r)
  PROVE  Cardinality(Bad) <= Cardinality(W)
<1> DEFINE Beyond == {r \in R : r \notin Leading(o[n], n * z)}
           Cross(k) == {r \in R : ~(r \in Leading(o[k - 1], (k - 1) * z) <=> r \in Leading(o[k], (k - 1) * z))}
           C == [k \in 1..n |-> IF k = 1 THEN Beyond ELSE Cross(k)]
<1>1. ASSUME NEW k \in 1..n PROVE Cardinality(D[k]) \in Nat
  BY <1>1, FS_CardinalityType
<1>2. IsFiniteSet(Beyond) /\ Cardinality(Beyond) <= Cardinality(D[1])
  <2>1. n \in 1..n /\ 1 \in 1..n /\ n * z \in Nat
    OBVIOUS
  <2>2. Beyond \subseteq A[n] \ Leading(o[n], n * z)
    BY <2>1
  <2>3. IsFiniteSet(A[n]) /\ Lists(o[n], A[n]) /\ Cardinality(D[1]) \in Nat
    BY <1>1, <2>1
  <2> HIDE DEF Beyond
  <2>4. QED
    BY <2>1, <2>2, <2>3, FewBeyond
<1>3. ASSUME NEW k \in 2..n PROVE IsFiniteSet(Cross(k)) /\ Cardinality(Cross(k)) <= Cardinality(D[k])
  <2>1. k \in 1..n /\ k - 1 \in 1..n
    OBVIOUS
  <2>2. /\ IsFiniteSet(A[k - 1]) /\ Lists(o[k - 1], A[k - 1]) /\ R \subseteq A[k - 1]
        /\ IsFiniteSet(A[k]) /\ Lists(o[k], A[k]) /\ R \subseteq A[k] /\ Cardinality(D[k]) \in Nat
    BY <1>1, <2>1
  <2>3. PICK b \in Nat : b = (k - 1) * z
    BY <2>1
  <2>4. Cross(k) \subseteq A[k - 1] \cap A[k]
    BY <2>2
  <2>5. \A r \in Cross(k) : KeepsOrder(o[k - 1], o[k], r) /\ ~(r \in Leading(o[k - 1], b) <=> r \in Leading(o[k], b))
    BY <2>3
  <2>6. /\ Cardinality(A[k - 1] \ A[k]) <= Cardinality(D[k])
        /\ Cardinality(A[k] \ A[k - 1]) <= Cardinality(D[k])
    OBVIOUS
  <2> HIDE DEF Cross
  <2>7. QED
    BY <2>2, <2>4, <2>5, <2>6, FewCross
<1>4. \A k \in 1..n : /\ IsFiniteSet(C[k]) /\ IsFiniteSet(D[k])
                      /\ Cardinality(C[k]) <= Cardinality(D[k])
  <2> SUFFICES ASSUME NEW k \in 1..n
               PROVE  IsFiniteSet(C[k]) /\ IsFiniteSet(D[k]) /\ Cardinality(C[k]) <= Cardinality(D[k])
    OBVIOUS
  <2> HIDE DEF Beyond, Cross
  <2>1. CASE k = 1
    BY <1>2, <2>1
  <2>2. CASE k # 1
    <3>1. k \in 2..n
      BY <2>2
    <3>2. C[k] = Cross(k)
      BY <2>2
    <3>3. QED
      BY <1>3, <3>1, <3>2
  <2>3. QED
    BY <2>1, <2>2
<1>5. \A r \in Bad : \E k \in 1..n : r \in C[k]
  <2> SUFFICES ASSUME NEW r \in R, \A k \in 1..n : r \notin C[k]
               PROVE  \E i \in 1..n : Landed(o, z, n, r) = {i}
    OBVIOUS
  <2>1. r \in Leading(o[n], n * z)
    <3>1. 1 \in 1..n
      OBVIOUS
    <3>2. C[1] = Beyond
      BY <3>1
    <3>3. QED
      BY <3>1, <3>2
  <2>2. \A k \in 2..n : r \in Leading(o[k - 1], (k - 1) * z) <=> r \in Leading(o[k], (k - 1) * z)
    <3> SUFFICES ASSUME NEW k \in 2..n
                 PROVE  r \in Leading(o[k - 1], (k - 1) * z) <=> r \in Leading(o[k], (k - 1) * z)
      OBVIOUS
    <3>1. k \in 1..n /\ k # 1
      OBVIOUS
    <3>2. C[k] = Cross(k)
      BY <3>1
    <3>3. QED
      BY <3>1, <3>2
  <2> HIDE DEF C
  <2> DEFINE p == [k \in 1..n |-> CHOOSE i \in DOMAIN o[k] : o[k][i] = r]
             b == [k \in 0..n |-> k * z]
  <2>3. ASSUME NEW k \in 1..n
        PROVE  /\ p[k] \in DOMAIN o[k] /\ o[k][p[k]] = r /\ p[k] \in Nat /\ p[k] > 0
               /\ \A i \in DOMAIN o[k] : o[k][i] = r => i = p[k]
               /\ \A x \in Nat : r \in Leading(o[k], x) <=> p[k] <= x
    <3>1. IsFiniteSet(A[k]) /\ Lists(o[k], A[k]) /\ r \in A[k]
      OBVIOUS
    <3>2. /\ DOMAIN o[k] = 1..Cardinality(A[k]) /\ Cardinality(A[k]) \in Nat
          /\ \A i, j \in DOMAIN o[k] : o[k][i] = o[k][j] => i = j
          /\ \E i \in DOMAIN o[k] : o[k][i] = r
      BY <3>1, ListParts
    <3>3. p[k] \in DOMAIN o[k] /\ o[k][p[k]] = r
      BY <3>2
    <3>4. \A x \in Nat : \A i \in DOMAIN o[k] : o[k][i] \in Leading(o[k], x) <=> i <= x
      BY <3>1, LeadingParts
    <3> HIDE DEF p
    <3>5. QED
      BY <3>2, <3>3, <3>4
  <2>4. b \in [0..n -> Nat] /\ b[0] = 0
    BY DEF b
  <2>5. \A k \in 1..n : b[k] = k * z /\ b[k - 1] = (k - 1) * z /\ k * z \in Nat /\ (k - 1) * z \in Nat
    BY DEF b
  <2>6. \A k \in 1..n : b[k - 1] <= b[k]
    <3> SUFFICES ASSUME NEW k \in 1..n PROVE (k - 1) * z <= k * z
      BY <2>5
    <3>1. (k - 1) * z = k * z - z
      OBVIOUS
    <3>2. QED
      BY <3>1
  <2>7. p \in [1..n -> Nat]
    BY <2>3
  <2> HIDE DEF p, b
  <2>8. p[1] > 0 /\ p[n] <= b[n]
    <3>1. 1 \in 1..n /\ n \in 1..n
      OBVIOUS
    <3>2. r \in Leading(o[n], b[n]) /\ b[n] \in Nat
      BY <2>1, <2>5, <3>1
    <3>3. QED
      BY <2>3, <3>1, <3>2
  <2>9. \A k \in 2..n : p[k - 1] <= b[k - 1] <=> p[k] <= b[k - 1]
    <3> SUFFICES ASSUME NEW k \in 2..n PROVE p[k - 1] <= b[k - 1] <=> p[k] <= b[k - 1]
      OBVIOUS
    <3>1. k \in 1..n /\ k - 1 \in 1..n
      OBVIOUS
    <3>2. PICK x \in Nat : x = b[k - 1] /\ x = (k - 1) * z
      BY <2>5, <3>1
    <3>3. r \in Leading(o[k - 1], x) <=> r \in Leading(o[k], x)
      BY <2>2, <3>2
    <3>4. (r \in Leading(o[k - 1], x) <=> p[k - 1] <= x) /\ (r \in Leading(o[k], x) <=> p[k] <= x)
      BY <2>3, <3>1
    <3>5. QED
      BY <3>2, <3>3, <3>4
  <2>10. PICK i \in 1..n : \A k \in 1..n : b[k - 1] < p[k] /\ p[k] <= b[k] <=> k = i
    BY <2>4, <2>6, <2>7, <2>8, <2>9, OnOnePage
  <2>11. Landed(o, z, n, r) = {i}
    <3>1. ASSUME NEW k \in 1..n
          PROVE  (\E j \in DOMAIN o[k] : o[k][j] = r /\ (k - 1) * z < j /\ j <= k * z)
                   <=> b[k - 1] < p[k] /\ p[k] <= b[k]
      <4>1. b[k] = k * z /\ b[k - 1] = (k - 1) * z
        BY <2>5
      <4>2. p[k] \in DOMAIN o[k] /\ o[k][p[k]] = r /\ \A j \in DOMAIN o[k] : o[k][j] = r => j = p[k]
        BY <2>3
      <4>3. QED
        BY <4>1, <4>2
    <3>2. QED
      BY <2>10, <3>1 DEF Landed
  <2>12. QED
    BY <2>10, <2>11
<1> HIDE DEF C
<1>6. n \in Nat
  OBVIOUS
<1>7. QED
  BY <1>4, <1>5, <1>6, UnionBound
-----------------------------------------------------------------------------
(***************************************************************************)
(* Walks along NEXT.  F[v][w] is what view w was when the rows had changed *)
(* v times: its rows, and the orders a statement could return them in.     *)
(* Every count and every page, whoever holds it and however old it is,     *)
(* agrees with one such F.                                                 *)
(***************************************************************************)
Now(w) == [rows |-> Listing(w), orders |-> Orders(w)]

\* f is a view as it may have been: an approach has one row at most.
Snapshot(w, f) ==
  /\ IsFiniteSet(f.rows) /\ f.rows \subseteq Past
  /\ \A p, q \in f.rows : p.id = q.id => p = q
  /\ \A s \in f.orders :
       Lists(s, f.rows) /\ \A i, j \in DOMAIN s : i < j => ~Precedes(w, s[j], s[i])

Apart(A, B, m) == Cardinality(A \ B) <= m /\ Cardinality(B \ A) <= m

\* A change takes, adds or replaces a row; a row that has not changed was there.
HistoryBy(F) ==
  /\ \A w \in View : F[version][w] = Now(w)
  /\ \A v \in 0..version, w \in View :
       /\ Snapshot(w, F[v][w])
       /\ \A r \in Listing(w) : changed[r.id] <= v => r \in F[v][w].rows
       /\ \A u \in 0..v : Apart(F[u][w].rows, F[v][w].rows, v - u)

Told(F, t) ==
  /\ t.total = Cardinality(F[t.countedAt][t.asked.view].rows)
  /\ \E s \in F[t.at][t.asked.view].orders : t.rows = Cut(s, t.asked)

CountsBy(F) ==
  /\ HistoryBy(F)
  /\ \A c \in Client : \A n \in counted[c] : n.total = Cardinality(F[n.at][asked[c].view].rows)

AnswersBy(F) ==
  /\ \A k \in Key : \A t \in store[k] : Told(F, t)
  /\ \A c \in Client : \A t \in got[c] : Told(F, t)

TrailsBy(F) == \A c \in Client : \A i \in DOMAIN trail[c] : Told(F, trail[c][i])

TotalsOK == \E F : CountsBy(F) /\ AnswersBy(F) /\ TrailsBy(F)

\* The pages of a walk from the first one are numbered and offered NEXT, all of one view.
Walked(s) ==
  /\ \A i \in DOMAIN s : s[i].asked.size = PageSize
  /\ Len(s) > 1 => s[1].asked.page = 1
  /\ s # <<>> /\ s[1].asked.page = 1 =>
       \A i \in DOMAIN s :
         /\ s[i].asked.page = i /\ s[i].asked.view = s[1].asked.view
         /\ i < Len(s) => ~IsLastPage(s[i])

\* The page asked for continues the walk from one that offered it.
Continues(q, s) ==
  q.page \in 2..Len(s) + 1 /\ s[1].asked.page = 1 =>
    /\ q.view = s[1].asked.view
    /\ q.page = Len(s) + 1 => ~IsLastPage(s[Len(s)])

WalksOK == \A c \in Walker : Walked(trail[c]) /\ Continues(asked[c], trail[c])

LEMMA NowParts == \A w : Now(w).rows = Listing(w) /\ Now(w).orders = Orders(w)
BY DEF Now

LEMMA AnswerParts == \A t \in AnswerType : t.total \in Nat /\ t.asked \in Params
BY DEF AnswerType

\* The present is a snapshot.
LEMMA NowIsSnapshot == ApproachInv => \A w \in View : Snapshot(w, Now(w))
<1> SUFFICES ASSUME ApproachInv, NEW w \in View PROVE Snapshot(w, Now(w))
  OBVIOUS
<1>1. TypeOK /\ RowsOK
  BY DEF ApproachInv
<1>2. IsFiniteSet(Listing(w))
  BY <1>1, RowsFinite
<1>3. Listing(w) \subseteq Past
  BY DEF Listing, Past
<1>4. \A p, q \in Listing(w) : p.id = q.id => p = q
  <2> SUFFICES ASSUME NEW p \in Listing(w), NEW q \in Listing(w), p.id = q.id PROVE p = q
    OBVIOUS
  <2>1. PICK a \in Approach : p \in table[a] /\ q \in table[a]
    BY <1>1 DEF RowsOK, Listing
  <2>2. table[a] = {} \/ \E x : table[a] = {x}
    BY <1>1 DEF TypeOK, AtMostOne, IsSingleton
  <2>3. QED
    BY <2>1, <2>2
<1>5. \A s \in Orders(w) :
        Lists(s, Listing(w)) /\ \A i, j \in DOMAIN s : i < j => ~Precedes(w, s[j], s[i])
  BY DEF Orders, Lists
<1>6. QED
  BY <1>2, <1>3, <1>4, <1>5 DEF Snapshot, Now

LEMMA NextIsSnapshot == ApproachInv' => (\A w \in View : Snapshot(w, Now(w)))'
BY NowIsSnapshot, PTL

LEMMA WalkInit == Init => TotalsOK /\ WalksOK
<1> SUFFICES ASSUME Init PROVE TotalsOK /\ WalksOK
  OBVIOUS
<1>1. TotalsOK
  <2> DEFINE F == [v \in 0..version |-> [w \in View |-> Now(w)]]
  <2>1. 0..version = {0} /\ version = 0
    BY DEF Init
  <2>2. \A w \in View : F[version][w] = Now(w)
    BY <2>1
  <2> HIDE DEF F
  <2>3. HistoryBy(F)
    <3>1. ASSUME NEW v \in 0..version, NEW w \in View
          PROVE  /\ Snapshot(w, F[v][w])
                 /\ \A r \in Listing(w) : changed[r.id] <= v => r \in F[v][w].rows
                 /\ \A u \in 0..v : Apart(F[u][w].rows, F[v][w].rows, v - u)
      <4>1. v = version /\ F[v][w] = Now(w) /\ v - v = 0
        BY <2>1, <2>2
      <4>2. Snapshot(w, F[v][w])
        BY <4>1, ApproachInit, NowIsSnapshot
      <4>3. F[v][w].rows = Listing(w)
        BY <4>1 DEF Now
      <4>4. Apart(F[v][w].rows, F[v][w].rows, v - v)
        <5>1. F[v][w].rows \ F[v][w].rows = {}
          OBVIOUS
        <5>2. Cardinality(F[v][w].rows \ F[v][w].rows) = 0
          BY <5>1, FS_EmptySet
        <5>3. QED
          BY <4>1, <5>2 DEF Apart
      <4>5. \A u \in 0..v : u = v
        BY <2>1
      <4>6. QED
        BY <4>2, <4>3, <4>4, <4>5
    <3>2. QED
      BY <2>2, <3>1 DEF HistoryBy
  <2>4. CountsBy(F) /\ AnswersBy(F) /\ TrailsBy(F)
    BY <2>3 DEF Init, Cache!Empty, CountsBy, AnswersBy, TrailsBy
  <2>5. QED
    BY <2>4 DEF TotalsOK
<1>2. WalksOK
  BY ApproachAssumption DEF Init, WalksOK, Walked, Continues, NoParams
<1>3. QED
  BY <1>1, <1>2

LEMMA ApartStep ==
  ASSUME NEW A, IsFiniteSet(A), NEW B, IsFiniteSet(B), NEW C, IsFiniteSet(C),
         NEW m \in Nat, Apart(A, B, m), Apart(B, C, 1)
  PROVE  Apart(A, C, m + 1)
<1>1. ASSUME NEW X, IsFiniteSet(X), NEW Y, IsFiniteSet(Y), NEW Z, Z \subseteq X \cup Y, NEW k \in Nat,
             Cardinality(X) <= k, Cardinality(Y) <= 1
      PROVE  Cardinality(Z) <= k + 1
  <2>1. IsFiniteSet(X \cup Y) /\ Cardinality(X \cup Y) = Cardinality(X) + Cardinality(Y) - Cardinality(X \cap Y)
    BY <1>1, FS_Union
  <2>2. Cardinality(X) \in Nat /\ Cardinality(Y) \in Nat /\ Cardinality(X \cap Y) \in Nat /\ Cardinality(X \cup Y) \in Nat
    BY <1>1, <2>1, FS_CardinalityType, FS_Intersection
  <2>3. IsFiniteSet(Z) /\ Cardinality(Z) <= Cardinality(X \cup Y)
    BY <1>1, <2>1, FS_Subset
  <2>4. Cardinality(Z) \in Nat
    BY <2>3, FS_CardinalityType
  <2>5. QED
    BY <1>1, <2>1, <2>2, <2>3, <2>4
<1>2. IsFiniteSet(A \ B) /\ IsFiniteSet(B \ A) /\ IsFiniteSet(B \ C) /\ IsFiniteSet(C \ B)
  BY FS_Difference
<1>3. /\ Cardinality(A \ B) <= m /\ Cardinality(B \ A) <= m
      /\ Cardinality(B \ C) <= 1 /\ Cardinality(C \ B) <= 1
  BY DEF Apart
<1>4. A \ C \subseteq (A \ B) \cup (B \ C) /\ C \ A \subseteq (B \ A) \cup (C \ B)
  OBVIOUS
<1>5. Cardinality(A \ C) <= m + 1
  BY <1>1, <1>2, <1>3, <1>4
<1>6. Cardinality(C \ A) <= m + 1
  BY <1>1, <1>2, <1>3, <1>4
<1>7. QED
  BY <1>5, <1>6 DEF Apart

LEMMA AtMostOneIsSmall ==
  ASSUME NEW X, AtMostOne(X), NEW Y, Y \subseteq X
  PROVE  Cardinality(Y) <= 1
<1>1. Y = {} \/ \E x : Y = {x}
  BY DEF AtMostOne, IsSingleton
<1>2. Cardinality(Y) = 0 \/ Cardinality(Y) = 1
  BY <1>1, FS_EmptySet, FS_Singleton
<1>3. QED
  BY <1>2

LEMMA PrecedesKept ==
  ASSUME UNCHANGED <<sort, dir>>
  PROVE  \A w, p, q : Precedes(w, p, q)' = Precedes(w, p, q)
BY DEF Precedes, Column

\* What was a snapshot stays one.
LEMMA SnapshotKept ==
  ASSUME UNCHANGED <<sort, dir>>, Past \subseteq Past', NEW w, NEW f, Snapshot(w, f)
  PROVE  Snapshot(w, f)'
BY PrecedesKept DEF Snapshot

\* A change of the rows adds a snapshot, which differs from the one before by a row.
LEMMA TotalsGrow ==
  ASSUME ApproachInv, ApproachInv', TotalsOK, NEW a \in Approach, Changes(a), Past \subseteq Past',
         \A b \in Approach \ {a} : table'[b] = table[b] /\ (b \in scored' <=> b \in scored)
  PROVE  TotalsOK'
<1> USE DEF Changes, request, cache, client
<1>1. PICK F : CountsBy(F) /\ AnswersBy(F) /\ TrailsBy(F)
  BY DEF TotalsOK
<1>2. version \in Nat /\ version' = version + 1 /\ TypeOK /\ RowsOK /\ TypeOK' /\ RowsOK'
  BY ApproachAssumption DEF ApproachInv, TypeOK
<1>3. PICK C : C = [w \in View |-> Now(w)']
  OBVIOUS
<1>4. PICK G : /\ G[version + 1] = C
               /\ \A v \in 0..version : G[v] = F[v]
  <2> DEFINE H == [v \in 0..version + 1 |-> IF v = version + 1 THEN C ELSE F[v]]
  <2>1. H[version + 1] = C /\ \A v \in 0..version : H[v] = F[v]
    BY <1>2
  <2>2. QED
    BY <2>1
<1>5. \A t \in AnswerType : Told(F, t) => Told(G, t)
  BY <1>4 DEF Told, AnswerType
<1>6. HistoryBy(G)'
  <2>1. \A w \in View : G[version'][w] = Now(w)'
    BY <1>2, <1>3, <1>4
  <2>2. \A w \in View : G[version'][w].rows = Listing(w)' /\ F[version][w].rows = Listing(w)
    <3>1. \A w \in View : F[version][w] = Now(w)
      BY <1>1 DEF CountsBy, HistoryBy
    <3>2. \A w : Now(w)'.rows = Listing(w)'
      BY DEF Now
    <3>3. QED
      BY <2>1, <3>1, <3>2, NowParts
  <2>3. \A w \in View, b \in Approach \ {a} : \A r : r.id = b => (r \in Listing(w)' <=> r \in Listing(w))
    <3>1. ASSUME NEW w \in View, NEW b \in Approach \ {a}, NEW r, r.id = b
          PROVE  r \in Listing(w)' <=> r \in Listing(w)
      <4>1. Filter(w, b)' <=> Filter(w, b)
        BY DEF Filter
      <4>2. r \in Listing(w) <=> r \in table[b] /\ Filter(w, b)
        BY <1>2, <3>1 DEF Listing, RowsOK
      <4>3. r \in Listing(w)' <=> r \in table'[b] /\ Filter(w, b)'
        BY <1>2, <3>1 DEF Listing, RowsOK
      <4>4. QED
        BY <4>1, <4>2, <4>3
    <3>2. QED
      BY <3>1
  <2>4. ASSUME NEW w \in View
        PROVE  /\ \A r \in Listing(w) : r.id \in Approach /\ r \in table[r.id]
               /\ \A r \in Listing(w)' : r.id \in Approach /\ r \in table'[r.id]
    BY <1>2 DEF Listing, RowsOK
  <2>5. \A w \in View : Apart(Listing(w), Listing(w)', 1)
    <3> SUFFICES ASSUME NEW w \in View PROVE Apart(Listing(w), Listing(w)', 1)
      OBVIOUS
    <3>1. Listing(w) \ Listing(w)' \subseteq table[a] /\ Listing(w)' \ Listing(w) \subseteq table'[a]
      BY <2>3, <2>4
    <3>2. AtMostOne(table[a]) /\ AtMostOne(table'[a])
      BY <1>2 DEF TypeOK, AtMostOne, IsSingleton
    <3>3. QED
      BY <3>1, <3>2, AtMostOneIsSmall DEF Apart
  <2>6. \A v \in 0..version, w \in View : G[v][w] = F[v][w] /\ Snapshot(w, F[v][w])
    BY <1>1, <1>4 DEF CountsBy, HistoryBy
  <2>7. ASSUME NEW v \in 0..version', NEW w \in View
        PROVE  Snapshot(w, G[v][w])'
    <3>1. CASE v \in 0..version
      BY <2>6, <3>1, SnapshotKept
    <3>2. CASE v = version'
      BY <2>1, <3>2, NextIsSnapshot
    <3>3. QED
      BY <1>2, <3>1, <3>2
  <2>8. ASSUME NEW v \in 0..version', NEW w \in View, NEW r \in Listing(w)', changed'[r.id] <= v
        PROVE  r \in G[v][w].rows
    <3>1. CASE v \in 0..version
      <4>1. r.id \in Approach /\ changed' = [changed EXCEPT ![a] = version + 1] /\ changed \in [Approach -> 0..version]
        BY <1>2, <2>4 DEF TypeOK
      <4>2. r.id # a
        BY <1>2, <2>8, <3>1, <4>1
      <4>3. r \in Listing(w) /\ changed[r.id] <= v
        BY <2>3, <2>8, <4>1, <4>2
      <4>4. QED
        BY <1>1, <2>6, <3>1, <4>3 DEF CountsBy, HistoryBy
    <3>2. CASE v = version'
      BY <2>2, <3>2
    <3>3. QED
      BY <1>2, <3>1, <3>2
  <2>9. ASSUME NEW v \in 0..version', NEW w \in View, NEW u \in 0..v
        PROVE  Apart(G[u][w].rows, G[v][w].rows, v - u)
    <3>1. CASE v \in 0..version
      <4>1. u \in 0..version
        BY <1>2, <3>1
      <4>2. QED
        BY <1>1, <2>6, <3>1, <4>1 DEF CountsBy, HistoryBy
    <3>2. CASE v = version' /\ u = version'
      <4> DEFINE A == G[v][w].rows
      <4>1. Cardinality(A \ A) = 0
        <5>1. A \ A = {}
          OBVIOUS
        <5>2. QED
          BY <5>1, FS_EmptySet
      <4>2. v - u = 0 /\ u = v
        BY <1>2, <3>2
      <4>3. QED
        BY <4>1, <4>2 DEF Apart
    <3>3. CASE v = version' /\ u \in 0..version
      <4> DEFINE A == F[u][w].rows
                 B == Listing(w)
                 D == Listing(w)'
      <4>1. G[u][w].rows = A /\ G[v][w].rows = D /\ F[version][w].rows = B
        BY <2>2, <2>6, <3>3
      <4>2. IsFiniteSet(A)
        BY <2>6, <3>3 DEF Snapshot
      <4>3. IsFiniteSet(B)
        BY <1>2, RowsFinite
      <4>4. IsFiniteSet(D)
        BY <2>7, <3>3, <4>1 DEF Snapshot
      <4>5. version - u \in Nat /\ v - u = (version - u) + 1 /\ version \in 0..version
        BY <1>2, <3>3
      <4>6. Apart(A, F[version][w].rows, version - u)
        BY <1>1, <3>3, <4>5 DEF CountsBy, HistoryBy
      <4>7. Apart(A, B, version - u)
        BY <4>1, <4>6
      <4>8. Apart(B, D, 1)
        BY <2>5
      <4> HIDE DEF A, B, D
      <4>9. Apart(A, D, (version - u) + 1)
        BY <4>2, <4>3, <4>4, <4>5, <4>7, <4>8, ApartStep
      <4>10. QED
        BY <4>1, <4>5, <4>9
    <3>4. QED
      BY <1>2, <3>1, <3>2, <3>3
  <2>10. QED
    BY <2>1, <2>7, <2>8, <2>9 DEF HistoryBy
<1>7. CountsBy(G)'
  <2>1. ASSUME NEW c \in Client, NEW n \in counted[c] PROVE n.total = Cardinality(G[n.at][asked[c].view].rows)
    <3>1. counted \in [Client -> SUBSET [total : Nat, at : 0..version]]
      BY <1>2 DEF TypeOK
    <3>2. n.at \in 0..version
      BY <3>1
    <3>3. n.total = Cardinality(F[n.at][asked[c].view].rows)
      BY <1>1 DEF CountsBy
    <3>4. QED
      BY <1>4, <3>2, <3>3
  <2>2. QED
    BY <1>6, <2>1 DEF CountsBy
<1>8. AnswersBy(G)'
  BY <1>1, <1>2, <1>5 DEF AnswersBy, TypeOK
<1>9. TrailsBy(G)'
  <2>1. \A c \in Client : \A i \in DOMAIN trail[c] : trail[c][i] \in AnswerType
    BY <1>2 DEF TypeOK
  <2>2. QED
    BY <1>1, <1>5, <2>1 DEF TrailsBy
<1>10. QED
  BY <1>7, <1>8, <1>9 DEF TotalsOK

LEMMA HistoryKept ==
  ASSUME NEW F, HistoryBy(F), UNCHANGED <<table, gone, scored, changed, version, sort, dir>>
  PROVE  HistoryBy(F)'
<1>1. \A w : Listing(w)' = Listing(w)
  BY ListingKept
<1>2. \A w : Orders(w)' = Orders(w)
  BY <1>1, PrecedesKept DEF Orders
<1>3. Past \subseteq Past'
  BY DEF Past
<1>4. \A w, f : Snapshot(w, f) => Snapshot(w, f)'
  BY <1>3, SnapshotKept
<1>5. QED
  BY <1>1, <1>2, <1>4 DEF HistoryBy, Now

\* The rows stay, and so do the questions of the counts.
LEMMA CountsKept ==
  ASSUME NEW F, CountsBy(F), UNCHANGED <<table, gone, scored, changed, version, sort, dir>>,
         \A d \in Client : \A n \in counted'[d] : n \in counted[d] /\ asked'[d] = asked[d]
  PROVE  CountsBy(F)'
BY HistoryKept DEF CountsBy

\* No page is added, and a question asked anew continues the walk.
LEMMA WalksKept ==
  ASSUME WalksOK, UNCHANGED trail,
         \A d \in Walker : asked'[d] = asked[d] \/ Continues(asked'[d], trail[d])
  PROVE  WalksOK'
BY DEF WalksOK

\* A handler that starts or goes on waiting takes its answer from the store, if from anywhere.
LEMMA HitIsTold ==
  ASSUME TypeOK, NEW F, AnswersBy(F), NEW c \in Client, NEW k \in Key, Cache!TryGetWith(c, k), UNCHANGED store
  PROVE  AnswersBy(F)'
BY DEF AnswersBy, Cache!TryGetWith, TypeOK

LEMMA AskTotals ==
  ASSUME TypeOK, TotalsOK, NEW c \in Client, NEW q \in Params, Ask(c, q)
  PROVE  TotalsOK'
<1> USE DEF Ask, Cache!Request, rows, request
<1>1. PICK F : CountsBy(F) /\ AnswersBy(F) /\ TrailsBy(F)
  BY DEF TotalsOK
<1>2. counted[c] = {} /\ ApproachQueryKey(q) \in Key
  BY KeyTells DEF TypeOK
<1>3. CountsBy(F)'
  <2>1. \A d \in Client : \A n \in counted'[d] : n \in counted[d] /\ asked'[d] = asked[d]
    BY <1>2 DEF TypeOK
  <2>2. QED
    BY <1>1, <2>1, CountsKept
<1>4. AnswersBy(F)'
  BY <1>1, <1>2, HitIsTold
<1>5. TrailsBy(F)'
  BY <1>1 DEF TrailsBy
<1>6. QED
  BY <1>3, <1>4, <1>5 DEF TotalsOK

\* NEXT and PREV of a table that shows page q.
LEMMA LinksContinue ==
  ASSUME TypeOK, WalksOK, NEW c \in Walker, trail[c] # <<>>
  PROVE  /\ ~IsLastPage(Shown(c)) => Continues(Link(Shown(c), Shown(c).asked.page + 1), trail[c])
         /\ Continues(Link(Shown(c), Shown(c).asked.page - 1), trail[c])
         /\ \A v : Continues(Table(1, v), trail[c])
<1> DEFINE s == trail[c]
           n == Len(s)
<1>1. s \in Seq(AnswerType) /\ n \in Nat /\ n >= 1 /\ DOMAIN s = 1..n /\ Shown(c) = s[n] /\ Walked(s)
  BY ApproachAssumption DEF TypeOK, Shown, WalksOK
<1>2. ASSUME s[1].asked.page = 1 PROVE s[n].asked.page = n /\ s[n].asked.view = s[1].asked.view
  BY <1>1, <1>2 DEF Walked
<1>3. \A x \in Nat : x % Word \in Nat /\ x % Word <= x
  BY ApproachAssumption
<1>4. ASSUME ~IsLastPage(s[n]) PROVE Continues(Link(s[n], s[n].asked.page + 1), s)
  BY <1>1, <1>2, <1>4 DEF Continues, Link, Table
<1>5. Continues(Link(s[n], s[n].asked.page - 1), s)
  <2> SUFFICES ASSUME s[1].asked.page = 1
               PROVE  Link(s[n], s[n].asked.page - 1).page # n + 1
                      /\ Link(s[n], s[n].asked.page - 1).view = s[1].asked.view
    BY <1>1 DEF Continues
  <2>1. n - 1 \in Nat
    BY <1>1
  <2>2. PICK m \in Nat : m = (n - 1) % Word /\ m <= n - 1
    BY <1>3, <2>1
  <2>3. m # n + 1
    BY <1>1, <2>2
  <2>4. Link(s[n], s[n].asked.page - 1) = Table(m, s[1].asked.view)
    BY <1>2, <2>2 DEF Link
  <2>5. QED
    BY <2>3, <2>4 DEF Table
<1>6. \A v : Continues(Table(1, v), s)
  BY <1>1 DEF Continues, Table
<1>7. QED
  BY <1>1, <1>4, <1>5, <1>6

\* The requests of the clients.
LEMMA RequestWalks ==
  ASSUME TypeOK, TotalsOK, WalksOK, NEW c \in Client,
         \/ c \in Walker /\ (NextPage(c) \/ PrevPage(c) \/ \E v \in {"table", "sentry"} : OpenTable(c, v))
         \/ c \in Client \ Walker /\ (OpenDashboard(c) \/ Approaches(c))
  PROVE  TotalsOK' /\ WalksOK'
<1>1. ASSUME NEW q \in Params, Ask(c, q), c \in Walker => Continues(q, trail[c])
      PROVE  TotalsOK' /\ WalksOK'
  <2>1. trail' = trail /\ \A d \in Walker : asked'[d] = asked[d] \/ Continues(asked'[d], trail[d])
    BY <1>1, ApproachAssumption DEF Ask, TypeOK
  <2>2. QED
    BY <1>1, <2>1, AskTotals, WalksKept
<1>2. CASE c \in Walker /\ NextPage(c)
  <2>1. Shown(c).asked.page + 1 \in Int /\ Shown(c).asked.view \in View
    BY <1>2, ShownIsAnswer DEF NextPage, Link
  <2>2. Link(Shown(c), Shown(c).asked.page + 1) \in Params
    BY <2>1, ParamsExist DEF Link
  <2>3. QED
    BY <1>1, <1>2, <2>2, LinksContinue DEF NextPage
<1>3. CASE c \in Walker /\ PrevPage(c)
  <2>1. Shown(c).asked.page - 1 \in Int /\ Shown(c).asked.view \in View
    BY <1>3, ShownIsAnswer DEF PrevPage, Link
  <2>2. Link(Shown(c), Shown(c).asked.page - 1) \in Params
    BY <2>1, ParamsExist DEF Link
  <2>3. QED
    BY <1>1, <1>3, <2>2, LinksContinue DEF PrevPage
<1>4. ASSUME NEW v \in {"table", "sentry"}, OpenTable(c, v) PROVE TotalsOK' /\ WalksOK'
  <2>1. Table(1, v) \in Params
    BY ParamsExist DEF View
  <2>2. c \in Walker => Continues(Table(1, v), trail[c])
    BY DEF Continues, Table
  <2>3. QED
    BY <1>1, <1>4, <2>1, <2>2 DEF OpenTable
<1>5. CASE c \in Client \ Walker /\ OpenDashboard(c)
  BY <1>1, <1>5, ParamsExist DEF OpenDashboard, View
<1>6. CASE c \in Client \ Walker /\ Approaches(c)
  <2>1. PICK p \in ApiPage, z \in ApiSize, v \in {"table", "sentry"} : Ask(c, [page |-> p, size |-> z, view |-> v])
    BY <1>6 DEF Approaches
  <2>2. [page |-> p, size |-> z, view |-> v] \in Params
    BY ApproachAssumption DEF Params, Size, View
  <2>3. QED
    BY <1>1, <1>6, <2>1, <2>2
<1>7. QED
  BY <1>2, <1>3, <1>4, <1>5, <1>6

\* Load, prune and sentry sweep.
LEMMA RowsWalks ==
  ASSUME ApproachInv, ApproachInv', TotalsOK, WalksOK, NEW a \in Approach,
         Prune(a) \/ Rescore(a) \/ \E f \in Fact : Load(a, f)
  PROVE  TotalsOK' /\ WalksOK'
<1>1. Changes(a)
  BY DEF Prune, Rescore, Load
<1>2. Past \subseteq Past' /\ \A b \in Approach \ {a} : table'[b] = table[b] /\ (b \in scored' <=> b \in scored)
  <2>1. TypeOK
    BY DEF ApproachInv
  <2>2. CASE Prune(a)
    BY <2>1, <2>2 DEF Prune, Past, TypeOK
  <2>3. CASE Rescore(a)
    BY <2>1, <2>3 DEF Rescore, Past, TypeOK
  <2>4. ASSUME NEW f \in Fact, Load(a, f)
        PROVE  Past \subseteq Past' /\ \A b \in Approach \ {a} : table'[b] = table[b] /\ (b \in scored' <=> b \in scored)
    <3>1. gone' = gone \cup table[a] /\ scored' = scored /\ \A b \in Approach \ {a} : table'[b] = table[b]
      BY <2>1, <2>4 DEF Load, TypeOK
    <3>2. QED
      BY <3>1 DEF Past
  <2>5. QED
    BY <2>2, <2>3, <2>4
<1>3. TotalsOK'
  BY <1>1, <1>2, TotalsGrow
<1>4. WalksOK'
  BY <1>1, WalksKept DEF Changes, client
<1>5. QED
  BY <1>3, <1>4

\* A page without rows is beyond the last row.
LEMMA EmptyCut ==
  ASSUME NEW S, NEW n \in Nat, NEW s \in [1..n -> S], NEW q \in Params, Cut(s, q) = <<>>, q.size # 0
  PROVE  n <= Offset(q)
<1> SUFFICES ASSUME Offset(q) < n PROVE FALSE
  BY OffsetExact
<1>1. PICK o \in Nat, z \in Nat : o = Offset(q) /\ z = q.size /\ z # 0 /\ o < n
  BY OffsetExact
<1>2. s \in Seq(S) /\ Len(s) = n
  OBVIOUS
<1>3. PICK e \in Nat : e = (IF o + z < n THEN o + z ELSE n) /\ o + 1 <= e /\ e <= n
  BY <1>1
<1>4. Cut(s, q) = SubSeq(s, o + 1, e)
  BY <1>1, <1>2, <1>3 DEF Cut
<1>5. Len(SubSeq(s, o + 1, e)) = e - o /\ Len(SubSeq(s, o + 1, e)) = 0
  BY <1>2, <1>3, <1>4
<1>6. QED
  BY <1>3, <1>5

\* The statements of a query: a count and a page tell of the rows as they are.
LEMMA QueryWalks ==
  ASSUME ApproachInv, TotalsOK, WalksOK, NEW c \in Client, CountRows(c) \/ FetchRows(c) \/ QueryFails(c)
  PROVE  TotalsOK' /\ WalksOK'
<1> USE DEF request, cache, rows
<1>1. TypeOK /\ UNCHANGED <<table, gone, scored, changed, version, sort, dir, store, asked, trail>>
  BY DEF ApproachInv, CountRows, FetchRows, QueryFails, Cache!Read, Cache!Fail
<1>2. WalksOK'
  BY <1>1, WalksKept
<1>3. PICK F : CountsBy(F) /\ AnswersBy(F) /\ TrailsBy(F)
  BY DEF TotalsOK
<1>4. TrailsBy(F)'
  BY <1>1, <1>3 DEF TrailsBy
<1>5. asked[c] \in Params /\ asked[c].view \in View
  BY <1>1 DEF TypeOK, Params
<1>6. CASE CountRows(c)
  <2>1. got' = got /\ counted' = [counted EXCEPT ![c] = {[total |-> Count(asked[c].view), at |-> version]}]
    BY <1>6 DEF CountRows
  <2>2. HistoryBy(F)'
    BY <1>1, <1>3, HistoryKept DEF CountsBy
  <2>3. \A n \in counted'[c] : n.total = Cardinality(F[n.at][asked[c].view].rows)
    <3>1. counted'[c] = {[total |-> Count(asked[c].view), at |-> version]}
      BY <1>1, <2>1 DEF TypeOK
    <3>2. F[version][asked[c].view].rows = Listing(asked[c].view)
      BY <1>3, <1>5, NowParts DEF CountsBy, HistoryBy
    <3>3. QED
      BY <3>1, <3>2 DEF Count
  <2>4. \A d \in Client \ {c} : counted'[d] = counted[d]
    BY <1>1, <2>1 DEF TypeOK
  <2>5. CountsBy(F)'
    BY <1>1, <1>3, <2>2, <2>3, <2>4 DEF CountsBy
  <2>6. AnswersBy(F)'
    BY <1>1, <1>3, <2>1 DEF AnswersBy
  <2>7. QED
    BY <1>2, <1>4, <2>5, <2>6 DEF TotalsOK
<1>7. CASE FetchRows(c)
  <2>1. PICK n \in counted[c], s \in Orders(asked[c].view) :
          Cache!Read(c, [asked |-> asked[c], total |-> n.total, countedAt |-> n.at,
                         rows |-> Cut(s, asked[c]), at |-> version])
    BY <1>7 DEF FetchRows
  <2> DEFINE t == [asked |-> asked[c], total |-> n.total, countedAt |-> n.at,
                   rows |-> Cut(s, asked[c]), at |-> version]
  <2>2. Told(F, t)
    <3>1. t.total = Cardinality(F[t.countedAt][t.asked.view].rows)
      BY <1>3 DEF CountsBy
    <3>2. F[t.at][t.asked.view].orders = Orders(asked[c].view)
      BY <1>3, <1>5, NowParts DEF CountsBy, HistoryBy
    <3>3. QED
      BY <3>1, <3>2 DEF Told
  <2> HIDE DEF t
  <2>3. got' = [got EXCEPT ![c] = {t}] /\ counted' = [counted EXCEPT ![c] = {}]
    BY <1>7, <2>1 DEF FetchRows, Cache!Read, t
  <2>4. AnswersBy(F)'
    BY <1>1, <1>3, <2>2, <2>3 DEF AnswersBy, TypeOK
  <2>5. CountsBy(F)'
    BY <1>1, <1>3, <2>3, CountsKept DEF TypeOK
  <2>6. QED
    BY <1>2, <1>4, <2>4, <2>5 DEF TotalsOK
<1>8. CASE QueryFails(c)
  <2>1. got' = got /\ counted' = [counted EXCEPT ![c] = {}]
    BY <1>8 DEF QueryFails, Cache!Fail
  <2>2. AnswersBy(F)'
    BY <1>1, <1>3, <2>1 DEF AnswersBy
  <2>3. CountsBy(F)'
    BY <1>1, <1>3, <2>1, CountsKept DEF TypeOK
  <2>4. QED
    BY <1>2, <1>4, <2>2, <2>3 DEF TotalsOK
<1>9. QED
  BY <1>6, <1>7, <1>8

\* Answers are handed on, kept, shown or dropped.
LEMMA AnswerWalks ==
  ASSUME ApproachInv, TotalsOK, WalksOK, NEW c \in Client, Answer(c) \/ TakeOver(c)
  PROVE  TotalsOK' /\ WalksOK'
<1> USE DEF request, client
<1>1. TypeOK /\ UNCHANGED <<table, gone, scored, changed, version, sort, dir, asked, counted, trail>>
  BY DEF ApproachInv, Answer, TakeOver, rows
<1>2. WalksOK'
  BY <1>1, WalksKept
<1>3. PICK F : CountsBy(F) /\ AnswersBy(F) /\ TrailsBy(F)
  BY DEF TotalsOK
<1>4. CountsBy(F)' /\ TrailsBy(F)'
  BY <1>1, <1>3, CountsKept DEF TrailsBy
<1>5. CASE Answer(c)
  <2>1. /\ \A k \in Key : store'[k] = store[k] \/ store'[k] = got[c]
        /\ \A d \in Client : got'[d] = got[d] \/ got'[d] = got[c]
    BY <1>1, <1>5 DEF Answer, Cache!Finish, TypeOK
  <2>2. AnswersBy(F)'
    BY <1>3, <2>1 DEF AnswersBy
  <2>3. QED
    BY <1>2, <1>4, <2>2 DEF TotalsOK
<1>6. CASE TakeOver(c)
  <2>1. AnswersBy(F)'
    BY <1>1, <1>3, <1>6, HitIsTold DEF TakeOver, Cache!Retry, TypeOK
  <2>2. QED
    BY <1>2, <1>4, <2>1 DEF TotalsOK
<1>7. QED
  BY <1>5, <1>6

LEMMA ExpireWalks ==
  ASSUME ApproachInv, TotalsOK, WalksOK, NEW k \in Key, Expire(k)
  PROVE  TotalsOK' /\ WalksOK'
<1>1. /\ UNCHANGED <<table, gone, scored, changed, version, sort, dir, asked, counted, trail, got>>
      /\ \A l \in Key : store'[l] = store[l] \/ store'[l] = {}
  BY DEF ApproachInv, TypeOK, Expire, Cache!Expire, rows, request, client
<1>2. WalksOK'
  BY <1>1, WalksKept
<1>3. PICK F : CountsBy(F) /\ AnswersBy(F) /\ TrailsBy(F)
  BY DEF TotalsOK
<1>4. CountsBy(F)' /\ AnswersBy(F)' /\ TrailsBy(F)'
  BY <1>1, <1>3, CountsKept DEF AnswersBy, TrailsBy
<1>5. QED
  BY <1>2, <1>4 DEF TotalsOK

\* The page put in its place of the walk: those before it stay, it follows the last of them.
LEMMA WalkGrows ==
  ASSUME NEW s \in Seq(AnswerType), NEW t \in AnswerType, NEW p \in 2..Len(s) + 1, Walked(s),
         s[1].asked.page = 1, t.asked.page = p, t.asked.size = PageSize, Continues(t.asked, s)
  PROVE  /\ Walked(Append(SubSeq(s, 1, p - 1), t))
         /\ \A i \in DOMAIN Append(SubSeq(s, 1, p - 1), t) :
              Append(SubSeq(s, 1, p - 1), t)[i] \in {t} \cup {s[j] : j \in DOMAIN s}
<1> DEFINE u == Append(SubSeq(s, 1, p - 1), t)
<1>1. p \in Nat /\ p >= 2 /\ p - 1 <= Len(s) /\ Len(s) \in Nat /\ DOMAIN s = 1..Len(s)
  OBVIOUS
<1>2. SubSeq(s, 1, p - 1) \in Seq(AnswerType) /\ Len(SubSeq(s, 1, p - 1)) = p - 1
      /\ \A i \in 1..p - 1 : SubSeq(s, 1, p - 1)[i] = s[i]
  BY <1>1
<1>3. Len(u) = p /\ DOMAIN u = 1..p /\ u[p] = t /\ (\A i \in 1..p - 1 : u[i] = s[i]) /\ u # <<>>
  BY <1>1, <1>2
<1> HIDE DEF u
<1>4. \A i \in 1..p - 1 : s[i].asked.page = i /\ s[i].asked.view = s[1].asked.view /\ s[i].asked.size = PageSize
                          /\ (i < Len(s) => ~IsLastPage(s[i]))
  BY <1>1 DEF Walked
<1>5. u[1] = s[1] /\ t.asked.view = s[1].asked.view /\ (p = Len(s) + 1 => ~IsLastPage(s[p - 1]))
  BY <1>1, <1>3 DEF Continues
<1>6. ASSUME NEW i \in 1..p
      PROVE  /\ u[i].asked.page = i /\ u[i].asked.view = u[1].asked.view /\ u[i].asked.size = PageSize
             /\ i < p => ~IsLastPage(u[i])
  <2>1. CASE i = p
    BY <1>3, <1>5, <2>1
  <2>2. CASE i < p
    <3>1. i \in 1..p - 1 /\ u[i] = s[i]
      BY <1>1, <1>3, <2>2
    <3>2. i < Len(s) \/ (i = p - 1 /\ p = Len(s) + 1)
      BY <1>1, <2>2
    <3>3. QED
      BY <1>4, <1>5, <3>1, <3>2
  <2>3. QED
    BY <2>1, <2>2
<1>7. Walked(u)
  BY <1>3, <1>5, <1>6 DEF Walked
<1>8. \A i \in DOMAIN u : u[i] \in {t} \cup {s[j] : j \in DOMAIN s}
  BY <1>1, <1>3
<1>9. QED
  BY <1>7, <1>8 DEF u

\* A handler is done.
LEMMA EndWalks ==
  ASSUME ApproachInv, TotalsOK, WalksOK, NEW c \in Client, Leave(c) \/ Respond(c) \/ RespondError(c)
  PROVE  TotalsOK' /\ WalksOK'
<1> USE DEF request, rows
<1>1. /\ TypeOK /\ UNCHANGED <<table, gone, scored, changed, version, sort, dir, store>>
      /\ asked' = [asked EXCEPT ![c] = NoParams] /\ got' = [got EXCEPT ![c] = {}]
      /\ \A d \in Client : \A n \in counted'[d] : n \in counted[d]
      /\ counted'[c] = {}
  BY DEF ApproachInv, TypeOK, Leave, Respond, RespondError, Cache!Leave, Cache!Take
<1>2. PICK F : CountsBy(F) /\ AnswersBy(F) /\ TrailsBy(F)
  BY DEF TotalsOK
<1>3. CountsBy(F)'
  <2>1. \A d \in Client : \A n \in counted'[d] : n \in counted[d] /\ asked'[d] = asked[d]
    BY <1>1 DEF TypeOK
  <2>2. QED
    BY <1>1, <1>2, <2>1, CountsKept
<1>4. AnswersBy(F)'
  BY <1>1, <1>2 DEF AnswersBy, TypeOK
<1>5. \A s : Continues(NoParams, s)
  BY DEF Continues, NoParams
<1>6. CASE Leave(c) \/ RespondError(c)
  <2>1. trail' = trail
    BY <1>6 DEF Leave, RespondError
  <2>2. WalksOK'
    BY <1>1, <1>5, <2>1, WalksKept, ApproachAssumption DEF TypeOK
  <2>3. TrailsBy(F)'
    BY <1>2, <2>1 DEF TrailsBy
  <2>4. QED
    BY <1>3, <1>4, <2>2, <2>3 DEF TotalsOK
<1>7. CASE Respond(c)
  <2>1. PICK t \in got[c] : trail' = [trail EXCEPT ![c] =
          IF c \notin Walker THEN @
          ELSE IF asked[c].page \in 2..Len(@) + 1 /\ @[1].asked.page = 1
                 THEN Append(SubSeq(@, 1, asked[c].page - 1), t)
          ELSE <<t>>]
    BY <1>7 DEF Respond
  <2>2. t \in AnswerType /\ trail[c] \in Seq(AnswerType) /\ asked[c] \in Params /\ t.asked \in Params
    BY <1>1, AnswerParts DEF TypeOK
  <2>3. t.asked = asked[c] /\ (c \in Walker => t.asked.size = PageSize)
    <3>1. ApproachQueryKey(t.asked) = ApproachQueryKey(asked[c])
      BY DEF ApproachInv, AnswersOK, GoodAnswers, Good, AskedOK
    <3>2. t.asked = asked[c]
      BY <2>2, <3>1, KeyTells
    <3>3. QED
      BY <3>2 DEF ApproachInv, AskedOK
  <2>4. Told(F, t)
    BY <1>2 DEF AnswersBy
  <2>5. \A d \in Client \ {c} : trail'[d] = trail[d] /\ asked'[d] = asked[d]
    BY <1>1, <2>1 DEF TypeOK
  <2>6. /\ \A i \in DOMAIN trail'[c] : Told(F, trail'[c][i])
        /\ c \in Walker => Walked(trail'[c])
    <3>1. CASE c \notin Walker
      BY <1>1, <1>2, <2>1, <3>1 DEF TrailsBy, TypeOK
    <3>2. CASE c \in Walker /\ asked[c].page \in 2..Len(trail[c]) + 1 /\ trail[c][1].asked.page = 1
      <4>1. trail'[c] = Append(SubSeq(trail[c], 1, asked[c].page - 1), t)
        BY <1>1, <2>1, <3>2 DEF TypeOK
      <4>2. Walked(trail[c]) /\ Continues(t.asked, trail[c])
        BY <2>3, <3>2 DEF WalksOK
      <4>3. /\ Walked(trail'[c])
            /\ \A i \in DOMAIN trail'[c] : trail'[c][i] \in {t} \cup {trail[c][j] : j \in DOMAIN trail[c]}
        BY <2>2, <2>3, <3>2, <4>1, <4>2, WalkGrows
      <4>4. QED
        BY <1>2, <2>4, <4>3 DEF TrailsBy
    <3>3. CASE c \in Walker /\ ~(asked[c].page \in 2..Len(trail[c]) + 1 /\ trail[c][1].asked.page = 1)
      <4>1. trail'[c] = <<t>>
        BY <1>1, <2>1, <3>3 DEF TypeOK
      <4>2. Walked(<<t>>)
        BY <2>3, <3>3 DEF Walked
      <4>3. QED
        BY <2>4, <4>1, <4>2
    <3>4. QED
      BY <3>1, <3>2, <3>3
  <2>7. TrailsBy(F)'
    BY <1>2, <2>5, <2>6 DEF TrailsBy
  <2>8. WalksOK'
    <3>1. ASSUME NEW d \in Walker PROVE Walked(trail'[d]) /\ Continues(asked'[d], trail'[d])
      <4>1. CASE d = c
        BY <1>1, <1>5, <2>6, <4>1 DEF TypeOK
      <4>2. CASE d # c
        BY <2>5, <4>2, ApproachAssumption DEF WalksOK
      <4>3. QED
        BY <4>1, <4>2
    <3>2. QED
      BY <3>1 DEF WalksOK
  <2>9. QED
    BY <1>3, <1>4, <2>7, <2>8 DEF TotalsOK
<1>8. QED
  BY <1>6, <1>7

LEMMA WalkStep == ApproachInv /\ TotalsOK /\ WalksOK /\ [Next]_vars => TotalsOK' /\ WalksOK'
<1> SUFFICES ASSUME ApproachInv, TotalsOK, WalksOK, [Next]_vars PROVE TotalsOK' /\ WalksOK'
  OBVIOUS
<1>1. Walker \subseteq Client /\ TypeOK
  BY ApproachAssumption DEF ApproachInv
<1>2. ASSUME NEW a \in Approach, Prune(a) \/ Rescore(a) \/ \E f \in Fact : Load(a, f)
      PROVE  TotalsOK' /\ WalksOK'
  BY <1>2, ApproachStep, RowsWalks
<1>3. ASSUME NEW c \in Walker, NextPage(c) \/ PrevPage(c) \/ \E v \in {"table", "sentry"} : OpenTable(c, v)
      PROVE  TotalsOK' /\ WalksOK'
  BY <1>1, <1>3, RequestWalks
<1>4. ASSUME NEW c \in Client \ Walker, OpenDashboard(c) \/ Approaches(c) PROVE TotalsOK' /\ WalksOK'
  BY <1>1, <1>4, RequestWalks
<1>5. ASSUME NEW c \in Client, CountRows(c) \/ FetchRows(c) \/ QueryFails(c) PROVE TotalsOK' /\ WalksOK'
  BY <1>5, QueryWalks
<1>6. ASSUME NEW c \in Client, Answer(c) \/ TakeOver(c) PROVE TotalsOK' /\ WalksOK'
  BY <1>6, AnswerWalks
<1>7. ASSUME NEW c \in Client, Leave(c) \/ Respond(c) \/ RespondError(c) PROVE TotalsOK' /\ WalksOK'
  BY <1>7, EndWalks
<1>8. ASSUME NEW k \in Key, Expire(k) PROVE TotalsOK' /\ WalksOK'
  BY <1>8, ExpireWalks
<1>9. CASE UNCHANGED vars
  <2>1. UNCHANGED <<table, gone, scored, changed, version, sort, dir, store, got, asked, counted, trail>>
    BY <1>9 DEF vars, rows, request, cache, client
  <2>2. WalksOK'
    BY <2>1, WalksKept
  <2>3. PICK F : CountsBy(F) /\ AnswersBy(F) /\ TrailsBy(F)
    BY DEF TotalsOK
  <2>4. CountsBy(F)' /\ AnswersBy(F)' /\ TrailsBy(F)'
    BY <2>1, <2>3, CountsKept DEF AnswersBy, TrailsBy
  <2>5. QED
    BY <2>2, <2>4 DEF TotalsOK
<1>10. QED
  BY <1>2, <1>3, <1>4, <1>5, <1>6, <1>7, <1>8, <1>9 DEF Next

LEMMA WalkAlways == Spec => [](TotalsOK /\ WalksOK)
BY WalkInit, WalkStep, ApproachAlways, PTL DEF Spec
-----------------------------------------------------------------------------
(***************************************************************************)
(* What follows from it.                                                   *)
(***************************************************************************)
\* Every variable of ApproachPaging keeps its kind.
THEOREM ApproachTypes == Spec => []TypeOK
<1>1. ApproachInv => TypeOK
  BY DEF ApproachInv
<1>2. QED
  BY <1>1, ApproachAlways, PTL

\* get_paginated_approaches of cache.rs: whoever's query an answer came from, it is
\* shown to who asked that question.
THEOREM AnswersMatch == Spec => []AnswersQuestion
<1>1. ApproachInv => AnswersQuestion
  <2> SUFFICES ASSUME ApproachInv, NEW c \in Client, NEW t \in got[c] PROVE t.asked = asked[c]
    BY DEF AnswersQuestion
  <2>1. t.asked \in Params /\ asked[c] \in Params
    BY DEF ApproachInv, TypeOK, AnswerType
  <2>2. ApproachQueryKey(t.asked) = ApproachQueryKey(asked[c])
    BY DEF ApproachInv, AnswersOK, GoodAnswers, Good, AskedOK
  <2>3. QED
    BY <2>1, <2>2, KeyTells
<1>2. QED
  BY <1>1, ApproachAlways, PTL

\* The two statements of get_paginated_approaches agree when the rows did not change
\* between them: the page is as long as its labels say.
THEOREM LabelsRight == Spec => []LabelsAgree
<1>1. ApproachInv => LabelsAgree
  <2> SUFFICES ASSUME ApproachInv, NEW c \in Client, NEW t \in got[c], Fits(t.asked), t.countedAt = t.at
      PROVE  LET q == t.asked
                 before == (q.page - 1) * q.size
             IN /\ Len(t.rows) = IF t.total <= before THEN 0
                                 ELSE IF t.total < before + q.size THEN t.total - before ELSE q.size
                /\ c \in Walker /\ t.rows # <<>> => Len(t.rows) = ShowingEnd(t) + 1 - ShowingStart(t)
                /\ q = Table(1, "landing") /\ t.rows # <<>> => Len(t.rows) = LandingEnd(t) + 1 - LandingStart(t)
    BY DEF LabelsAgree
  <2> DEFINE q == t.asked
             before == (q.page - 1) * q.size
  <2>1. t \in AnswerType /\ Labelled(t) /\ ApproachQueryKey(q) = want[c] /\ want[c] = ApproachQueryKey(asked[c])
    BY DEF ApproachInv, TypeOK, AnswersOK, GoodAnswers, Good, AskedOK
  <2>2. q \in Params /\ t.total \in Nat /\ t.rows \in Seq(Row)
    BY <2>1 DEF AnswerType
  <2>3. Len(t.rows) = Expected(t.total, q)
    BY <2>1 DEF Labelled
  <2>4. ASSUME c \in Walker, t.rows # <<>>
        PROVE  Len(t.rows) = ShowingEnd(t) + 1 - ShowingStart(t)
    <3>1. q.size = PageSize
      <4>1. asked[c] \in Params /\ asked[c].size = PageSize
        BY <2>4 DEF ApproachInv, TypeOK, AskedOK
      <4>2. QED
        BY <2>1, <2>2, <4>1, KeyTells
    <3>2. q.page \in Nat /\ q.page >= 1 /\ PageSize \in Nat /\ q.page * PageSize < Word /\ PageSize >= 1
      <4>1. q.page \in Nat /\ q.size \in Nat
        BY <2>2, OffsetExact
      <4>2. PageSize # 0
        BY ApproachAssumption
      <4>3. QED
        BY <3>1, <4>1, <4>2 DEF Fits
    <3>3. /\ before \in Nat /\ q.page * PageSize \in Nat
          /\ before = q.page * PageSize - PageSize
      <4>1. q.page - 1 \in Nat
        BY <3>2
      <4>2. (q.page - 1) * PageSize \in Nat /\ q.page * PageSize \in Nat
        BY <3>2, <4>1
      <4>3. (q.page - 1) * PageSize = q.page * PageSize - PageSize
        BY <3>2
      <4>4. QED
        BY <3>1, <4>2, <4>3
    <3>4. Len(t.rows) # 0
      BY <2>2, <2>4
    <3>5. t.total > before
      BY <2>2, <2>3, <3>3, <3>4 DEF Expected
    <3>6. \A x \in Nat : x < Word => x % Word = x
      BY ApproachAssumption
    <3>7. ShowingEnd(t) = IF q.page * PageSize < t.total THEN q.page * PageSize ELSE t.total
      BY <3>2, <3>3, <3>6 DEF ShowingEnd
    <3>8. ShowingStart(t) = before + 1
      <4>1. before + 1 \in Nat /\ before + 1 < Word
        BY <3>2, <3>3, ApproachAssumption
      <4>2. (q.page - 1) * PageSize + 1 = before + 1
        BY <3>1
      <4>3. t.total # 0
        BY <2>2, <3>3, <3>5
      <4>4. QED
        BY <3>6, <4>1, <4>2, <4>3 DEF ShowingStart
    <3>9. Len(t.rows) = IF t.total < before + PageSize THEN t.total - before ELSE PageSize
      BY <2>2, <2>3, <3>1, <3>3, <3>5 DEF Expected
    <3>10. QED
      <4> HIDE DEF before, q
      <4>1. t.total \in Nat /\ before \in Nat /\ PageSize \in Nat /\ t.asked.page * PageSize \in Nat
            /\ before + PageSize = t.asked.page * PageSize
        BY <2>2, <3>2, <3>3 DEF q
      <4>2. ShowingEnd(t) = IF t.asked.page * PageSize < t.total THEN t.asked.page * PageSize ELSE t.total
        BY <3>7 DEF q
      <4>3. CASE t.total < before + PageSize
        BY <4>1, <4>2, <4>3, <3>8, <3>9
      <4>4. CASE ~(t.total < before + PageSize)
        BY <4>1, <4>2, <4>4, <3>8, <3>9
      <4>5. QED
        BY <4>3, <4>4
  <2>5. ASSUME q = Table(1, "landing"), t.rows # <<>>
        PROVE  Len(t.rows) = LandingEnd(t) + 1 - LandingStart(t)
    <3>1. q.page = 1 /\ q.size = PageSize
      BY <2>5 DEF Table
    <3>2. PageSize \in Nat /\ PageSize >= 1
      <4>1. q.size \in Nat
        BY <2>2, OffsetExact
      <4>2. PageSize # 0
        BY ApproachAssumption
      <4>3. QED
        BY <3>1, <4>1, <4>2
    <3>3. before = 0
      BY <3>1, <3>2
    <3>4. Len(t.rows) \in Nat /\ Len(t.rows) # 0
      BY <2>2, <2>5
    <3>5. Len(t.rows) = IF t.total < PageSize THEN t.total ELSE PageSize
      <4> HIDE DEF before
      <4>1. Len(t.rows) = IF t.total <= before THEN 0
                          ELSE IF t.total < before + q.size THEN t.total - before ELSE q.size
        BY <2>3 DEF Expected, before
      <4>2. QED
        BY <2>2, <3>1, <3>2, <3>3, <4>1
    <3>6. QED
      BY <2>2, <3>2, <3>4, <3>5 DEF LandingEnd, LandingStart
  <2>6. QED
    BY <2>3, <2>4, <2>5 DEF Expected
<1>2. QED
  BY <1>1, ApproachAlways, PTL

\* The landing page's order: the stored classes go down the ladder whatever the facts are
\* by now; and where no refresh has left the classes behind, classify_hazard, the rank of
\* dashboard.rs and the distance together put no approach before one that is as dangerous
\* and passes nearer.
THEOREM MostHazardousComeFirst == Spec => []MostHazardousFirst
<1>1. ApproachInv => MostHazardousFirst
  BY DEF ApproachInv, AnswersOK, GoodAnswers, Good, Nearest, Safe, MostHazardousFirst
<1>2. QED
  BY <1>1, ApproachAlways, PTL

\* There are rows beyond the pages that are not the last.
LEMMA PagesReach ==
  /\ PageSize \in Nat /\ PageSize >= 1 /\ PageSize # 0
  /\ \A T \in Nat, n \in Nat :
       n > 1 /\ (\A i \in 1..n - 1 : i # TotalPages(T)) => T > (n - 1) * PageSize
<1>1. PageSize \in Nat /\ PageSize >= 1 /\ PageSize # 0
  BY ApproachAssumption DEF Page
<1>2. ASSUME NEW T \in Nat, NEW n \in Nat, n > 1, \A i \in 1..n - 1 : i # TotalPages(T)
      PROVE  T > (n - 1) * PageSize
  <2>1. T > 0 /\ TotalPages(T) = (T + PageSize - 1) \div PageSize
    BY <1>2 DEF TotalPages
  <2>2. PICK k \in Int : k = (T + PageSize - 1) \div PageSize /\ k * PageSize <= T + PageSize - 1 /\ k >= 1
    BY <1>1, <2>1
  <2>3. k >= n
    BY <1>2, <2>1, <2>2
  <2>4. n * PageSize <= k * PageSize
    BY <1>1, <2>3
  <2>5. n * PageSize <= T + PageSize - 1
    BY <1>1, <2>2, <2>4
  <2>6. (n - 1) * PageSize = n * PageSize - PageSize
    BY <1>1
  <2>7. QED
    BY <1>1, <2>5, <2>6
<1>3. QED
  BY <1>1, <1>2

\* An offset that wraps around is smaller.
LEMMA OffsetBelow ==
  ASSUME NEW q \in Params, NEW n \in Nat, n > 1, q.page = n, q.size = PageSize
  PROVE  Offset(q) <= (n - 1) * PageSize /\ (n - 1) * PageSize \in Nat
<1>1. n - 1 \in Nat /\ PageSize \in Nat
  BY PagesReach
<1>2. PICK x \in Nat : x = (n - 1) * PageSize
  BY <1>1
<1>3. x % Word <= x
  BY ApproachAssumption
<1>4. QED
  BY <1>2, <1>3 DEF Offset

\* is_last_page of dashboard.rs: NEXT leads to a page without rows only if they changed
\* between that page and a count on the way to it.
THEOREM NextLeadsToRows == Spec => []NextLeadsOn
<1>1. TypeOK /\ TotalsOK /\ WalksOK => NextLeadsOn
  <2> SUFFICES ASSUME TypeOK, TotalsOK, WalksOK, NEW c \in Walker, Len(trail[c]) > 1, Shown(c).rows = <<>>,
                      \A i \in 1..Len(trail[c]) - 1 : trail[c][i].countedAt = Shown(c).at
               PROVE  FALSE
    BY DEF NextLeadsOn
  <2> DEFINE s == trail[c]
             n == Len(s)
             t == s[n]
  <2>1. PICK F : CountsBy(F) /\ AnswersBy(F) /\ TrailsBy(F)
    BY DEF TotalsOK
  <2>2. s \in Seq(AnswerType) /\ n \in Nat /\ n > 1 /\ DOMAIN s = 1..n /\ t = Shown(c) /\ c \in Client
    BY ApproachAssumption DEF TypeOK, Shown
  <2> HIDE DEF n
  <2>3. \A i \in 1..n : s[i] \in AnswerType /\ Told(F, s[i])
    BY <2>1, <2>2 DEF TrailsBy
  <2>4. Walked(s)
    BY DEF WalksOK
  <2>5. \A i \in 1..n : s[i].asked.page = i /\ s[i].asked.view = s[1].asked.view /\ s[i].asked.size = PageSize
                        /\ (i < n => ~IsLastPage(s[i]))
    BY <2>2, <2>4 DEF Walked, n
  <2> DEFINE T == s[1].total
  <2>6. \A i \in 1..n - 1 : s[i].countedAt = t.at
    BY <2>2 DEF n
  <2>7. \A i \in 1..n - 1 : s[i].total = Cardinality(F[t.at][s[1].asked.view].rows)
    BY <2>2, <2>3, <2>5, <2>6 DEF Told
  <2>8. \A i \in 1..n - 1 : s[i].total = T
    BY <2>2, <2>7
  <2>9. T \in Nat
    BY <2>2, <2>3, AnswerParts
  <2>10. \A i \in 1..n - 1 : i # TotalPages(T)
    BY <2>2, <2>5, <2>8 DEF IsLastPage
  <2>11. T > (n - 1) * PageSize
    <3> HIDE DEF T
    <3>1. QED
      BY <2>2, <2>9, <2>10, PagesReach
  <2>12. t.asked \in Params /\ t.asked.page = n /\ t.asked.size = PageSize
    BY <2>2, <2>3, <2>5, AnswerParts
  <2>13. T <= Offset(t.asked)
    <3>1. Told(F, t) /\ t.rows = <<>> /\ t.asked.size # 0 /\ t.asked.view = s[1].asked.view
      BY <2>2, <2>3, <2>5, <2>12, PagesReach
    <3>2. Cardinality(F[t.at][t.asked.view].rows) = T
      BY <2>2, <2>7, <3>1
    <3>3. PICK o \in F[t.at][t.asked.view].orders : Cut(o, t.asked) = <<>>
      BY <3>1 DEF Told
    <3>4. Lists(o, F[t.at][t.asked.view].rows)
      <4>1. t.at \in 0..version /\ t.asked.view \in View
        <5>1. t \in AnswerType
          BY <2>2, <2>3
        <5> HIDE DEF t
        <5>2. QED
          BY <2>12, <5>1 DEF AnswerType, Params
      <4>2. QED
        BY <2>1, <4>1 DEF CountsBy, HistoryBy, Snapshot
    <3> HIDE DEF T, t
    <3>5. QED
      BY <2>9, <2>12, <3>1, <3>2, <3>3, <3>4, EmptyCut DEF Lists
  <2>14. Offset(t.asked) <= (n - 1) * PageSize /\ (n - 1) * PageSize \in Nat /\ Offset(t.asked) \in Nat
    <3> HIDE DEF s, t
    <3>1. QED
      BY <2>2, <2>12, PagesReach, OffsetBelow, OffsetExact
  <2>15. QED
    <3> HIDE DEF T, t
    <3>1. QED
      BY <2>9, <2>11, <2>13, <2>14
<1>2. ApproachInv => TypeOK
  BY DEF ApproachInv
<1>3. QED
  BY <1>1, <1>2, ApproachAlways, WalkAlways, PTL

\* The last page reaches as far as the rows that were counted.
LEMMA LastReaches ==
  ASSUME NEW T \in Nat
  PROVE  T <= TotalPages(T) * PageSize
<1>1. PageSize \in Nat /\ PageSize >= 1
  BY PagesReach
<1>2. CASE T = 0
  BY <1>1, <1>2 DEF TotalPages
<1>3. CASE T > 0
  <2>1. TotalPages(T) = (T + PageSize - 1) \div PageSize
    BY <1>3 DEF TotalPages
  <2>2. PICK k \in Int : k = (T + PageSize - 1) \div PageSize /\ T + PageSize - 1 < k * PageSize + PageSize
    BY <1>1
  <2>3. QED
    BY <1>1, <2>1, <2>2
<1>4. QED
  BY <1>2, <1>3

LEMMA BetweenParts ==
  ASSUME NEW m \in Nat, NEW n \in Nat
  PROVE  /\ IsFiniteSet(Between(m, n))
         /\ m <= n => Cardinality(Between(m, n)) = n - m
         /\ n <= m => Cardinality(Between(m, n)) = m - n
<1>1. IsFiniteSet(m + 1..n) /\ IsFiniteSet(n + 1..m)
  BY FS_Interval
<1>2. IsFiniteSet(Between(m, n))
  BY <1>1, FS_Union DEF Between
<1>3. ASSUME m <= n PROVE Cardinality(Between(m, n)) = n - m
  <2>1. Between(m, n) = m + 1..n
    BY <1>3 DEF Between
  <2>2. Cardinality(m + 1..n) = n - m
    <3>1. m + 1 \in Int /\ n \in Int
      OBVIOUS
    <3>2. Cardinality(m + 1..n) = IF m + 1 > n THEN 0 ELSE n - (m + 1) + 1
      BY <3>1, FS_Interval
    <3>3. QED
      BY <1>3, <3>2
  <2>3. QED
    BY <2>1, <2>2
<1>4. ASSUME n <= m PROVE Cardinality(Between(m, n)) = m - n
  <2>1. Between(m, n) = n + 1..m
    BY <1>4 DEF Between
  <2>2. Cardinality(n + 1..m) = m - n
    <3>1. n + 1 \in Int /\ m \in Int
      OBVIOUS
    <3>2. Cardinality(n + 1..m) = IF n + 1 > m THEN 0 ELSE m - (n + 1) + 1
      BY <3>1, FS_Interval
    <3>3. QED
      BY <1>4, <3>2
  <2>3. QED
    BY <2>1, <2>2
<1>5. QED
  BY <1>2, <1>3, <1>4

\* Of two snapshots each has as many rows the other lacks as there were changes, at most.
LEMMA ApartBy ==
  ASSUME TypeOK, NEW F, HistoryBy(F), NEW w \in View, NEW u \in 0..version, NEW v \in 0..version
  PROVE  /\ Cardinality(F[u][w].rows \ F[v][w].rows) <= Cardinality(Between(u, v))
         /\ Cardinality(F[v][w].rows \ F[u][w].rows) <= Cardinality(Between(u, v))
<1>1. version \in Nat /\ u \in Nat /\ v \in Nat
  BY ApproachAssumption DEF TypeOK
<1>2. CASE u <= v
  <2>1. Apart(F[u][w].rows, F[v][w].rows, v - u)
    BY <1>1, <1>2 DEF HistoryBy
  <2>2. QED
    BY <1>1, <1>2, <2>1, BetweenParts DEF Apart
<1>3. CASE v <= u
  <2>1. Apart(F[v][w].rows, F[u][w].rows, u - v)
    BY <1>1, <1>3 DEF HistoryBy
  <2>2. QED
    BY <1>1, <1>3, <2>1, BetweenParts DEF Apart
<1>4. QED
  BY <1>1, <1>2, <1>3

\* A row that shares its place with none stands between the same rows in every order.
LEMMA OrderKept ==
  ASSUME NEW w, NEW f, Snapshot(w, f), NEW g, Snapshot(w, g), NEW x \in f.orders, NEW y \in g.orders,
         NEW r \in f.rows, \A q \in Past : q.id # r.id => Precedes(w, q, r) \/ Precedes(w, r, q)
  PROVE  KeepsOrder(x, y, r)
<1> SUFFICES ASSUME NEW i \in DOMAIN x, NEW k \in DOMAIN x, NEW j \in DOMAIN y, NEW l \in DOMAIN y,
                    x[i] = r, y[j] = r, x[k] = y[l], x[k] # r
             PROVE  i < k <=> j < l
  BY DEF KeepsOrder
<1> DEFINE q == x[k]
<1>1. Lists(x, f.rows) /\ Lists(y, g.rows)
  BY DEF Snapshot
<1>2. q \in f.rows /\ i \in Nat /\ k \in Nat /\ j \in Nat /\ l \in Nat
  <2>1. /\ DOMAIN x = 1..Cardinality(f.rows) /\ DOMAIN y = 1..Cardinality(g.rows)
        /\ Cardinality(f.rows) \in Nat /\ Cardinality(g.rows) \in Nat
    BY <1>1, ListParts DEF Snapshot
  <2>2. QED
    BY <1>1, <2>1 DEF Lists
<1>3. q \in Past /\ q.id # r.id
  BY <1>2 DEF Snapshot
<1>4. i # k /\ j # l
  OBVIOUS
<1>5. Precedes(w, q, r) \/ Precedes(w, r, q)
  BY <1>3
<1>6. (i < k => ~Precedes(w, q, r)) /\ (k < i => ~Precedes(w, r, q))
  BY DEF Snapshot
<1>7. (j < l => ~Precedes(w, q, r)) /\ (l < j => ~Precedes(w, r, q))
  BY DEF Snapshot
<1> HIDE DEF q
<1>8. QED
  BY <1>2, <1>4, <1>5, <1>6, <1>7

\* A page has the rows of its places.
LEMMA PageHolds ==
  ASSUME NEW A, IsFiniteSet(A), NEW f, Lists(f, A), NEW q \in Params
  PROVE  /\ \A j \in DOMAIN Cut(f, q) : Cut(f, q)[j] \in A
         /\ \A r : (\E j \in DOMAIN Cut(f, q) : Cut(f, q)[j] = r)
                     <=> \E i \in DOMAIN f : f[i] = r /\ Offset(q) < i /\ i <= Offset(q) + q.size
<1> DEFINE n == Cardinality(A)
           u == Cut(f, q)
           x == Offset(q)
           z == q.size
<1>1. n \in Nat /\ f \in [1..n -> A]
  BY ListParts DEF Lists
<1> HIDE DEF n
<1>2. /\ u \in Seq(A)
      /\ Len(u) = IF n <= x THEN 0 ELSE IF n < x + z THEN n - x ELSE z
      /\ \A i \in DOMAIN u : x + i \in 1..n /\ u[i] = f[x + i]
  BY <1>1, CutParts
<1>3. x \in Nat /\ z \in Nat /\ DOMAIN f = 1..n
  BY <1>1, OffsetExact
<1> HIDE DEF u, x, z
<1>4. DOMAIN u = 1..Len(u) /\ Len(u) \in Nat /\ \A j \in DOMAIN u : u[j] \in A
  BY <1>2
<1>5. ASSUME NEW j \in DOMAIN u
      PROVE  x + j \in DOMAIN f /\ f[x + j] = u[j] /\ x < x + j /\ x + j <= x + z
  <2>1. x + j \in 1..n /\ u[j] = f[x + j] /\ j \in 1..Len(u)
    BY <1>2, <1>4
  <2>2. Len(u) <= z
    BY <1>1, <1>2, <1>3
  <2>3. QED
    BY <1>3, <1>4, <2>1, <2>2
<1>6. ASSUME NEW i \in DOMAIN f, x < i, i <= x + z
      PROVE  i - x \in DOMAIN u /\ u[i - x] = f[i]
  <2>1. i \in 1..n /\ i - x \in Int
    BY <1>1, <1>3
  <2>2. i - x \in 1..Len(u)
    BY <1>1, <1>2, <1>3, <1>4, <1>6, <2>1
  <2>3. u[i - x] = f[x + (i - x)]
    BY <1>2, <1>4, <2>2
  <2>4. x + (i - x) = i
    BY <1>3, <2>1
  <2>5. QED
    BY <1>4, <2>2, <2>3, <2>4
<1>7. \A r : (\E j \in DOMAIN u : u[j] = r) <=> \E i \in DOMAIN f : f[i] = r /\ x < i /\ i <= x + z
  BY <1>5, <1>6
<1>8. QED
  BY <1>4, <1>7 DEF u, x, z

\* The OFFSET of dashboard.rs: over a walk from the first page to the one without NEXT, the
\* rows that were lost or repeated though they stayed are as many as the changes, at most.
THEOREM DriftIsBounded == Spec => []DriftBounded
<1>1. ApproachInv /\ TotalsOK /\ WalksOK => DriftBounded
  <2> SUFFICES ASSUME ApproachInv, TotalsOK, WalksOK, NEW c \in Walker,
                      trail[c] # <<>>, trail[c][1].asked.page = 1, IsLastPage(Shown(c)), Fits(Shown(c).asked)
               PROVE  Cardinality({r \in Listing(Shown(c).asked.view) :
                                     Settled(c, r) /\ Untied(c, r) /\ Cardinality(Pages(c, r)) # 1})
                        <= Cardinality(Drift(trail[c]))
    BY DEF DriftBounded
  <2> DEFINE s == trail[c]
             n == Len(s)
             v == s[n].asked.view
  <2>1. PICK F : CountsBy(F) /\ AnswersBy(F) /\ TrailsBy(F)
    BY DEF TotalsOK
  <2>2. /\ s \in Seq(AnswerType) /\ n \in Nat \ {0} /\ DOMAIN s = 1..n /\ Shown(c) = s[n] /\ c \in Client
        /\ TypeOK /\ HistoryBy(F) /\ 1 \in 1..n /\ n \in 1..n
    BY <2>1, ApproachAssumption DEF TypeOK, ApproachInv, Shown, CountsBy
  <2> HIDE DEF n
  <2>3. \A i \in 1..n : /\ s[i] \in AnswerType /\ Told(F, s[i]) /\ s[i].asked \in Params
                        /\ s[i].at \in 0..version /\ s[i].countedAt \in 0..version /\ s[i].total \in Nat
    <3>1. \A i \in 1..n : s[i] \in AnswerType /\ Told(F, s[i])
      BY <2>1, <2>2 DEF TrailsBy
    <3>2. \A x \in AnswerType : x.asked \in Params /\ x.at \in 0..version /\ x.countedAt \in 0..version /\ x.total \in Nat
      BY DEF AnswerType
    <3>3. QED
      BY <3>1, <3>2
  <2>4. \A i \in 1..n : s[i].asked.page = i /\ s[i].asked.view = v /\ s[i].asked.size = PageSize
    BY <2>2 DEF WalksOK, Walked
  <2>5. v \in View /\ PageSize \in Nat /\ PageSize >= 1
    BY <2>2, <2>3, PagesReach DEF Params
  <2>6. \A i \in 1..n : Offset(s[i].asked) = (i - 1) * PageSize
    <3> SUFFICES ASSUME NEW i \in 1..n PROVE Offset(s[i].asked) = (i - 1) * PageSize
      OBVIOUS
    <3>1. n * PageSize < Word
      BY <2>2, <2>4 DEF Fits
    <3>2. i * PageSize <= n * PageSize /\ i * PageSize \in Nat /\ n * PageSize \in Nat /\ Word \in Nat
      BY <2>2, <2>5, ApproachAssumption
    <3>3. i * PageSize < Word
      BY <3>1, <3>2
    <3> DEFINE q == s[i].asked
    <3>4. q \in Params /\ q.page = i /\ q.size = PageSize
      BY <2>3, <2>4
    <3> HIDE DEF q
    <3>5. Fits(q)
      BY <3>3, <3>4 DEF Fits
    <3>6. Offset(q) = (i - 1) * PageSize
      BY <3>4, <3>5, OffsetExact
    <3>7. QED
      BY <3>6 DEF q
  <2> DEFINE A == [i \in 1..n |-> F[s[i].at][v].rows]
             o == [i \in 1..n |-> CHOOSE x \in F[s[i].at][v].orders : s[i].rows = Cut(x, s[i].asked)]
             L == F[s[n].countedAt][v].rows
             D == [k \in 1..n |-> IF k = 1 THEN Between(s[n].countedAt, s[n].at)
                                  ELSE Between(s[k - 1].at, s[k].at)]
             R == {r \in Listing(v) : Settled(c, r) /\ Untied(c, r)}
  <2>7. \A i \in 1..n : /\ Snapshot(v, F[s[i].at][v]) /\ A[i] = F[s[i].at][v].rows
                        /\ o[i] \in F[s[i].at][v].orders /\ s[i].rows = Cut(o[i], s[i].asked)
    <3> SUFFICES ASSUME NEW i \in 1..n
                 PROVE  /\ Snapshot(v, F[s[i].at][v]) /\ A[i] = F[s[i].at][v].rows
                        /\ o[i] \in F[s[i].at][v].orders /\ s[i].rows = Cut(o[i], s[i].asked)
      OBVIOUS
    <3>1. Snapshot(v, F[s[i].at][v])
      BY <2>2, <2>3, <2>5 DEF HistoryBy
    <3>2. \E x \in F[s[i].at][v].orders : s[i].rows = Cut(x, s[i].asked)
      BY <2>3, <2>4 DEF Told
    <3>3. QED
      BY <3>1, <3>2
  <2>8. \A k \in 1..n : IsFiniteSet(A[k]) /\ Lists(o[k], A[k]) /\ R \subseteq A[k] /\ IsFiniteSet(D[k])
    <3> SUFFICES ASSUME NEW k \in 1..n
                 PROVE  IsFiniteSet(A[k]) /\ Lists(o[k], A[k]) /\ R \subseteq A[k] /\ IsFiniteSet(D[k])
      OBVIOUS
    <3>1. IsFiniteSet(A[k]) /\ Lists(o[k], A[k])
      <4> HIDE DEF A, o
      <4>1. QED
        BY <2>7 DEF Snapshot
    <3>2. \A r \in R : changed[r.id] <= s[k].at
      BY <2>2 DEF Settled, Walk
    <3>3. R \subseteq F[s[k].at][v].rows
      BY <2>2, <2>3, <2>5, <3>2 DEF HistoryBy
    <3>4. version \in Nat /\ s[k].at \in Nat /\ s[n].at \in Nat /\ s[n].countedAt \in Nat
          /\ (k # 1 => s[k - 1].at \in Nat)
      BY <2>2, <2>3, ApproachAssumption DEF TypeOK
    <3>5. IsFiniteSet(D[k])
      BY <3>4, BetweenParts
    <3>6. QED
      BY <3>1, <3>3, <3>5
  <2>9. IsFiniteSet(L) /\ Cardinality(L) <= n * PageSize /\ Cardinality(A[n] \ L) <= Cardinality(D[1])
    <3>1. IsFiniteSet(L)
      BY <2>2, <2>3, <2>5 DEF HistoryBy, Snapshot
    <3>2. s[n].total = Cardinality(L) /\ s[n].total \in Nat /\ n = TotalPages(s[n].total)
      BY <2>2, <2>3, <2>4 DEF Told, IsLastPage
    <3>3. Cardinality(L) <= n * PageSize
      BY <3>2, LastReaches
    <3>4. A[n] = F[s[n].at][v].rows /\ D[1] = Between(s[n].countedAt, s[n].at)
      BY <2>2
    <3>5. Cardinality(F[s[n].at][v].rows \ L) <= Cardinality(Between(s[n].countedAt, s[n].at))
      BY <2>2, <2>3, <2>5, ApartBy
    <3>6. QED
      BY <3>1, <3>3, <3>4, <3>5
  <2>10. \A k \in 2..n : /\ Cardinality(A[k - 1] \ A[k]) <= Cardinality(D[k])
                         /\ Cardinality(A[k] \ A[k - 1]) <= Cardinality(D[k])
                         /\ \A r \in R : KeepsOrder(o[k - 1], o[k], r)
    <3> SUFFICES ASSUME NEW k \in 2..n
                 PROVE  /\ Cardinality(A[k - 1] \ A[k]) <= Cardinality(D[k])
                        /\ Cardinality(A[k] \ A[k - 1]) <= Cardinality(D[k])
                        /\ \A r \in R : KeepsOrder(o[k - 1], o[k], r)
      OBVIOUS
    <3>1. PICK h \in 1..n : h = k - 1
      BY <2>2
    <3>2. k \in 1..n /\ h \in 1..n /\ D[k] = Between(s[h].at, s[k].at)
      BY <2>2, <3>1
    <3> HIDE DEF D
    <3>3. A[h] = F[s[h].at][v].rows /\ A[k] = F[s[k].at][v].rows
      BY <3>2
    <3>4. /\ Cardinality(F[s[h].at][v].rows \ F[s[k].at][v].rows) <= Cardinality(Between(s[h].at, s[k].at))
          /\ Cardinality(F[s[k].at][v].rows \ F[s[h].at][v].rows) <= Cardinality(Between(s[h].at, s[k].at))
      BY <2>2, <2>3, <2>5, <3>2, ApartBy
    <3>5. ASSUME NEW r \in R PROVE KeepsOrder(o[h], o[k], r)
      <4>1. /\ Snapshot(v, F[s[h].at][v]) /\ o[h] \in F[s[h].at][v].orders
            /\ Snapshot(v, F[s[k].at][v]) /\ o[k] \in F[s[k].at][v].orders
        BY <2>7, <3>2
      <4>2. r \in F[s[h].at][v].rows
        BY <2>8, <3>2, <3>3
      <4>3. \A q \in Past : q.id # r.id => Precedes(v, q, r) \/ Precedes(v, r, q)
        BY <2>2 DEF Untied
      <4> HIDE DEF o, v
      <4>4. QED
        BY <4>1, <4>2, <4>3, OrderKept
    <3>6. QED
      BY <3>1, <3>2, <3>3, <3>4, <3>5
  <2>11. Drift(s) = UNION {{k} \X D[k] : k \in 1..n}
    <3>1. \A k \in 2..n : D[k] = Between(s[k - 1].at, s[k].at)
      BY <2>2
    <3>2. D[1] = Between(s[n].countedAt, s[n].at)
      BY <2>2
    <3> HIDE DEF D
    <3> DEFINE U == UNION {{k} \X D[k] : k \in 1..n}
               V == UNION {{k} \X D[k] : k \in 2..n}
               E == {1} \X D[1]
    <3>3. Drift(s) = V \cup E
      <4>1. {{k} \X Between(s[k - 1].at, s[k].at) : k \in 2..n} = {{k} \X D[k] : k \in 2..n}
        BY <3>1
      <4>2. QED
        BY <3>2, <4>1 DEF Drift, n
    <3>4. \A p : p \in U <=> \E k \in 1..n : p \in {k} \X D[k]
      OBVIOUS
    <3>5. \A p : p \in V <=> \E k \in 2..n : p \in {k} \X D[k]
      OBVIOUS
    <3>6. \A k : k \in 1..n <=> k \in 2..n \/ k = 1
      BY <2>2
    <3>7. \A p : p \in U <=> p \in V \/ p \in E
      BY <3>4, <3>5, <3>6
    <3> HIDE DEF U, V, E
    <3>8. U = V \cup E
      BY <3>7
    <3>9. Drift(s) = U
      BY <3>3, <3>8
    <3>10. QED
      BY <3>9 DEF U
  <2>12. \A r \in R : Pages(c, r) = Landed(o, PageSize, n, r)
    <3> SUFFICES ASSUME NEW r \in R PROVE Pages(c, r) = Landed(o, PageSize, n, r)
      OBVIOUS
    <3>1. ASSUME NEW k \in 1..n
          PROVE  (\E j \in DOMAIN s[k].rows : s[k].rows[j].id = r.id)
                   <=> \E i \in DOMAIN o[k] : o[k][i] = r /\ (k - 1) * PageSize < i /\ i <= k * PageSize
      <4>1. /\ IsFiniteSet(A[k]) /\ Lists(o[k], A[k]) /\ r \in A[k] /\ s[k].rows = Cut(o[k], s[k].asked)
            /\ \A p, q \in A[k] : p.id = q.id => p = q
        <5> HIDE DEF A, o, R
        <5>1. QED
          BY <2>7, <2>8 DEF Snapshot
      <4> DEFINE q == s[k].asked
      <4>2. /\ q \in Params /\ Offset(q) = (k - 1) * PageSize
            /\ Offset(q) + q.size = k * PageSize
        BY <2>3, <2>4, <2>5, <2>6
      <4>3. \A j \in DOMAIN s[k].rows : s[k].rows[j] \in A[k]
        <5> HIDE DEF A, o, R
        <5>1. QED
          BY <4>1, <4>2, PageHolds DEF q
      <4>4. (\E j \in DOMAIN s[k].rows : s[k].rows[j] = r)
              <=> \E i \in DOMAIN o[k] : o[k][i] = r /\ Offset(q) < i /\ i <= Offset(q) + q.size
        <5>1. IsFiniteSet(A[k]) /\ Lists(o[k], A[k]) /\ q \in Params /\ s[k].rows = Cut(o[k], q)
          BY <4>1, <4>2
        <5> DEFINE B == A[k]
                   f == o[k]
                   u == s[k].rows
        <5> HIDE DEF q, A, o, R, B, f, u
        <5>2. (\E j \in DOMAIN Cut(f, q) : Cut(f, q)[j] = r)
                <=> \E i \in DOMAIN f : f[i] = r /\ Offset(q) < i /\ i <= Offset(q) + q.size
          BY <5>1, PageHolds DEF B, f
        <5>3. u = Cut(f, q)
          BY <5>1 DEF f, u
        <5>4. (\E j \in DOMAIN u : u[j] = r)
                <=> \E i \in DOMAIN f : f[i] = r /\ Offset(q) < i /\ i <= Offset(q) + q.size
          BY <5>2, <5>3
        <5>5. QED
          BY <5>4 DEF f, u
      <4>5. (\E j \in DOMAIN s[k].rows : s[k].rows[j].id = r.id)
              <=> \E j \in DOMAIN s[k].rows : s[k].rows[j] = r
        <5> HIDE DEF q, A, o, R, s
        <5>1. QED
          BY <4>1, <4>3
      <4> HIDE DEF q, A, o, R
      <4>6. QED
        BY <4>2, <4>4, <4>5
    <3>2. QED
      BY <2>2, <3>1 DEF Pages, Landed, Walk
  <2> DEFINE Bad == {r \in R : \A k \in 1..n : Landed(o, PageSize, n, r) # {k}}
             W == Drift(s)
  <2> HIDE DEF A, o, L, D
  <2>13. Cardinality(Bad) <= Cardinality(W)
    <3>1. Bad \subseteq R /\ \A r \in Bad : \A k \in 1..n : Landed(o, PageSize, n, r) # {k}
      OBVIOUS
    <3> HIDE DEF R, s, v, Bad, W
    <3>2. n \in Nat \ {0} /\ PageSize \in Nat
      BY <2>2, <2>5
    <3>3. W = UNION {{k} \X D[k] : k \in 1..n}
      BY <2>11 DEF W
    <3>4. QED
      BY <2>8, <2>9, <2>10, <3>1, <3>2, <3>3, FewLost
  <2>14. {r \in Listing(v) : Settled(c, r) /\ Untied(c, r) /\ Cardinality(Pages(c, r)) # 1} = Bad
    <3> SUFFICES ASSUME NEW r \in R
                 PROVE  Cardinality(Pages(c, r)) # 1 <=> \A k \in 1..n : Landed(o, PageSize, n, r) # {k}
      OBVIOUS
    <3>1. Pages(c, r) = Landed(o, PageSize, n, r) /\ Pages(c, r) \subseteq 1..n
      BY <2>12 DEF Landed
    <3>2. IsFiniteSet(Pages(c, r))
      BY <2>2, <3>1, FS_Interval, FS_Subset
    <3>3. Cardinality(Pages(c, r)) = 1 <=> \E k \in 1..n : Pages(c, r) = {k}
      <4>1. Cardinality(Pages(c, r)) = 1 <=> \E k : Pages(c, r) = {k}
        BY <3>2, FS_Singleton
      <4>2. QED
        BY <3>1, <4>1
    <3>4. QED
      BY <3>1, <3>3
  <2>15. QED
    BY <2>2, <2>13, <2>14
<1>2. QED
  BY <1>1, ApproachAlways, WalkAlways, PTL
=============================================================================
