-------------------------- MODULE EnrichmentProofs --------------------------
(***************************************************************************)
(* Proofs about Enrichment for any catalog, any order and any limits.      *)
(***************************************************************************)
EXTENDS Enrichment, FiniteSetTheorems, TLAPS

\* What is in the buffer was answered in this sweep, and with the same values, or
\* taken for an answer without any.
Buffered ==
  /\ found \subseteq pending
  /\ pending \subseteq answered \cup mistaken
  /\ answered \cap mistaken = {}
  /\ \A a \in pending : a \in found <=> a \in answered /\ a \in said

\* A sweep under way has not ended, and the counters are those of a loop of `orbits`.
UnderWay ==
  /\ pc # "idle" => last = "none"
  /\ command = "sentry" => pc # "refill"
  /\ command = "sentry" \/ pc = "idle" => primed = 0 /\ consecutive = 0 /\ since = 0

EnrichmentInv == TypeOK /\ Buffered /\ UnderWay /\ AnswersKept /\ ApiSpared /\ Slots

\* Sets of asteroids can be counted, one more or one less.
LEMMA AsteroidMoves ==
  ASSUME NEW T \in SUBSET Asteroid, NEW a \in Asteroid
  PROVE  /\ Cardinality(T) \in Nat
         /\ Cardinality(T \cup {a}) \in Nat
         /\ Cardinality(T \cup {a}) <= Cardinality(T) + 1
         /\ Cardinality(T \ {a}) \in Nat
         /\ Cardinality(T \ {a}) <= Cardinality(T)
         /\ a \in T => Cardinality(T \ {a}) < Cardinality(T)
<1>1. IsFiniteSet(T)
  BY AsteroidAssumption, FS_Subset
<1>2. IsFiniteSet(T \ {a}) /\ IsFiniteSet(T \cup {a})
  BY <1>1, FS_AddElement, FS_RemoveElement
<1>3. Cardinality(T) \in Nat /\ Cardinality(T \ {a}) \in Nat /\ Cardinality(T \cup {a}) \in Nat
  BY <1>1, <1>2, FS_CardinalityType
<1>4. Cardinality(T \ {a}) = IF a \in T THEN Cardinality(T) - 1 ELSE Cardinality(T)
  BY <1>1, FS_RemoveElement
<1>5. Cardinality(T \cup {a}) = IF a \in T THEN Cardinality(T) ELSE Cardinality(T) + 1
  BY <1>1, FS_AddElement
<1>6. QED
  BY <1>3, <1>4, <1>5

\* A chunk, or a slot, takes no more candidates than it may: the number of
\* candidates before a candidate in the order tells it from every other.
LEMMA FirstFew ==
  ASSUME NEW S \in SUBSET Asteroid, NEW n \in Nat
  PROVE  /\ First(S, n) \in SUBSET S
         /\ Cardinality(First(S, n)) \in Nat
         /\ Cardinality(First(S, n)) <= n
<1> DEFINE Before(a) == {b \in S : Rank[b] < Rank[a]}
           place == [a \in First(S, n) |-> Cardinality(Before(a))]
<1>1. First(S, n) \in SUBSET S
  BY DEF First
<1>2. IsFiniteSet(First(S, n)) /\ IsFiniteSet(S)
  BY <1>1, AsteroidAssumption, FS_Subset
<1>3. \A a \in S : IsFiniteSet(Before(a)) /\ Cardinality(Before(a)) \in Nat
  <2>1. \A a \in S : Before(a) \in SUBSET S
    OBVIOUS
  <2>2. QED
    BY <1>2, <2>1, FS_Subset, FS_CardinalityType
<1>4. \A a \in First(S, n) : Cardinality(Before(a)) \in 0..(n - 1)
  BY <1>1, <1>3 DEF First
<1>5. ASSUME NEW a \in S, NEW c \in S, Rank[a] < Rank[c]
      PROVE  Cardinality(Before(a)) # Cardinality(Before(c))
  <2>1. Rank[a] \in Nat /\ Rank[c] \in Nat /\ \A b \in S : Rank[b] \in Nat
    BY AsteroidAssumption
  <2>2. Before(a) \in SUBSET Before(c)
    BY <2>1, <1>5
  <2>3. a \in Before(c) /\ a \notin Before(a)
    BY <2>1, <1>5
  <2>4. Cardinality(Before(c)) = Cardinality(Before(a)) => Before(c) = Before(a)
    BY <1>3, <2>2, FS_Subset
  <2>5. QED
    BY <2>3, <2>4
<1>6. place \in Injection(First(S, n), 0..(n - 1))
  <2>1. place \in [First(S, n) -> 0..(n - 1)]
    BY <1>4
  <2>2. ASSUME NEW a \in First(S, n), NEW c \in First(S, n), place[a] = place[c]
        PROVE  a = c
    <3>1. a \in S /\ c \in S /\ Rank[a] \in Nat /\ Rank[c] \in Nat
      BY <1>1, AsteroidAssumption
    <3>2. Cardinality(Before(a)) = Cardinality(Before(c))
      BY <2>2
    <3>3. ~(Rank[a] < Rank[c]) /\ ~(Rank[c] < Rank[a])
      BY <1>5, <3>1, <3>2
    <3>4. Rank[a] = Rank[c]
      BY <3>1, <3>3
    <3>5. QED
      BY <3>1, <3>4, AsteroidAssumption
  <2>3. QED
    BY <2>1, <2>2 DEF Injection, IsInjective
<1>7. IsFiniteSet(0..(n - 1)) /\ Cardinality(0..(n - 1)) = n
  <2>1. 0 \in Int /\ n - 1 \in Int
    OBVIOUS
  <2>2. IsFiniteSet(0..(n - 1)) /\ Cardinality(0..(n - 1)) = IF 0 > n - 1 THEN 0 ELSE (n - 1) - 0 + 1
    BY <2>1, FS_Interval
  <2>3. QED
    BY <2>2
<1>8. Cardinality(First(S, n)) <= n
  BY <1>6, <1>7, FS_Injection
<1>9. QED
  BY <1>1, <1>2, <1>8, FS_CardinalityType

\* The limits are positive, the counters natural numbers.
LEMMA Numbers ==
  ASSUME TypeOK
  PROVE  /\ Concurrency \in Nat /\ Concurrency >= 1
         /\ Abort \in Nat /\ Abort >= 1
         /\ ChunkSize \in Nat /\ ChunkSize >= 1
         /\ FlushSize \in Nat /\ FlushSize >= 1
         /\ MaxFaults \in Nat /\ MaxChanges \in Nat
         /\ primed \in Nat /\ primed <= Concurrency
         /\ consecutive \in Nat /\ consecutive <= Abort
         /\ since \in Nat /\ faults \in Nat /\ faults <= MaxFaults
         /\ Cardinality(inFlight) \in Nat
<1>1. /\ Concurrency \in Nat /\ Concurrency >= 1
      /\ Abort \in Nat /\ Abort >= 1
      /\ ChunkSize \in Nat /\ ChunkSize >= 1
      /\ FlushSize \in Nat /\ FlushSize >= 1
      /\ MaxFaults \in Nat /\ MaxChanges \in Nat
  BY OrbitAssumption, SentryAssumption, SweepAssumption
<1>2. inFlight \in SUBSET Asteroid
  BY DEF TypeOK
<1>3. Cardinality(inFlight) \in Nat
  BY <1>2, AsteroidAssumption, FS_Subset, FS_CardinalityType
<1>4. QED
  BY <1>1, <1>3 DEF TypeOK

\* A fault is one of the bounded number of them.
LEMMA FaultType ==
  ASSUME TypeOK, Fault
  PROVE  faults' \in 0..MaxFaults
BY Numbers DEF Fault

\* What spawn_next does to the slots: the first of the candidates is one at most.
LEMMA SpawnEffect ==
  ASSUME TypeOK, SpawnNext
  PROVE  /\ candidates' \in SUBSET Asteroid /\ inFlight' \in SUBSET Asteroid
         /\ since' \in Nat /\ since' <= since + 1
         /\ Cardinality(inFlight)' \in Nat
         /\ Cardinality(inFlight)' <= Cardinality(inFlight) + 1
<1> DEFINE F == First(candidates, 1)
<1>1. /\ candidates \in SUBSET Asteroid /\ inFlight \in SUBSET Asteroid
      /\ candidates' = candidates \ F /\ inFlight' = inFlight \cup F
      /\ since' \in Nat /\ since' <= since + 1
  BY DEF SpawnNext, TypeOK
<1>2. F \in SUBSET candidates /\ Cardinality(F) \in Nat /\ Cardinality(F) <= 1
  BY <1>1, FirstFew
<1> HIDE DEF F
<1>3. IsFiniteSet(F) /\ IsFiniteSet(inFlight) /\ F \in SUBSET Asteroid
  BY <1>1, <1>2, AsteroidAssumption, FS_Subset
<1>4. inFlight' \in SUBSET Asteroid /\ candidates' \in SUBSET Asteroid
  BY <1>1, <1>3
<1>5. CASE F = {}
  BY <1>1, <1>4, <1>5, Numbers
<1>6. CASE F # {}
  <2>1. Cardinality(F) # 0
    BY <1>3, <1>6, FS_EmptySet
  <2>2. Cardinality(F) = 1
    BY <1>2, <2>1
  <2>3. PICK a : F = {a}
    BY <1>3, <2>2, FS_Singleton
  <2>4. a \in Asteroid
    BY <1>3, <2>3
  <2>5. /\ Cardinality(inFlight \cup {a}) \in Nat
        /\ Cardinality(inFlight \cup {a}) <= Cardinality(inFlight) + 1
    BY <1>1, <2>4, AsteroidMoves
  <2>6. QED
    BY <1>1, <1>4, <2>3, <2>5
<1>7. QED
  BY <1>5, <1>6

-----------------------------------------------------------------------------
\* An answer goes into the buffer as it was given, what is taken for one as NULLs.
LEMMA EnqueueEffect ==
  ASSUME TypeOK, Buffered, AnswersKept,
         NEW a \in Asteroid, NEW values \in BOOLEAN, UNCHANGED <<rows, last>>,
         Buffer(a, values) \/ (Mistake(a) /\ values = FALSE)
  PROVE  /\ Buffered' /\ AnswersKept'
         /\ {inFlight, pending, found, answered, said, mistaken}' \subseteq SUBSET Asteroid
<1>1. /\ inFlight' = inFlight \ {a} /\ pending' = pending \cup {a}
      /\ found' = IF values THEN found \cup {a} ELSE found \ {a}
      /\ row' = row /\ filled' = filled /\ last' = last
  BY DEF Buffer, Mistake, Enqueue, With, rows
<1>2. \/ /\ answered' = answered \cup {a} /\ mistaken' = mistaken \ {a}
         /\ said' = IF values THEN said \cup {a} ELSE said \ {a}
      \/ /\ answered' = answered \ {a} /\ mistaken' = mistaken \cup {a}
         /\ said' = said \ {a} /\ values = FALSE
  BY DEF Buffer, Mistake, With
<1>3. Buffered'
  <2>1. found' \subseteq pending' /\ pending' \subseteq answered' \cup mistaken' /\ answered' \cap mistaken' = {}
    BY <1>1, <1>2 DEF Buffered
  <2>2. ASSUME NEW b \in pending' PROVE b \in found' <=> b \in answered' /\ b \in said'
    <3>1. CASE b = a
      BY <1>1, <1>2, <3>1
    <3>2. CASE b # a
      BY <1>1, <1>2, <2>2, <3>2 DEF Buffered
    <3>3. QED
      BY <3>1, <3>2
  <2>3. QED
    BY <2>1, <2>2 DEF Buffered
<1>4. AnswersKept'
  <2> SUFFICES ASSUME last # "failed", NEW b \in answered'
               PROVE  \/ b \in pending' /\ (b \in found' <=> b \in said')
                      \/ row[b] = "fresh" /\ (b \in filled <=> b \in said')
    BY <1>1 DEF AnswersKept
  <2>1. CASE b = a
    BY <2>1, <1>1, <1>2
  <2>2. CASE b # a
    BY <2>2, <1>1, <1>2 DEF AnswersKept
  <2>3. QED
    BY <2>1, <2>2
<1>5. {inFlight, pending, found, answered, said, mistaken}' \subseteq SUBSET Asteroid
  BY <1>1, <1>2 DEF TypeOK
<1>6. QED
  BY <1>3, <1>4, <1>5

\* A failed lookup touches neither the buffer nor what was answered.
LEMMA DropEffect ==
  ASSUME TypeOK, Buffered, AnswersKept,
         NEW a \in Asteroid, Drop(a), UNCHANGED <<rows, last>>
  PROVE  /\ Buffered' /\ AnswersKept'
         /\ {inFlight, pending, found, answered, said, mistaken}' \subseteq SUBSET Asteroid
<1>1. /\ inFlight' = inFlight \ {a}
      /\ UNCHANGED <<pending, found, answered, said, mistaken, row, filled, last>>
  BY DEF Drop, heard, rows
<1>2. Buffered' /\ AnswersKept'
  BY <1>1 DEF Buffered, AnswersKept
<1>3. {inFlight, pending, found, answered, said, mistaken}' \subseteq SUBSET Asteroid
  BY <1>1 DEF TypeOK
<1>4. QED
  BY <1>2, <1>3

\* The statement stores what the buffer holds, and that only.
LEMMA StoreEffect ==
  ASSUME TypeOK, Buffered
  PROVE  /\ Stamped \in [Asteroid -> {"none", "fresh", "stale"}]
         /\ Filled \in SUBSET Asteroid
         /\ \A a \in pending : Stamped[a] = "fresh" /\ (a \in Filled <=> a \in answered /\ a \in said)
         /\ \A a \in Asteroid \ pending : Stamped[a] = row[a] /\ (a \in Filled <=> a \in filled)
<1>1. pending \in SUBSET Asteroid /\ found \in SUBSET pending /\ filled \in SUBSET Asteroid
  BY DEF TypeOK, Buffered
<1>2. row \in [Asteroid -> {"none", "fresh", "stale"}]
  BY DEF TypeOK
<1>3. QED
  BY <1>1, <1>2 DEF Stamped, Filled, Buffered

\* After the statement every answer is in the database.
LEMMA WriteEffect ==
  ASSUME TypeOK, Buffered, AnswersKept, last # "failed", Write, UNCHANGED heard
  PROVE  /\ Buffered' /\ AnswersKept'
         /\ row' \in [Asteroid -> {"none", "fresh", "stale"}]
         /\ {filled, pending, found, answered, said, mistaken}' \subseteq SUBSET Asteroid
<1>1. /\ row' = Stamped /\ filled' = Filled /\ pending' = {} /\ found' = {}
      /\ answered' = answered /\ said' = said /\ mistaken' = mistaken
  BY DEF Write, heard
<1>2. answered \in SUBSET Asteroid /\ said \in SUBSET Asteroid /\ mistaken \in SUBSET Asteroid
  BY DEF TypeOK
<1>3. Buffered'
  BY <1>1 DEF Buffered
<1>4. AnswersKept'
  <2> SUFFICES ASSUME NEW a \in answered
               PROVE  row'[a] = "fresh" /\ (a \in filled' <=> a \in said)
    BY <1>1 DEF AnswersKept
  <2>1. CASE a \in pending
    BY <2>1, <1>1, StoreEffect
  <2>2. CASE a \notin pending
    <3>1. row[a] = "fresh" /\ (a \in filled <=> a \in said)
      BY <2>2 DEF AnswersKept
    <3>2. QED
      BY <2>2, <3>1, <1>1, <1>2, StoreEffect
  <2>3. QED
    BY <2>1, <2>2
<1>5. QED
  BY <1>1, <1>2, <1>3, <1>4, StoreEffect

\* The initial state.
LEMMA InitEnrichment == Init => EnrichmentInv
<1> SUFFICES ASSUME Init PROVE EnrichmentInv
  OBVIOUS
<1> USE DEF Init, SweepInit, OrbitInit
<1>1. Cardinality({}) = 0
  BY FS_EmptySet
<1>2. TypeOK
  BY AsteroidAssumption, OrbitAssumption, SweepAssumption DEF TypeOK
<1>3. Buffered /\ UnderWay /\ AnswersKept /\ Slots
  BY DEF Buffered, UnderWay, AnswersKept, Slots
<1>4. ApiSpared
  BY <1>1, <1>2, Numbers DEF ApiSpared
<1>5. QED
  BY <1>2, <1>3, <1>4 DEF EnrichmentInv

\* A sweep of either command begins.
LEMMA BeginKeeps ==
  ASSUME EnrichmentInv, NEW S \in SUBSET Asteroid, Begin(S), UNCHANGED loop
  PROVE  EnrichmentInv'
<1> USE DEF EnrichmentInv
<1>1. Cardinality({}) = 0
  BY FS_EmptySet
<1>2. /\ pc = "idle" /\ pc' = "prime" /\ candidates' = S /\ inFlight' = {} /\ pending' = {}
      /\ found' = {} /\ last' = "none" /\ answered' = {} /\ said' = {} /\ mistaken' = {}
      /\ UNCHANGED <<command, tracked, flagged, changes, row, filled, faults>>
      /\ UNCHANGED <<primed, consecutive, since>>
  BY DEF Begin, jpl, rows, loop
<1>3. TypeOK'
  BY <1>2 DEF TypeOK
<1>4. Buffered' /\ UnderWay' /\ AnswersKept'
  BY <1>2 DEF Buffered, UnderWay, AnswersKept
<1>5. ApiSpared'
  BY <1>1, <1>2, Numbers DEF ApiSpared
<1>6. Slots'
  BY <1>1, <1>2, Numbers DEF Slots, UnderWay
<1>7. QED
  BY <1>3, <1>4, <1>5, <1>6

-----------------------------------------------------------------------------
\* The steps of the orbits loop.
LEMMA OrbitStepKeeps == ASSUME EnrichmentInv, OrbitStep PROVE EnrichmentInv'
<1> USE DEF EnrichmentInv
<1>n. TypeOK /\ Buffered /\ UnderWay /\ AnswersKept /\ ApiSpared /\ Slots
  OBVIOUS
<1>0. Cardinality({}) = 0
  BY FS_EmptySet
<1>1. CASE Prime
  <2>1. /\ SpawnNext /\ pc = "prime" /\ command = "orbits" /\ primed' = primed + 1
        /\ pc' = IF primed + 1 = Concurrency THEN "join" ELSE "prime"
        /\ UNCHANGED <<command, tracked, flagged, changes, row, filled>>
        /\ UNCHANGED <<pending, found, consecutive, last, answered, said, mistaken, faults>>
    BY <1>1 DEF Prime, jpl, rows, heard
  <2>2. /\ primed < Concurrency /\ consecutive = 0
        /\ Cardinality(inFlight) <= primed /\ since <= primed
    BY <2>1 DEF Slots
  <2>3. TypeOK'
    BY <2>1, <2>2, SpawnEffect, Numbers DEF TypeOK
  <2>4. Buffered' /\ UnderWay' /\ AnswersKept'
    BY <2>1 DEF Buffered, UnderWay, AnswersKept
  <2>5. ApiSpared' /\ Slots'
    BY <2>1, <2>2, SpawnEffect, Numbers DEF ApiSpared, Slots
  <2>6. QED
    BY <2>3, <2>4, <2>5
<1>2. CASE Refill
  <2>1. /\ SpawnNext /\ pc = "refill" /\ pc' = "join"
        /\ UNCHANGED <<command, tracked, flagged, changes, row, filled, primed>>
        /\ UNCHANGED <<pending, found, consecutive, last, answered, said, mistaken, faults>>
    BY <1>2 DEF Refill, jpl, rows, heard
  <2>2. command = "orbits"
    BY <2>1 DEF UnderWay, TypeOK
  <2>3. /\ Cardinality(inFlight) < Concurrency /\ consecutive < Abort
        /\ consecutive > 0 => since < Concurrency + consecutive
        /\ consecutive = 0 => since = 0
    BY <2>1, <2>2 DEF Slots
  <2>4. TypeOK'
    BY <2>1, SpawnEffect DEF TypeOK
  <2>5. Buffered' /\ UnderWay' /\ AnswersKept'
    BY <2>1, <2>2 DEF Buffered, UnderWay, AnswersKept
  <2>6. since' <= Concurrency + consecutive /\ Cardinality(inFlight)' <= Concurrency
    BY <2>1, <2>3, SpawnEffect, Numbers
  <2>7. ApiSpared' /\ Slots'
    BY <2>1, <2>2, <2>3, <2>6, SpawnEffect, Numbers DEF ApiSpared, Slots
  <2>8. QED
    BY <2>4, <2>5, <2>7
<1>3. ASSUME NEW a \in Asteroid, NEW values \in BOOLEAN, Apply(a), faults' \in 0..MaxFaults,
             Buffer(a, values) \/ (Mistake(a) /\ values = FALSE)
      PROVE  EnrichmentInv'
  <2>1. /\ pc = "join" /\ command = "orbits" /\ a \in inFlight
        /\ consecutive' = 0 /\ since' = 0 /\ pc' \in {"flush", "refill"}
        /\ inFlight' = inFlight \ {a}
        /\ UNCHANGED <<command, tracked, flagged, changes, row, filled, candidates, primed, last>>
    <3>1. inFlight' = inFlight \ {a}
      BY <1>3 DEF Buffer, Mistake, Enqueue
    <3>2. ~(0 >= Abort)
      BY Numbers
    <3>3. QED
      BY <1>3, <3>1, <3>2 DEF Apply, Checked, jpl, rows
  <2>2. /\ Buffered' /\ AnswersKept'
        /\ {inFlight, pending, found, answered, said, mistaken}' \subseteq SUBSET Asteroid
    BY <1>3, <2>1, EnqueueEffect DEF rows
  <2>3. Cardinality(inFlight)' < Cardinality(inFlight) /\ Cardinality(inFlight)' \in Nat
    BY <2>1, Numbers, AsteroidMoves DEF TypeOK
  <2>4. TypeOK'
    BY <1>3, <2>1, <2>2, Numbers DEF TypeOK
  <2>5. UnderWay'
    BY <2>1 DEF UnderWay
  <2>6. ApiSpared' /\ Slots'
    BY <2>1, <2>3, Numbers DEF ApiSpared, Slots
  <2>7. QED
    BY <2>2, <2>4, <2>5, <2>6
<1>4. ASSUME NEW a \in Asteroid, JoinAnswer(a) PROVE EnrichmentInv'
  <2>1. faults' \in 0..MaxFaults /\ Apply(a) /\ Buffer(a, a \in tracked) /\ (a \in tracked) \in BOOLEAN
    BY <1>4 DEF JoinAnswer, TypeOK
  <2>2. QED
    BY <2>1, <1>3
<1>5. ASSUME NEW a \in Asteroid, JoinMessage(a) PROVE EnrichmentInv'
  BY <1>3, <1>5, FaultType DEF JoinMessage
<1>6. ASSUME NEW a \in Asteroid, JoinFailure(a) PROVE EnrichmentInv'
  <2>1. /\ Drop(a) /\ pc = "join" /\ command = "orbits" /\ a \in inFlight
        /\ inFlight' = inFlight \ {a}
        /\ consecutive' = consecutive + 1
        /\ pc' = IF consecutive + 1 >= Abort THEN "final" ELSE "refill"
        /\ UNCHANGED <<command, tracked, flagged, changes, row, filled, candidates, primed, since, last>>
    BY <1>6 DEF JoinFailure, Drop, Checked, jpl, rows
  <2>2. /\ Buffered' /\ AnswersKept'
        /\ {inFlight, pending, found, answered, said, mistaken}' \subseteq SUBSET Asteroid
    BY <2>1, DropEffect DEF rows
  <2>3. Cardinality(inFlight)' < Cardinality(inFlight) /\ Cardinality(inFlight)' \in Nat
    BY <2>1, Numbers, AsteroidMoves DEF TypeOK
  <2>4. consecutive < Abort /\ since <= Concurrency + consecutive
    BY <2>1 DEF Slots
  <2>5. faults' \in 0..MaxFaults
    BY <1>6, FaultType DEF JoinFailure, TypeOK
  <2>6. TypeOK'
    BY <2>1, <2>2, <2>4, <2>5, Numbers DEF TypeOK
  <2>7. UnderWay'
    BY <2>1 DEF UnderWay
  <2>8. ApiSpared' /\ Slots'
    BY <2>1, <2>3, <2>4, Numbers DEF ApiSpared, Slots
  <2>9. QED
    BY <2>2, <2>6, <2>7, <2>8
<1>7. CASE LoopEnds
  <2>1. /\ pc = "join" /\ pc' = "final" /\ command = "orbits"
        /\ UNCHANGED <<command, tracked, flagged, changes, row, filled, candidates, inFlight>>
        /\ UNCHANGED <<pending, found, primed, consecutive, since, last, answered, said, mistaken, faults>>
    BY <1>7 DEF LoopEnds, jpl, rows, work, loop, heard
  <2>2. TypeOK'
    BY <2>1 DEF TypeOK
  <2>3. Buffered' /\ UnderWay' /\ AnswersKept'
    BY <2>1 DEF Buffered, UnderWay, AnswersKept
  <2>4. ApiSpared' /\ Slots'
    BY <2>1 DEF ApiSpared, Slots
  <2>5. QED
    BY <2>2, <2>3, <2>4
<1>8. CASE Flush
  <2>1. /\ Write /\ pc = "flush" /\ command = "orbits" /\ last # "failed"
        /\ pc' = (IF consecutive >= Abort THEN "final" ELSE "refill")
        /\ UNCHANGED <<command, tracked, flagged, changes, candidates, inFlight>>
        /\ UNCHANGED <<primed, consecutive, since, last, answered, said, mistaken, faults>>
    BY <1>8 DEF Flush, Checked, UnderWay, jpl, loop, heard
  <2>2. /\ Buffered' /\ AnswersKept'
        /\ row' \in [Asteroid -> {"none", "fresh", "stale"}]
        /\ {filled, pending, found, answered, said, mistaken}' \subseteq SUBSET Asteroid
    BY <2>1, WriteEffect DEF heard
  <2>3. TypeOK'
    BY <2>1, <2>2 DEF TypeOK
  <2>4. UnderWay'
    BY <2>1 DEF UnderWay
  <2>5. ApiSpared' /\ Slots'
    BY <2>1, Numbers DEF ApiSpared, Slots
  <2>6. QED
    BY <2>2, <2>3, <2>4, <2>5
<1>9. CASE FinalFlush
  <2>1. /\ Write /\ pc = "final" /\ command = "orbits" /\ last # "failed"
        /\ pc' = "idle" /\ inFlight' = {} /\ candidates' = {} /\ last' \in {"ok", "aborted"}
        /\ primed' = 0 /\ consecutive' = 0 /\ since' = 0
        /\ UNCHANGED <<command, tracked, flagged, changes, answered, said, mistaken, faults>>
    BY <1>9 DEF FinalFlush, LoopOver, UnderWay, jpl, heard
  <2>2. /\ Buffered' /\ AnswersKept'
        /\ row' \in [Asteroid -> {"none", "fresh", "stale"}]
        /\ {filled, pending, found, answered, said, mistaken}' \subseteq SUBSET Asteroid
    BY <2>1, WriteEffect DEF heard
  <2>3. TypeOK'
    BY <2>1, <2>2, Numbers DEF TypeOK
  <2>4. UnderWay'
    BY <2>1 DEF UnderWay
  <2>5. ApiSpared' /\ Slots'
    BY <1>0, <2>1, Numbers DEF ApiSpared, Slots
  <2>6. QED
    BY <2>2, <2>3, <2>4, <2>5
<1>10. QED
  BY <1>1, <1>2, <1>4, <1>5, <1>6, <1>7, <1>8, <1>9 DEF OrbitStep

\* The steps of the sentry loop.
LEMMA SentryStepKeeps == ASSUME EnrichmentInv, SentryStep, UNCHANGED loop PROVE EnrichmentInv'
<1> USE DEF EnrichmentInv
<1>n. TypeOK /\ Buffered /\ UnderWay /\ AnswersKept /\ ApiSpared /\ Slots
  OBVIOUS
<1>0. UNCHANGED <<primed, consecutive, since>>
  BY DEF loop
<1>1. CASE NextChunk
  <2> DEFINE F == First(candidates, ChunkSize)
  <2>1. /\ pc = "prime" /\ pc' = "join" /\ command = "sentry"
        /\ inFlight' = F /\ candidates' = candidates \ F
        /\ UNCHANGED <<command, tracked, flagged, changes, row, filled>>
        /\ UNCHANGED <<pending, found, last, answered, said, mistaken, faults>>
    BY <1>1 DEF NextChunk, jpl, rows, heard
  <2>2. candidates \in SUBSET Asteroid /\ ChunkSize \in Nat
    BY Numbers DEF TypeOK
  <2>3. F \in SUBSET candidates /\ Cardinality(F) \in Nat /\ Cardinality(F) <= ChunkSize
    BY <2>2, FirstFew
  <2> HIDE DEF F
  <2>4. TypeOK'
    BY <1>0, <2>1, <2>2, <2>3 DEF TypeOK
  <2>5. Buffered' /\ UnderWay' /\ AnswersKept'
    BY <1>0, <2>1 DEF Buffered, UnderWay, AnswersKept
  <2>6. ApiSpared' /\ Slots'
    BY <1>0, <2>1, <2>3 DEF ApiSpared, Slots
  <2>7. QED
    BY <2>4, <2>5, <2>6
<1>2. ASSUME NEW a \in Asteroid, JoinScales(a) PROVE EnrichmentInv'
  <2>1. /\ Buffer(a, a \in tracked) /\ (a \in tracked) \in BOOLEAN
        /\ command = "sentry" /\ inFlight' = inFlight \ {a}
        /\ UNCHANGED <<command, tracked, flagged, changes, row, filled, candidates, pc, last, faults>>
    BY <1>2 DEF JoinScales, Buffer, Enqueue, jpl, rows
  <2>2. /\ Buffered' /\ AnswersKept'
        /\ {inFlight, pending, found, answered, said, mistaken}' \subseteq SUBSET Asteroid
    BY <2>1, EnqueueEffect DEF rows
  <2>3. Cardinality(inFlight)' <= Cardinality(inFlight) /\ Cardinality(inFlight)' \in Nat
    BY <2>1, Numbers, AsteroidMoves DEF TypeOK
  <2>4. TypeOK'
    BY <1>0, <2>1, <2>2 DEF TypeOK
  <2>5. UnderWay' /\ Slots'
    BY <1>0, <2>1 DEF UnderWay, Slots
  <2>6. ApiSpared'
    BY <1>0, <2>1, <2>3, Numbers DEF ApiSpared
  <2>7. QED
    BY <2>2, <2>4, <2>5, <2>6
<1>3. ASSUME NEW a \in Asteroid, ScalesFail(a) PROVE EnrichmentInv'
  <2>1. /\ Drop(a) /\ command = "sentry" /\ inFlight' = inFlight \ {a}
        /\ UNCHANGED <<command, tracked, flagged, changes, row, filled, candidates, pc, last>>
    BY <1>3 DEF ScalesFail, Drop, jpl, rows
  <2>2. /\ Buffered' /\ AnswersKept'
        /\ {inFlight, pending, found, answered, said, mistaken}' \subseteq SUBSET Asteroid
    BY <2>1, DropEffect DEF rows
  <2>3. Cardinality(inFlight)' <= Cardinality(inFlight) /\ Cardinality(inFlight)' \in Nat
    BY <2>1, Numbers, AsteroidMoves DEF TypeOK
  <2>4. faults' \in 0..MaxFaults
    BY <1>3, FaultType DEF ScalesFail, TypeOK
  <2>5. TypeOK'
    BY <1>0, <2>1, <2>2, <2>4 DEF TypeOK
  <2>6. UnderWay' /\ Slots'
    BY <1>0, <2>1 DEF UnderWay, Slots
  <2>7. ApiSpared'
    BY <1>0, <2>1, <2>3, Numbers DEF ApiSpared
  <2>8. QED
    BY <2>2, <2>5, <2>6, <2>7
<1>4. CASE ChunkEnds
  <2>1. /\ pc = "join" /\ command = "sentry" /\ pc' \in {"flush", "final", "prime"}
        /\ UNCHANGED <<command, tracked, flagged, changes, row, filled, candidates, inFlight>>
        /\ UNCHANGED <<pending, found, last, answered, said, mistaken, faults>>
    BY <1>4 DEF ChunkEnds, AfterChunk, jpl, rows, work, heard
  <2>2. TypeOK'
    BY <1>0, <2>1 DEF TypeOK
  <2>3. Buffered' /\ UnderWay' /\ AnswersKept'
    BY <1>0, <2>1 DEF Buffered, UnderWay, AnswersKept
  <2>4. ApiSpared' /\ Slots'
    BY <1>0, <2>1 DEF ApiSpared, Slots
  <2>5. QED
    BY <2>2, <2>3, <2>4
<1>5. CASE ChunkFlush \/ LastFlush
  <2>1. /\ Write /\ command = "sentry" /\ last # "failed"
        /\ pc' \in {"final", "prime", "idle"}
        /\ last' \in {"none", "ok"} /\ (pc' # "idle" => last' = "none")
        /\ UNCHANGED <<command, tracked, flagged, changes, candidates, inFlight, answered, said, mistaken, faults>>
    BY <1>5 DEF ChunkFlush, LastFlush, AfterChunk, UnderWay, jpl, heard
  <2>2. /\ Buffered' /\ AnswersKept'
        /\ row' \in [Asteroid -> {"none", "fresh", "stale"}]
        /\ {filled, pending, found, answered, said, mistaken}' \subseteq SUBSET Asteroid
    BY <2>1, WriteEffect DEF heard
  <2>3. TypeOK'
    BY <1>0, <2>1, <2>2 DEF TypeOK
  <2>4. UnderWay'
    BY <1>0, <2>1 DEF UnderWay
  <2>5. ApiSpared' /\ Slots'
    BY <1>0, <2>1 DEF ApiSpared, Slots
  <2>6. QED
    BY <2>2, <2>3, <2>4, <2>5
<1>6. QED
  BY <1>1, <1>2, <1>3, <1>4, <1>5 DEF SentryStep

\* A sweep that fails takes its buffer with it, and its answers are not owed.
LEMMA FailKeeps == ASSUME EnrichmentInv, Fail, LoopOver PROVE EnrichmentInv'
<1> USE DEF EnrichmentInv
<1>0. Cardinality({}) = 0
  BY FS_EmptySet
<1>1. /\ pending' = {} /\ found' = {} /\ inFlight' = {} /\ candidates' = {}
      /\ pc' = "idle" /\ last' = "failed"
      /\ primed' = 0 /\ consecutive' = 0 /\ since' = 0
      /\ UNCHANGED <<command, tracked, flagged, changes, answered, said, mistaken>>
  BY DEF Fail, LoopOver, jpl, heard
<1>2. (row' = row /\ filled' = filled) \/ (row' = Stamped /\ filled' = Filled)
  BY DEF Fail, rows
<1>3. row' \in [Asteroid -> {"none", "fresh", "stale"}] /\ filled' \in SUBSET Asteroid
  BY <1>2, StoreEffect DEF TypeOK
<1>4. faults' \in 0..MaxFaults
  BY FaultType DEF Fail
<1>5. TypeOK'
  BY <1>1, <1>3, <1>4, Numbers DEF TypeOK
<1>6. Buffered' /\ UnderWay' /\ AnswersKept'
  BY <1>1 DEF Buffered, UnderWay, AnswersKept
<1>7. ApiSpared' /\ Slots'
  BY <1>0, <1>1, Numbers DEF ApiSpared, Slots
<1>8. QED
  BY <1>5, <1>6, <1>7

\* What goes on around the sweeps.
LEMMA SurroundingsKeep ==
  ASSUME EnrichmentInv, NEW a \in Asteroid,
         GoStale(a) \/ Retrack(a) \/ Reload(a), UNCHANGED loop
  PROVE  EnrichmentInv'
<1> USE DEF EnrichmentInv
<1>0. UNCHANGED <<primed, consecutive, since>>
  BY DEF loop
<1>1. CASE GoStale(a)
  <2>1. /\ row' = [row EXCEPT ![a] = "stale"] /\ answered' = answered \ ({a} \ pending)
        /\ UNCHANGED <<command, tracked, flagged, changes, filled, pc>>
        /\ UNCHANGED <<candidates, inFlight, pending, found, last, said, mistaken, faults>>
    BY <1>1 DEF GoStale, jpl, work
  <2>2. TypeOK'
    BY <1>0, <2>1 DEF TypeOK
  <2>3. Buffered' /\ UnderWay'
    BY <1>0, <2>1 DEF Buffered, UnderWay
  <2>4. AnswersKept'
    <3> SUFFICES ASSUME last # "failed", NEW b \in answered'
                 PROVE  \/ b \in pending /\ (b \in found <=> b \in said)
                        \/ row'[b] = "fresh" /\ (b \in filled <=> b \in said)
      BY <2>1 DEF AnswersKept
    <3>1. b \in answered /\ (b = a => b \in pending) /\ b \in Asteroid
      BY <2>1 DEF TypeOK
    <3>2. CASE b \in pending
      BY <3>1, <3>2 DEF Buffered
    <3>3. CASE b \notin pending
      <4>1. row[b] = "fresh" /\ (b \in filled <=> b \in said) /\ b # a
        BY <3>1, <3>3 DEF AnswersKept
      <4>2. row'[b] = row[b]
        BY <2>1, <3>1, <4>1 DEF TypeOK
      <4>3. QED
        BY <4>1, <4>2
    <3>4. QED
      BY <3>2, <3>3
  <2>5. ApiSpared' /\ Slots'
    BY <1>0, <2>1 DEF ApiSpared, Slots
  <2>6. QED
    BY <2>2, <2>3, <2>4, <2>5
<1>2. CASE Retrack(a) \/ Reload(a)
  <2>1. /\ tracked' \in SUBSET Asteroid /\ flagged' \in SUBSET Asteroid /\ changes' \in 0..MaxChanges
        /\ UNCHANGED <<command, row, filled, pc, answered>>
        /\ UNCHANGED <<candidates, inFlight, pending, found, last, said, mistaken, faults>>
    BY <1>2, Numbers DEF Retrack, Reload, rows, work, heard, TypeOK
  <2>2. TypeOK'
    BY <1>0, <2>1 DEF TypeOK
  <2>3. Buffered' /\ UnderWay' /\ AnswersKept'
    BY <1>0, <2>1 DEF Buffered, UnderWay, AnswersKept
  <2>4. ApiSpared' /\ Slots'
    BY <1>0, <2>1 DEF ApiSpared, Slots
  <2>5. QED
    BY <2>2, <2>3, <2>4
<1>3. QED
  BY <1>1, <1>2

\* Every step keeps the invariant.
LEMMA NextEnrichment == EnrichmentInv /\ [Next]_vars => EnrichmentInv'
<1> SUFFICES ASSUME EnrichmentInv, [Next]_vars PROVE EnrichmentInv'
  OBVIOUS
<1>1. ASSUME OrbitNext PROVE EnrichmentInv'
  <2>1. ASSUME NEW recompute \in BOOLEAN, Start(recompute) PROVE EnrichmentInv'
    BY <2>1, NeedsCheck(recompute) \in SUBSET Asteroid, BeginKeeps DEF Start, BeginOrbits, NeedsCheck
  <2>2. ASSUME NEW ids \in SUBSET Asteroid, StartForIds(ids) PROVE EnrichmentInv'
    BY <2>2, BeginKeeps DEF StartForIds, BeginOrbits
  <2>3. QED
    BY <1>1, <2>1, <2>2, OrbitStepKeeps DEF OrbitNext
<1>2. ASSUME SentryNext, UNCHANGED loop PROVE EnrichmentInv'
  <2>0. flagged \in SUBSET Asteroid
    BY DEF EnrichmentInv, TypeOK
  <2>1. ASSUME NEW recompute \in BOOLEAN, SentryStart(recompute) PROVE EnrichmentInv'
    BY <1>2, <2>0, <2>1, NeedsScales(recompute) \in SUBSET Asteroid, BeginKeeps DEF SentryStart, NeedsScales
  <2>2. ASSUME NEW ids \in SUBSET Asteroid, SentryStartForIds(ids) PROVE EnrichmentInv'
    BY <1>2, <2>2, (ids \cap flagged) \in SUBSET Asteroid, BeginKeeps DEF SentryStartForIds
  <2>3. QED
    BY <1>2, <2>1, <2>2, SentryStepKeeps DEF SentryNext
<1>3. CASE UNCHANGED vars
  BY <1>3 DEF vars, jpl, rows, work, loop, heard, EnrichmentInv, TypeOK, Buffered, UnderWay,
              AnswersKept, ApiSpared, Slots
<1>4. QED
  BY <1>1, <1>2, <1>3, FailKeeps, SurroundingsKeep DEF Next

-----------------------------------------------------------------------------
\* The buffer, the database and the counters of the loop agree.
THEOREM EnrichmentInvariant == Spec => []EnrichmentInv
BY InitEnrichment, NextEnrichment, PTL DEF Spec

\* Every variable keeps its type.
THEOREM EnrichmentTypes == Spec => []TypeOK
<1>1. EnrichmentInv => TypeOK
  BY DEF EnrichmentInv
<1>2. QED
  BY <1>1, EnrichmentInvariant, PTL

\* No answer is thrown away, or changed, by a sweep that does not end in an error.
THEOREM AnswersReachTheDatabase == Spec => []AnswersKept
<1>1. EnrichmentInv => AnswersKept
  BY DEF EnrichmentInv
<1>2. QED
  BY <1>1, EnrichmentInvariant, PTL

\* JPL is asked no more at once than the constants say, and a silent SBDB at most
\* Concurrency + Abort - 1 times.
THEOREM SilentApiIsSpared == Spec => []ApiSpared
<1>1. EnrichmentInv => ApiSpared
  BY DEF EnrichmentInv
<1>2. QED
  BY <1>1, EnrichmentInvariant, PTL

\* A write stamps and changes what the buffer holds, which was answered so.
LEMMA StoreEarned ==
  ASSUME EnrichmentInv, row' = Stamped, filled' = Filled
  PROVE  \A a \in Asteroid : Earned(a)
<1> SUFFICES ASSUME NEW a \in Asteroid PROVE Earned(a)
  OBVIOUS
<1>1. TypeOK /\ Buffered
  BY DEF EnrichmentInv
<1>2. CASE a \in pending
  BY <1>1, <1>2, StoreEffect DEF Earned, Buffered
<1>3. CASE a \notin pending
  BY <1>1, <1>3, StoreEffect DEF Earned
<1>4. QED
  BY <1>2, <1>3

\* No step but a write gives a stamp or changes the values of a row, and a write
\* only what JPL answered, or NULLs where a failure came as a message.
THEOREM StampsAreEarned == Spec => StampsEarned
<1>1. EnrichmentInv /\ [Next]_vars => [\A a \in Asteroid : Earned(a)]_vars
  <2> SUFFICES ASSUME EnrichmentInv, Next PROVE \A a \in Asteroid : Earned(a)
    BY DEF vars
  <2>1. UNCHANGED rows => \A a \in Asteroid : Earned(a)
    BY DEF rows, Earned
  <2>2. row' = Stamped /\ filled' = Filled => \A a \in Asteroid : Earned(a)
    BY StoreEarned
  <2>3. ASSUME NEW b \in Asteroid, GoStale(b) PROVE \A a \in Asteroid : Earned(a)
    BY <2>3 DEF GoStale, Earned, EnrichmentInv, TypeOK
  <2>4. ASSUME OrbitNext PROVE \A a \in Asteroid : Earned(a)
    BY <2>1, <2>2, <2>4
       DEF OrbitNext, Start, StartForIds, BeginOrbits, Begin, OrbitStep, Prime, Refill, JoinAnswer,
           JoinMessage, Apply, JoinFailure, LoopEnds, Flush, FinalFlush, Write
  <2>5. ASSUME SentryNext PROVE \A a \in Asteroid : Earned(a)
    BY <2>1, <2>2, <2>5
       DEF SentryNext, SentryStart, SentryStartForIds, Begin, SentryStep, NextChunk, JoinScales,
           ScalesFail, ChunkEnds, ChunkFlush, LastFlush, Write
  <2>6. ASSUME NEW b \in Asteroid, Retrack(b) \/ Reload(b) PROVE \A a \in Asteroid : Earned(a)
    BY <2>1, <2>6 DEF Retrack, Reload
  <2>7. ASSUME Fail PROVE \A a \in Asteroid : Earned(a)
    BY <2>1, <2>2, <2>7 DEF Fail
  <2>8. QED
    BY <2>3, <2>4, <2>5, <2>6, <2>7 DEF Next
<1>2. QED
  BY <1>1, EnrichmentInvariant, PTL DEF Spec, StampsEarned
=============================================================================
