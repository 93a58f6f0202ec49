---------------------------- MODULE EmbedQueueProofs ----------------------------
(***************************************************************************)
(* The safety properties of EmbedQueue for any texts, callers and workers, *)
(* any capacities and any number of calls.                                 *)
(***************************************************************************)
EXTENDS EmbedQueue, FiniteSetTheorems, FunctionTheorems, TLAPS

-------------------------------------------------------------------------------
(* The inductive invariant.                                                *)

Jobs == [key : Keys \cup {NoKey}, write : BOOLEAN, by : Callers \cup {Nobody},
         waiters : SUBSET Callers, expired : BOOLEAN, done : BOOLEAN]
Nodes == [key : Keys, own : BOOLEAN]

CallTypes ==
    /\ mode \in Modes
    /\ kind \in [Callers -> {"none", "query", "write", "warm"}]
    /\ want \in [Callers -> Keys \cup {NoKey}]
    /\ pc \in [Callers -> {"idle", "missed", "wait"}]

QueueTypes ==
    /\ jobs \in [Slots -> Jobs]
    /\ readQ \in Seq(Slots) /\ Len(readQ) <= ReadCap
    /\ writeQ \in Seq(Slots) /\ Len(writeQ) <= WriteCap
    /\ inflight \in [Keys -> Slots \cup {None}]

WorkerTypes ==
    /\ wpc \in [AllWorkers -> {"idle", "got", "run", "cached", "release", "exit"}]
    /\ wjob \in [AllWorkers -> Slots \cup {None}]

CacheTypes ==
    /\ cached \in SUBSET Keys /\ IsFiniteSet(cached)
    /\ lru \in Seq(Nodes)

Types == CallTypes /\ QueueTypes /\ WorkerTypes /\ CacheTypes

\* A call past the cache has a text and belongs to the mode.
Calling ==
    \A c \in Callers :
        /\ pc[c] = "missed" => want[c] \in Keys
        /\ kind[c] = "write" => Bounded

NoRepeats(q) == \A m, n \in 1 .. Len(q) : q[m] = q[n] => m = n

\* A job is in one place: in a queue, once, or with one worker.
OnePlace ==
    /\ NoRepeats(readQ) /\ NoRepeats(writeQ)
    /\ Elements(readQ) \cap Elements(writeQ) = {}
    /\ \A w \in AllWorkers : wjob[w] \notin Queued
    /\ \A v, w \in AllWorkers : wjob[v] = wjob[w] => v = w \/ wjob[v] = None

\* The slots in use are those of the jobs that are somewhere, and have a text.
InUse ==
    /\ \A j \in Slots : jobs[j] # NoJob => j \in Queued \cup Held
    /\ \A j \in Queued \cup Held : jobs[j].key \in Keys
    /\ \A w \in AllWorkers : wjob[w] = None <=> wpc[w] \in {"idle", "exit"}

JobInv == Calling /\ OnePlace /\ InUse /\ SharedJobsAreAlive

\* In bounded mode the list has one node for each entry of the map, and no other.
NoDuplicates ==
    Bounded => NoRepeats(lru) /\ Elements(lru) = {Owns(k) : k \in cached}

CacheInv == CachePointersLive /\ NoDuplicates

IInv == Types /\ JobInv /\ CacheInv

-------------------------------------------------------------------------------
(* Lists.                                                                  *)

LEMMA ElementOf ==
    ASSUME NEW S, NEW q \in Seq(S), NEW n \in 1 .. Len(q)
    PROVE  q[n] \in Elements(q) /\ q[n] \in S
BY DEF Elements

LEMMA ElementsAreTyped ==
    ASSUME NEW S, NEW q \in Seq(S)
    PROVE  Elements(q) \subseteq S
BY DEF Elements

\* The elements of a list, one by one.
LEMMA PositionOf ==
    ASSUME NEW q, NEW x
    PROVE  x \in Elements(q) <=> \E n \in 1 .. Len(q) : q[n] = x
BY DEF Elements

LEMMA EmptyList == Elements(<<>>) = {} /\ NoRepeats(<<>>)
BY DEF Elements, NoRepeats

LEMMA PutInFront ==
    ASSUME NEW S, NEW q \in Seq(S), NEW x \in S
    PROVE  /\ <<x>> \o q \in Seq(S) /\ Len(<<x>> \o q) = Len(q) + 1
           /\ Elements(<<x>> \o q) = {x} \cup Elements(q)
           /\ NoRepeats(q) /\ x \notin Elements(q) => NoRepeats(<<x>> \o q)
<1> DEFINE r == <<x>> \o q
<1>1. r \in Seq(S) /\ Len(r) = Len(q) + 1 /\ Len(q) \in Nat
    OBVIOUS
<1>2. r[1] = x /\ \A n \in 1 .. Len(q) : r[n + 1] = q[n]
    OBVIOUS
<1>3. \A n \in 1 .. Len(r) : n = 1 \/ (n - 1 \in 1 .. Len(q) /\ r[n] = q[n - 1])
    BY <1>1
<1>4. Elements(r) = {x} \cup Elements(q)
    <2>1. Elements(r) \subseteq {x} \cup Elements(q)
        BY <1>2, <1>3 DEF Elements
    <2>2. x \in Elements(r)
        <3>1. 1 \in 1 .. Len(r)
            BY <1>1
        <3>. QED  BY <3>1, <1>2, PositionOf
    <2>3. ASSUME NEW n \in 1 .. Len(q) PROVE q[n] \in Elements(r)
        <3>1. n + 1 \in 1 .. Len(r)
            BY <1>1
        <3>. QED  BY <3>1, <1>2, PositionOf
    <2>. QED  BY <2>1, <2>2, <2>3 DEF Elements
<1>5. ASSUME NoRepeats(q), x \notin Elements(q) PROVE NoRepeats(r)
    <2> SUFFICES ASSUME NEW m \in 1 .. Len(r), NEW n \in 1 .. Len(r), r[m] = r[n]
                 PROVE  m = n
        BY DEF NoRepeats
    <2>1. CASE m = 1 /\ n = 1
        BY <2>1
    <2>2. CASE m = 1 /\ n # 1
        BY <2>2, <1>2, <1>3, <1>5, PositionOf
    <2>3. CASE m # 1 /\ n = 1
        BY <2>3, <1>2, <1>3, <1>5, PositionOf
    <2>4. CASE m # 1 /\ n # 1
        <3>1. q[m - 1] = q[n - 1] /\ m - 1 \in 1 .. Len(q) /\ n - 1 \in 1 .. Len(q)
            BY <2>4, <1>3
        <3>2. m - 1 = n - 1
            BY <3>1, <1>5 DEF NoRepeats
        <3>. QED  BY <3>2
    <2>. QED  BY <2>1, <2>2, <2>3, <2>4
<1>. QED  BY <1>1, <1>4, <1>5

LEMMA PutAtEnd ==
    ASSUME NEW S, NEW q \in Seq(S), NEW x \in S
    PROVE  /\ Append(q, x) \in Seq(S) /\ Len(Append(q, x)) = Len(q) + 1
           /\ Elements(Append(q, x)) = {x} \cup Elements(q)
           /\ NoRepeats(q) /\ x \notin Elements(q) => NoRepeats(Append(q, x))
<1> DEFINE r == Append(q, x)
<1>1. r \in Seq(S) /\ Len(r) = Len(q) + 1 /\ Len(q) \in Nat
    OBVIOUS
<1>2. r[Len(q) + 1] = x /\ \A n \in 1 .. Len(q) : r[n] = q[n]
    OBVIOUS
<1>3. \A n \in 1 .. Len(r) : n = Len(q) + 1 \/ n \in 1 .. Len(q)
    BY <1>1
<1>4. Len(q) + 1 \in 1 .. Len(r) /\ \A n \in 1 .. Len(q) : n \in 1 .. Len(r)
    BY <1>1
<1>5. Elements(r) = {x} \cup Elements(q)
    <2>1. Elements(r) \subseteq {x} \cup Elements(q)
        BY <1>2, <1>3 DEF Elements
    <2>2. x \in Elements(r) /\ \A n \in 1 .. Len(q) : q[n] \in Elements(r)
        BY <1>2, <1>4, PositionOf
    <2>. QED  BY <2>1, <2>2 DEF Elements
<1>6. ASSUME NoRepeats(q), x \notin Elements(q) PROVE NoRepeats(r)
    BY <1>2, <1>3, <1>6, PositionOf DEF NoRepeats
<1>. QED  BY <1>1, <1>5, <1>6

LEMMA TakeFirst ==
    ASSUME NEW S, NEW q \in Seq(S), q # <<>>
    PROVE  /\ Head(q) \in S /\ Tail(q) \in Seq(S) /\ Len(Tail(q)) = Len(q) - 1
           /\ Elements(q) = {Head(q)} \cup Elements(Tail(q))
           /\ NoRepeats(q) => NoRepeats(Tail(q)) /\ Head(q) \notin Elements(Tail(q))
<1> DEFINE r == Tail(q)
<1>1. /\ r \in Seq(S) /\ Len(r) = Len(q) - 1 /\ Len(q) \in Nat /\ Len(q) >= 1
      /\ Head(q) = q[1] /\ q[1] \in S
    OBVIOUS
<1>2. \A n \in 1 .. Len(r) : r[n] = q[n + 1] /\ n + 1 \in 1 .. Len(q) /\ n + 1 # 1
    BY <1>1
<1>3. \A n \in 1 .. Len(q) : n = 1 \/ (n - 1 \in 1 .. Len(r) /\ q[n] = r[n - 1])
    <2> SUFFICES ASSUME NEW n \in 1 .. Len(q), n # 1
                 PROVE  n - 1 \in 1 .. Len(r) /\ q[n] = r[n - 1]
        OBVIOUS
    <2>1. n - 1 \in 1 .. Len(r) /\ (n - 1) + 1 = n
        BY <1>1
    <2>. QED  BY <2>1, <1>2
<1>4. Elements(q) = {Head(q)} \cup Elements(r)
    <2>1. 1 \in 1 .. Len(q)
        BY <1>1
    <2>2. Head(q) \in Elements(q) /\ Elements(r) \subseteq Elements(q)
        BY <1>1, <1>2, <2>1 DEF Elements
    <2>3. Elements(q) \subseteq {Head(q)} \cup Elements(r)
        <3> SUFFICES ASSUME NEW n \in 1 .. Len(q), n # 1 PROVE q[n] \in Elements(r)
            BY <1>1 DEF Elements
        <3>. QED  BY <1>3, PositionOf
    <2>. QED  BY <2>2, <2>3
<1>5. ASSUME NoRepeats(q) PROVE NoRepeats(r) /\ Head(q) \notin Elements(r)
    <2>1. 1 \in 1 .. Len(q)
        BY <1>1
    <2>2. Head(q) \notin Elements(r)
        BY <1>1, <1>2, <1>5, <2>1 DEF NoRepeats, Elements
    <2>3. ASSUME NEW m \in 1 .. Len(r), NEW n \in 1 .. Len(r), r[m] = r[n]
          PROVE  m = n
        <3>1. m + 1 = n + 1
            BY <1>2, <1>5, <2>3 DEF NoRepeats
        <3>. QED  BY <3>1
    <2>. QED  BY <2>2, <2>3 DEF NoRepeats
<1>. QED  BY <1>1, <1>4, <1>5

\* Without takes one element out and keeps the others.
LEMMA TakeOut ==
    ASSUME NEW S, NEW q \in Seq(S), NEW x
    PROVE  /\ Without(q, x) \in Seq(S) /\ Len(Without(q, x)) <= Len(q)
           /\ x \in Elements(q) => Len(Without(q, x)) = Len(q) - 1
           /\ Elements(q) \ {x} \subseteq Elements(Without(q, x))
           /\ Elements(Without(q, x)) \subseteq Elements(q)
           /\ NoRepeats(q) => /\ NoRepeats(Without(q, x))
                              /\ x \notin Elements(Without(q, x))
<1>0. Len(q) \in Nat
    OBVIOUS
<1>1. CASE x \notin Elements(q)
    BY <1>0, <1>1 DEF Without
<1>2. CASE x \in Elements(q)
    <2> DEFINE n == CHOOSE m \in 1 .. Len(q) : q[m] = x
               r == Without(q, x)
    <2>1. n \in 1 .. Len(q) /\ q[n] = x
        BY <1>2, PositionOf
    <2>0. r = SubSeq(q, 1, n - 1) \o SubSeq(q, n + 1, Len(q))
        BY <1>2 DEF Without
    <2> HIDE DEF n, r
    <2> DEFINE s == SubSeq(q, 1, n - 1)
               t == SubSeq(q, n + 1, Len(q))
    <2>3. s \in Seq(S) /\ Len(s) = n - 1 /\ \A m \in 1 .. n - 1 : s[m] = q[m]
        BY <1>0, <2>1
    <2>4. t \in Seq(S) /\ Len(t) = Len(q) - n /\ \A m \in 1 .. Len(q) - n : t[m] = q[n + m]
        BY <1>0, <2>1
    <2>2. r = s \o t
        BY <2>0
    <2> HIDE DEF s, t
    <2>5. r \in Seq(S) /\ Len(r) = Len(q) - 1
        BY <1>0, <2>1, <2>2, <2>3, <2>4
    <2>6. \A m \in 1 .. Len(r) : r[m] = IF m < n THEN q[m] ELSE q[m + 1]
        <3> SUFFICES ASSUME NEW m \in 1 .. Len(r)
                     PROVE  r[m] = IF m < n THEN q[m] ELSE q[m + 1]
            OBVIOUS
        <3>1. CASE m < n
            <4>1. m \in 1 .. n - 1
                BY <2>1, <3>1
            <4>. QED  BY <4>1, <3>1, <2>2, <2>3, <2>4
        <3>2. CASE ~(m < n)
            <4>1. m - (n - 1) \in 1 .. Len(q) - n /\ n + (m - (n - 1)) = m + 1
                BY <1>0, <2>1, <2>5, <3>2
            <4>2. r[m] = t[m - (n - 1)]
                BY SMTT(30), <4>1, <2>1, <2>2, <2>3, <2>4, <2>5, <3>2
            <4>. QED  BY <4>1, <4>2, <3>2, <2>4
        <3>. QED  BY <3>1, <3>2
    <2>7. Elements(r) \subseteq Elements(q)
        <3> SUFFICES ASSUME NEW m \in 1 .. Len(r) PROVE r[m] \in Elements(q)
            BY DEF Elements
        <3>1. m \in 1 .. Len(q) /\ m + 1 \in 1 .. Len(q)
            BY <1>0, <2>5
        <3>. QED  BY <3>1, <2>6, PositionOf
    <2>8. \A i \in 1 .. Len(q) : i # n => \E m \in 1 .. Len(r) : r[m] = q[i]
        <3> SUFFICES ASSUME NEW i \in 1 .. Len(q), i # n
                     PROVE  \E m \in 1 .. Len(r) : r[m] = q[i]
            OBVIOUS
        <3>1. CASE i < n
            <4>1. i \in 1 .. Len(r)
                BY <1>0, <2>1, <2>5, <3>1
            <4>. QED  BY <4>1, <2>6, <3>1
        <3>2. CASE i > n
            <4>1. i - 1 \in 1 .. Len(r) /\ ~(i - 1 < n) /\ (i - 1) + 1 = i
                BY <1>0, <2>1, <2>5, <3>2
            <4>2. r[i - 1] = q[i]
                BY <4>1, <2>6
            <4>. QED  BY <4>1, <4>2
        <3>. QED  BY <3>1, <3>2, <2>1
    <2>9. Elements(q) \ {x} \subseteq Elements(r)
        BY <2>1, <2>8 DEF Elements
    <2>10. ASSUME NoRepeats(q) PROVE NoRepeats(r) /\ x \notin Elements(r)
        <3> DEFINE at(m) == IF m < n THEN m ELSE m + 1
        <3>1. \A m \in 1 .. Len(r) : at(m) \in 1 .. Len(q) /\ at(m) # n /\ r[m] = q[at(m)]
            BY <1>0, <2>1, <2>5, <2>6
        <3>2. \A l, m \in 1 .. Len(r) : at(l) = at(m) => l = m
            BY <2>1, <2>5, <1>0
        <3> HIDE DEF at
        <3>3. NoRepeats(r)
            BY <2>10, <3>1, <3>2 DEF NoRepeats
        <3>4. x \notin Elements(r)
            BY SMTT(30), <2>1, <2>10, <3>1 DEF NoRepeats, Elements
        <3>. QED  BY <3>3, <3>4
    <2>. QED  BY <1>0, <1>2, <2>5, <2>7, <2>9, <2>10 DEF r
<1>. QED  BY <1>1, <1>2

\* A list has no more elements than places, and as many when none repeats.
LEMMA CountElements ==
    ASSUME NEW S, NEW q \in Seq(S)
    PROVE  /\ IsFiniteSet(Elements(q)) /\ Cardinality(Elements(q)) \in Nat
           /\ Cardinality(Elements(q)) <= Len(q)
           /\ NoRepeats(q) => Cardinality(Elements(q)) = Len(q)
<1> DEFINE f == [n \in 1 .. Len(q) |-> q[n]]
<1>0. Len(q) \in Nat
    OBVIOUS
<1>1. f \in Surjection(1 .. Len(q), Elements(q))
    BY DEF Surjection, Elements
<1>2. IsFiniteSet(1 .. Len(q)) /\ Cardinality(1 .. Len(q)) = Len(q)
    BY SMTT(30), <1>0, FS_Interval
<1>3. /\ IsFiniteSet(Elements(q)) /\ Cardinality(Elements(q)) <= Len(q)
      /\ f \in Injection(1 .. Len(q), Elements(q)) => Cardinality(Elements(q)) = Len(q)
    BY <1>1, <1>2, FS_Surjection
<1>4. NoRepeats(q) => f \in Injection(1 .. Len(q), Elements(q))
    BY <1>1 DEF NoRepeats, Injection, Surjection, IsInjective
<1>. QED  BY <1>3, <1>4, FS_CardinalityType

\* A set of names taken from a finite set of workers.
LEMMA CountHeld ==
    ASSUME NEW W, IsFiniteSet(W), NEW f, f = [w \in W |-> f[w]]
    PROVE  LET R == {f[w] : w \in W} IN IsFiniteSet(R) /\ Cardinality(R) <= Cardinality(W)
<1> DEFINE R == {f[w] : w \in W}
<1>1. f \in Surjection(W, R)
    BY DEF Surjection
<1>. QED  BY <1>1, FS_Surjection

LEMMA WorkersAreFinite ==
    IsFiniteSet(AllWorkers) /\ Cardinality(AllWorkers) \in Nat
BY EmbedAssumption, FS_AddElement, FS_CardinalityType DEF AllWorkers

\* While one of the lanes has room, a slot is free: no job is lost to a full table.
LEMMA SomeSlotIsFree ==
    ASSUME QueueTypes, WorkerTypes, InUse,
           Len(readQ) < ReadCap \/ Len(writeQ) < WriteCap
    PROVE  FreeSlot \in Slots /\ jobs[FreeSlot] = NoJob /\ FreeSlot \notin Queued \cup Held
<1> DEFINE R == Elements(readQ)
           Q == Elements(writeQ)
           H == {wjob[w] : w \in AllWorkers}
<1>1. /\ IsFiniteSet(R) /\ Cardinality(R) \in Nat /\ Cardinality(R) <= Len(readQ)
      /\ IsFiniteSet(Q) /\ Cardinality(Q) \in Nat /\ Cardinality(Q) <= Len(writeQ)
    BY CountElements DEF QueueTypes
<1>2. IsFiniteSet(H) /\ Cardinality(H) <= Cardinality(AllWorkers)
    BY CountHeld, WorkersAreFinite DEF WorkerTypes
<1>3. Cardinality(H) \in Nat
    BY <1>2, FS_CardinalityType
<1>4. IsFiniteSet(R \cup Q) /\ Cardinality(R \cup Q) <= Cardinality(R) + Cardinality(Q)
    <2>1. Cardinality(R \cap Q) \in Nat
        BY <1>1, FS_Intersection, FS_CardinalityType
    <2>2. IsFiniteSet(R \cup Q)
          /\ Cardinality(R \cup Q) = Cardinality(R) + Cardinality(Q) - Cardinality(R \cap Q)
        BY <1>1, FS_Union
    <2>. QED  BY <1>1, <2>1, <2>2
<1>5. Cardinality(R \cup Q) \in Nat
    BY <1>4, FS_CardinalityType
<1>6. /\ IsFiniteSet(R \cup Q \cup H)
      /\ Cardinality(R \cup Q \cup H) <= Cardinality(R \cup Q) + Cardinality(H)
    <2>1. Cardinality((R \cup Q) \cap H) \in Nat
        BY <1>4, FS_Intersection, FS_CardinalityType
    <2>2. IsFiniteSet((R \cup Q) \cup H)
          /\ Cardinality((R \cup Q) \cup H)
                = Cardinality(R \cup Q) + Cardinality(H) - Cardinality((R \cup Q) \cap H)
        BY <1>2, <1>4, FS_Union
    <2>. QED  BY <1>3, <1>5, <2>1, <2>2
<1>7. Cardinality(R \cup Q \cup H) \in Nat
    BY <1>6, FS_CardinalityType
<1>8. Cardinality(Slots) = ReadCap + WriteCap + Cardinality(AllWorkers) /\ IsFiniteSet(Slots)
    <2>1. PICK n \in Nat : n = ReadCap + WriteCap + Cardinality(AllWorkers)
        BY EmbedAssumption, WorkersAreFinite
    <2>2. IsFiniteSet(1 .. n) /\ Cardinality(1 .. n) = n
        BY FS_Interval
    <2>. QED  BY <2>1, <2>2 DEF Slots
<1>9. Cardinality(R \cup Q \cup H) < Cardinality(Slots)
    <2>1. Len(readQ) \in Nat /\ Len(writeQ) \in Nat /\ Len(readQ) <= ReadCap /\ Len(writeQ) <= WriteCap
        BY DEF QueueTypes
    <2> HIDE DEF R, Q, H
    <2>. QED  BY <2>1, <1>1, <1>2, <1>3, <1>4, <1>5, <1>6, <1>7, <1>8, EmbedAssumption, WorkersAreFinite
<1>10. PICK j \in Slots : j \notin R \cup Q \cup H
    <2>1. SUFFICES ASSUME Slots \subseteq R \cup Q \cup H PROVE FALSE
        OBVIOUS
    <2>2. Cardinality(Slots) <= Cardinality(R \cup Q \cup H)
        BY <2>1, <1>6, FS_Subset
    <2> HIDE DEF R, Q, H
    <2>. QED  BY <2>2, <1>9, <1>7, <1>8, FS_CardinalityType
<1>11. jobs[j] = NoJob
    BY <1>10 DEF InUse, Queued, Held
<1>12. FreeSlot \in Slots /\ jobs[FreeSlot] = NoJob
    BY <1>11 DEF FreeSlot
<1>13. \A i \in Queued \cup Held : jobs[i] # NoJob
    BY NamesAssumption DEF InUse, NoJob
<1>. QED  BY <1>12, <1>13

-------------------------------------------------------------------------------
(* Jobs keep their places.                                                 *)

LEMMA SlotsAreNotNone == None \notin Slots
BY DEF Slots, None

LEMMA PlacesAreSlots ==
    ASSUME QueueTypes, WorkerTypes
    PROVE  Queued \subseteq Slots /\ Held \subseteq Slots
BY ElementsAreTyped DEF QueueTypes, WorkerTypes, Queued, Held

\* A step that changes neither the jobs in use nor their texts, and at most moves
\* some of them from one lane to the other in bounded mode.
LEMMA SameJobs ==
    ASSUME QueueTypes, WorkerTypes, OnePlace, InUse, SharedJobsAreAlive,
           UNCHANGED <<mode, inflight, wjob>>,
           \A j \in Slots : jobs'[j].key = jobs[j].key /\ (jobs'[j] # NoJob => jobs[j] # NoJob),
           \A w \in AllWorkers : wpc'[w] \in {"idle", "exit"} <=> wpc[w] \in {"idle", "exit"},
           Elements(readQ') \cup Elements(writeQ') = Queued,
           NoRepeats(readQ'), NoRepeats(writeQ'), Elements(readQ') \cap Elements(writeQ') = {},
           Bounded \/ readQ' = readQ
    PROVE  OnePlace' /\ InUse' /\ SharedJobsAreAlive'
<1>1. Queued' = Queued /\ Held' = Held
    BY DEF Queued, Held
<1>2. OnePlace'
    BY <1>1 DEF OnePlace
<1>3. InUse'
    BY <1>1, PlacesAreSlots DEF InUse
<1>4. SharedJobsAreAlive'
    <2>1. ASSUME NEW k \in Keys, inflight[k] # None PROVE inflight[k] \in Slots
        BY <2>1 DEF QueueTypes
    <2>2. ~Bounded => readQ' = readQ
        OBVIOUS
    <2>. QED  BY <1>1, <2>1, <2>2, PlacesAreSlots DEF SharedJobsAreAlive, Bounded
<1>. QED  BY <1>2, <1>3, <1>4

\* A new job in a free slot, at the end of one lane, registered or, in legacy mode,
\* a warming job that is not.
LEMMA OneMoreJob ==
    ASSUME QueueTypes, WorkerTypes, OnePlace, InUse, SharedJobsAreAlive,
           UNCHANGED <<mode, workers>>,
           NEW j \in Slots, j \notin Queued \cup Held,
           NEW k \in Keys, inflight[k] = None,
           NEW r, r.key = k, jobs' = [jobs EXCEPT ![j] = r],
           \/ readQ' = Append(readQ, j) /\ writeQ' = writeQ
           \/ readQ' = readQ /\ writeQ' = Append(writeQ, j),
           \/ inflight' = [inflight EXCEPT ![k] = j] /\ (Bounded \/ readQ' = Append(readQ, j))
           \/ inflight' = inflight /\ ~Bounded
    PROVE  OnePlace' /\ InUse' /\ SharedJobsAreAlive'
<1>1. readQ \in Seq(Slots) /\ writeQ \in Seq(Slots) /\ jobs \in [Slots -> Jobs]
      /\ inflight \in [Keys -> Slots \cup {None}]
    BY DEF QueueTypes
<1>2. wpc' = wpc /\ wjob' = wjob /\ Held' = Held /\ mode' = mode
    BY DEF workers, Held
<1>3. /\ NoRepeats(readQ') /\ NoRepeats(writeQ')
      /\ \/ Elements(readQ') = {j} \cup Elements(readQ) /\ Elements(writeQ') = Elements(writeQ)
         \/ Elements(readQ') = Elements(readQ) /\ Elements(writeQ') = {j} \cup Elements(writeQ)
    <2>1. j \notin Elements(readQ) /\ j \notin Elements(writeQ) /\ NoRepeats(readQ) /\ NoRepeats(writeQ)
        BY DEF OnePlace, Queued
    <2>2. /\ Elements(Append(readQ, j)) = {j} \cup Elements(readQ) /\ NoRepeats(Append(readQ, j))
          /\ Elements(Append(writeQ, j)) = {j} \cup Elements(writeQ) /\ NoRepeats(Append(writeQ, j))
        BY <1>1, <2>1, PutAtEnd
    <2>3. CASE readQ' = Append(readQ, j) /\ writeQ' = writeQ
        BY <2>1, <2>2, <2>3
    <2>4. CASE readQ' = readQ /\ writeQ' = Append(writeQ, j)
        BY <2>1, <2>2, <2>4
    <2>. QED  BY <2>3, <2>4
<1>4. Queued' = {j} \cup Queued
    BY <1>3 DEF Queued
<1>5. OnePlace'
    <2>1. \A w \in AllWorkers : wjob[w] # j
        BY SlotsAreNotNone DEF Held
    <2>2. Elements(readQ') \cap Elements(writeQ') = {}
        BY <1>3 DEF OnePlace, Queued
    <2>. QED  BY <1>2, <1>3, <1>4, <2>1, <2>2 DEF OnePlace
<1>6. jobs'[j] = r /\ \A i \in Slots : i # j => jobs'[i] = jobs[i]
    BY <1>1
<1>7. InUse'
    BY <1>2, <1>4, <1>6, PlacesAreSlots DEF InUse
<1>8. \A l \in Keys : inflight[l] # None => inflight[l] \in Slots
    BY <1>1
<1>9. SharedJobsAreAlive'
    <2>1. CASE inflight' = [inflight EXCEPT ![k] = j] /\ (Bounded \/ readQ' = Append(readQ, j))
        <3>1. inflight'[k] = j /\ \A l \in Keys : l # k => inflight'[l] = inflight[l]
            BY <1>1, <2>1
        <3>2. CASE Bounded
            <4>1. Bounded'
                BY <1>2, <3>2 DEF Bounded
            <4>2. \A i \in Queued \cup Held : jobs[i].key # k
                BY <3>2, SlotsAreNotNone, PlacesAreSlots DEF SharedJobsAreAlive
            <4>3. \A l \in Keys : inflight'[l] # None =>
                      jobs'[inflight'[l]].key = l /\ inflight'[l] \in Queued' \cup Held'
                BY <1>2, <1>4, <1>6, <1>8, <3>1, <3>2 DEF SharedJobsAreAlive
            <4>4. \A i \in Queued' \cup Held' : inflight'[jobs'[i].key] = i
                BY <1>2, <1>4, <1>6, <3>1, <3>2, <4>2, PlacesAreSlots DEF SharedJobsAreAlive, InUse
            <4>. QED  BY <4>1, <4>3, <4>4 DEF SharedJobsAreAlive
        <3>3. CASE ~Bounded
            <4>1. ~Bounded'
                BY <1>2, <3>3 DEF Bounded
            <4>2. Elements(readQ') = {j} \cup Elements(readQ)
                BY <1>1, <2>1, <3>3, PutAtEnd
            <4>3. \A l \in Keys : inflight'[l] # None =>
                      jobs'[inflight'[l]].key = l /\ inflight'[l] \in Elements(readQ')
                BY <1>6, <1>8, <3>1, <3>3, <4>2 DEF SharedJobsAreAlive, Queued
            <4>. QED  BY <4>1, <4>3 DEF SharedJobsAreAlive
        <3>. QED  BY <3>2, <3>3
    <2>2. CASE inflight' = inflight /\ ~Bounded
        <3>1. ~Bounded'
            BY <1>2, <2>2 DEF Bounded
        <3>2. Elements(readQ) \subseteq Elements(readQ') /\ Elements(readQ) \subseteq Queued
            BY <1>3 DEF Queued
        <3>3. \A l \in Keys : inflight'[l] # None =>
                  jobs'[inflight'[l]].key = l /\ inflight'[l] \in Elements(readQ')
            BY <1>6, <1>8, <2>2, <3>2 DEF SharedJobsAreAlive
        <3>. QED  BY <3>1, <3>3 DEF SharedJobsAreAlive
    <2>. QED  BY <2>1, <2>2
<1>. QED  BY <1>5, <1>7, <1>9

\* An idle worker takes a queued job; in legacy mode its text is forgotten.
LEMMA TakenJob ==
    ASSUME QueueTypes, WorkerTypes, OnePlace, InUse, SharedJobsAreAlive,
           UNCHANGED <<mode, jobs>>,
           NEW w \in AllWorkers, wpc[w] = "idle", wpc' = [wpc EXCEPT ![w] = "got"],
           NEW j \in Queued, wjob' = [wjob EXCEPT ![w] = j], ForgetOnTake(j),
           NoRepeats(readQ'), NoRepeats(writeQ'), Elements(readQ') \cap Elements(writeQ') = {},
           Elements(readQ') \cup Elements(writeQ') = Queued \ {j},
           Bounded \/ Elements(readQ') = Elements(readQ) \ {j}
    PROVE  OnePlace' /\ InUse' /\ SharedJobsAreAlive'
<1>1. /\ wjob \in [AllWorkers -> Slots \cup {None}]
      /\ wpc \in [AllWorkers -> {"idle", "got", "run", "cached", "release", "exit"}]
      /\ inflight \in [Keys -> Slots \cup {None}]
    BY DEF QueueTypes, WorkerTypes
<1>2. wjob'[w] = j /\ \A v \in AllWorkers : v # w => wjob'[v] = wjob[v]
    BY <1>1
<1>3. wjob[w] = None /\ j # None /\ j \in Slots
    BY SlotsAreNotNone, PlacesAreSlots DEF InUse
<1>4. Held' = Held \cup {j} /\ j \notin Held
    BY <1>2, <1>3 DEF Held, OnePlace
<1>5. Queued' = Queued \ {j}
    BY DEF Queued
<1>6. OnePlace'
    <2>1. \A v \in AllWorkers : wjob'[v] \notin Queued'
        BY <1>2, <1>5 DEF OnePlace
    <2>2. \A v \in AllWorkers : v # w => wjob[v] # j
        BY DEF OnePlace
    <2>3. \A u, v \in AllWorkers : wjob'[u] = wjob'[v] => u = v \/ wjob'[u] = None
        BY <1>2, <2>2 DEF OnePlace
    <2>. QED  BY <2>1, <2>3 DEF OnePlace
<1>7. InUse'
    <2>1. \A v \in AllWorkers : wjob'[v] = None <=> wpc'[v] \in {"idle", "exit"}
        BY <1>1, <1>2, <1>3 DEF InUse
    <2>. QED  BY <1>4, <1>5, <2>1 DEF InUse
<1>8. SharedJobsAreAlive'
    <2>1. CASE Bounded
        BY <1>4, <1>5, <2>1 DEF SharedJobsAreAlive, Bounded, ForgetOnTake
    <2>2. CASE ~Bounded
        <3>1. ~Bounded' /\ inflight' = [inflight EXCEPT ![jobs[j].key] = None]
            BY <2>2 DEF Bounded, ForgetOnTake
        <3>2. \A l \in Keys : inflight'[l] # None => l # jobs[j].key /\ inflight'[l] = inflight[l]
            BY <1>1, <3>1
        <3>3. \A l \in Keys : inflight'[l] # None =>
                  jobs'[inflight'[l]].key = l /\ inflight'[l] \in Elements(readQ')
            BY <2>2, <3>2 DEF SharedJobsAreAlive
        <3>. QED  BY <3>1, <3>3 DEF SharedJobsAreAlive
    <2>. QED  BY <2>1, <2>2
<1>. QED  BY <1>6, <1>7, <1>8

\* A worker drops its job, in bounded mode with its in-flight entry.
LEMMA DoneJob ==
    ASSUME QueueTypes, WorkerTypes, OnePlace, InUse, SharedJobsAreAlive,
           UNCHANGED <<mode, readQ, writeQ>>,
           NEW w \in AllWorkers, NEW j, j = wjob[w], j # None,
           wpc' = [wpc EXCEPT ![w] = "idle"], wjob' = [wjob EXCEPT ![w] = None],
           jobs' = [jobs EXCEPT ![j] = NoJob],
           \/ inflight' = inflight /\ ~Bounded
           \/ inflight' = [inflight EXCEPT ![jobs[j].key] = None]
    PROVE  OnePlace' /\ InUse' /\ SharedJobsAreAlive'
<1>1. /\ wjob \in [AllWorkers -> Slots \cup {None}]
      /\ wpc \in [AllWorkers -> {"idle", "got", "run", "cached", "release", "exit"}]
      /\ inflight \in [Keys -> Slots \cup {None}] /\ jobs \in [Slots -> Jobs]
    BY DEF QueueTypes, WorkerTypes
<1>2. wjob'[w] = None /\ \A v \in AllWorkers : v # w => wjob'[v] = wjob[v]
    BY <1>1
<1>3. Held' = Held \ {j} /\ j \in Held /\ j \in Slots /\ j \notin Queued
    <2>1. \A v \in AllWorkers : v # w => wjob[v] # j
        BY DEF OnePlace
    <2>. QED  BY <1>1, <1>2, <2>1 DEF Held, OnePlace
<1>4. Queued' = Queued
    BY DEF Queued
<1>5. jobs'[j] = NoJob /\ \A i \in Slots : i # j => jobs'[i] = jobs[i]
    BY <1>1, <1>3
<1>6. OnePlace'
    <2>1. None \notin Queued
        BY SlotsAreNotNone, PlacesAreSlots
    <2>. QED  BY <1>2, <1>4, <2>1 DEF OnePlace
<1>7. InUse'
    <2>1. \A v \in AllWorkers : wjob'[v] = None <=> wpc'[v] \in {"idle", "exit"}
        BY <1>1, <1>2 DEF InUse
    <2>. QED  BY <1>3, <1>4, <1>5, <2>1, PlacesAreSlots DEF InUse
<1>8. SharedJobsAreAlive'
    <2>0. \A l \in Keys : inflight'[l] # None => inflight'[l] = inflight[l]
        BY <1>1
    <2>1. CASE Bounded
        <3>1. Bounded' /\ inflight' = [inflight EXCEPT ![jobs[j].key] = None]
            BY <2>1 DEF Bounded
        <3>2. jobs[j].key \in Keys /\ inflight[jobs[j].key] = j
            BY <1>3, <2>1 DEF InUse, SharedJobsAreAlive
        <3>3. \A l \in Keys : inflight'[l] # None => l # jobs[j].key
            BY <1>1, <3>1
        <3>4. \A l \in Keys : inflight'[l] # None =>
                  inflight[l] # j /\ jobs[inflight[l]].key = l /\ inflight[l] \in Queued \cup Held
            BY <2>0, <2>1, <3>3 DEF SharedJobsAreAlive
        <3>5. \A l \in Keys : inflight'[l] # None =>
                  jobs'[inflight'[l]].key = l /\ inflight'[l] \in Queued' \cup Held'
            BY <1>3, <1>4, <1>5, <2>0, <3>4, PlacesAreSlots
        <3>6. \A i \in Queued' \cup Held' : inflight'[jobs'[i].key] = i
            <4> SUFFICES ASSUME NEW i \in (Queued \cup Held) \ {j}
                         PROVE  inflight'[jobs'[i].key] = i
                BY <1>3, <1>4
            <4>1. jobs'[i] = jobs[i] /\ jobs[i].key \in Keys /\ inflight[jobs[i].key] = i
                BY <1>5, <2>1, PlacesAreSlots DEF InUse, SharedJobsAreAlive
            <4>2. jobs[i].key # jobs[j].key
                BY <3>2, <4>1
            <4>. QED  BY <1>1, <3>1, <4>1, <4>2
        <3>. QED  BY <3>1, <3>5, <3>6 DEF SharedJobsAreAlive
    <2>2. CASE ~Bounded
        <3>1. ~Bounded'
            BY <2>2 DEF Bounded
        <3>2. \A l \in Keys : inflight[l] # None => inflight[l] # j /\ inflight[l] \in Slots
            BY <1>1, <1>3, <2>2 DEF SharedJobsAreAlive, Queued
        <3>3. \A l \in Keys : inflight'[l] # None =>
                  jobs'[inflight'[l]].key = l /\ inflight'[l] \in Elements(readQ')
            BY <1>5, <2>0, <2>2, <3>2 DEF SharedJobsAreAlive
        <3>. QED  BY <3>1, <3>3 DEF SharedJobsAreAlive
    <2>. QED  BY <2>1, <2>2
<1>. QED  BY <1>6, <1>7, <1>8

-------------------------------------------------------------------------------
(* Callers.                                                                *)

\* Whoever returns has no call.
LEMMA ReturnKeeps ==
    ASSUME CallTypes, Calling, mode' = mode, NEW C, ReturnAll(C)
    PROVE  CallTypes' /\ Calling'
<1>1. CallTypes'
    BY DEF CallTypes, ReturnAll
<1>2. ASSUME NEW c \in Callers
      PROVE  /\ pc'[c] = "missed" => want'[c] \in Keys
             /\ kind'[c] = "write" => Bounded'
    BY DEF Calling, ReturnAll, Bounded
<1>. QED  BY <1>1, <1>2 DEF Calling

LEMMA WaitingKeeps ==
    ASSUME CallTypes, Calling, mode' = mode, NEW c \in Callers, StartWaiting(c)
    PROVE  CallTypes' /\ Calling'
BY DEF CallTypes, Calling, StartWaiting, Bounded

LEMMA SameCallers ==
    ASSUME CallTypes, Calling, UNCHANGED <<mode, callers>>
    PROVE  CallTypes' /\ Calling'
BY DEF CallTypes, Calling, Bounded, callers

LEMMA CallersKept ==
    ASSUME CallTypes, Calling, [Next]_vars
    PROVE  CallTypes' /\ Calling'
<1>1. CASE UNCHANGED vars
    BY <1>1, SameCallers DEF vars
<1>2. ASSUME NEW c \in Callers, NEW k \in Keys, CallHit(c, k)
      PROVE  CallTypes' /\ Calling'
    BY <1>2 DEF CallTypes, Calling, CallHit, Bounded
<1>3. ASSUME NEW c \in Callers, NEW k \in Keys, NEW q \in Kinds, CallMiss(c, k, q)
      PROVE  CallTypes' /\ Calling'
    <2>1. q \in {"query", "write", "warm"} /\ (q = "write" => Bounded)
        BY DEF Kinds
    <2>2. /\ pc' = [pc EXCEPT ![c] = "missed"] /\ kind' = [kind EXCEPT ![c] = q]
          /\ want' = [want EXCEPT ![c] = k] /\ mode' = mode
        BY <1>3 DEF CallMiss
    <2>3. CallTypes'
        BY <2>1, <2>2 DEF CallTypes
    <2>4. Calling'
        BY <2>1, <2>2 DEF CallTypes, Calling, Bounded
    <2>. QED  BY <2>3, <2>4
<1>4. ASSUME NEW c \in Callers, QueryJoin(c) \/ WriteJoin(c)
      PROVE  CallTypes' /\ Calling'
    BY <1>4, ReturnKeeps, WaitingKeeps DEF QueryJoin, WriteJoin, Join, Return
<1>5. ASSUME NEW c \in Callers, QuerySubmit(c) \/ WriteSubmit(c)
      PROVE  CallTypes' /\ Calling'
    BY <1>5, WaitingKeeps DEF QuerySubmit, WriteSubmit
<1>6. ASSUME NEW c \in Callers,
             QueryFull(c) \/ WarmSubmit(c) \/ WarmSkip(c) \/ WriteRefused(c) \/ GiveUp(c)
      PROVE  CallTypes' /\ Calling'
    BY <1>6, ReturnKeeps DEF QueryFull, WarmSubmit, WarmSkip, WriteRefused, GiveUp, Return
<1>7. ASSUME NEW j \in Slots, Expire(j)
      PROVE  CallTypes' /\ Calling'
    BY <1>7, SameCallers DEF Expire
<1>8. ASSUME NEW w, Take(w) \/ Start(w) \/ CachePut(w) \/ Release(w) \/ Exit(w)
      PROVE  CallTypes' /\ Calling'
    BY <1>8, SameCallers DEF Take, Start, CachePut, Release, Exit
<1>9. ASSUME NEW w, Skip(w) \/ TransformFails(w) \/ SetValue(w)
      PROVE  CallTypes' /\ Calling'
    BY <1>9, ReturnKeeps DEF Skip, TransformFails, SetValue, Fulfil
<1>10. CASE Stop
    BY <1>10, SameCallers DEF Stop
<1>. QED  BY <1>1, <1>2, <1>3, <1>4, <1>5, <1>6, <1>7, <1>8, <1>9, <1>10
          DEF Next, CallStep, WorkerStep

-------------------------------------------------------------------------------
(* Submitting and sharing.                                                 *)

Places == QueueTypes /\ WorkerTypes /\ OnePlace /\ InUse /\ SharedJobsAreAlive

\* The job of a text in flight has that text.
LEMMA SharedJob ==
    ASSUME Places, NEW k \in Keys, inflight[k] # None
    PROVE  inflight[k] \in Slots /\ jobs[inflight[k]] # NoJob /\ jobs[inflight[k]].key = k
BY NamesAssumption DEF Places, QueueTypes, SharedJobsAreAlive, NoJob

LEMMA JoinFacts ==
    ASSUME jobs \in [Slots -> Jobs], NEW c \in Callers, NEW j \in Slots, jobs[j] # NoJob, Join(c, j)
    PROVE  /\ jobs' \in [Slots -> Jobs]
           /\ \A i \in Slots : jobs'[i].key = jobs[i].key /\ (jobs'[i] # NoJob => jobs[i] # NoJob)
<1>1. CASE jobs' = jobs
    BY <1>1
<1>2. CASE jobs' = [jobs EXCEPT ![j].waiters = @ \cup {c}]
    <2>1. jobs[j] \in Jobs
        OBVIOUS
    <2>2. jobs'[j] = [jobs[j] EXCEPT !.waiters = @ \cup {c}] /\ \A i \in Slots : i # j => jobs'[i] = jobs[i]
        BY <1>2
    <2>3. jobs'[j] \in Jobs /\ jobs'[j].key = jobs[j].key
        BY <2>1, <2>2 DEF Jobs
    <2>4. jobs' = [i \in Slots |-> jobs'[i]]
        BY <1>2
    <2>. QED  BY <2>2, <2>3, <2>4
<1>. QED  BY <1>1, <1>2 DEF Join

\* A document job moves from one lane to the front of the other.
LEMMA PromoteFacts ==
    ASSUME QueueTypes, OnePlace, NEW j \in Slots, Promote(j)
    PROVE  /\ readQ' \in Seq(Slots) /\ Len(readQ') <= ReadCap
           /\ writeQ' \in Seq(Slots) /\ Len(writeQ') <= WriteCap
           /\ NoRepeats(readQ') /\ NoRepeats(writeQ') /\ Elements(readQ') \cap Elements(writeQ') = {}
           /\ Elements(readQ') \cup Elements(writeQ') = Queued
           /\ Bounded \/ readQ' = readQ
<1>1. CASE readQ' = readQ /\ writeQ' = writeQ
    BY <1>1 DEF QueueTypes, OnePlace, Queued
<1>2. CASE /\ Bounded /\ Len(readQ) < ReadCap /\ j \in Elements(writeQ)
           /\ readQ' = <<j>> \o readQ /\ writeQ' = Without(writeQ, j)
    <2>1. j \notin Elements(readQ) /\ NoRepeats(readQ) /\ NoRepeats(writeQ)
        BY <1>2 DEF OnePlace
    <2>2. readQ \in Seq(Slots) /\ Len(readQ) \in Nat /\ writeQ \in Seq(Slots) /\ Len(writeQ) \in Nat
          /\ Len(writeQ) <= WriteCap /\ ReadCap \in Nat /\ WriteCap \in Nat
        BY EmbedAssumption DEF QueueTypes
    <2>3. /\ readQ' \in Seq(Slots) /\ Len(readQ') = Len(readQ) + 1 /\ NoRepeats(readQ')
          /\ Elements(readQ') = {j} \cup Elements(readQ)
        BY <1>2, <2>1, <2>2, PutInFront
    <2>4. /\ writeQ' \in Seq(Slots) /\ Len(writeQ') = Len(writeQ) - 1 /\ NoRepeats(writeQ')
          /\ Elements(writeQ') = Elements(writeQ) \ {j}
        <3>1. /\ Without(writeQ, j) \in Seq(Slots) /\ Len(Without(writeQ, j)) = Len(writeQ) - 1
              /\ Elements(writeQ) \ {j} \subseteq Elements(Without(writeQ, j))
              /\ Elements(Without(writeQ, j)) \subseteq Elements(writeQ)
              /\ NoRepeats(Without(writeQ, j)) /\ j \notin Elements(Without(writeQ, j))
            BY <1>2, <2>1, <2>2, TakeOut
        <3>. QED  BY <1>2, <3>1
    <2>5. Len(readQ') <= ReadCap /\ Len(writeQ') <= WriteCap
        BY <1>2, <2>2, <2>3, <2>4
    <2>6. Elements(readQ') \cap Elements(writeQ') = {} /\ Elements(readQ') \cup Elements(writeQ') = Queued
        BY <1>2, <2>3, <2>4 DEF OnePlace, Queued
    <2>. QED  BY <1>2, <2>3, <2>4, <2>5, <2>6
<1>. QED  BY <1>1, <1>2 DEF Promote

LEMMA PlacesNext ==
    ASSUME QueueTypes', WorkerTypes', OnePlace', InUse', SharedJobsAreAlive'
    PROVE  Places'
BY DEF Places

LEMMA SubmitKeeps ==
    ASSUME Places, CallTypes, Calling, UNCHANGED <<mode, workers>>,
           NEW c \in Callers, pc[c] = "missed", inflight[want[c]] = None,
           NEW waiting \in BOOLEAN, NewJob(c, waiting),
           \/ Len(readQ) < ReadCap /\ readQ' = Append(readQ, FreeSlot) /\ writeQ' = writeQ
           \/ Len(writeQ) < WriteCap /\ readQ' = readQ /\ writeQ' = Append(writeQ, FreeSlot),
           \/ Register(c) /\ (Bounded \/ readQ' = Append(readQ, FreeSlot))
           \/ inflight' = inflight /\ ~Bounded
    PROVE  Places'
<1>1. PICK j \in Slots : j = FreeSlot /\ j \notin Queued \cup Held
    BY SomeSlotIsFree DEF Places
<1>2. PICK r : r = [key |-> want[c], write |-> kind[c] # "query",
                    by |-> IF kind[c] = "query" THEN c ELSE Nobody,
                    waiters |-> IF waiting THEN {c} ELSE {}, expired |-> FALSE, done |-> FALSE]
    OBVIOUS
<1>3. PICK k \in Keys : k = want[c]
    BY DEF Calling
<1>4. r \in Jobs /\ r.key = k
    BY <1>2, <1>3 DEF Jobs
<1>5. jobs' = [jobs EXCEPT ![j] = r]
    BY <1>1, <1>2 DEF NewJob
<1>6. \/ readQ' = Append(readQ, j) /\ writeQ' = writeQ
      \/ readQ' = readQ /\ writeQ' = Append(writeQ, j)
    BY <1>1
<1>7. \/ inflight' = [inflight EXCEPT ![k] = j] /\ (Bounded \/ readQ' = Append(readQ, j))
      \/ inflight' = inflight /\ ~Bounded
    BY <1>1, <1>3 DEF Register
<1>8. OnePlace' /\ InUse' /\ SharedJobsAreAlive'
    BY <1>1, <1>3, <1>4, <1>5, <1>6, <1>7, OneMoreJob DEF Places
<1>9. QueueTypes'
    <2>0. jobs \in [Slots -> Jobs] /\ inflight \in [Keys -> Slots \cup {None}]
        BY DEF Places, QueueTypes
    <2>1. jobs' \in [Slots -> Jobs]
        BY <2>0, <1>4, <1>5
    <2>2. inflight' \in [Keys -> Slots \cup {None}]
        BY <2>0, <1>7
    <2>3. readQ \in Seq(Slots) /\ Len(readQ) <= ReadCap /\ writeQ \in Seq(Slots) /\ Len(writeQ) <= WriteCap
          /\ ReadCap \in Nat /\ WriteCap \in Nat
        BY EmbedAssumption DEF Places, QueueTypes
    <2>4. /\ Append(readQ, j) \in Seq(Slots) /\ Len(Append(readQ, j)) = Len(readQ) + 1
          /\ Append(writeQ, j) \in Seq(Slots) /\ Len(Append(writeQ, j)) = Len(writeQ) + 1
          /\ Len(readQ) \in Nat /\ Len(writeQ) \in Nat
        BY <2>3
    <2>5. CASE Len(readQ) < ReadCap /\ readQ' = Append(readQ, j) /\ writeQ' = writeQ
        BY <2>1, <2>2, <2>3, <2>4, <2>5 DEF QueueTypes
    <2>6. CASE Len(writeQ) < WriteCap /\ readQ' = readQ /\ writeQ' = Append(writeQ, j)
        BY <2>1, <2>2, <2>3, <2>4, <2>6 DEF QueueTypes
    <2>. QED  BY <1>1, <2>5, <2>6
<1>10. WorkerTypes'
    BY DEF Places, WorkerTypes, workers
<1>. QED  BY <1>8, <1>9, <1>10, PlacesNext

\* A step that changes at most who waits for a job and whether it was answered.
LEMMA OnlyFlags ==
    ASSUME Places, UNCHANGED <<mode, queues, wjob>>, jobs' \in [Slots -> Jobs],
           wpc' \in [AllWorkers -> {"idle", "got", "run", "cached", "release", "exit"}],
           \A j \in Slots : jobs'[j].key = jobs[j].key /\ (jobs'[j] # NoJob => jobs[j] # NoJob),
           \A w \in AllWorkers : wpc'[w] \in {"idle", "exit"} <=> wpc[w] \in {"idle", "exit"}
    PROVE  Places'
<1>1. readQ' = readQ /\ writeQ' = writeQ /\ inflight' = inflight /\ wjob' = wjob /\ mode' = mode
    BY DEF queues
<1>2. QueueTypes' /\ WorkerTypes'
    BY <1>1 DEF Places, QueueTypes, WorkerTypes
<1>3. /\ Elements(readQ') \cup Elements(writeQ') = Queued
      /\ NoRepeats(readQ') /\ NoRepeats(writeQ') /\ Elements(readQ') \cap Elements(writeQ') = {}
    BY <1>1 DEF Places, OnePlace, Queued
<1>4. OnePlace' /\ InUse' /\ SharedJobsAreAlive'
    BY <1>1, <1>3, SameJobs DEF Places
<1>. QED  BY <1>2, <1>4, PlacesNext

LEMMA SamePlaces ==
    ASSUME Places, UNCHANGED <<mode, jobs, queues, workers>>
    PROVE  Places'
BY OnlyFlags DEF Places, QueueTypes, WorkerTypes, workers

LEMMA QueryJoinKeeps ==
    ASSUME Places, CallTypes, Calling, NEW c \in Callers, QueryJoin(c)
    PROVE  Places'
<1>1. PICK j \in Slots : j = inflight[want[c]] /\ jobs[j] # NoJob
    BY SharedJob DEF QueryJoin, Missed, Shared, Calling
<1>2. Join(c, j) /\ Promote(j) /\ UNCHANGED <<mode, inflight, workers>>
    BY <1>1 DEF QueryJoin, Shared
<1>3. /\ jobs' \in [Slots -> Jobs]
      /\ \A i \in Slots : jobs'[i].key = jobs[i].key /\ (jobs'[i] # NoJob => jobs[i] # NoJob)
    BY <1>1, <1>2, JoinFacts DEF Places, QueueTypes
<1>4. /\ readQ' \in Seq(Slots) /\ Len(readQ') <= ReadCap
      /\ writeQ' \in Seq(Slots) /\ Len(writeQ') <= WriteCap
      /\ NoRepeats(readQ') /\ NoRepeats(writeQ') /\ Elements(readQ') \cap Elements(writeQ') = {}
      /\ Elements(readQ') \cup Elements(writeQ') = Queued
      /\ Bounded \/ readQ' = readQ
    BY <1>2, PromoteFacts DEF Places
<1>5. inflight' = inflight /\ wpc' = wpc /\ wjob' = wjob /\ mode' = mode
    BY <1>2 DEF workers
<1>6. QueueTypes' /\ WorkerTypes'
    BY <1>3, <1>4, <1>5 DEF Places, QueueTypes, WorkerTypes
<1>7. OnePlace' /\ InUse' /\ SharedJobsAreAlive'
    BY <1>3, <1>4, <1>5, SameJobs DEF Places
<1>. QED  BY <1>6, <1>7, PlacesNext

LEMMA WriteJoinKeeps ==
    ASSUME Places, CallTypes, Calling, NEW c \in Callers, WriteJoin(c)
    PROVE  Places'
<1>1. PICK j \in Slots : j = inflight[want[c]] /\ jobs[j] # NoJob
    BY SharedJob DEF WriteJoin, Missed, Shared, Calling
<1>2. Join(c, j) /\ UNCHANGED <<mode, queues, workers>>
    BY <1>1 DEF WriteJoin, Shared
<1>3. /\ jobs' \in [Slots -> Jobs]
      /\ \A i \in Slots : jobs'[i].key = jobs[i].key /\ (jobs'[i] # NoJob => jobs[i] # NoJob)
    BY <1>1, <1>2, JoinFacts DEF Places, QueueTypes
<1>4. wpc' = wpc /\ wjob' = wjob
    BY <1>2 DEF workers
<1>. QED  BY <1>2, <1>3, <1>4, OnlyFlags DEF Places, WorkerTypes

LEMMA SubmitsKeep ==
    ASSUME Places, CallTypes, Calling, NEW c \in Callers,
           QuerySubmit(c) \/ WriteSubmit(c) \/ WarmSubmit(c)
    PROVE  Places'
<1>1. CASE QuerySubmit(c)
    BY <1>1, SubmitKeeps DEF QuerySubmit, Missed, Shared
<1>2. CASE WriteSubmit(c)
    BY <1>2, SubmitKeeps DEF WriteSubmit, Missed, Shared, Calling
<1>3. CASE WarmSubmit(c)
    BY <1>3, SubmitKeeps DEF WarmSubmit, Missed, Shared
<1>. QED  BY <1>1, <1>2, <1>3

LEMMA WaitersLeave ==
    ASSUME Places, NEW c \in Callers, GiveUp(c)
    PROVE  Places'
<1>1. PICK j \in Slots : c \in jobs[j].waiters /\ jobs' = [jobs EXCEPT ![j].waiters = @ \ {c}]
    BY DEF GiveUp
<1>2. jobs[j] # NoJob /\ jobs[j] \in Jobs /\ jobs \in [Slots -> Jobs]
    BY <1>1 DEF NoJob, Places, QueueTypes
<1>3. jobs'[j] = [jobs[j] EXCEPT !.waiters = @ \ {c}] /\ \A i \in Slots : i # j => jobs'[i] = jobs[i]
    BY <1>1, <1>2
<1>4. jobs'[j] \in Jobs /\ jobs'[j].key = jobs[j].key
    BY <1>2, <1>3 DEF Jobs
<1>5. jobs' \in [Slots -> Jobs]
    BY <1>1, <1>2, <1>3, <1>4
<1>. QED  BY <1>2, <1>3, <1>4, <1>5, OnlyFlags DEF GiveUp, Places, WorkerTypes, workers

LEMMA ExpireKeeps ==
    ASSUME Places, NEW j \in Slots, Expire(j)
    PROVE  Places'
<1>1. jobs[j] # NoJob /\ jobs' = [jobs EXCEPT ![j].expired = TRUE, ![j].by = Nobody]
    BY DEF Expire
<1>2. jobs[j] \in Jobs /\ jobs \in [Slots -> Jobs]
    BY DEF Places, QueueTypes
<1>3. /\ jobs'[j] = [jobs[j] EXCEPT !.expired = TRUE, !.by = Nobody]
      /\ \A i \in Slots : i # j => jobs'[i] = jobs[i]
    BY <1>1, <1>2
<1>4. jobs'[j] \in Jobs /\ jobs'[j].key = jobs[j].key
    BY <1>2, <1>3 DEF Jobs
<1>5. jobs' \in [Slots -> Jobs]
    BY <1>1, <1>2, <1>3, <1>4
<1>. QED  BY <1>1, <1>3, <1>4, <1>5, OnlyFlags DEF Expire, Places, WorkerTypes, workers

-------------------------------------------------------------------------------
(* Workers.                                                                *)

LEMMA TakeKeeps ==
    ASSUME Places, NEW w \in AllWorkers, w = Reader \/ Bounded, Take(w)
    PROVE  Places'
<1>0. /\ readQ \in Seq(Slots) /\ Len(readQ) <= ReadCap /\ NoRepeats(readQ)
      /\ writeQ \in Seq(Slots) /\ Len(writeQ) <= WriteCap /\ NoRepeats(writeQ)
      /\ Elements(readQ) \cap Elements(writeQ) = {}
      /\ ReadCap \in Nat /\ WriteCap \in Nat
    BY EmbedAssumption DEF Places, QueueTypes, OnePlace
<1>1. wpc[w] = "idle" /\ wpc' = [wpc EXCEPT ![w] = "got"] /\ mode' = mode /\ jobs' = jobs
    BY DEF Take
<1>2. ASSUME readQ # <<>>, wjob' = [wjob EXCEPT ![w] = Head(readQ)], ForgetOnTake(Head(readQ)),
             readQ' = Tail(readQ), writeQ' = writeQ
      PROVE  Places'
    <2>1. PICK j \in Slots : j = Head(readQ)
        BY <1>0, <1>2, TakeFirst
    <2>2. /\ readQ' \in Seq(Slots) /\ Len(readQ') = Len(readQ) - 1
          /\ Elements(readQ) = {j} \cup Elements(readQ') /\ NoRepeats(readQ') /\ j \notin Elements(readQ')
        BY <1>0, <1>2, <2>1, TakeFirst
    <2>3. j \in Queued /\ Elements(readQ') \cup Elements(writeQ') = Queued \ {j}
          /\ Elements(readQ') = Elements(readQ) \ {j} /\ Elements(readQ') \cap Elements(writeQ') = {}
        BY <1>0, <1>2, <2>2 DEF Queued
    <2>4. OnePlace' /\ InUse' /\ SharedJobsAreAlive'
        BY <1>0, <1>1, <1>2, <2>1, <2>2, <2>3, TakenJob DEF Places
    <2>5. inflight' \in [Keys -> Slots \cup {None}]
        BY <1>2 DEF Places, QueueTypes, ForgetOnTake
    <2>6. Len(readQ') <= ReadCap
        BY <1>0, <2>2
    <2>7. QueueTypes' /\ WorkerTypes'
        BY <1>0, <1>1, <1>2, <2>1, <2>2, <2>5, <2>6 DEF Places, QueueTypes, WorkerTypes
    <2>. QED  BY <2>4, <2>7, PlacesNext
<1>3. ASSUME writeQ # <<>>, wjob' = [wjob EXCEPT ![w] = Head(writeQ)], ForgetOnTake(Head(writeQ)),
             writeQ' = Tail(writeQ), readQ' = readQ, Bounded \/ readQ = <<>>
      PROVE  Places'
    <2>1. PICK j \in Slots : j = Head(writeQ)
        BY <1>0, <1>3, TakeFirst
    <2>2. /\ writeQ' \in Seq(Slots) /\ Len(writeQ') = Len(writeQ) - 1
          /\ Elements(writeQ) = {j} \cup Elements(writeQ') /\ NoRepeats(writeQ') /\ j \notin Elements(writeQ')
        BY <1>0, <1>3, <2>1, TakeFirst
    <2>3. j \in Queued /\ Elements(readQ') \cup Elements(writeQ') = Queued \ {j}
          /\ Elements(readQ') \cap Elements(writeQ') = {}
        BY <1>0, <1>3, <2>2 DEF Queued
    <2>4. Bounded \/ Elements(readQ') = Elements(readQ) \ {j}
        BY <1>3, EmptyList
    <2>5. OnePlace' /\ InUse' /\ SharedJobsAreAlive'
        BY <1>0, <1>1, <1>3, <2>1, <2>2, <2>3, <2>4, TakenJob DEF Places
    <2>6. inflight' \in [Keys -> Slots \cup {None}]
        BY <1>3 DEF Places, QueueTypes, ForgetOnTake
    <2>7. Len(writeQ') <= WriteCap
        BY <1>0, <2>2
    <2>8. QueueTypes' /\ WorkerTypes'
        BY <1>0, <1>1, <1>3, <2>1, <2>2, <2>6, <2>7 DEF Places, QueueTypes, WorkerTypes
    <2>. QED  BY <2>5, <2>8, PlacesNext
<1>4. CASE FromReads(w) /\ wjob' = [wjob EXCEPT ![w] = Head(readQ)] /\ ForgetOnTake(Head(readQ))
           /\ readQ' = Tail(readQ) /\ writeQ' = writeQ
    BY <1>2, <1>4 DEF FromReads
<1>5. CASE FromWrites(w) /\ wjob' = [wjob EXCEPT ![w] = Head(writeQ)] /\ ForgetOnTake(Head(writeQ))
           /\ writeQ' = Tail(writeQ) /\ readQ' = readQ
    BY <1>3, <1>5 DEF FromWrites
<1>. QED  BY <1>4, <1>5 DEF Take

\* The job of a worker that is busy.
LEMMA BusyJob ==
    ASSUME Places, NEW w \in AllWorkers, wpc[w] \notin {"idle", "exit"}
    PROVE  /\ wjob[w] \in Slots /\ wjob[w] # None /\ jobs[wjob[w]] # NoJob
           /\ jobs[wjob[w]].key \in Keys /\ jobs[wjob[w]] \in Jobs
<1>1. wjob[w] \in Slots /\ wjob[w] # None
    BY DEF Places, InUse, WorkerTypes
<1>2. wjob[w] \in Held
    BY <1>1 DEF Held
<1>. QED  BY <1>1, <1>2, NamesAssumption DEF Places, InUse, NoJob, QueueTypes

LEMMA FulfilKeeps ==
    ASSUME Places, NEW w \in AllWorkers, wpc[w] \in {"got", "run", "cached"}, Fulfil(w)
    PROVE  Places'
<1>1. PICK j \in Slots : j = wjob[w] /\ j # None /\ jobs[j] # NoJob /\ jobs[j] \in Jobs
    BY BusyJob
<1>2. mode' = mode /\ readQ' = readQ /\ writeQ' = writeQ /\ inflight' = inflight
    BY DEF Fulfil, queues
<1>3. /\ wpc \in [AllWorkers -> {"idle", "got", "run", "cached", "release", "exit"}]
      /\ wjob \in [AllWorkers -> Slots \cup {None}] /\ jobs \in [Slots -> Jobs]
    BY DEF Places, WorkerTypes, QueueTypes
<1>4. CASE Bounded
    <2>1. /\ jobs' = [jobs EXCEPT ![j] = [jobs[j] EXCEPT !.done = TRUE, !.waiters = {}, !.by = Nobody]]
          /\ wpc' = [wpc EXCEPT ![w] = "release"] /\ wjob' = [wjob EXCEPT ![w] = wjob[w]]
        BY <1>1, <1>3, <1>4 DEF Fulfil
    <2>2. wjob' = wjob
        BY <2>1, <1>3
    <2>3. [jobs[j] EXCEPT !.done = TRUE, !.waiters = {}, !.by = Nobody] \in Jobs
          /\ [jobs[j] EXCEPT !.done = TRUE, !.waiters = {}, !.by = Nobody].key = jobs[j].key
        BY <1>1 DEF Jobs
    <2>4. jobs' \in [Slots -> Jobs]
        BY <2>1, <2>3, <1>3
    <2>5. \A i \in Slots : jobs'[i].key = jobs[i].key /\ (jobs'[i] # NoJob => jobs[i] # NoJob)
        BY <2>1, <2>3, <1>1, <1>3
    <2>6. wpc' \in [AllWorkers -> {"idle", "got", "run", "cached", "release", "exit"}]
          /\ \A v \in AllWorkers : wpc'[v] \in {"idle", "exit"} <=> wpc[v] \in {"idle", "exit"}
        BY <2>1, <1>3
    <2>. QED  BY <1>2, <2>2, <2>4, <2>5, <2>6, OnlyFlags DEF queues
<1>5. CASE ~Bounded
    <2>1. /\ jobs' = [jobs EXCEPT ![j] = NoJob]
          /\ wpc' = [wpc EXCEPT ![w] = "idle"] /\ wjob' = [wjob EXCEPT ![w] = None]
        BY <1>1, <1>5 DEF Fulfil
    <2>2. OnePlace' /\ InUse' /\ SharedJobsAreAlive'
        BY <1>1, <1>2, <1>5, <2>1, DoneJob DEF Places
    <2>3. NoJob \in Jobs
        BY DEF NoJob, Jobs
    <2>4. QueueTypes' /\ WorkerTypes'
        BY <1>2, <2>1, <2>3 DEF Places, QueueTypes, WorkerTypes
    <2>. QED  BY <2>2, <2>4, PlacesNext
<1>. QED  BY <1>4, <1>5

LEMMA ReleaseKeeps ==
    ASSUME Places, NEW w \in AllWorkers, Release(w)
    PROVE  Places'
<1>1. PICK j \in Slots : j = wjob[w] /\ j # None
    BY BusyJob DEF Release
<1>2. /\ jobs' = [jobs EXCEPT ![j] = NoJob] /\ inflight' = [inflight EXCEPT ![jobs[j].key] = None]
      /\ wpc' = [wpc EXCEPT ![w] = "idle"] /\ wjob' = [wjob EXCEPT ![w] = None]
      /\ mode' = mode /\ readQ' = readQ /\ writeQ' = writeQ
    BY <1>1 DEF Release, Job
<1>3. OnePlace' /\ InUse' /\ SharedJobsAreAlive'
    BY <1>1, <1>2, DoneJob DEF Places
<1>4. NoJob \in Jobs
    BY DEF NoJob, Jobs
<1>5. QueueTypes' /\ WorkerTypes'
    BY <1>2, <1>4 DEF Places, QueueTypes, WorkerTypes
<1>. QED  BY <1>3, <1>5, PlacesNext

LEMMA StepsKeepPlaces ==
    ASSUME Places, NEW w \in AllWorkers, Start(w) \/ CachePut(w) \/ Exit(w)
    PROVE  Places'
<1>1. PICK s \in {"run", "cached", "exit"} :
          wpc' = [wpc EXCEPT ![w] = s] /\ (wpc[w] \in {"idle", "exit"} <=> s = "exit")
    BY DEF Start, CachePut, Exit, Drained
<1>2. mode' = mode /\ UNCHANGED queues /\ jobs' = jobs /\ wjob' = wjob
    BY DEF Start, CachePut, Exit
<1>3. wpc' \in [AllWorkers -> {"idle", "got", "run", "cached", "release", "exit"}]
    BY <1>1 DEF Places, WorkerTypes
<1>4. \A v \in AllWorkers : wpc'[v] \in {"idle", "exit"} <=> wpc[v] \in {"idle", "exit"}
    BY <1>1 DEF Places, WorkerTypes
<1>. QED  BY <1>2, <1>3, <1>4, OnlyFlags DEF Places, QueueTypes

LEMMA PlacesKept ==
    ASSUME Places, CallTypes, Calling, [Next]_vars
    PROVE  Places'
<1>1. CASE UNCHANGED vars
    BY <1>1, SamePlaces DEF vars
<1>2. ASSUME NEW c \in Callers, NEW k \in Keys, NEW q \in Kinds, CallMiss(c, k, q)
      PROVE  Places'
    BY <1>2, SamePlaces DEF CallMiss
<1>3. ASSUME NEW c \in Callers, NEW k \in Keys, CallHit(c, k)
      PROVE  Places'
    BY <1>3, SamePlaces DEF CallHit
<1>4. ASSUME NEW c \in Callers, CallStep(c)
      PROVE  Places'
    BY <1>4, QueryJoinKeeps, WriteJoinKeeps, SubmitsKeep, SamePlaces
       DEF CallStep, QueryFull, WarmSkip, WriteRefused
<1>5. ASSUME NEW c \in Callers, GiveUp(c)
      PROVE  Places'
    BY <1>5, WaitersLeave
<1>6. ASSUME NEW j \in Slots, Expire(j)
      PROVE  Places'
    BY <1>6, ExpireKeeps
<1>7. ASSUME NEW w \in AllWorkers, WorkerStep(w)
      PROVE  Places'
    <2>1. CASE Take(w)
        BY <1>7, <2>1, TakeKeeps DEF WorkerStep
    <2>2. CASE Skip(w) \/ TransformFails(w) \/ SetValue(w)
        BY <2>2, FulfilKeeps DEF Skip, TransformFails, SetValue
    <2>3. CASE Start(w) \/ CachePut(w) \/ Exit(w)
        BY <2>3, StepsKeepPlaces
    <2>4. CASE Release(w)
        BY <2>4, ReleaseKeeps
    <2>. QED  BY <1>7, <2>1, <2>2, <2>3, <2>4 DEF WorkerStep
<1>8. CASE Stop
    BY <1>8, SamePlaces DEF Stop
<1>. QED  BY <1>1, <1>2, <1>3, <1>4, <1>5, <1>6, <1>7, <1>8 DEF Next

-------------------------------------------------------------------------------
(* The cache.                                                              *)

\* The list has a node the map points to for every key, and in bounded mode
\* exactly those.
Live(keys, list) == \A k \in keys : Owns(k) \in Elements(list)
Exact(keys, list) == NoRepeats(list) /\ Elements(list) = {Owns(k) : k \in keys}

LEMMA OwnsFacts ==
    /\ \A k \in Keys : Owns(k) \in Nodes /\ Owns(k).key = k
    /\ \A k, l \in Keys : Owns(k) = Owns(l) => k = l
<1>1. \A k \in Keys : Owns(k) \in Nodes /\ Owns(k).key = k
    BY DEF Owns, Nodes
<1>. QED  BY <1>1

LEMMA ExactNodes ==
    ASSUME NEW keys \in SUBSET Keys, NEW list \in Seq(Nodes), Exact(keys, list),
           NEW n \in 1 .. Len(list)
    PROVE  \E k \in keys : list[n] = Owns(k) /\ list[n].key = k
<1>1. list[n] \in {Owns(k) : k \in keys}
    BY ElementOf DEF Exact
<1>. QED  BY <1>1, OwnsFacts

LEMMA ExactLength ==
    ASSUME NEW keys \in SUBSET Keys, IsFiniteSet(keys), NEW list \in Seq(Nodes), Exact(keys, list)
    PROVE  Len(list) = Cardinality(keys)
<1> DEFINE f == [k \in keys |-> Owns(k)]
<1>1. f \in Bijection(keys, Elements(list))
    <2>1. f \in [keys -> Elements(list)]
        BY DEF Exact
    <2>2. \A k, l \in keys : f[k] = f[l] => k = l
        BY OwnsFacts
    <2>3. \A x \in Elements(list) : \E k \in keys : f[k] = x
        BY DEF Exact
    <2>. HIDE DEF f
    <2>. QED  BY <2>1, <2>2, <2>3, Fun_IsBij
<1>2. Cardinality(Elements(list)) = Cardinality(keys)
    BY <1>1, FS_Bijection DEF ExistsBijection
<1>. QED  BY <1>2, CountElements DEF Exact

LEMMA DisownFacts ==
    ASSUME NEW list \in Seq(Nodes), NEW k \in Keys
    PROVE  /\ Disown(list, k) \in Seq(Nodes) /\ Len(Disown(list, k)) = Len(list)
           /\ \A n \in 1 .. Len(list) : list[n].key # k => Disown(list, k)[n] = list[n]
           /\ \A n \in 1 .. Len(list) : Disown(list, k)[n].key = list[n].key
<1> DEFINE r == Disown(list, k)
<1>1. r = [n \in 1 .. Len(list) |-> IF list[n].key = k THEN [list[n] EXCEPT !.own = FALSE] ELSE list[n]]
    BY DEF Disown
<1>2. Len(list) \in Nat /\ \A n \in 1 .. Len(list) : list[n] \in Nodes
    OBVIOUS
<1>3. \A x \in Nodes : [x EXCEPT !.own = FALSE] \in Nodes /\ [x EXCEPT !.own = FALSE].key = x.key
    BY DEF Nodes
<1>4. \A n \in 1 .. Len(list) : /\ r[n] \in Nodes /\ r[n].key = list[n].key
                                /\ list[n].key # k => r[n] = list[n]
    BY <1>1, <1>2, <1>3
<1>5. r \in Seq(Nodes) /\ Len(r) = Len(list)
    BY <1>1, <1>2, <1>4
<1>. QED  BY <1>4, <1>5

LEMMA DropLastFacts ==
    ASSUME NEW list \in Seq(Nodes), list # <<>>
    PROVE  /\ DropLast(list) \in Seq(Nodes) /\ Len(DropLast(list)) = Len(list) - 1
           /\ \A n \in 1 .. Len(list) - 1 : DropLast(list)[n] = list[n]
<1>1. Len(list) \in Nat /\ Len(list) >= 1
    OBVIOUS
<1>2. PICK m \in Nat : m = Len(list) - 1
    BY <1>1
<1>3. /\ SubSeq(list, 1, m) \in Seq(Nodes) /\ Len(SubSeq(list, 1, m)) = m
      /\ \A n \in 1 .. m : SubSeq(list, 1, m)[n] = list[n]
    BY <1>1, <1>2
<1>. QED  BY <1>2, <1>3 DEF DropLast

\* An eviction drops the entry of the last node's key and no other, and leaves no
\* entry without its node, wherever the node of that key is.
LEMMA EvictFacts ==
    ASSUME NEW keys \in SUBSET Keys, IsFiniteSet(keys), NEW list \in Seq(Nodes), list # <<>>,
           Live(keys, list),
           NEW e, e = Evict(keys, list)
    PROVE  /\ e.keys \in SUBSET keys /\ e.list \in Seq(Nodes) /\ Live(e.keys, e.list)
           /\ Exact(keys, list) => Exact(e.keys, e.list) /\ Cardinality(e.keys) = Cardinality(keys) - 1
<1> DEFINE victim == list[Len(list)].key
           d == Disown(list, victim)
           r == DropLast(d)
<1>1. e.keys = keys \ {victim} /\ e.list = r
    BY DEF Evict
<1>2. Len(list) \in Nat /\ Len(list) >= 1 /\ Len(list) \in 1 .. Len(list)
      /\ \A n \in 1 .. Len(list) : list[n] \in Nodes
    OBVIOUS
<1>3. victim \in Keys
    BY <1>2 DEF Nodes
<1>. HIDE DEF victim
<1>4. /\ d \in Seq(Nodes) /\ Len(d) = Len(list)
      /\ \A n \in 1 .. Len(list) : list[n].key # victim => d[n] = list[n]
    BY <1>3, DisownFacts
<1>. HIDE DEF d
<1>5. r \in Seq(Nodes) /\ Len(r) = Len(list) - 1 /\ \A n \in 1 .. Len(list) - 1 : r[n] = d[n]
    <2>1. d # <<>>
        BY <1>2, <1>4
    <2>. QED  BY <1>4, <2>1, DropLastFacts
<1>. HIDE DEF r
<1>6. \A n \in 1 .. Len(list) : list[n].key # victim => n \in 1 .. Len(r) /\ r[n] = list[n]
    <2> SUFFICES ASSUME NEW n \in 1 .. Len(list), list[n].key # victim
                 PROVE  n \in 1 .. Len(r) /\ r[n] = list[n]
        OBVIOUS
    <2>1. n # Len(list)
        BY DEF victim
    <2>2. n \in 1 .. Len(list) - 1
        BY <1>2, <2>1
    <2>. QED  BY <2>2, <1>4, <1>5
<1>7. Live(e.keys, e.list)
    <2> SUFFICES ASSUME NEW k \in keys, k # victim
                 PROVE  Owns(k) \in Elements(r)
        BY <1>1 DEF Live
    <2>1. PICK n \in 1 .. Len(list) : list[n] = Owns(k)
        BY PositionOf DEF Live
    <2>2. list[n].key # victim
        BY <2>1, OwnsFacts
    <2>. QED  BY <2>1, <2>2, <1>6, PositionOf
<1>8. ASSUME Exact(keys, list)
      PROVE  Exact(e.keys, e.list) /\ Cardinality(e.keys) = Cardinality(keys) - 1
    <2>1. \A n \in 1 .. Len(list) : \E k \in keys : list[n] = Owns(k) /\ list[n].key = k
        BY <1>8, ExactNodes
    <2>2. victim \in keys /\ list[Len(list)] = Owns(victim)
        BY <2>1, <1>2 DEF victim
    <2>3. \A n \in 1 .. Len(r) : n \in 1 .. Len(list) /\ n # Len(list)
        BY <1>2, <1>5
    <2>4. \A n \in 1 .. Len(r) : list[n].key # victim
        <3> SUFFICES ASSUME NEW n \in 1 .. Len(r), list[n].key = victim
                     PROVE  FALSE
            OBVIOUS
        <3>1. list[n] = list[Len(list)]
            BY <2>1, <2>2, <2>3
        <3>. QED  BY <1>8, <1>2, <2>3, <3>1 DEF Exact, NoRepeats
    <2>5. \A n \in 1 .. Len(r) : r[n] = list[n]
        BY <1>6, <2>3, <2>4
    <2>6. NoRepeats(r)
        BY <1>8, <2>3, <2>5 DEF Exact, NoRepeats
    <2>7. Elements(r) \subseteq {Owns(k) : k \in keys \ {victim}}
        BY <2>1, <2>3, <2>4, <2>5 DEF Elements
    <2>8. Exact(e.keys, e.list)
        BY <1>1, <1>7, <2>6, <2>7 DEF Exact, Live
    <2>. QED  BY <1>1, <2>2, <2>8, FS_RemoveElement
<1>. QED  BY <1>1, <1>5, <1>7, <1>8

LEMMA CachePutKeeps ==
    ASSUME CacheTypes, CachePointersLive, NoDuplicates, Places,
           NEW w \in AllWorkers, CachePut(w)
    PROVE  CacheTypes' /\ CachePointersLive' /\ NoDuplicates'
<1> DEFINE k == Job(w).key
           known == Bounded /\ k \in cached
           keys == IF known THEN cached \ {k} ELSE cached
           list == IF known THEN Without(lru, Owns(k)) ELSE lru
           room == IF Cardinality(keys) >= CacheSize THEN Evict(keys, list)
                                                     ELSE [keys |-> keys, list |-> list]
<1>1. k \in Keys
    BY BusyJob DEF CachePut, Job
<1>2. cached' = room.keys \cup {k} /\ lru' = <<Owns(k)>> \o Disown(room.list, k) /\ mode' = mode
    BY DEF CachePut
<1>3. /\ cached \in SUBSET Keys /\ IsFiniteSet(cached) /\ lru \in Seq(Nodes) /\ Live(cached, lru)
      /\ Bounded => Exact(cached, lru) /\ Len(lru) = Cardinality(cached) /\ Len(lru) <= CacheSize
      /\ CacheSize \in Nat /\ CacheSize >= 1
    BY EmbedAssumption DEF CacheTypes, CachePointersLive, NoDuplicates, Live, Exact
<1>. HIDE DEF k
<1>4. /\ keys \in SUBSET Keys /\ IsFiniteSet(keys) /\ list \in Seq(Nodes) /\ Live(keys, list)
      /\ Bounded => Exact(keys, list) /\ k \notin keys /\ Cardinality(keys) <= CacheSize
    <2>1. CASE known
        <3>1. /\ list \in Seq(Nodes) /\ NoRepeats(list)
              /\ Elements(list) = Elements(lru) \ {Owns(k)}
            <4>1. /\ Without(lru, Owns(k)) \in Seq(Nodes)
                  /\ Elements(lru) \ {Owns(k)} \subseteq Elements(Without(lru, Owns(k)))
                  /\ Elements(Without(lru, Owns(k))) \subseteq Elements(lru)
                  /\ NoRepeats(Without(lru, Owns(k))) /\ Owns(k) \notin Elements(Without(lru, Owns(k)))
                BY <1>3, <2>1, TakeOut DEF Exact
            <4>. QED  BY <2>1, <4>1
        <3>2. keys = cached \ {k} /\ IsFiniteSet(keys) /\ Cardinality(keys) = Cardinality(cached) - 1
              /\ Cardinality(cached) \in Nat
            BY <1>3, <2>1, FS_RemoveElement, FS_CardinalityType
        <3>3. Elements(list) = {Owns(l) : l \in keys}
            BY <1>1, <1>3, <2>1, <3>1, <3>2, OwnsFacts DEF Exact
        <3>4. Exact(keys, list) /\ Live(keys, list)
            BY <3>1, <3>3 DEF Exact, Live
        <3>. QED  BY <1>3, <2>1, <3>1, <3>2, <3>4
    <2>2. CASE ~known
        BY <1>3, <2>2
    <2>. QED  BY <2>1, <2>2
<1>. HIDE DEF keys, list
<1>5. /\ room.keys \in SUBSET keys /\ room.list \in Seq(Nodes) /\ Live(room.keys, room.list)
      /\ Bounded => Exact(room.keys, room.list) /\ Cardinality(room.keys) < CacheSize
    <2>0. Cardinality(keys) \in Nat
        BY <1>4, FS_CardinalityType
    <2>1. CASE Cardinality(keys) >= CacheSize
        <3>1. list # <<>>
            <4>1. keys # {}
                <5>1. Cardinality(keys) # 0
                    BY <1>3, <2>0, <2>1
                <5>. QED  BY <5>1, FS_EmptySet
            <4>2. PICK l \in keys : Owns(l) \in Elements(list)
                BY <1>4, <4>1 DEF Live
            <4>. QED  BY <4>2, EmptyList
        <3>2. PICK e : e = Evict(keys, list)
            OBVIOUS
        <3>3. /\ e.keys \in SUBSET keys /\ e.list \in Seq(Nodes) /\ Live(e.keys, e.list)
              /\ Exact(keys, list) => Exact(e.keys, e.list) /\ Cardinality(e.keys) = Cardinality(keys) - 1
            BY <1>4, <3>1, <3>2, EvictFacts
        <3>4. room = e
            BY <2>1, <3>2
        <3>5. Bounded => Cardinality(e.keys) < CacheSize
            BY <1>3, <1>4, <2>0, <3>3
        <3>. HIDE DEF room
        <3>. QED  BY <1>4, <3>3, <3>4, <3>5
    <2>2. CASE ~(Cardinality(keys) >= CacheSize)
        BY <1>3, <1>4, <2>0, <2>2
    <2>. QED  BY <2>1, <2>2
<1>. HIDE DEF room
<1>6. PICK d : d = Disown(room.list, k)
    OBVIOUS
<1>7. /\ d \in Seq(Nodes) /\ Len(d) = Len(room.list)
      /\ \A n \in 1 .. Len(d) : room.list[n].key # k => d[n] = room.list[n]
    BY <1>1, <1>5, <1>6, DisownFacts
<1>8. \A l \in room.keys : l # k => Owns(l) \in Elements(d)
    <2> SUFFICES ASSUME NEW l \in room.keys, l # k PROVE Owns(l) \in Elements(d)
        OBVIOUS
    <2>1. PICK n \in 1 .. Len(room.list) : room.list[n] = Owns(l)
        BY <1>5, PositionOf DEF Live
    <2>2. room.list[n].key = l
        BY <1>4, <1>5, <2>1, OwnsFacts
    <2>. QED  BY <1>7, <2>1, <2>2, PositionOf
<1>9. lru' \in Seq(Nodes) /\ Elements(lru') = {Owns(k)} \cup Elements(d)
      /\ (NoRepeats(d) /\ Owns(k) \notin Elements(d) => NoRepeats(lru'))
    BY <1>1, <1>2, <1>6, <1>7, OwnsFacts, PutInFront
<1>10. cached' \in SUBSET Keys /\ IsFiniteSet(cached')
    <2>1. IsFiniteSet(room.keys)
        BY <1>4, <1>5, FS_Subset
    <2>. QED  BY <1>1, <1>2, <1>4, <1>5, <2>1, FS_AddElement
<1>11. CacheTypes'
    BY <1>9, <1>10 DEF CacheTypes
<1>12. \A l \in cached' : Owns(l) \in Elements(lru')
    BY <1>2, <1>8, <1>9
<1>13. CASE Bounded
    <2>1. Exact(room.keys, room.list) /\ k \notin room.keys /\ Cardinality(room.keys) < CacheSize
        BY <1>4, <1>5, <1>13
    <2>2. \A n \in 1 .. Len(room.list) : room.list[n].key # k
        BY <1>4, <1>5, <2>1, ExactNodes
    <2>3. \A n \in 1 .. Len(d) : d[n] = room.list[n]
        BY <1>7, <2>2
    <2>4. Elements(d) = Elements(room.list) /\ NoRepeats(d)
        BY <1>7, <2>1, <2>3 DEF Exact, Elements, NoRepeats
    <2>5. Owns(k) \notin Elements(d)
        BY <1>1, <1>4, <1>5, <2>1, <2>4, OwnsFacts DEF Exact
    <2>6. Exact(cached', lru')
        BY <1>2, <1>9, <2>1, <2>4, <2>5 DEF Exact
    <2>7. Len(lru') = Cardinality(cached')
        BY <1>9, <1>10, <2>6, ExactLength
    <2>8. Cardinality(cached') = Cardinality(room.keys) + 1 /\ Cardinality(room.keys) \in Nat
        BY <1>2, <1>4, <1>5, <2>1, FS_Subset, FS_AddElement, FS_CardinalityType
    <2>9. Len(lru') <= CacheSize
        BY <1>3, <2>1, <2>7, <2>8
    <2>. QED  BY <1>11, <1>12, <2>6, <2>7, <2>9 DEF CachePointersLive, NoDuplicates, Exact
<1>14. CASE ~Bounded
    <2>1. ~Bounded'
        BY <1>2, <1>14 DEF Bounded
    <2>. QED  BY <1>11, <1>12, <2>1 DEF CachePointersLive, NoDuplicates
<1>. QED  BY <1>13, <1>14

LEMMA CallHitKeeps ==
    ASSUME CacheTypes, CachePointersLive, NoDuplicates,
           NEW c \in Callers, NEW k \in Keys, CallHit(c, k)
    PROVE  CacheTypes' /\ CachePointersLive' /\ NoDuplicates'
<1>1. k \in cached /\ cached' = cached /\ lru' = <<Owns(k)>> \o Without(lru, Owns(k)) /\ mode' = mode
    BY DEF CallHit
<1>2. PICK list : list = Without(lru, Owns(k))
    OBVIOUS
<1>3. lru \in Seq(Nodes) /\ Owns(k) \in Nodes /\ Owns(k) \in Elements(lru)
    BY <1>1, OwnsFacts DEF CacheTypes, CachePointersLive
<1>4. /\ list \in Seq(Nodes) /\ Len(list) = Len(lru) - 1
      /\ Elements(lru) \ {Owns(k)} \subseteq Elements(list) /\ Elements(list) \subseteq Elements(lru)
      /\ NoRepeats(lru) => NoRepeats(list) /\ Owns(k) \notin Elements(list)
    BY <1>2, <1>3, TakeOut
<1>5. /\ lru' \in Seq(Nodes) /\ Len(lru') = Len(lru)
      /\ Elements(lru') = {Owns(k)} \cup Elements(list)
      /\ NoRepeats(lru) => NoRepeats(lru')
    <2>1. Len(lru) \in Nat
        BY <1>3
    <2>. QED  BY <1>1, <1>2, <1>3, <1>4, <2>1, PutInFront
<1>6. Elements(lru') = Elements(lru)
    BY <1>3, <1>4, <1>5
<1>. QED  BY <1>1, <1>5, <1>6 DEF CacheTypes, CachePointersLive, NoDuplicates, Bounded

LEMMA SameCache ==
    ASSUME CacheTypes, CachePointersLive, NoDuplicates, UNCHANGED <<mode, cache>>
    PROVE  CacheTypes' /\ CachePointersLive' /\ NoDuplicates'
BY DEF CacheTypes, CachePointersLive, NoDuplicates, Bounded, cache

LEMMA CacheKept ==
    ASSUME CacheTypes, CachePointersLive, NoDuplicates, Places, [Next]_vars
    PROVE  CacheTypes' /\ CachePointersLive' /\ NoDuplicates'
<1>1. CASE UNCHANGED vars
    BY <1>1, SameCache DEF vars
<1>2. ASSUME NEW c \in Callers, NEW k \in Keys, CallHit(c, k)
      PROVE  CacheTypes' /\ CachePointersLive' /\ NoDuplicates'
    BY <1>2, CallHitKeeps
<1>3. ASSUME NEW c \in Callers, NEW k \in Keys, NEW q \in Kinds, CallMiss(c, k, q)
      PROVE  UNCHANGED <<mode, cache>>
    BY <1>3 DEF CallMiss
<1>4. ASSUME NEW c \in Callers, CallStep(c) \/ GiveUp(c)
      PROVE  UNCHANGED <<mode, cache>>
    BY <1>4 DEF CallStep, QueryJoin, QuerySubmit, QueryFull, WarmSubmit, WarmSkip, WriteJoin,
                WriteSubmit, WriteRefused, GiveUp
<1>5. ASSUME NEW j \in Slots, Expire(j)
      PROVE  UNCHANGED <<mode, cache>>
    BY <1>5 DEF Expire
<1>6. ASSUME NEW w \in AllWorkers, WorkerStep(w), ~CachePut(w)
      PROVE  UNCHANGED <<mode, cache>>
    BY <1>6 DEF WorkerStep, Take, Skip, Start, TransformFails, SetValue, Release, Exit, Fulfil
<1>7. ASSUME NEW w \in AllWorkers, CachePut(w)
      PROVE  CacheTypes' /\ CachePointersLive' /\ NoDuplicates'
    BY <1>7, CachePutKeeps
<1>8. CASE Stop
    BY <1>8, SameCache DEF Stop
<1>. QED  BY <1>1, <1>2, <1>3, <1>4, <1>5, <1>6, <1>7, <1>8, SameCache DEF Next

-------------------------------------------------------------------------------
(* The theorems.                                                           *)

LEMMA InitHolds == Init => IInv
<1> SUFFICES ASSUME Init PROVE IInv
    OBVIOUS
<1>1. /\ Elements(<<>>) = {} /\ NoRepeats(<<>>)
      /\ <<>> \in Seq(Slots) /\ <<>> \in Seq(Nodes) /\ Len(<<>>) = 0
    BY EmptyList
<1>2. Types
    <2>1. NoJob \in Jobs
        BY DEF NoJob, Jobs
    <2>. QED  BY <1>1, <2>1, EmbedAssumption, FS_EmptySet
              DEF Init, Types, CallTypes, QueueTypes, WorkerTypes, CacheTypes
<1>3. Queued = {} /\ Held = {}
    BY <1>1 DEF Init, Queued, Held
<1>4. JobInv
    BY <1>1, <1>3 DEF Init, JobInv, Calling, OnePlace, InUse, SharedJobsAreAlive
<1>5. CacheInv
    BY <1>1, EmbedAssumption, FS_EmptySet DEF Init, CacheInv, CachePointersLive, NoDuplicates
<1>. QED  BY <1>2, <1>4, <1>5 DEF IInv

\* Every step keeps the invariant.
LEMMA StepHolds ==
    ASSUME IInv, [Next]_vars
    PROVE  IInv'
<1>1. Places /\ CallTypes /\ Calling /\ CacheTypes /\ CachePointersLive /\ NoDuplicates
    BY DEF IInv, Types, JobInv, CacheInv, Places
<1>2. CallTypes' /\ Calling'
    BY <1>1, CallersKept
<1>3. Places'
    BY <1>1, PlacesKept
<1>4. CacheTypes' /\ CachePointersLive' /\ NoDuplicates'
    BY <1>1, CacheKept
<1>. QED  BY <1>2, <1>3, <1>4 DEF IInv, Types, JobInv, CacheInv, Places

\* The invariant holds of every reachable state (the whole of EmbedQueue).
THEOREM Inductive == Spec => []IInv
<1>1. IInv /\ [Next]_vars => IInv'
    BY StepHolds
<1>. QED  BY InitHolds, <1>1, PTL DEF Spec

\* Every variable has its type; in particular the queues never exceed the caps that
\* embed_queue.hpp tests before it pushes.
THEOREM TypeCorrect == Spec => []Types
<1>1. IInv => Types
    BY DEF IInv
<1>. QED  BY Inductive, <1>1, PTL

\* A caller that shares a future by the in-flight table shares that of a job for its
\* text that is queued or held, and in bounded mode every such job has its entry
\* (EmbedQueue::query, write, enqueue_write and run).
THEOREM SharedAreAlive == Spec => []SharedJobsAreAlive
<1>1. IInv => SharedJobsAreAlive
    BY DEF IInv, JobInv
<1>. QED  BY Inductive, <1>1, PTL

\* The iterators of the cache map point to nodes of the list, and in bounded mode the
\* list has no other nodes and the cache keeps to its size (cache_get and cache_put).
THEOREM PointersAreLive == Spec => []CachePointersLive
<1>1. IInv => CachePointersLive
    BY DEF IInv, CacheInv
<1>. QED  BY Inductive, <1>1, PTL
===============================================================================
