------------------------- MODULE QueueProcessorProofs -------------------------
(***************************************************************************)
(* The safety properties of QueueProcessor for any items, any checkpoint   *)
(* interval and attempt limit, and any number of restarts and outages.     *)
(***************************************************************************)
EXTENDS QueueProcessor, FiniteSetTheorems, SequenceTheorems, TLAPS

-------------------------------------------------------------------------------
(* The inductive invariant.                                                *)

Working == {"probe", "distill"}
HandStates == {"handSync", "handFlush"}
AckStates == {"ackSync", "ackWrite"}
Hot == Working \cup HandStates \cup AckStates

\* Where a lane has a line in hand.
InHand(l) ==
    /\ pc[l] \in Hot => MoreLines(l)
    /\ pc[l] \in HandStates => l = "fast" /\ Cur(l) \in Acked \cap Distills
    /\ pc[l] \in AckStates => Cur(l) \in Acked

\* What an acknowledgement rests on: before its sync, after it and for good.
Ground(l) == IF l = "fast" THEN Distills \cup superseded ELSE Unstored

AckGround(l) ==
    /\ pc[l] = "ackSync" => Cur(l) \in Ground(l) \cup Range(log)
    /\ pc[l] = "ackWrite" => Cur(l) \in Ground(l) \cup Durable
    /\ acks[l] \subseteq Ground(l) \cup Durable

AckLane(l) == InHand(l) /\ AckGround(l)

\* The attempt under way is on disk before it can crash ...
AttemptOnDisk ==
    pc["slow"] \in Working =>
        \A i \in Distills : i = Cur("slow") => crashedIn[i] < attempts[i]

\* ... and every earlier one ended in a restart, an outage or a failure.
AttemptsHaveCause ==
    \A i \in Distills \ Bad :
        attempts[i] <= restarts + down +
            (IF pc["slow"] \in Working /\ i = Cur("slow") THEN 1 ELSE 0)

CountInv == CrashesAreCounted /\ AttemptOnDisk /\ AttemptsHaveCause /\ PoisonedForCause

-------------------------------------------------------------------------------
(* The loss of items.                                                      *)

\* What a lane has dealt with (for the fast lane that includes what the slow lane
\* holds), what recovery would re-queue, and what the lane answers for in all.
Settled == Durable \cup failed \cup GivenUp \cup superseded
Left(l) == IF claimed[l] THEN {processing[l][k] : k \in Remaining(l)} ELSE {}
Safe(l) == IF l = "slow" THEN Settled ELSE Settled \cup Range(queue["slow"]) \cup Left("slow")
Held(l) == Safe(l) \cup Range(queue[l]) \cup Left(l)

\* Where a lane works on a batch, and where it has settled all it has gone through.
Fresh == {"idle", "claimed"}
Synced == {"ckptWrite", "stopCkpt", "rmProc"}
Flushing == {"ckptFlush", "endFlush"}
Batch == {"item", "ckptSync", "endSync", "probe", "distill", "defer"} \cup HandStates
           \cup AckStates \cup Synced \cup Flushing

\* A watermark belongs to the .processing file beside it.
Watermark(l) ==
    /\ pc[l] \in Batch \cup {"claimed", "paused", "reProc"} => claimed[l]
    /\ pc[l] \in {"idle", "rmCkpt", "reCkpt"} => ~claimed[l]
    /\ pc[l] \in Fresh => ckpt[l] = 0
    /\ ~claimed[l] /\ ckpt[l] > 0 => pc[l] \in {"rmCkpt", "reCkpt"}
    /\ claimed[l] => ckpt[l] <= Len(processing[l])

\* What watermark and ack ledger make recovery skip is safe.
Skipped(l) ==
    /\ claimed[l] => \A k \in 1 .. ckpt[l] : processing[l][k] \in Safe(l)
    /\ acks[l] \subseteq Safe(l)

\* The lines gone through, by how far the lane has got with making them durable.
SoFar(l) == {lines[l][k] : k \in 1 .. idx[l]}

Unsynced(l) ==
    IF pc[l] = "ckptSync" \/ (l = "fast" /\ pc[l] \notin Synced \cup Flushing)
    THEN Range(log) ELSE {}

Buffered(l) == IF l = "fast" /\ pc[l] \notin Synced THEN Range(pending) ELSE {}

GoneThrough(l) ==
    pc[l] \in Batch =>
        /\ lines[l] = processing[l] /\ idx[l] <= Len(lines[l])
        /\ SoFar(l) \subseteq Safe(l) \cup Unsynced(l) \cup Buffered(l)

\* The line in hand.
HandSafe(l) ==
    /\ pc[l] \in HandStates => l = "fast" /\ Cur(l) \in Range(pending)
    /\ pc[l] = "ackSync" => Cur(l) \in Safe(l) \cup Range(log)
    /\ pc[l] = "ackWrite" => Cur(l) \in Safe(l)

\* A file is removed when its lines are safe or queued again.
RemovalSafe(l) ==
    /\ pc[l] = "rmProc" => Range(lines[l]) \subseteq Safe(l) \cup Range(queue[l])
    /\ pc[l] = "reProc" => Left(l) \subseteq Range(queue[l])

LaneInv(l) == Watermark(l) /\ Skipped(l) /\ GoneThrough(l) /\ HandSafe(l) /\ RemovalSafe(l)

\* A hook that holds .processing open holds a file that exists.
HooksFollow == (\E i \in Items : hook[i] = "proc") => claimed["fast"]

Kept == accepted \subseteq Held("fast")

LossInv == breach = {} => Kept /\ \A l \in Lanes : LaneInv(l)

-------------------------------------------------------------------------------
(* Where an acknowledged write can still be.                               *)

SlowDistills ==
    Range(queue["slow"]) \cup Range(processing["slow"]) \cup Range(lines["slow"]) \cup Range(pending)
      \subseteq Distills

\* A line the hook has not written is nowhere yet.
Unsent ==
    \A i \in Items : hook[i] # "sent" =>
        i \notin Range(queue["fast"]) \cup Range(processing["fast"]) \cup (everAcked \ Distills)

\* The lines at work are in .processing, and in the queue no more.
OnePlace ==
    /\ pc["fast"] \in Batch => Range(lines["fast"]) \subseteq Range(processing["fast"])
    /\ pc["fast"] \in Batch \cup {"claimed"} => Range(queue["fast"]) \cap Range(processing["fast"]) = {}

\* The ledger is never rotated past an id that could come back.
NeverAgain ==
    \A i \in everAcked \ Distills :
        i \notin Range(queue["fast"]) /\ (i \in Range(processing["fast"]) => i \in acks["fast"])

OnceInv == SlowDistills /\ Unsent /\ OnePlace /\ NeverAgain

IInv ==
    TypeOK /\ (\A l \in Lanes : AckLane(l)) /\ CountInv /\ OnceInv /\ HooksFollow /\ LossInv

USE ItemsAssumption

-------------------------------------------------------------------------------
(* What recovery re-queues.                                                *)

Rank(K, k) == Cardinality({x \in K : x <= k})

\* Every element of a finite set of numbers has a rank, no two the same, and
\* every rank is some element's.
LEMMA Ranks ==
    ASSUME NEW a \in Nat, NEW b \in Nat, NEW K \in SUBSET (a .. b)
    PROVE  /\ Cardinality(K) \in Nat
           /\ \A k \in K : Rank(K, k) \in 1 .. Cardinality(K) /\ Nth(K, Rank(K, k)) = k
           /\ \A m \in 1 .. Cardinality(K) : Nth(K, m) \in K
  <1> DEFINE Upto(k) == {x \in K : x <= k}
             n == Cardinality(K)
  <1>a. IsFiniteSet(a .. b) /\ \A k \in K : k \in Nat
    BY FS_Interval
  <1>1. IsFiniteSet(K) /\ n \in Nat
    BY <1>a, FS_Subset, FS_CardinalityType
  <1>2. \A k \in K : IsFiniteSet(Upto(k)) /\ Rank(K, k) \in Nat /\ Rank(K, k) \in 1 .. n
    <2> TAKE k \in K
    <2>1. Upto(k) \in SUBSET K /\ k \in Upto(k)
      OBVIOUS
    <2>2. IsFiniteSet(Upto(k)) /\ Cardinality(Upto(k)) <= n
      BY <1>1, <2>1, FS_Subset
    <2>3. Cardinality(Upto(k)) \in Nat
      BY <2>2, FS_CardinalityType
    <2>4. Cardinality(Upto(k)) # 0
      BY <2>1, <2>2, FS_EmptySet
    <2> QED
      BY <1>1, <2>2, <2>3, <2>4 DEF Rank
  <1>3. ASSUME NEW j \in K, NEW k \in K, j < k PROVE Rank(K, j) < Rank(K, k)
    <2>0. j \in Nat /\ k \in Nat /\ \A x \in K : x <= j => x <= k
      BY <1>a, <1>3
    <2>1. Upto(j) \subseteq Upto(k) /\ k \in Upto(k) /\ k \notin Upto(j)
      <3>1. Upto(j) \subseteq Upto(k)
        BY <2>0
      <3>2. k \in Upto(k)
        BY <2>0
      <3>3. ~(k <= j)
        BY <1>3, <2>0
      <3> QED
        BY <3>1, <3>2, <3>3
    <2>2. Cardinality(Upto(j)) <= Cardinality(Upto(k))
      BY <1>2, <2>1, FS_Subset
    <2>3. Cardinality(Upto(j)) # Cardinality(Upto(k))
      BY <1>2, <2>1, FS_Subset
    <2>4. Rank(K, j) \in Nat /\ Rank(K, k) \in Nat
      BY <1>2
    <2> QED
      BY <2>2, <2>3, <2>4 DEF Rank
  <1>4. \A j, k \in K : Rank(K, j) = Rank(K, k) => j = k
    <2> SUFFICES ASSUME NEW j \in K, NEW k \in K, Rank(K, j) = Rank(K, k), j # k PROVE FALSE
      OBVIOUS
    <2>1. j < k \/ k < j
      BY <1>a
    <2>2. Rank(K, j) \in Nat /\ Rank(K, k) \in Nat
      BY <1>2
    <2> QED
      BY <1>3, <2>1, <2>2
  <1> HIDE DEF Upto
  <1> DEFINE r == [k \in K |-> Rank(K, k)]
  <1>5. r \in Injection(K, 1 .. n)
    <2>1. r \in [K -> 1 .. n]
      BY <1>2
    <2>2. \A j, k \in K : r[j] = r[k] => j = k
      BY <1>4
    <2> HIDE DEF r
    <2> QED
      BY <2>1, <2>2 DEF Injection, IsInjective
  <1>6. IsFiniteSet(1 .. n) /\ Cardinality(1 .. n) = n
    BY <1>1, FS_Interval
  <1>7. r \in Surjection(K, 1 .. n)
    <2> HIDE DEF r
    <2> QED
      BY <1>5, <1>6, FS_Injection
  <1>8. \A m \in 1 .. n : \E k \in K : Rank(K, k) = m
    BY <1>7 DEF Surjection
  <1>9. \A m \in 1 .. n : Nth(K, m) \in K /\ Rank(K, Nth(K, m)) = m
    BY <1>8 DEF Nth, Rank
  <1>10. \A k \in K : Nth(K, Rank(K, k)) = k
    BY <1>2, <1>4, <1>9
  <1> QED
    BY <1>1, <1>2, <1>9, <1>10

\* Recovery re-queues exactly the lines that remain.
LEMMA UnprocessedRange ==
    ASSUME NEW l \in Lanes, processing[l] \in Seq(Items), ckpt[l] \in Nat
    PROVE  /\ Unprocessed(l) \in Seq(Items)
           /\ Range(Unprocessed(l)) = {processing[l][k] : k \in Remaining(l)}
  <1> DEFINE K == Remaining(l)
             n == Cardinality(K)
  <1>1. Len(processing[l]) \in Nat /\ K \in SUBSET ((ckpt[l] + 1) .. Len(processing[l]))
    BY DEF Remaining
  <1>2. /\ n \in Nat
        /\ \A k \in K : Rank(K, k) \in 1 .. n /\ Nth(K, Rank(K, k)) = k
        /\ \A m \in 1 .. n : Nth(K, m) \in K
    <2> DEFINE b == Len(processing[l])
               a == ckpt[l] + 1
    <2>1. a \in Nat /\ b \in Nat /\ K \in SUBSET (a .. b)
      BY <1>1
    <2> HIDE DEF a, b, K
    <2> QED
      BY <2>1, Ranks
  <1>3. \A k \in K : k \in 1 .. Len(processing[l]) /\ processing[l][k] \in Items
    BY <1>1
  <1>4. Unprocessed(l) = [m \in 1 .. n |-> processing[l][Nth(K, m)]]
    BY DEF Unprocessed
  <1> HIDE DEF K, n
  <1>5. Unprocessed(l) \in Seq(Items)
    BY <1>2, <1>3, <1>4
  <1>6. Range(Unprocessed(l)) = {processing[l][k] : k \in K}
    BY <1>2, <1>4 DEF Range
  <1> QED
    BY <1>5, <1>6 DEF K

-------------------------------------------------------------------------------
(* Types.                                                                  *)

USE DEF fileVars, storeVars, laneVars, histVars, Goto

\* The lanes by name.
LEMMA TwoLanes == "fast" \in Lanes /\ "slow" \in Lanes
  BY DEF Lanes

\* The steps that only one lane has.
FastOnly ==
    \/ \E i \in Items : Coalesce(i) \/ Apply(i) \/ DeadLetter(i) \/ Reroute(i)
    \/ FlushSlow \/ FlushFails \/ FastBatchEnd

SlowOnly ==
    \/ \E i \in Distills : BumpAttempt(i) \/ PoisonPill(i) \/ Distill(i) \/ DistillFails(i)
    \/ EndpointUp \/ EndpointDown \/ Defer \/ SlowBatchEnd

FileTypes ==
    /\ queue \in [Lanes -> Seq(Items)]
    /\ processing \in [Lanes -> Seq(Items)]
    /\ claimed \in [Lanes -> BOOLEAN]
    /\ ckpt \in [Lanes -> Nat]
    /\ acks \in [Lanes -> SUBSET Acked]
    /\ failed \subseteq Items
    /\ attempts \in [Distills -> Nat]

StoreTypes == log \in Seq(Items) /\ synced \in 0 .. Len(log)

LaneTypes ==
    /\ running \in BOOLEAN
    /\ pc \in [Lanes -> States]
    /\ lines \in [Lanes -> Seq(Items)]
    /\ idx \in [Lanes -> Nat]
    /\ pending \in Seq(Items)

RestTypes ==
    /\ hook \in [Items -> {"new", "queue", "proc", "gone", "sent"}]
    /\ restarts \in 0 .. MaxRestarts
    /\ down \in 0 .. MaxDown
    /\ accepted \subseteq Items
    /\ superseded \subseteq Saves
    /\ dropped \subseteq Distills
    /\ fruitless \subseteq Distills
    /\ unwritten \subseteq Items
    /\ crashedIn \in [Distills -> Nat]
    /\ poisoned \subseteq Distills
    /\ everAcked \subseteq Acked
    /\ breach \subseteq {"stale", "race", "sync", "twin"}

\* Batches of lines, claimed, read and removed.
LEMMA TypeFiles ==
    ASSUME FileTypes, StoreTypes, LaneTypes, RestTypes, NEW l \in Lanes,
           Claim(l) \/ ReadLines(l) \/ RemoveProcessing(l) \/ RemoveCkpt(l) \/ WriteCkpt(l)
    PROVE  TypeOK'
  <1>1. CASE Claim(l)
    <2>1. FileTypes'
      BY TwoLanes, <1>1 DEF Claim, FileTypes
    <2>2. LaneTypes'
      BY TwoLanes, <1>1 DEF Claim, States, LaneTypes
    <2>3. RestTypes'
      BY TwoLanes, <1>1 DEF Claim, Follow, RestTypes
    <2>4. StoreTypes'
      BY <1>1 DEF Claim, StoreTypes
    <2> QED
      BY <2>1, <2>2, <2>3, <2>4 DEF TypeOK, FileTypes, StoreTypes, LaneTypes, RestTypes
  <1>2. CASE ReadLines(l)
    <2>0. processing[l] \in Seq(Items) /\ (acks[l] \cap Range(processing[l])) \in SUBSET Acked
      BY DEF FileTypes
    <2>1. FileTypes'
      <3>1. CASE processing[l] = <<>>
        BY <1>2, <3>1 DEF ReadLines, FileTypes
      <3>2. CASE processing[l] # <<>>
        <4>1. acks' \in [Lanes -> SUBSET Acked]
          BY <1>2, <2>0, <3>2 DEF ReadLines, FileTypes
        <4> QED
          BY <1>2, <3>2, <4>1 DEF ReadLines, FileTypes
      <3> QED
        BY <3>1, <3>2
    <2>2. LaneTypes'
      <3>1. CASE processing[l] = <<>>
        BY <1>2, <3>1 DEF ReadLines, LaneTypes, States
      <3>2. CASE processing[l] # <<>>
        <4>1. pc' = [pc EXCEPT ![l] = "item"] /\ lines' = [lines EXCEPT ![l] = processing[l]]
          BY <1>2, <3>2 DEF ReadLines
        <4>2. pc' \in [Lanes -> States]
          BY <4>1 DEF LaneTypes, States
        <4>3. lines' \in [Lanes -> Seq(Items)]
          BY <2>0, <4>1 DEF LaneTypes
        <4> QED
          BY <1>2, <3>2, <4>2, <4>3 DEF ReadLines, LaneTypes
      <3> QED
        BY <3>1, <3>2
    <2>3. RestTypes'
      BY TwoLanes, <1>2 DEF ReadLines, Follow, RestTypes
    <2>4. StoreTypes'
      BY <1>2 DEF ReadLines, StoreTypes
    <2> QED
      BY <2>1, <2>2, <2>3, <2>4 DEF TypeOK, FileTypes, StoreTypes, LaneTypes, RestTypes
  <1>3. CASE RemoveProcessing(l)
    <2>1. FileTypes'
      BY TwoLanes, <1>3 DEF RemoveProcessing, FileTypes
    <2>2. LaneTypes'
      BY TwoLanes, <1>3 DEF RemoveProcessing, States, LaneTypes
    <2>3. RestTypes'
      BY TwoLanes, <1>3 DEF RemoveProcessing, Follow, RestTypes
    <2>4. StoreTypes'
      BY <1>3 DEF RemoveProcessing, StoreTypes
    <2> QED
      BY <2>1, <2>2, <2>3, <2>4 DEF TypeOK, FileTypes, StoreTypes, LaneTypes, RestTypes
  <1>4. CASE RemoveCkpt(l)
    <2>1. FileTypes'
      BY TwoLanes, <1>4 DEF RemoveCkpt, FileTypes
    <2>2. LaneTypes'
      BY TwoLanes, <1>4 DEF RemoveCkpt, States, LaneTypes
    <2>3. StoreTypes' /\ RestTypes'
      BY <1>4 DEF RemoveCkpt, StoreTypes, RestTypes
    <2> QED
      BY <2>1, <2>2, <2>3 DEF TypeOK, FileTypes, StoreTypes, LaneTypes, RestTypes
  <1>5. CASE WriteCkpt(l)
    <2>1. FileTypes'
      BY TwoLanes, <1>5 DEF WriteCkpt, LaneTypes, FileTypes
    <2>2. LaneTypes'
      BY TwoLanes, <1>5 DEF WriteCkpt, States, LaneTypes
    <2>3. StoreTypes' /\ RestTypes'
      BY <1>5 DEF WriteCkpt, StoreTypes, RestTypes
    <2> QED
      BY <2>1, <2>2, <2>3 DEF TypeOK, FileTypes, StoreTypes, LaneTypes, RestTypes
  <1> QED
    BY <1>1, <1>2, <1>3, <1>4, <1>5

\* The end of an item.
LEMMA DoneTypes ==
    ASSUME LaneTypes, NEW l \in Lanes, NEW n \in Nat, Done(l, n)
    PROVE  pc' \in [Lanes -> States] /\ idx' \in [Lanes -> Nat]
  <1>1. pc' = [pc EXCEPT ![l] = "ckptSync"] \/ pc' = [pc EXCEPT ![l] = "item"]
    BY DEF Done
  <1> QED
    BY <1>1 DEF Done, LaneTypes, States

\* Acknowledgements, and the syncs before them.
LEMMA TypeSync ==
    ASSUME FileTypes, StoreTypes, LaneTypes, RestTypes, NEW l \in Lanes, InHand(l),
           SyncStore(l) \/ SyncFails(l) \/ RecordAck(l) \/ SkipAcked(l) \/ LaneStops(l) \/ Recover(l)
    PROVE  TypeOK'
  <1>0. Unprocessed(l) \in Seq(Items)
    BY UnprocessedRange DEF FileTypes
  <1>1. CASE SyncStore(l)
    <2>1. StoreTypes'
      BY TwoLanes, <1>1 DEF SyncStore, StoreTypes
    <2>2. LaneTypes'
      BY TwoLanes, <1>1 DEF SyncStore, AfterSync, States, LaneTypes
    <2>3. FileTypes' /\ RestTypes'
      BY <1>1 DEF SyncStore, FileTypes, RestTypes
    <2> QED
      BY <2>1, <2>2, <2>3 DEF TypeOK, FileTypes, StoreTypes, LaneTypes, RestTypes
  <1>2. CASE SyncFails(l)
    <2>1. LaneTypes'
      BY TwoLanes, <1>2 DEF SyncFails, OnSyncFailure, AfterSync, States, LaneTypes
    <2>2. RestTypes'
      BY TwoLanes, <1>2 DEF SyncFails, RestTypes
    <2>3. FileTypes' /\ StoreTypes'
      BY <1>2 DEF SyncFails, FileTypes, StoreTypes
    <2> QED
      BY <2>1, <2>2, <2>3 DEF TypeOK, FileTypes, StoreTypes, LaneTypes, RestTypes
  <1>3. CASE RecordAck(l)
    <2>1. FileTypes'
      BY TwoLanes, <1>3 DEF RecordAck, InHand, AckStates, FileTypes
    <2>2. LaneTypes'
      <3>1. CASE l = "fast" /\ Superseded(idx[l] + 1)
        <4>1. pc' \in [Lanes -> States]
          <5>1. pc' = [pc EXCEPT ![l] = "item"]
            BY <1>3, <3>1 DEF RecordAck
          <5>2. "item" \in States
            BY DEF States
          <5> QED
            BY <5>1, <5>2 DEF LaneTypes
        <4>2. idx' \in [Lanes -> Nat]
          BY <1>3, <3>1 DEF RecordAck, LaneTypes
        <4> QED
          BY <1>3, <4>1, <4>2 DEF RecordAck, LaneTypes
      <3>2. CASE ~(l = "fast" /\ Superseded(idx[l] + 1))
        <4>1. idx[l] + 1 \in Nat /\ Done(l, idx[l] + 1)
          BY <1>3, <3>2 DEF RecordAck, LaneTypes
        <4> QED
          BY <1>3, <4>1, DoneTypes DEF RecordAck, LaneTypes
      <3> QED
        BY <3>1, <3>2
    <2>3. RestTypes'
      BY TwoLanes, <1>3 DEF RecordAck, InHand, AckStates, RestTypes
    <2>4. StoreTypes'
      BY <1>3 DEF RecordAck, StoreTypes
    <2> QED
      BY <2>1, <2>2, <2>3, <2>4 DEF TypeOK, FileTypes, StoreTypes, LaneTypes, RestTypes
  <1>4. CASE SkipAcked(l)
    <2>1. LaneTypes'
      BY TwoLanes, <1>4 DEF SkipAcked, LaneTypes
    <2>2. FileTypes' /\ StoreTypes' /\ RestTypes'
      BY <1>4 DEF SkipAcked, FileTypes, StoreTypes, RestTypes
    <2> QED
      BY <2>1, <2>2 DEF TypeOK, FileTypes, StoreTypes, LaneTypes, RestTypes
  <1>5. CASE LaneStops(l)
    <2>1. LaneTypes'
      BY TwoLanes, <1>5 DEF LaneStops, States, LaneTypes
    <2>2. FileTypes' /\ StoreTypes' /\ RestTypes'
      BY <1>5 DEF LaneStops, FileTypes, StoreTypes, RestTypes
    <2> QED
      BY <2>1, <2>2 DEF TypeOK, FileTypes, StoreTypes, LaneTypes, RestTypes
  <1>6. CASE Recover(l)
    <2>1. FileTypes'
      <3>1. queue' = queue \/ queue' = [queue EXCEPT ![l] = queue[l] \o Unprocessed(l)]
        BY <1>6 DEF Recover
      <3>2. queue[l] \o Unprocessed(l) \in Seq(Items)
        BY <1>0 DEF FileTypes
      <3>3. queue' \in [Lanes -> Seq(Items)]
        BY <3>1, <3>2 DEF FileTypes
      <3> QED
        BY <1>6, <3>3 DEF Recover, FileTypes
    <2>2. LaneTypes'
      BY TwoLanes, <1>6 DEF Recover, States, LaneTypes
    <2>3. StoreTypes' /\ RestTypes'
      BY <1>6 DEF Recover, StoreTypes, RestTypes
    <2> QED
      BY <2>1, <2>2, <2>3 DEF TypeOK, FileTypes, StoreTypes, LaneTypes, RestTypes
  <1> QED
    BY <1>1, <1>2, <1>3, <1>4, <1>5, <1>6

\* The fast lane.
LEMMA TypeFast ==
    ASSUME FileTypes, StoreTypes, LaneTypes, RestTypes,
           FastOnly
    PROVE  TypeOK'
  <1>1. ASSUME NEW i \in Items, Coalesce(i) PROVE TypeOK'
    <2>1. LaneTypes'
      <3>1. CASE NeedsAck(i)
        BY TwoLanes, <1>1, <3>1 DEF Coalesce, States, LaneTypes
      <3>2. CASE ~NeedsAck(i)
        <4>1. idx' \in [Lanes -> Nat]
          BY <1>1, <3>2 DEF Coalesce, LaneTypes
        <4> QED
          BY <1>1, <3>2, <4>1 DEF Coalesce, LaneTypes
      <3> QED
        BY <3>1, <3>2
    <2>2. RestTypes'
      <3>1. superseded' \subseteq Saves
        BY TwoLanes, <1>1 DEF Coalesce, FastItem, Superseded, Cur, RestTypes
      <3>2. breach' \subseteq breach \cup {"twin"}
        BY <1>1 DEF Coalesce
      <3> QED
        BY <1>1, <3>1, <3>2 DEF Coalesce, RestTypes
    <2>3. FileTypes' /\ StoreTypes'
      BY <1>1 DEF Coalesce, FileTypes, StoreTypes
    <2> QED
      BY <2>1, <2>2, <2>3 DEF TypeOK, FileTypes, StoreTypes, LaneTypes, RestTypes
  <1>2. ASSUME NEW i \in Items, Apply(i) PROVE TypeOK'
    <2>1. StoreTypes'
      BY TwoLanes, <1>2 DEF Apply, Stored, StoreTypes
    <2>2. LaneTypes'
      <3>1. CASE NeedsAck(i)
        BY TwoLanes, <1>2, <3>1 DEF Apply, States, LaneTypes
      <3>2. CASE ~NeedsAck(i)
        <4>1. idx["fast"] + 1 \in Nat /\ Done("fast", idx["fast"] + 1)
          BY TwoLanes, <1>2, <3>2 DEF Apply, LaneTypes
        <4> QED
          BY TwoLanes, <1>2, <4>1, DoneTypes DEF Apply, LaneTypes
      <3> QED
        BY <3>1, <3>2
    <2>3. FileTypes' /\ RestTypes'
      BY <1>2 DEF Apply, FileTypes, RestTypes
    <2> QED
      BY <2>1, <2>2, <2>3 DEF TypeOK, FileTypes, StoreTypes, LaneTypes, RestTypes
  <1>3. ASSUME NEW i \in Items, DeadLetter(i) PROVE TypeOK'
    <2>1. FileTypes'
      BY TwoLanes, <1>3 DEF DeadLetter, WriteFailedItem, FileTypes
    <2>2. LaneTypes'
      BY TwoLanes, <1>3 DEF DeadLetter, Done, States, LaneTypes
    <2>3. StoreTypes' /\ RestTypes'
      BY <1>3 DEF DeadLetter, WriteFailedItem, StoreTypes, RestTypes
    <2> QED
      BY <2>1, <2>2, <2>3 DEF TypeOK, FileTypes, StoreTypes, LaneTypes, RestTypes
  <1>4. ASSUME NEW i \in Items, Reroute(i) PROVE TypeOK'
    <2>1. LaneTypes'
      <3>1. CASE NeedsAck(i)
        <4>1. pc' \in [Lanes -> States]
          BY <1>4, <3>1 DEF Reroute, LaneTypes, States
        <4> QED
          BY <1>4, <3>1, <4>1 DEF Reroute, LaneTypes
      <3>2. CASE ~NeedsAck(i)
        <4>1. idx["fast"] + 1 \in Nat /\ Done("fast", idx["fast"] + 1)
          BY TwoLanes, <1>4, <3>2 DEF Reroute, LaneTypes
        <4> QED
          BY TwoLanes, <1>4, <4>1, DoneTypes DEF Reroute, LaneTypes
      <3> QED
        BY <3>1, <3>2
    <2>2. FileTypes' /\ StoreTypes' /\ RestTypes'
      BY <1>4 DEF Reroute, FileTypes, StoreTypes, RestTypes
    <2> QED
      BY <2>1, <2>2 DEF TypeOK, FileTypes, StoreTypes, LaneTypes, RestTypes
  <1>5. CASE FlushSlow
    <2>1. FileTypes'
      BY TwoLanes, <1>5, SMTT(30) DEF FlushSlow, LaneTypes, FileTypes
    <2>2. LaneTypes'
      BY TwoLanes, <1>5 DEF FlushSlow, BatchDone, States, LaneTypes
    <2>3. StoreTypes' /\ RestTypes'
      BY <1>5 DEF FlushSlow, StoreTypes, RestTypes
    <2> QED
      BY <2>1, <2>2, <2>3 DEF TypeOK, FileTypes, StoreTypes, LaneTypes, RestTypes
  <1>6. CASE FlushFails
    <2>1. LaneTypes'
      BY TwoLanes, <1>6 DEF FlushFails, States, LaneTypes
    <2>2. FileTypes' /\ StoreTypes' /\ RestTypes'
      BY <1>6 DEF FlushFails, FileTypes, StoreTypes, RestTypes
    <2> QED
      BY <2>1, <2>2 DEF TypeOK, FileTypes, StoreTypes, LaneTypes, RestTypes
  <1>7. CASE FastBatchEnd
    <2>1. LaneTypes'
      BY TwoLanes, <1>7 DEF FastBatchEnd, States, LaneTypes
    <2>2. FileTypes' /\ StoreTypes' /\ RestTypes'
      BY <1>7 DEF FastBatchEnd, FileTypes, StoreTypes, RestTypes
    <2> QED
      BY <2>1, <2>2 DEF TypeOK, FileTypes, StoreTypes, LaneTypes, RestTypes
  <1> QED
    BY <1>1, <1>2, <1>3, <1>4, <1>5, <1>6, <1>7 DEF FastOnly

\* The slow lane.
LEMMA TypeSlow ==
    ASSUME FileTypes, StoreTypes, LaneTypes, RestTypes,
           SlowOnly
    PROVE  TypeOK'
  <1>0. \A i \in Distills : i \in Items
    BY DEF Items
  <1>1. ASSUME NEW i \in Distills, BumpAttempt(i) PROVE TypeOK'
    <2>1. FileTypes'
      BY TwoLanes, <1>1 DEF BumpAttempt, Bumped, FileTypes
    <2>2. LaneTypes'
      BY TwoLanes, <1>1 DEF BumpAttempt, States, LaneTypes
    <2>3. StoreTypes' /\ RestTypes'
      BY <1>1 DEF BumpAttempt, StoreTypes, RestTypes
    <2> QED
      BY <2>1, <2>2, <2>3 DEF TypeOK, FileTypes, StoreTypes, LaneTypes, RestTypes
  <1>2. ASSUME NEW i \in Distills, PoisonPill(i) PROVE TypeOK'
    <2>1. FileTypes'
      BY TwoLanes, <1>2, <1>0 DEF PoisonPill, WriteFailedItem, Cleared, FileTypes
    <2>2. LaneTypes'
      BY TwoLanes, <1>2 DEF PoisonPill, Done, States, LaneTypes
    <2>3. RestTypes'
      <3>1. unwritten' \in {unwritten, unwritten \cup {i}} /\ i \in Items
        BY <1>2 DEF PoisonPill, WriteFailedItem, Items
      <3>2. UNCHANGED <<hook, restarts, down, accepted, superseded, dropped, fruitless, everAcked, breach>>
        BY <1>2 DEF PoisonPill
      <3>3. crashedIn' \in [Distills -> Nat] /\ poisoned' \subseteq Distills
        BY <1>2 DEF PoisonPill, RestTypes
      <3> QED
        BY <3>1, <3>2, <3>3 DEF RestTypes
    <2>4. StoreTypes'
      BY <1>2 DEF PoisonPill, StoreTypes
    <2> QED
      BY <2>1, <2>2, <2>3, <2>4 DEF TypeOK, FileTypes, StoreTypes, LaneTypes, RestTypes
  <1>3. ASSUME NEW i \in Distills, Distill(i) PROVE TypeOK'
    <2>1. FileTypes'
      BY TwoLanes, <1>3 DEF Distill, Cleared, FileTypes
    <2>2. StoreTypes'
      BY TwoLanes, <1>3, <1>0, SMTT(30) DEF Distill, DistillOutcome, Stored, StoreTypes
    <2>3. LaneTypes'
      <3>1. CASE NeedsAck(i)
        BY TwoLanes, <1>3, <3>1 DEF Distill, States, LaneTypes
      <3>2. CASE ~NeedsAck(i)
        <4>1. idx["slow"] + 1 \in Nat /\ Done("slow", idx["slow"] + 1)
          BY TwoLanes, <1>3, <3>2 DEF Distill, LaneTypes
        <4> QED
          BY TwoLanes, <1>3, <4>1, DoneTypes DEF Distill, LaneTypes
      <3> QED
        BY <3>1, <3>2
    <2>4. RestTypes'
      BY TwoLanes, <1>3 DEF Distill, DistillOutcome, RestTypes
    <2> QED
      BY <2>1, <2>2, <2>3, <2>4 DEF TypeOK, FileTypes, StoreTypes, LaneTypes, RestTypes
  <1>4. ASSUME NEW i \in Distills, DistillFails(i) PROVE TypeOK'
    <2>1. FileTypes'
      BY TwoLanes, <1>4, <1>0 DEF DistillFails, WriteFailedItem, FileTypes
    <2>2. LaneTypes'
      BY TwoLanes, <1>4 DEF DistillFails, Done, States, LaneTypes
    <2>3. StoreTypes' /\ RestTypes'
      BY <1>4 DEF DistillFails, WriteFailedItem, StoreTypes, RestTypes
    <2> QED
      BY <2>1, <2>2, <2>3 DEF TypeOK, FileTypes, StoreTypes, LaneTypes, RestTypes
  <1>5. CASE EndpointUp
    <2>1. LaneTypes'
      BY TwoLanes, <1>5 DEF EndpointUp, States, LaneTypes
    <2>2. FileTypes' /\ StoreTypes' /\ RestTypes'
      BY <1>5 DEF EndpointUp, FileTypes, StoreTypes, RestTypes
    <2> QED
      BY <2>1, <2>2 DEF TypeOK, FileTypes, StoreTypes, LaneTypes, RestTypes
  <1>6. CASE EndpointDown
    <2>1. LaneTypes'
      BY TwoLanes, <1>6 DEF EndpointDown, States, LaneTypes
    <2>2. RestTypes'
      BY TwoLanes, <1>6 DEF EndpointDown, RestTypes
    <2>3. FileTypes' /\ StoreTypes'
      BY <1>6 DEF EndpointDown, FileTypes, StoreTypes
    <2> QED
      BY <2>1, <2>2, <2>3 DEF TypeOK, FileTypes, StoreTypes, LaneTypes, RestTypes
  <1>7. CASE Defer
    <2>1. FileTypes'
      <3>1. lines["slow"] \in Seq(Items) /\ idx["slow"] \in Nat /\ queue["slow"] \in Seq(Items)
        BY TwoLanes DEF LaneTypes, FileTypes
      <3>2. Remainder \in Seq(Items)
        BY <3>1 DEF Remainder
      <3>3. queue' \in [Lanes -> Seq(Items)]
        BY TwoLanes, <1>7, <3>1, <3>2 DEF Defer, FileTypes
      <3> QED
        BY <1>7, <3>3 DEF Defer, FileTypes
    <2>2. LaneTypes'
      BY TwoLanes, <1>7 DEF Defer, States, LaneTypes
    <2>3. StoreTypes' /\ RestTypes'
      BY <1>7 DEF Defer, StoreTypes, RestTypes
    <2> QED
      BY <2>1, <2>2, <2>3 DEF TypeOK, FileTypes, StoreTypes, LaneTypes, RestTypes
  <1>8. CASE SlowBatchEnd
    <2>1. LaneTypes'
      BY TwoLanes, <1>8 DEF SlowBatchEnd, States, LaneTypes
    <2>2. FileTypes' /\ StoreTypes' /\ RestTypes'
      BY <1>8 DEF SlowBatchEnd, FileTypes, StoreTypes, RestTypes
    <2> QED
      BY <2>1, <2>2 DEF TypeOK, FileTypes, StoreTypes, LaneTypes, RestTypes
  <1> QED
    BY <1>1, <1>2, <1>3, <1>4, <1>5, <1>6, <1>7, <1>8 DEF SlowOnly

\* Hooks and restarts.
LEMMA TypeOthers ==
    ASSUME FileTypes, StoreTypes, LaneTypes, RestTypes,
           (\E i \in Items : HookOpen(i) \/ HookWrite(i)) \/ Shutdown \/ Restart \/ Crash
    PROVE  TypeOK'
  <1>1. ASSUME NEW i \in Items, HookOpen(i) PROVE TypeOK'
    <2>1. RestTypes'
      BY TwoLanes, <1>1 DEF HookOpen, RestTypes
    <2>2. FileTypes' /\ StoreTypes' /\ LaneTypes'
      BY <1>1 DEF HookOpen, FileTypes, StoreTypes, LaneTypes
    <2> QED
      BY <2>1, <2>2 DEF TypeOK, FileTypes, StoreTypes, LaneTypes, RestTypes
  <1>2. ASSUME NEW i \in Items, HookWrite(i) PROVE TypeOK'
    <2>1. FileTypes'
      BY TwoLanes, <1>2 DEF HookWrite, FileTypes
    <2>2. RestTypes'
      <3>1. hook' \in [Items -> {"new", "queue", "proc", "gone", "sent"}]
        BY <1>2 DEF HookWrite, RestTypes
      <3>2. accepted' \subseteq Items
        BY <1>2 DEF HookWrite, RestTypes
      <3>3. breach' \subseteq breach \cup {"race"}
        BY <1>2 DEF HookWrite
      <3> QED
        BY <1>2, <3>1, <3>2, <3>3 DEF HookWrite, RestTypes
    <2>3. StoreTypes' /\ LaneTypes'
      BY <1>2 DEF HookWrite, StoreTypes, LaneTypes
    <2> QED
      BY <2>1, <2>2, <2>3 DEF TypeOK, FileTypes, StoreTypes, LaneTypes, RestTypes
  <1>3. CASE Shutdown
    <2>1. LaneTypes'
      BY TwoLanes, <1>3 DEF Shutdown, LaneTypes
    <2>2. RestTypes'
      BY TwoLanes, <1>3 DEF Shutdown, RestTypes
    <2>3. FileTypes' /\ StoreTypes'
      BY <1>3 DEF Shutdown, FileTypes, StoreTypes
    <2> QED
      BY <2>1, <2>2, <2>3 DEF TypeOK, FileTypes, StoreTypes, LaneTypes, RestTypes
  <1>4. CASE Restart
    <2>1. StoreTypes'
      BY TwoLanes, <1>4 DEF Restart, Reboot, StoreTypes
    <2>2. LaneTypes'
      BY TwoLanes, <1>4 DEF Restart, Reboot, States, LaneTypes
    <2>3. RestTypes'
      BY TwoLanes, <1>4 DEF Restart, Reboot, RestTypes
    <2>4. FileTypes'
      BY <1>4 DEF Restart, FileTypes
    <2> QED
      BY <2>1, <2>2, <2>3, <2>4 DEF TypeOK, FileTypes, StoreTypes, LaneTypes, RestTypes
  <1>5. CASE Crash
    <2>1. StoreTypes'
      BY TwoLanes, <1>5 DEF Crash, Reboot, StoreTypes
    <2>2. LaneTypes'
      BY TwoLanes, <1>5 DEF Crash, Reboot, States, LaneTypes
    <2>3. RestTypes'
      <3>1. crashedIn' \in [Distills -> Nat]
        BY <1>5 DEF Crash, RestTypes
      <3>2. restarts' \in 0 .. MaxRestarts
        BY <1>5 DEF Crash, RestTypes
      <3>3. breach' \subseteq breach \cup {"stale"}
        BY <1>5 DEF Crash, Reboot
      <3> QED
        BY <1>5, <3>1, <3>2, <3>3 DEF Crash, RestTypes
    <2>4. FileTypes'
      BY <1>5 DEF Crash, FileTypes
    <2> QED
      BY <2>1, <2>2, <2>3, <2>4 DEF TypeOK, FileTypes, StoreTypes, LaneTypes, RestTypes
  <1> QED
    BY <1>1, <1>2, <1>3, <1>4, <1>5

-------------------------------------------------------------------------------
(* What a step leaves alone.                                               *)

\* What is settled stays so.
Growth ==
    /\ Durable \subseteq Durable'
    /\ failed \subseteq failed' /\ superseded \subseteq superseded'
    /\ Unstored \subseteq Unstored' /\ GivenUp \subseteq GivenUp'
    /\ breach \subseteq breach'

LogGrows == Range(log) \subseteq Range(log')

\* The lane takes no step and nobody touches its files.
Stays(l) ==
    pc'[l] = pc[l] /\ lines'[l] = lines[l] /\ idx'[l] = idx[l] /\ acks'[l] = acks[l]

Untouched(l) ==
    Stays(l) /\ processing'[l] = processing[l] /\ claimed'[l] = claimed[l] /\ ckpt'[l] = ckpt[l]

QueueGrows(l) == Range(queue[l]) \subseteq Range(queue'[l])

\* What is in a file after an append.
LEMMA ConcatRange ==
    ASSUME NEW s \in Seq(Items), NEW t \in Seq(Items)
    PROVE  Range(s \o t) = Range(s) \cup Range(t)
  <1>1. /\ Len(s) \in Nat /\ Len(t) \in Nat /\ Len(s \o t) = Len(s) + Len(t)
        /\ DOMAIN s = 1 .. Len(s) /\ DOMAIN t = 1 .. Len(t)
        /\ DOMAIN (s \o t) = 1 .. Len(s) + Len(t)
        /\ \A k \in 1 .. Len(s) + Len(t) : (s \o t)[k] = IF k <= Len(s) THEN s[k] ELSE t[k - Len(s)]
    BY ConcatProperties
  <1>2. \A k \in DOMAIN s : k \in DOMAIN (s \o t) /\ (s \o t)[k] = s[k]
    BY <1>1
  <1>3. \A k \in DOMAIN t : Len(s) + k \in DOMAIN (s \o t) /\ (s \o t)[Len(s) + k] = t[k]
    BY <1>1
  <1>4. \A k \in DOMAIN (s \o t) :
          \/ k \in DOMAIN s /\ (s \o t)[k] = s[k]
          \/ k - Len(s) \in DOMAIN t /\ (s \o t)[k] = t[k - Len(s)]
    BY <1>1
  <1> DEFINE u == s \o t
  <1>5. /\ \A k \in DOMAIN s : k \in DOMAIN u /\ u[k] = s[k]
        /\ \A k \in DOMAIN t : \E j \in DOMAIN u : u[j] = t[k]
        /\ \A k \in DOMAIN u : (\E j \in DOMAIN s : u[k] = s[j]) \/ \E j \in DOMAIN t : u[k] = t[j]
    BY <1>2, <1>3, <1>4
  <1> HIDE DEF u
  <1>6. Range(u) = Range(s) \cup Range(t)
    BY <1>5 DEF Range
  <1> QED
    BY <1>6 DEF u

\* The same for one line.
LEMMA AppendRange ==
    ASSUME NEW s \in Seq(Items), NEW i \in Items
    PROVE  Range(Append(s, i)) = Range(s) \cup {i}
  <1>1. Append(s, i) = s \o <<i>> /\ <<i>> \in Seq(Items)
    OBVIOUS
  <1>2. Range(<<i>>) = {i}
    BY DEF Range
  <1> QED
    BY <1>1, <1>2, ConcatRange

\* An application adds its item to the store and takes nothing durable away.
LEMMA AppendGrows ==
    ASSUME StoreTypes, NEW i, log' = Append(log, i), synced' = synced
    PROVE  Durable \subseteq Durable' /\ Range(log) \subseteq Range(log') /\ i \in Range(log')
  <1>1. /\ Len(log) \in Nat /\ Len(log') = Len(log) + 1 /\ DOMAIN log' = 1 .. Len(log) + 1
        /\ \A k \in 1 .. Len(log) : log'[k] = log[k]
        /\ log'[Len(log) + 1] = i
        /\ DOMAIN log = 1 .. Len(log)
        /\ synced \in 0 .. Len(log)
    BY DEF StoreTypes
  <1>2. Range(log) \subseteq Range(log') /\ i \in Range(log')
    BY <1>1 DEF Range
  <1>3. Durable \subseteq Durable'
    BY <1>1 DEF Durable
  <1> QED
    BY <1>2, <1>3

\* A sync makes all of the store durable.
LEMMA SyncGrows ==
    ASSUME StoreTypes, log' = log, synced' = Len(log)
    PROVE  Durable \subseteq Durable' /\ Durable' = Range(log)
  <1>1. /\ Len(log) \in Nat /\ DOMAIN log = 1 .. Len(log) /\ synced \in 0 .. Len(log)
    BY DEF StoreTypes
  <1> QED
    BY <1>1 DEF Durable, Range

\* A crash keeps the synced prefix.
LEMMA RebootGrows ==
    ASSUME StoreTypes, NEW n \in synced .. Len(log), Reboot(n)
    PROVE  Durable \subseteq Durable'
  <1>1. /\ Len(log) \in Nat /\ synced \in Nat /\ n \in Nat /\ synced <= n /\ n <= Len(log)
    BY DEF StoreTypes
  <1>2. \A k \in 1 .. n : log'[k] = log[k]
    BY <1>1 DEF Reboot, StoreTypes
  <1> QED
    BY <1>1, <1>2 DEF Durable, Reboot

\* Steps both lanes have.
LEMMA LaneFrame ==
    ASSUME FileTypes, StoreTypes, LaneTypes, NEW l \in Lanes, LaneStep(l) \/ SyncFails(l)
    PROVE  /\ Growth /\ LogGrows /\ pending' = pending /\ failed' = failed
           /\ \A m \in Lanes \ {l} : Untouched(m) /\ queue'[m] = queue[m]
  <1> USE DEF FileTypes, LaneTypes, Growth, LogGrows, Untouched, Stays, Durable, Unstored, GivenUp
  <1>1. CASE Claim(l)
    BY <1>1 DEF Claim
  <1>2. CASE ReadLines(l)
    BY <1>2 DEF ReadLines
  <1>3. CASE RemoveProcessing(l)
    BY <1>3 DEF RemoveProcessing
  <1>4. CASE RemoveCkpt(l)
    BY <1>4 DEF RemoveCkpt
  <1>5. CASE WriteCkpt(l)
    BY <1>5 DEF WriteCkpt
  <1>6. CASE SyncStore(l)
    <2>1. Durable \subseteq Durable'
      BY <1>6, SyncGrows DEF SyncStore
    <2> QED
      BY <1>6, <2>1 DEF SyncStore
  <1>7. CASE RecordAck(l)
    BY <1>7 DEF RecordAck, Done
  <1>8. CASE SkipAcked(l)
    BY <1>8 DEF SkipAcked
  <1>9. CASE LaneStops(l)
    BY <1>9 DEF LaneStops
  <1>10. CASE Recover(l)
    BY <1>10 DEF Recover
  <1>11. CASE SyncFails(l)
    BY <1>11 DEF SyncFails
  <1> QED
    BY <1>1, <1>2, <1>3, <1>4, <1>5, <1>6, <1>7, <1>8, <1>9, <1>10, <1>11 DEF LaneStep

\* Steps of the fast lane alone.
LEMMA FastFrame ==
    ASSUME FileTypes, StoreTypes, LaneTypes, FastOnly
    PROVE  Growth /\ LogGrows /\ Untouched("slow") /\ QueueGrows("slow")
  <1> DEFINE Same == Growth /\ LogGrows /\ Untouched("slow") /\ QueueGrows("slow")
  <1> USE TwoLanes DEF FileTypes, LaneTypes, Growth, LogGrows, Untouched, Stays, Durable, QueueGrows, Unstored, GivenUp
  <1>1. ASSUME NEW i \in Items, Coalesce(i) PROVE Same
    BY <1>1 DEF Coalesce
  <1>2. ASSUME NEW i \in Items, Apply(i) PROVE Same
    <2>1. Durable \subseteq Durable' /\ LogGrows
      BY <1>2, AppendGrows DEF Apply, Stored
    <2> QED
      BY <1>2, <2>1 DEF Apply, Done
  <1>3. ASSUME NEW i \in Items, DeadLetter(i) PROVE Same
    BY <1>3 DEF DeadLetter, WriteFailedItem, Done
  <1>4. ASSUME NEW i \in Items, Reroute(i) PROVE Same
    BY <1>4 DEF Reroute, Done
  <1>5. CASE FlushSlow
    <2>1. queue["slow"] \in Seq(Items) /\ pending \in Seq(Items)
      OBVIOUS
    <2>2. queue'["slow"] = queue["slow"] \o pending
      BY <1>5 DEF FlushSlow
    <2>3. QueueGrows("slow")
      BY <2>1, <2>2, ConcatRange
    <2> QED
      BY <1>5, <2>3 DEF FlushSlow
  <1>6. CASE FlushFails
    BY <1>6 DEF FlushFails
  <1>7. CASE FastBatchEnd
    BY <1>7 DEF FastBatchEnd
  <1> QED
    BY <1>1, <1>2, <1>3, <1>4, <1>5, <1>6, <1>7 DEF FastOnly

\* Steps of the slow lane alone.
LEMMA SlowFrame ==
    ASSUME FileTypes, StoreTypes, LaneTypes, SlowOnly
    PROVE  Growth /\ LogGrows /\ Untouched("fast") /\ queue'["fast"] = queue["fast"] /\ pending' = pending
  <1> DEFINE Same == Growth /\ LogGrows /\ Untouched("fast")
                       /\ queue'["fast"] = queue["fast"] /\ pending' = pending
  <1> USE TwoLanes DEF FileTypes, LaneTypes, Growth, LogGrows, Untouched, Stays, Durable, Unstored, GivenUp
  <1>1. ASSUME NEW i \in Distills, BumpAttempt(i) PROVE Same
    BY <1>1 DEF BumpAttempt
  <1>2. ASSUME NEW i \in Distills, PoisonPill(i) PROVE Same
    BY <1>2 DEF PoisonPill, WriteFailedItem, Done
  <1>3. ASSUME NEW i \in Distills, Distill(i) PROVE Same
    <2>1. Durable \subseteq Durable' /\ LogGrows
      BY <1>3, AppendGrows DEF Distill, DistillOutcome, Stored
    <2>2. pc'["fast"] = pc["fast"] /\ idx'["fast"] = idx["fast"]
      <3>1. NeedsAck(i) => pc'["fast"] = pc["fast"] /\ idx' = idx
        BY <1>3 DEF Distill
      <3>2. ~NeedsAck(i) => pc'["fast"] = pc["fast"] /\ idx'["fast"] = idx["fast"]
        BY <1>3 DEF Distill, Done
      <3> QED
        BY <3>1, <3>2
    <2>3. /\ UNCHANGED <<queue, processing, claimed, ckpt, acks, failed, synced, lines, pending, superseded, breach>>
          /\ Unstored \subseteq Unstored' /\ GivenUp \subseteq GivenUp'
      BY <1>3 DEF Distill, DistillOutcome, Unstored, GivenUp
    <2> QED
      BY <2>1, <2>2, <2>3
  <1>4. ASSUME NEW i \in Distills, DistillFails(i) PROVE Same
    BY <1>4 DEF DistillFails, WriteFailedItem, Done
  <1>5. CASE EndpointUp
    BY <1>5 DEF EndpointUp
  <1>6. CASE EndpointDown
    BY <1>6 DEF EndpointDown
  <1>7. CASE Defer
    BY <1>7 DEF Defer
  <1>8. CASE SlowBatchEnd
    BY <1>8 DEF SlowBatchEnd
  <1> QED
    BY <1>1, <1>2, <1>3, <1>4, <1>5, <1>6, <1>7, <1>8 DEF SlowOnly

-------------------------------------------------------------------------------
(* Acknowledgements.                                                       *)

\* A lane that takes no step ...
LEMMA AckStays ==
    ASSUME NEW l \in Lanes, AckLane(l), Growth, LogGrows, Stays(l)
    PROVE  AckLane(l)'
  BY DEF AckLane, InHand, AckGround, Ground, Growth, LogGrows, Stays, MoreLines, Cur

\* ... or whose step puts no line in its hand and no id in its ledger.
LEMMA AckQuiet ==
    ASSUME NEW l \in Lanes, AckLane(l), Growth, pc'[l] \notin Hot, acks'[l] \subseteq acks[l]
    PROVE  AckLane(l)'
  BY DEF AckLane, InHand, AckGround, Ground, Growth, Hot, HandStates, AckStates

\* The steps both lanes have: record() is the only one that adds an id, after its sync.
LEMMA AckLaneStep ==
    ASSUME FileTypes, StoreTypes, LaneTypes, NEW l \in Lanes, AckLane(l), LaneStep(l) \/ SyncFails(l)
    PROVE  AckLane(l)'
  <1>0. Growth /\ LogGrows
    BY LaneFrame
  <1> DEFINE Quiet == pc'[l] \notin Hot /\ acks'[l] \subseteq acks[l]
  <1> USE DEF FileTypes, LaneTypes, Hot, Working, HandStates, AckStates
  <1>1. CASE Claim(l)
    <2>1. Quiet
      BY <1>1 DEF Claim
    <2> QED
      BY <1>0, <2>1, AckQuiet
  <1>2. CASE ReadLines(l)
    <2>1. Quiet
      <3>1. CASE processing[l] = <<>>
        BY <1>2, <3>1 DEF ReadLines
      <3>2. CASE processing[l] # <<>>
        BY <1>2, <3>2 DEF ReadLines
      <3> QED
        BY <3>1, <3>2
    <2> QED
      BY <1>0, <2>1, AckQuiet
  <1>3. CASE RemoveProcessing(l)
    <2>1. Quiet
      BY <1>3 DEF RemoveProcessing
    <2> QED
      BY <1>0, <2>1, AckQuiet
  <1>4. CASE RemoveCkpt(l)
    <2>1. Quiet
      BY <1>4 DEF RemoveCkpt
    <2> QED
      BY <1>0, <2>1, AckQuiet
  <1>5. CASE WriteCkpt(l)
    <2>1. Quiet
      BY <1>5 DEF WriteCkpt
    <2> QED
      BY <1>0, <2>1, AckQuiet
  <1>6. CASE SyncStore(l)
    <2>1. CASE pc[l] \in {"ckptSync", "endSync"}
      <3>1. Quiet
        BY <1>6, <2>1 DEF SyncStore, AfterSync
      <3> QED
        BY <1>0, <3>1, AckQuiet
    <2>2. CASE pc[l] \in {"handSync", "ackSync"}
      <3>1. /\ lines' = lines /\ idx' = idx /\ acks' = acks
            /\ superseded' = superseded /\ Unstored' = Unstored
            /\ pc[l] = "handSync" => pc'[l] = "handFlush"
            /\ pc[l] = "ackSync" => pc'[l] = "ackWrite"
        BY <1>6, <2>2 DEF SyncStore, AfterSync, Unstored
      <3>2. Durable' = Range(log)
        BY <1>6, SyncGrows DEF SyncStore
      <3> QED
        BY <1>0, <2>2, <3>1, <3>2 DEF AckLane, InHand, AckGround, Ground, Growth, MoreLines, Cur
    <2> QED
      BY <1>6, <2>1, <2>2 DEF SyncStore
  <1>7. CASE RecordAck(l)
    <2>1. pc[l] = "ackWrite" /\ pc'[l] \notin Hot /\ acks'[l] = acks[l] \cup {Cur(l)}
      BY <1>7 DEF RecordAck, Done
    <2> QED
      BY <1>0, <2>1 DEF AckLane, InHand, AckGround, Ground, Growth
  <1>8. CASE SkipAcked(l)
    <2>1. Quiet
      BY <1>8 DEF SkipAcked
    <2> QED
      BY <1>0, <2>1, AckQuiet
  <1>9. CASE LaneStops(l)
    <2>1. Quiet
      BY <1>9 DEF LaneStops
    <2> QED
      BY <1>0, <2>1, AckQuiet
  <1>10. CASE Recover(l)
    <2>1. Quiet
      BY <1>10 DEF Recover
    <2> QED
      BY <1>0, <2>1, AckQuiet
  <1>11. CASE SyncFails(l)
    <2>1. Quiet
      BY <1>11 DEF SyncFails, OnSyncFailure, AfterSync
    <2> QED
      BY <1>0, <2>1, AckQuiet
  <1> QED
    BY <1>1, <1>2, <1>3, <1>4, <1>5, <1>6, <1>7, <1>8, <1>9, <1>10, <1>11 DEF LaneStep

\* The fast lane acknowledges a superseded save, an applied item or a handed-over distill.
LEMMA AckFast ==
    ASSUME FileTypes, StoreTypes, LaneTypes, AckLane("fast"), FastOnly
    PROVE  AckLane("fast")'
  <1>0. Growth /\ LogGrows
    BY FastFrame
  <1> DEFINE Quiet == pc'["fast"] \notin Hot /\ acks'["fast"] \subseteq acks["fast"]
  <1> USE TwoLanes DEF FileTypes, LaneTypes, Hot, Working, HandStates, AckStates
  <1>q. ASSUME Quiet PROVE AckLane("fast")'
    BY <1>0, <1>q, AckQuiet
  <1>1. ASSUME NEW i \in Items, Coalesce(i) PROVE AckLane("fast")'
    <2>1. CASE NeedsAck(i)
      <3>1. /\ lines' = lines /\ idx' = idx /\ acks' = acks /\ pc'["fast"] = "ackSync"
            /\ i \in superseded' /\ i = Cur("fast") /\ MoreLines("fast") /\ i \in Acked
        BY <1>1, <2>1 DEF Coalesce, FastItem, NeedsAck
      <3> QED
        BY <1>0, <3>1 DEF AckLane, InHand, AckGround, Ground, Growth, MoreLines, Cur
    <2>2. CASE ~NeedsAck(i)
      BY <1>1, <1>q, <2>2 DEF Coalesce, FastItem
    <2> QED
      BY <2>1, <2>2
  <1>2. ASSUME NEW i \in Items, Apply(i) PROVE AckLane("fast")'
    <2>1. CASE NeedsAck(i)
      <3>1. /\ lines' = lines /\ idx' = idx /\ acks' = acks /\ pc'["fast"] = "ackSync"
            /\ i = Cur("fast") /\ MoreLines("fast") /\ i \in Acked
        BY <1>2, <2>1 DEF Apply, FastItem, NeedsAck
      <3>2. i \in Range(log')
        BY <1>2, AppendGrows DEF Apply, Stored
      <3> QED
        BY <1>0, <3>1, <3>2 DEF AckLane, InHand, AckGround, Ground, Growth, MoreLines, Cur
    <2>2. CASE ~NeedsAck(i)
      BY <1>2, <1>q, <2>2 DEF Apply, Done
    <2> QED
      BY <2>1, <2>2
  <1>3. ASSUME NEW i \in Items, DeadLetter(i) PROVE AckLane("fast")'
    BY <1>3, <1>q DEF DeadLetter, Done
  <1>4. ASSUME NEW i \in Items, Reroute(i) PROVE AckLane("fast")'
    <2>1. CASE NeedsAck(i)
      <3>1. /\ lines' = lines /\ idx' = idx /\ acks' = acks /\ pc'["fast"] = "handSync"
            /\ i = Cur("fast") /\ MoreLines("fast") /\ i \in Acked \cap Distills
        BY <1>4, <2>1 DEF Reroute, FastItem, NeedsAck
      <3> QED
        BY <1>0, <3>1 DEF AckLane, InHand, AckGround, Ground, Growth, MoreLines, Cur
    <2>2. CASE ~NeedsAck(i)
      BY <1>4, <1>q, <2>2 DEF Reroute, Done
    <2> QED
      BY <2>1, <2>2
  <1>5. CASE FlushSlow
    <2>1. CASE pc["fast"] = "handFlush"
      <3>1. /\ lines' = lines /\ idx' = idx /\ acks' = acks /\ pc'["fast"] = "ackSync"
        BY <1>5, <2>1 DEF FlushSlow
      <3> QED
        BY <1>0, <2>1, <3>1 DEF AckLane, InHand, AckGround, Ground, Growth, MoreLines, Cur
    <2>2. CASE pc["fast"] # "handFlush"
      BY <1>5, <1>q, <2>2 DEF FlushSlow, BatchDone
    <2> QED
      BY <2>1, <2>2
  <1>6. CASE FlushFails
    BY <1>6, <1>q DEF FlushFails
  <1>7. CASE FastBatchEnd
    BY <1>7, <1>q DEF FastBatchEnd
  <1> QED
    BY <1>1, <1>2, <1>3, <1>4, <1>5, <1>6, <1>7 DEF FastOnly

\* The slow lane acknowledges a distill that it has stored or found without a transcript.
LEMMA AckSlow ==
    ASSUME FileTypes, StoreTypes, LaneTypes, AckLane("slow"), SlowOnly
    PROVE  AckLane("slow")'
  <1>0. Growth /\ LogGrows
    BY SlowFrame
  <1> DEFINE Quiet == pc'["slow"] \notin Hot /\ acks'["slow"] \subseteq acks["slow"]
  <1> USE TwoLanes DEF FileTypes, LaneTypes, Hot, Working, HandStates, AckStates
  <1>q. ASSUME Quiet PROVE AckLane("slow")'
    BY <1>0, <1>q, AckQuiet
  <1>1. ASSUME NEW i \in Distills, BumpAttempt(i) PROVE AckLane("slow")'
    <2>1. /\ lines' = lines /\ idx' = idx /\ acks' = acks /\ pc'["slow"] = "probe" /\ MoreLines("slow")
      BY <1>1 DEF BumpAttempt, SlowItem
    <2> QED
      BY <1>0, <2>1 DEF AckLane, InHand, AckGround, Ground, Growth, MoreLines, Cur
  <1>2. ASSUME NEW i \in Distills, PoisonPill(i) PROVE AckLane("slow")'
    BY <1>2, <1>q DEF PoisonPill, Done
  <1>3. ASSUME NEW i \in Distills, Distill(i) PROVE AckLane("slow")'
    <2>1. CASE NeedsAck(i)
      <3>1. /\ lines' = lines /\ idx' = idx /\ acks' = acks /\ pc'["slow"] = "ackSync"
            /\ pc["slow"] = "distill" /\ i = Cur("slow") /\ i \in Acked
        BY <1>3, <2>1 DEF Distill, NeedsAck
      <3>2. i \in Range(log') \cup Unstored'
        BY <1>3, AppendGrows DEF Distill, DistillOutcome, Stored, Unstored
      <3> QED
        BY <1>0, <3>1, <3>2 DEF AckLane, InHand, AckGround, Ground, Growth, MoreLines, Cur
    <2>2. CASE ~NeedsAck(i)
      BY <1>3, <1>q, <2>2 DEF Distill, Done
    <2> QED
      BY <2>1, <2>2
  <1>4. ASSUME NEW i \in Distills, DistillFails(i) PROVE AckLane("slow")'
    BY <1>4, <1>q DEF DistillFails, Done
  <1>5. CASE EndpointUp
    <2>1. /\ lines' = lines /\ idx' = idx /\ acks' = acks /\ pc["slow"] = "probe" /\ pc'["slow"] = "distill"
      BY <1>5 DEF EndpointUp
    <2> QED
      BY <1>0, <2>1 DEF AckLane, InHand, AckGround, Ground, Growth, MoreLines, Cur
  <1>6. CASE EndpointDown
    BY <1>6, <1>q DEF EndpointDown
  <1>7. CASE Defer
    BY <1>7, <1>q DEF Defer
  <1>8. CASE SlowBatchEnd
    BY <1>8, <1>q DEF SlowBatchEnd
  <1> QED
    BY <1>1, <1>2, <1>3, <1>4, <1>5, <1>6, <1>7, <1>8 DEF SlowOnly

\* Steps of neither lane.
LEMMA OtherFrame ==
    ASSUME StoreTypes, NEW l \in Lanes,
           (\E i \in Items : HookOpen(i) \/ HookWrite(i)) \/ Shutdown
    PROVE  Growth /\ LogGrows /\ Stays(l)
  <1> USE DEF Growth, LogGrows, Stays, Durable, Unstored, GivenUp
  <1>1. CASE \E i \in Items : HookOpen(i)
    BY <1>1 DEF HookOpen
  <1>2. CASE \E i \in Items : HookWrite(i)
    BY <1>2 DEF HookWrite
  <1>3. CASE Shutdown
    BY <1>3 DEF Shutdown
  <1> QED
    BY <1>1, <1>2, <1>3

\* A restart keeps the files; a watermark without its file is a breach.
LEMMA RebootFrame ==
    ASSUME StoreTypes, NEW l \in Lanes, Restart \/ Crash
    PROVE  /\ Growth /\ pc'[l] = "recover" /\ UNCHANGED <<fileVars, hook, accepted>>
           /\ breach' = {} => ~(~claimed[l] /\ ckpt[l] > 0)
  <1>1. PICK n \in synced .. Len(log) : Reboot(n)
    <2>1. CASE Restart
      <3>1. Len(log) \in synced .. Len(log)
        BY DEF StoreTypes
      <3> QED
        BY <2>1, <3>1 DEF Restart
    <2>2. CASE Crash
      BY <2>2 DEF Crash
    <2> QED
      BY <2>1, <2>2
  <1>2. Durable \subseteq Durable'
    BY <1>1, RebootGrows
  <1>3. pc'[l] = "recover" /\ breach \subseteq breach'
    BY <1>1 DEF Reboot
  <1>4. UNCHANGED <<fileVars, hook, accepted>> /\ UNCHANGED <<dropped, fruitless, unwritten, superseded>>
    BY DEF Restart, Crash
  <1>5. ~claimed[l] /\ ckpt[l] > 0 => "stale" \in breach'
    BY <1>1 DEF Reboot
  <1> QED
    BY <1>2, <1>3, <1>4, <1>5 DEF Growth, Unstored, GivenUp

\* The steps of the system, by who takes them.
LEMMA Steps ==
    ASSUME Next
    PROVE  \/ (\E i \in Items : HookOpen(i) \/ HookWrite(i)) \/ Shutdown
           \/ Restart \/ Crash
           \/ \E l \in Lanes : LaneStep(l) \/ SyncFails(l)
           \/ FastOnly
           \/ SlowOnly
  BY TwoLanes DEF Next, FastStep, SlowStep, Faults, FastOnly, SlowOnly

\* An id enters a ledger on durable ground, and stays on it.
LEMMA AckKept ==
    ASSUME FileTypes, StoreTypes, LaneTypes, \A l \in Lanes : AckLane(l), Next
    PROVE  \A l \in Lanes : AckLane(l)'
  <1> TAKE l \in Lanes
  <1>1. CASE (\E i \in Items : HookOpen(i) \/ HookWrite(i)) \/ Shutdown
    BY <1>1, OtherFrame, AckStays
  <1>2. CASE Restart \/ Crash
    <2>1. Growth /\ pc'[l] = "recover" /\ acks' = acks
      BY <1>2, RebootFrame
    <2>2. pc'[l] \notin Hot
      BY <2>1 DEF Hot, Working, HandStates, AckStates
    <2> QED
      BY <2>1, <2>2, AckQuiet
  <1>3. ASSUME NEW m \in Lanes, LaneStep(m) \/ SyncFails(m) PROVE AckLane(l)'
    <2>1. CASE l = m
      BY <1>3, <2>1, AckLaneStep
    <2>2. CASE l # m
      <3>1. Growth /\ LogGrows /\ Stays(l)
        BY <1>3, <2>2, LaneFrame DEF Untouched
      <3> QED
        BY <3>1, AckStays
    <2> QED
      BY <2>1, <2>2
  <1>4. CASE FastOnly
    <2>1. AckLane("fast")'
      BY <1>4, TwoLanes, AckFast
    <2>2. Growth /\ LogGrows /\ Stays("slow")
      BY <1>4, FastFrame DEF Untouched
    <2>3. AckLane("slow")'
      BY <2>2, TwoLanes, AckStays
    <2> QED
      BY <2>1, <2>3 DEF Lanes
  <1>5. CASE SlowOnly
    <2>1. AckLane("slow")'
      BY <1>5, TwoLanes, AckSlow
    <2>2. Growth /\ LogGrows /\ Stays("fast")
      BY <1>5, SlowFrame DEF Untouched
    <2>3. AckLane("fast")'
      BY <2>2, TwoLanes, AckStays
    <2> QED
      BY <2>1, <2>3 DEF Lanes
  <1> QED
    BY <1>1, <1>2, <1>3, <1>4, <1>5, Steps

\* Every step keeps the types.
LEMMA TypeKept ==
    ASSUME TypeOK, \A l \in Lanes : AckLane(l), Next
    PROVE  TypeOK'
  <1>1. FileTypes /\ StoreTypes /\ LaneTypes /\ RestTypes
    BY DEF TypeOK, FileTypes, StoreTypes, LaneTypes, RestTypes
  <1>2. CASE (\E i \in Items : HookOpen(i) \/ HookWrite(i)) \/ Shutdown \/ Restart \/ Crash
    BY <1>1, <1>2, TypeOthers
  <1>3. ASSUME NEW l \in Lanes, LaneStep(l) \/ SyncFails(l) PROVE TypeOK'
    <2>1. InHand(l)
      BY DEF AckLane
    <2> QED
      BY <1>1, <1>3, <2>1, TypeFiles, TypeSync DEF LaneStep
  <1>4. CASE FastOnly
    BY <1>1, <1>4, TypeFast
  <1>5. CASE SlowOnly
    BY <1>1, <1>5, TypeSlow
  <1> QED
    BY <1>2, <1>3, <1>4, <1>5, Steps

-------------------------------------------------------------------------------
(* Distill attempts.                                                       *)

\* The counters are numbers.
LEMMA CountTypes ==
    ASSUME FileTypes, RestTypes
    PROVE  /\ restarts \in Nat /\ down \in Nat /\ MaxAttempts \in Nat
           /\ \A i \in Distills : attempts[i] \in Nat /\ crashedIn[i] \in Nat
  BY DEF FileTypes, RestTypes

\* No attempt begins or ends.
LEMMA CountQuiet ==
    ASSUME FileTypes, RestTypes, RestTypes', CountInv,
           UNCHANGED <<attempts, crashedIn, poisoned>>, restarts <= restarts', down <= down',
           Stays("slow") \/ (pc["slow"] \notin Working /\ pc'["slow"] \notin Working)
    PROVE  CountInv'
  <1>0. /\ restarts \in Nat /\ down \in Nat /\ restarts' \in Nat /\ down' \in Nat
        /\ MaxAttempts \in Nat /\ \A i \in Distills : attempts[i] \in Nat
    BY CountTypes DEF RestTypes
  <1>1. CrashesAreCounted'
    BY DEF CountInv, CrashesAreCounted
  <1>2. AttemptOnDisk'
    BY DEF CountInv, AttemptOnDisk, Stays, Cur
  <1>3. AttemptsHaveCause'
    BY <1>0 DEF CountInv, AttemptsHaveCause, Stays, Cur
  <1>4. PoisonedForCause'
    BY <1>0 DEF CountInv, PoisonedForCause
  <1> QED
    BY <1>1, <1>2, <1>3, <1>4 DEF CountInv

\* Steps outside the attempts.
LEMMA CountOthers ==
    ASSUME FileTypes, StoreTypes, LaneTypes, RestTypes, RestTypes', CountInv,
           \/ (\E i \in Items : HookOpen(i) \/ HookWrite(i)) \/ Shutdown
           \/ FastOnly
           \/ \E l \in Lanes : LaneStep(l) \/ SyncFails(l)
    PROVE  CountInv'
  <1>0. restarts \in Nat /\ down \in Nat
    BY CountTypes
  <1>1. CASE (\E i \in Items : HookOpen(i) \/ HookWrite(i)) \/ Shutdown
    <2>1. Stays("slow")
      BY <1>1, TwoLanes, OtherFrame
    <2>2. UNCHANGED <<attempts, crashedIn, poisoned>> /\ restarts <= restarts' /\ down <= down'
      BY <1>0, <1>1 DEF HookOpen, HookWrite, Shutdown
    <2> QED
      BY <2>1, <2>2, CountQuiet
  <1>2. CASE FastOnly
    <2>1. Stays("slow")
      BY <1>2, FastFrame DEF Untouched
    <2>2. UNCHANGED <<attempts, crashedIn, poisoned, restarts, down>>
      BY <1>2 DEF FastOnly, Coalesce, Apply, DeadLetter, Reroute, FlushSlow, FlushFails, FastBatchEnd
    <2> QED
      BY <1>0, <2>1, <2>2, CountQuiet
  <1>3. ASSUME NEW l \in Lanes, LaneStep(l) \/ SyncFails(l) PROVE CountInv'
    <2>1. UNCHANGED <<attempts, crashedIn, poisoned, restarts, down>>
      BY <1>3 DEF LaneStep, Claim, ReadLines, RemoveProcessing, RemoveCkpt, WriteCkpt, SyncStore,
                  RecordAck, SkipAcked, LaneStops, Recover, SyncFails
    <2>2. CASE l = "fast"
      <3>1. Stays("slow")
        BY <1>3, <2>2, TwoLanes, LaneFrame DEF Untouched
      <3> QED
        BY <1>0, <2>1, <3>1, CountQuiet
    <2>3. CASE l = "slow"
      <3>1. pc["slow"] \notin Working
        BY <1>3, <2>3 DEF Working, LaneStep, Claim, ReadLines, RemoveProcessing, RemoveCkpt, WriteCkpt,
                  SyncStore, RecordAck, SkipAcked, LaneStops, Recover, SyncFails
      <3>2. pc'["slow"] \notin Working
        <4> USE TwoLanes DEF LaneTypes, Working
        <4>1. CASE Claim(l) \/ RemoveProcessing(l) \/ RemoveCkpt(l) \/ WriteCkpt(l)
          BY <2>3, <4>1 DEF Claim, RemoveProcessing, RemoveCkpt, WriteCkpt
        <4>2. CASE ReadLines(l) \/ RecordAck(l) \/ Recover(l)
          BY <2>3, <4>2 DEF ReadLines, RecordAck, Done, Recover
        <4>3. CASE SkipAcked(l) \/ LaneStops(l)
          BY <2>3, <3>1, <4>3 DEF SkipAcked, LaneStops
        <4>4. CASE SyncStore(l) \/ SyncFails(l)
          BY <2>3, <4>4 DEF SyncStore, SyncFails, OnSyncFailure, AfterSync
        <4> QED
          BY <1>3, <4>1, <4>2, <4>3, <4>4 DEF LaneStep
      <3> QED
        BY <1>0, <2>1, <3>1, <3>2, CountQuiet
    <2> QED
      BY <2>2, <2>3 DEF Lanes
  <1> QED
    BY <1>1, <1>2, <1>3

\* An attempt is counted as it begins, and cleared when it ends well or in a dead letter.
LEMMA CountSlow ==
    ASSUME FileTypes, LaneTypes, RestTypes, RestTypes', CountInv, SlowOnly
    PROVE  CountInv'
  <1>0. /\ restarts \in Nat /\ down \in Nat /\ MaxAttempts \in Nat
        /\ \A i \in Distills : attempts[i] \in Nat /\ crashedIn[i] \in Nat
    BY CountTypes
  <1> USE DEF Working
  <1>1. ASSUME NEW i \in Distills, BumpAttempt(i) PROVE CountInv'
    <2>1. /\ lines' = lines /\ idx' = idx /\ pc["slow"] = "item" /\ pc'["slow"] = "probe"
          /\ i = Cur("slow") /\ Cur("slow")' = Cur("slow")
          /\ UNCHANGED <<crashedIn, poisoned, restarts, down>>
      BY <1>1, TwoLanes DEF BumpAttempt, SlowItem, LaneTypes, Cur
    <2>2. \A j \in Distills : attempts'[j] = IF j = i THEN attempts[i] + 1 ELSE attempts[j]
      BY <1>1 DEF BumpAttempt, Bumped, FileTypes
    <2>3. CrashesAreCounted' /\ AttemptOnDisk'
      BY <1>0, <2>1, <2>2 DEF CountInv, CrashesAreCounted, AttemptOnDisk
    <2>4. AttemptsHaveCause'
      BY <1>0, <2>1, <2>2 DEF CountInv, AttemptsHaveCause
    <2>5. PoisonedForCause'
      BY <2>1 DEF CountInv, PoisonedForCause
    <2> QED
      BY <2>3, <2>4, <2>5 DEF CountInv
  <1>2. ASSUME NEW i \in Distills, PoisonPill(i) PROVE CountInv'
    <2>1. /\ pc["slow"] = "item" /\ pc'["slow"] \notin Working /\ UNCHANGED <<restarts, down>>
          /\ poisoned' = poisoned \cup {i} /\ attempts[i] >= MaxAttempts
      BY <1>2, TwoLanes DEF PoisonPill, SlowItem, Done, LaneTypes, TooManyAttempts
    <2>2. /\ \A j \in Distills : attempts'[j] = IF j = i THEN 0 ELSE attempts[j]
          /\ \A j \in Distills : crashedIn'[j] = IF j = i THEN 0 ELSE crashedIn[j]
      BY <1>2 DEF PoisonPill, WriteFailedItem, Cleared, FileTypes, RestTypes
    <2>3. CrashesAreCounted' /\ AttemptOnDisk'
      BY <1>0, <2>1, <2>2 DEF CountInv, CrashesAreCounted, AttemptOnDisk
    <2>4. AttemptsHaveCause'
      BY <1>0, <2>1, <2>2 DEF CountInv, AttemptsHaveCause
    <2>5. i \notin Bad => restarts + down >= MaxAttempts
      BY <1>0, <2>1 DEF CountInv, AttemptsHaveCause
    <2>6. PoisonedForCause'
      BY <2>1, <2>5 DEF CountInv, PoisonedForCause
    <2> QED
      BY <2>3, <2>4, <2>6 DEF CountInv
  <1>3. ASSUME NEW i \in Distills, Distill(i) PROVE CountInv'
    <2>1. /\ pc["slow"] = "distill" /\ pc'["slow"] \notin Working /\ UNCHANGED <<restarts, down, poisoned>>
          /\ i = Cur("slow")
      BY <1>3, TwoLanes DEF Distill, Done, LaneTypes
    <2>2. /\ \A j \in Distills : attempts'[j] = IF j = i THEN 0 ELSE attempts[j]
          /\ \A j \in Distills : crashedIn'[j] = IF j = i THEN 0 ELSE crashedIn[j]
      BY <1>3 DEF Distill, Cleared, FileTypes, RestTypes
    <2>3. CrashesAreCounted' /\ AttemptOnDisk'
      BY <1>0, <2>1, <2>2 DEF CountInv, CrashesAreCounted, AttemptOnDisk
    <2>4. AttemptsHaveCause'
      BY <1>0, <2>1, <2>2 DEF CountInv, AttemptsHaveCause
    <2>5. PoisonedForCause'
      BY <2>1 DEF CountInv, PoisonedForCause
    <2> QED
      BY <2>3, <2>4, <2>5 DEF CountInv
  <1>4. ASSUME NEW i \in Distills, DistillFails(i) PROVE CountInv'
    <2>1. /\ pc["slow"] = "distill" /\ pc'["slow"] \notin Working
          /\ UNCHANGED <<attempts, crashedIn, restarts, down, poisoned>>
          /\ i = Cur("slow") /\ i \in Bad
      BY <1>4, TwoLanes DEF DistillFails, Done, LaneTypes
    <2>3. CrashesAreCounted' /\ AttemptOnDisk'
      BY <2>1 DEF CountInv, CrashesAreCounted, AttemptOnDisk
    <2>4. AttemptsHaveCause'
      BY <1>0, <2>1 DEF CountInv, AttemptsHaveCause
    <2>5. PoisonedForCause'
      BY <2>1 DEF CountInv, PoisonedForCause
    <2> QED
      BY <2>3, <2>4, <2>5 DEF CountInv
  <1>5. CASE EndpointUp
    <2>1. /\ lines' = lines /\ idx' = idx /\ pc["slow"] = "probe" /\ pc'["slow"] = "distill"
          /\ Cur("slow")' = Cur("slow")
          /\ UNCHANGED <<attempts, crashedIn, restarts, down, poisoned>>
      BY <1>5, TwoLanes DEF EndpointUp, LaneTypes, Cur
    <2>3. CrashesAreCounted' /\ AttemptOnDisk'
      BY <2>1 DEF CountInv, CrashesAreCounted, AttemptOnDisk
    <2>4. AttemptsHaveCause'
      BY <1>0, <2>1 DEF CountInv, AttemptsHaveCause
    <2>5. PoisonedForCause'
      BY <2>1 DEF CountInv, PoisonedForCause
    <2> QED
      BY <2>3, <2>4, <2>5 DEF CountInv
  <1>6. CASE EndpointDown
    <2>1. /\ pc'["slow"] = "defer" /\ down' = down + 1
          /\ UNCHANGED <<attempts, crashedIn, restarts, poisoned>>
      BY <1>6, TwoLanes DEF EndpointDown, LaneTypes
    <2>3. CrashesAreCounted' /\ AttemptOnDisk'
      BY <2>1 DEF CountInv, CrashesAreCounted, AttemptOnDisk
    <2>4. AttemptsHaveCause'
      BY <1>0, <2>1 DEF CountInv, AttemptsHaveCause
    <2>5. PoisonedForCause'
      BY <1>0, <2>1 DEF CountInv, PoisonedForCause
    <2> QED
      BY <2>3, <2>4, <2>5 DEF CountInv
  <1>7. CASE Defer \/ SlowBatchEnd
    <2>1. /\ pc["slow"] \notin Working /\ pc'["slow"] \notin Working
          /\ UNCHANGED <<attempts, crashedIn, poisoned, restarts, down>>
      BY <1>7, TwoLanes DEF Defer, SlowBatchEnd, LaneTypes
    <2> QED
      BY <1>0, <2>1, CountQuiet
  <1> QED
    BY <1>1, <1>2, <1>3, <1>4, <1>5, <1>6, <1>7 DEF SlowOnly

\* A crash counts for the attempt it cuts short.
LEMMA CountReboot ==
    ASSUME FileTypes, LaneTypes, RestTypes, CountInv, Restart \/ Crash
    PROVE  CountInv'
  <1>0. /\ restarts \in Nat /\ down \in Nat /\ MaxAttempts \in Nat
        /\ \A i \in Distills : attempts[i] \in Nat /\ crashedIn[i] \in Nat
    BY CountTypes
  <1>1. pc'["slow"] = "recover" /\ UNCHANGED <<attempts, poisoned, down>>
    BY TwoLanes DEF Restart, Crash, Reboot
  <1>2. CASE Crash
    <2>1. restarts' = restarts + 1
      BY <1>2 DEF Crash
    <2>2. \A i \in Distills : crashedIn'[i] =
             IF pc["slow"] = "distill" /\ i = Cur("slow") THEN crashedIn[i] + 1 ELSE crashedIn[i]
      BY <1>2 DEF Crash
    <2>3. CrashesAreCounted'
      BY <1>0, <1>1, <2>2 DEF CountInv, CrashesAreCounted, AttemptOnDisk, Working
    <2>4. AttemptsHaveCause' /\ AttemptOnDisk'
      BY <1>0, <1>1, <2>1 DEF CountInv, AttemptsHaveCause, AttemptOnDisk, Working
    <2>5. PoisonedForCause'
      BY <1>0, <1>1, <2>1 DEF CountInv, PoisonedForCause
    <2> QED
      BY <2>3, <2>4, <2>5 DEF CountInv
  <1>3. CASE Restart
    <2>1. pc["slow"] \notin Working /\ UNCHANGED <<restarts, crashedIn>>
      BY <1>3, TwoLanes DEF Restart, Working
    <2>3. CrashesAreCounted'
      BY <1>1, <2>1 DEF CountInv, CrashesAreCounted
    <2>4. AttemptsHaveCause' /\ AttemptOnDisk'
      BY <1>0, <1>1, <2>1 DEF CountInv, AttemptsHaveCause, AttemptOnDisk, Working
    <2>5. PoisonedForCause'
      BY <1>1, <2>1 DEF CountInv, PoisonedForCause
    <2> QED
      BY <2>3, <2>4, <2>5 DEF CountInv
  <1> QED
    BY <1>2, <1>3

\* No step loses count.
LEMMA CountKept ==
    ASSUME FileTypes, StoreTypes, LaneTypes, RestTypes, RestTypes', CountInv, Next
    PROVE  CountInv'
  BY Steps, CountOthers, CountSlow, CountReboot

-------------------------------------------------------------------------------
(* The loss of items: what a lane's step must show, and what follows for   *)
(* the other lane.                                                         *)

\* What the fast lane may forget is what the slow lane answers for.
LEMMA FastSafe == Safe("fast") = Held("slow") /\ Safe("fast")' = Held("slow")'
  BY DEF Safe, Held

\* What is settled stays safe.
LEMMA SettledGrows ==
    ASSUME Growth
    PROVE  Safe("slow") \subseteq Safe("slow")'
  BY DEF Growth, Safe, Settled

\* What recovery would re-queue depends on the lane's files only.
LEMMA LeftSame ==
    ASSUME NEW l \in Lanes, processing'[l] = processing[l], claimed'[l] = claimed[l],
           ckpt'[l] = ckpt[l], acks'[l] = acks[l]
    PROVE  Left(l)' = Left(l)
  BY DEF Left, Remaining

\* A lane that takes no step keeps its invariant when what is safe grows.
LEMMA LaneUntouched ==
    ASSUME NEW l \in Lanes, LaneInv(l), Untouched(l), QueueGrows(l), LogGrows,
           Safe(l) \subseteq Safe(l)', l = "fast" => pending' = pending
    PROVE  LaneInv(l)' /\ Held(l) \subseteq Held(l)'
  <1> USE DEF Untouched, Stays
  <1>1. Left(l)' = Left(l)
    BY LeftSame
  <1>2. Watermark(l)' /\ Skipped(l)'
    BY DEF LaneInv, Watermark, Skipped
  <1>3. GoneThrough(l)'
    BY DEF LaneInv, GoneThrough, SoFar, Unsynced, Buffered, LogGrows
  <1>4. HandSafe(l)' /\ RemovalSafe(l)'
    BY <1>1 DEF LaneInv, HandSafe, RemovalSafe, Cur, LogGrows, QueueGrows
  <1> QED
    BY <1>1, <1>2, <1>3, <1>4 DEF LaneInv, Held, QueueGrows

\* A step within a batch that leaves the lane's files alone.
LEMMA BatchStep ==
    ASSUME NEW l \in Lanes, LaneInv(l), Safe(l) \subseteq Safe(l)', QueueGrows(l),
           lines'[l] = lines[l], processing'[l] = processing[l], claimed'[l] = claimed[l],
           ckpt'[l] = ckpt[l], acks'[l] = acks[l],
           pc[l] \in Batch, pc'[l] \in Batch \cup {"paused"},
           pc'[l] \in Batch => idx'[l] <= Len(lines[l])
                                /\ SoFar(l)' \subseteq Safe(l)' \cup Unsynced(l)' \cup Buffered(l)',
           HandSafe(l)',
           pc'[l] = "rmProc" => Range(lines[l]) \subseteq Safe(l)' \cup Range(queue'[l])
    PROVE  LaneInv(l)' /\ Held(l) \subseteq Held(l)'
  <1>1. Left(l)' = Left(l)
    BY LeftSame
  <1>2. claimed[l] /\ pc'[l] \notin {"idle", "rmCkpt", "reCkpt", "claimed", "reProc"}
    BY DEF LaneInv, Watermark, Batch, HandStates, AckStates, Synced, Flushing
  <1>3. Watermark(l)' /\ Skipped(l)'
    BY <1>2 DEF LaneInv, Watermark, Skipped, Fresh
  <1>4. GoneThrough(l)'
    BY DEF LaneInv, GoneThrough
  <1>5. RemovalSafe(l)'
    BY <1>2 DEF RemovalSafe
  <1> QED
    BY <1>1, <1>3, <1>4, <1>5 DEF LaneInv, Held, QueueGrows

\* One more line gone through, or none.
LEMMA SoFarNext ==
    ASSUME LaneTypes, NEW l \in Lanes, MoreLines(l), lines'[l] = lines[l], idx'[l] = idx[l] + 1
    PROVE  SoFar(l)' = SoFar(l) \cup {Cur(l)} /\ idx'[l] <= Len(lines[l])
  <1>1. idx[l] \in Nat /\ Len(lines[l]) \in Nat
    BY DEF LaneTypes
  <1> QED
    BY <1>1 DEF SoFar, MoreLines, Cur

\* No line gone through.
LEMMA SoFarSame ==
    ASSUME NEW l \in Lanes, lines'[l] = lines[l], idx'[l] = idx[l]
    PROVE  SoFar(l)' = SoFar(l)
  BY DEF SoFar

\* A batch at its end has gone through all lines.
LEMMA SoFarAll ==
    ASSUME LaneTypes, NEW l \in Lanes, ~MoreLines(l)
    PROVE  Range(lines[l]) \subseteq SoFar(l)
  <1>1. idx[l] \in Nat /\ lines[l] \in Seq(Items) /\ DOMAIN lines[l] = 1 .. Len(lines[l])
    BY DEF LaneTypes
  <1> QED
    BY <1>1 DEF SoFar, MoreLines, Range

\* A step of the slow lane alone is the fast lane's gain, and the other way round.
LEMMA SlowMoves ==
    ASSUME Growth, LogGrows, LaneInv("fast"), Untouched("fast"), QueueGrows("fast"),
           pending' = pending, LaneInv("slow")', Held("slow") \subseteq Held("slow")'
    PROVE  (\A l \in Lanes : LaneInv(l)') /\ Held("fast") \subseteq Held("fast")'
  <1>1. Safe("fast") \subseteq Safe("fast")'
    BY FastSafe
  <1>2. LaneInv("fast")' /\ Held("fast") \subseteq Held("fast")'
    BY <1>1, TwoLanes, LaneUntouched
  <1> QED
    BY <1>2 DEF Lanes

\* While the slow lane rests, what the fast lane may forget only grows.
LEMMA SlowRests ==
    ASSUME Growth, LogGrows, LaneInv("slow"), Untouched("slow"), QueueGrows("slow")
    PROVE  LaneInv("slow")' /\ Safe("fast") \subseteq Safe("fast")'
  <1>1. LaneInv("slow")' /\ Held("slow") \subseteq Held("slow")'
    BY TwoLanes, SettledGrows, LaneUntouched
  <1> QED
    BY <1>1, FastSafe

-------------------------------------------------------------------------------
(* The steps both lanes have.                                              *)

\* The rename moves the queue into a .processing file without a watermark.
LEMMA ClaimLoss ==
    ASSUME FileTypes, LaneTypes, NEW l \in Lanes, LaneInv(l), Safe(l) \subseteq Safe(l)', Claim(l)
    PROVE  LaneInv(l)' /\ Held(l) \subseteq Held(l)'
  <1> USE DEF FileTypes, LaneTypes
  <1>1. /\ pc[l] = "idle" /\ pc'[l] = "claimed" /\ claimed'[l] = TRUE /\ queue'[l] = <<>>
        /\ processing'[l] = queue[l] /\ ckpt'[l] = ckpt[l] /\ acks'[l] = acks[l]
    BY DEF Claim
  <1>2. claimed[l] = FALSE /\ ckpt[l] = 0
    BY <1>1 DEF LaneInv, Watermark, Fresh
  <1>3. Left(l) = {}
    BY <1>2 DEF Left
  <1>4. queue[l] \in Seq(Items) /\ DOMAIN queue[l] = 1 .. Len(queue[l]) /\ Len(queue[l]) \in Nat
    OBVIOUS
  <1>5. Range(queue[l]) \subseteq Left(l)' \cup acks[l]
    <2> SUFFICES ASSUME NEW k \in 1 .. Len(queue[l]), queue[l][k] \notin acks[l]
                 PROVE  queue[l][k] \in Left(l)'
      BY <1>4 DEF Range
    <2>1. k \in Remaining(l)'
      BY <1>1, <1>2, <1>4 DEF Remaining
    <2> QED
      BY <1>1, <2>1 DEF Left
  <1>6. acks[l] \subseteq Safe(l)'
    BY DEF LaneInv, Skipped
  <1>7. Watermark(l)'
    BY <1>1, <1>2, <1>4 DEF Watermark, Batch, HandStates, AckStates, Synced, Flushing, Fresh
  <1>8. Skipped(l)'
    BY <1>1, <1>2, <1>6 DEF Skipped
  <1>9. GoneThrough(l)' /\ HandSafe(l)' /\ RemovalSafe(l)'
    BY <1>1 DEF GoneThrough, HandSafe, RemovalSafe, Batch, HandStates, AckStates, Synced, Flushing
  <1> QED
    BY <1>3, <1>5, <1>6, <1>7, <1>8, <1>9 DEF LaneInv, Held

\* Reading the batch rotates the ledger to the ids of its lines.
LEMMA ReadLoss ==
    ASSUME FileTypes, LaneTypes, NEW l \in Lanes, LaneInv(l), Safe(l) \subseteq Safe(l)', ReadLines(l)
    PROVE  LaneInv(l)' /\ Held(l) \subseteq Held(l)'
  <1> USE DEF FileTypes, LaneTypes
  <1>1. /\ pc[l] = "claimed" /\ queue'[l] = queue[l] /\ processing'[l] = processing[l] /\ ckpt'[l] = ckpt[l]
    BY DEF ReadLines
  <1>2. claimed[l] = TRUE /\ ckpt[l] = 0
    BY <1>1 DEF LaneInv, Watermark, Fresh
  <1>3. processing[l] \in Seq(Items) /\ Len(processing[l]) \in Nat /\ DOMAIN processing[l] = 1 .. Len(processing[l])
    OBVIOUS
  <1>4. CASE processing[l] = <<>>
    <2>1. claimed'[l] = FALSE /\ pc'[l] = "idle" /\ acks'[l] = acks[l]
      BY <1>4 DEF ReadLines
    <2>2. Left(l) = {}
      BY <1>2, <1>4 DEF Left, Remaining
    <2>3. Watermark(l)' /\ Skipped(l)'
      BY <1>1, <1>2, <2>1 DEF LaneInv, Watermark, Skipped, Batch, HandStates, AckStates, Synced, Flushing
    <2>4. GoneThrough(l)' /\ HandSafe(l)' /\ RemovalSafe(l)'
      BY <2>1 DEF GoneThrough, HandSafe, RemovalSafe, Batch, HandStates, AckStates, Synced, Flushing
    <2> QED
      BY <1>1, <2>2, <2>3, <2>4 DEF LaneInv, Held
  <1>5. CASE processing[l] # <<>>
    <2>1. /\ claimed'[l] = TRUE /\ pc'[l] = "item" /\ lines'[l] = processing[l] /\ idx'[l] = 0
          /\ acks'[l] = acks[l] \cap Range(processing[l])
      BY <1>2, <1>5 DEF ReadLines
    <2>2. Left(l) \subseteq Left(l)'
      BY <1>1, <1>2, <2>1 DEF Left, Remaining
    <2>3. Watermark(l)' /\ Skipped(l)'
      BY <1>1, <1>2, <1>3, <2>1 DEF LaneInv, Watermark, Skipped, Fresh
    <2>4. SoFar(l)' = {}
      BY <2>1 DEF SoFar
    <2>5. GoneThrough(l)' /\ HandSafe(l)' /\ RemovalSafe(l)'
      BY <1>1, <1>3, <2>1, <2>4 DEF GoneThrough, HandSafe, RemovalSafe, HandStates
    <2> QED
      BY <1>1, <2>2, <2>3, <2>5 DEF LaneInv, Held
  <1> QED
    BY <1>4, <1>5

\* Removal, of .processing first and of .ckpt second.
LEMMA RemoveLoss ==
    ASSUME FileTypes, LaneTypes, NEW l \in Lanes, LaneInv(l), Safe(l) \subseteq Safe(l)',
           RemoveProcessing(l) \/ RemoveCkpt(l)
    PROVE  LaneInv(l)' /\ Held(l) \subseteq Held(l)'
  <1> USE DEF FileTypes, LaneTypes
  <1>a. queue'[l] = queue[l] /\ acks'[l] = acks[l]
    BY DEF RemoveProcessing, RemoveCkpt
  <1>1. CASE RemoveProcessing(l)
    <2>1. /\ pc[l] \in {"rmProc", "reProc"} /\ pc'[l] \in {"rmCkpt", "reCkpt"} /\ claimed'[l] = FALSE
      BY <1>1 DEF RemoveProcessing
    <2>2. Left(l) \subseteq Safe(l) \cup Range(queue[l])
      <3>1. CASE pc[l] = "rmProc"
        <4>1. lines[l] = processing[l] /\ Range(lines[l]) \subseteq Safe(l) \cup Range(queue[l])
          BY <3>1 DEF LaneInv, GoneThrough, RemovalSafe, Batch, Synced
        <4>2. Left(l) \subseteq Range(processing[l])
          BY DEF Left, Remaining, Range
        <4> QED
          BY <4>1, <4>2
      <3>2. CASE pc[l] = "reProc"
        BY <3>2 DEF LaneInv, RemovalSafe
      <3> QED
        BY <2>1, <3>1, <3>2
    <2>3. Watermark(l)' /\ Skipped(l)'
      BY <1>a, <2>1 DEF LaneInv, Watermark, Skipped, Batch, HandStates, AckStates, Synced, Flushing, Fresh
    <2>4. GoneThrough(l)' /\ HandSafe(l)' /\ RemovalSafe(l)'
      BY <2>1 DEF GoneThrough, HandSafe, RemovalSafe, Batch, HandStates, AckStates, Synced, Flushing
    <2> QED
      BY <1>a, <2>2, <2>3, <2>4 DEF LaneInv, Held
  <1>2. CASE RemoveCkpt(l)
    <2>1. /\ pc[l] \in {"rmCkpt", "reCkpt"} /\ pc'[l] = "idle" /\ claimed'[l] = claimed[l] /\ ckpt'[l] = 0
      BY <1>2 DEF RemoveCkpt
    <2>2. claimed[l] = FALSE /\ Left(l) = {}
      BY <2>1 DEF LaneInv, Watermark, Left
    <2>3. Watermark(l)' /\ Skipped(l)'
      BY <1>a, <2>1, <2>2 DEF LaneInv, Watermark, Skipped, Batch, HandStates, AckStates, Synced, Flushing
    <2>4. GoneThrough(l)' /\ HandSafe(l)' /\ RemovalSafe(l)'
      BY <2>1 DEF GoneThrough, HandSafe, RemovalSafe, Batch, HandStates, AckStates, Synced, Flushing
    <2> QED
      BY <1>a, <2>2, <2>3, <2>4 DEF LaneInv, Held
  <1> QED
    BY <1>1, <1>2

\* "The watermark only advances past durably synced work."
LEMMA CkptLoss ==
    ASSUME FileTypes, LaneTypes, NEW l \in Lanes, LaneInv(l), Safe(l) \subseteq Safe(l)', WriteCkpt(l)
    PROVE  LaneInv(l)' /\ Held(l) \subseteq Held(l)'
  <1> USE DEF FileTypes, LaneTypes
  <1>1. /\ pc[l] \in {"ckptWrite", "stopCkpt"} /\ ckpt'[l] = idx[l]
        /\ pc[l] = "ckptWrite" => pc'[l] = "item"
        /\ pc[l] = "stopCkpt" => pc'[l] = "stopped"
        /\ UNCHANGED <<queue, processing, claimed, acks, lines, idx, pending>>
    BY DEF WriteCkpt
  <1>2. /\ claimed[l] /\ lines[l] = processing[l] /\ idx[l] <= Len(lines[l]) /\ idx[l] \in Nat
        /\ SoFar(l) \subseteq Safe(l)
    BY <1>1 DEF LaneInv, Watermark, GoneThrough, Unsynced, Buffered, Batch, Synced
  <1>3. \A k \in 1 .. idx[l] : processing[l][k] \in Safe(l)'
    BY <1>2 DEF SoFar
  <1>4. Left(l) \subseteq Safe(l)' \cup Left(l)'
    <2>1. \A k \in Remaining(l) : k \in 1 .. idx[l] \/ k \in Remaining(l)'
      BY <1>1, <1>2 DEF Remaining
    <2>2. Left(l) = {processing[l][k] : k \in Remaining(l)}
      BY <1>2 DEF Left
    <2>3. Left(l)' = {processing[l][k] : k \in Remaining(l)'}
      BY <1>1, <1>2 DEF Left
    <2> QED
      BY <1>3, <2>1, <2>2, <2>3
  <1>5. Watermark(l)' /\ Skipped(l)'
    BY <1>1, <1>2, <1>3 DEF LaneInv, Watermark, Skipped, Fresh
  <1>6. SoFar(l)' \subseteq Safe(l)'
    BY <1>1, <1>2 DEF SoFar
  <1>7. GoneThrough(l)'
    BY <1>1, <1>2, <1>6 DEF GoneThrough
  <1>8. HandSafe(l)' /\ RemovalSafe(l)'
    BY <1>1 DEF HandSafe, RemovalSafe, HandStates
  <1> QED
    BY <1>1, <1>4, <1>5, <1>7, <1>8 DEF LaneInv, Held

\* After a sync all that was applied is safe.
LEMMA SyncLoss ==
    ASSUME FileTypes, StoreTypes, LaneTypes, NEW l \in Lanes, LaneInv(l), Safe(l) \subseteq Safe(l)',
           SyncStore(l)
    PROVE  LaneInv(l)' /\ Held(l) \subseteq Held(l)'
  <1> USE DEF FileTypes, LaneTypes
  <1>1. /\ pc[l] \in {"handSync", "ackSync", "ckptSync", "endSync"}
        /\ pc[l] = "handSync" => pc'[l] = "handFlush"
        /\ pc[l] = "ackSync" => pc'[l] = "ackWrite"
        /\ pc[l] = "ckptSync" => pc'[l] = IF l = "fast" THEN "ckptFlush" ELSE "ckptWrite"
        /\ pc[l] = "endSync" => pc'[l] = "endFlush"
        /\ UNCHANGED <<queue, processing, claimed, ckpt, acks, lines, idx, pending, log>>
    BY DEF SyncStore, AfterSync
  <1>2. Range(log) \subseteq Safe(l)'
    <2>1. Durable' = Range(log)
      BY SyncGrows DEF SyncStore
    <2> QED
      BY <2>1 DEF Safe, Settled
  <1>3. pc[l] \in Batch /\ pc'[l] \in Batch /\ pc'[l] # "rmProc"
    BY <1>1 DEF Batch, HandStates, AckStates, Synced, Flushing
  <1>4. /\ SoFar(l)' = SoFar(l) /\ idx[l] <= Len(lines[l])
        /\ SoFar(l) \subseteq Safe(l) \cup Range(log) \cup Buffered(l)
    BY <1>1, <1>3, SoFarSame DEF LaneInv, GoneThrough, Unsynced
  <1>5. Buffered(l)' = Buffered(l)
    BY <1>1 DEF Buffered, Synced
  <1>6. HandSafe(l)'
    BY <1>1, <1>2 DEF LaneInv, HandSafe, HandStates, Cur
  <1>7. SoFar(l)' \subseteq Safe(l)' \cup Unsynced(l)' \cup Buffered(l)' /\ idx'[l] <= Len(lines[l])
    BY <1>1, <1>2, <1>4, <1>5
  <1>8. QueueGrows(l)
    BY <1>1 DEF QueueGrows
  <1> QED
    BY <1>1, <1>3, <1>6, <1>7, <1>8, BatchStep

\* An acknowledged line is skipped by recovery, and is safe.
LEMMA AckLoss ==
    ASSUME FileTypes, LaneTypes, NEW l \in Lanes, AckLane(l), LaneInv(l), Safe(l) \subseteq Safe(l)',
           LogGrows, RecordAck(l)
    PROVE  LaneInv(l)' /\ Held(l) \subseteq Held(l)'
  <1> USE DEF FileTypes, LaneTypes
  <1>1. /\ pc[l] = "ackWrite" /\ acks'[l] = acks[l] \cup {Cur(l)}
        /\ pc'[l] \in {"item", "ckptSync"} /\ idx'[l] = idx[l] + 1
        /\ UNCHANGED <<queue, processing, claimed, ckpt, lines, pending>>
    <2>1. CASE l = "fast" /\ Superseded(idx[l] + 1)
      BY <2>1 DEF RecordAck
    <2>2. CASE ~(l = "fast" /\ Superseded(idx[l] + 1))
      BY <2>2 DEF RecordAck, Done
    <2> QED
      BY <2>1, <2>2
  <1>2. MoreLines(l) /\ Cur(l) \in Safe(l)
    BY <1>1 DEF AckLane, InHand, LaneInv, HandSafe, Hot, AckStates
  <1>3. /\ claimed[l] /\ lines[l] = processing[l]
        /\ SoFar(l) \subseteq Safe(l) \cup Unsynced(l) \cup Buffered(l)
    BY <1>1 DEF LaneInv, Watermark, GoneThrough, Batch, AckStates
  <1>4. SoFar(l)' = SoFar(l) \cup {Cur(l)} /\ idx'[l] <= Len(lines[l])
    BY <1>1, <1>2, SoFarNext
  <1>5. Unsynced(l) \subseteq Unsynced(l)' /\ Buffered(l) \subseteq Buffered(l)'
    BY <1>1 DEF Unsynced, Buffered, Synced, Flushing, LogGrows
  <1>6. GoneThrough(l)'
    BY <1>1, <1>2, <1>3, <1>4, <1>5 DEF GoneThrough
  <1>7. Left(l) \subseteq Left(l)' \cup {Cur(l)}
    <2>1. \A k \in Remaining(l) : processing[l][k] = Cur(l) \/ k \in Remaining(l)'
      BY <1>1 DEF Remaining
    <2>2. Left(l) = {processing[l][k] : k \in Remaining(l)}
      BY <1>3 DEF Left
    <2>3. Left(l)' = {processing[l][k] : k \in Remaining(l)'}
      BY <1>1, <1>3 DEF Left
    <2> QED
      BY <2>1, <2>2, <2>3
  <1>8. Watermark(l)' /\ Skipped(l)'
    BY <1>1, <1>2, <1>3 DEF LaneInv, Watermark, Skipped, Fresh
  <1>9. HandSafe(l)' /\ RemovalSafe(l)'
    BY <1>1 DEF HandSafe, RemovalSafe, HandStates
  <1> QED
    BY <1>1, <1>2, <1>6, <1>7, <1>8, <1>9 DEF LaneInv, Held

\* A line skipped for its ack is safe.
LEMMA SkipLoss ==
    ASSUME FileTypes, LaneTypes, NEW l \in Lanes, LaneInv(l), Safe(l) \subseteq Safe(l)',
           LogGrows, SkipAcked(l)
    PROVE  LaneInv(l)' /\ Held(l) \subseteq Held(l)'
  <1> USE DEF FileTypes, LaneTypes
  <1>1. /\ pc[l] = "item" /\ pc'[l] = "item" /\ idx'[l] = idx[l] + 1 /\ MoreLines(l) /\ Cur(l) \in acks[l]
        /\ UNCHANGED <<queue, processing, claimed, ckpt, acks, lines, pending>>
    BY DEF SkipAcked
  <1>2. Cur(l) \in Safe(l)' /\ pc[l] \in Batch
    BY <1>1 DEF LaneInv, Skipped, Batch
  <1>3. SoFar(l) \subseteq Safe(l) \cup Unsynced(l) \cup Buffered(l)
    BY <1>2 DEF LaneInv, GoneThrough
  <1>4. SoFar(l)' = SoFar(l) \cup {Cur(l)} /\ idx'[l] <= Len(lines[l])
    BY <1>1, SoFarNext
  <1>5. Unsynced(l) \subseteq Unsynced(l)' /\ Buffered(l) \subseteq Buffered(l)'
    BY <1>1 DEF Unsynced, Buffered, LogGrows
  <1>6. SoFar(l)' \subseteq Safe(l)' \cup Unsynced(l)' \cup Buffered(l)'
    BY <1>2, <1>3, <1>4, <1>5
  <1>7. HandSafe(l)' /\ QueueGrows(l)
    BY <1>1 DEF HandSafe, HandStates, QueueGrows
  <1> QED
    BY <1>1, <1>2, <1>4, <1>6, <1>7, BatchStep

\* A lane stops, or recovers what its predecessor left.
LEMMA StopLoss ==
    ASSUME FileTypes, LaneTypes, NEW l \in Lanes, LaneInv(l), Safe(l) \subseteq Safe(l)',
           LaneStops(l) \/ Recover(l)
    PROVE  LaneInv(l)' /\ Held(l) \subseteq Held(l)'
  <1> USE DEF FileTypes, LaneTypes
  <1>a. UNCHANGED <<processing, claimed, ckpt, acks, lines>>
    BY DEF LaneStops, Recover
  <1>b. Left(l)' = Left(l) /\ Skipped(l)'
    BY <1>a, LeftSame DEF LaneInv, Skipped
  <1> USE DEF Batch, HandStates, AckStates, Synced, Flushing
  <1>1. CASE LaneStops(l)
    <2>1. pc[l] = "idle" /\ pc'[l] = "stopped" /\ queue' = queue
      BY <1>1 DEF LaneStops
    <2>2. Watermark(l)'
      BY <1>a, <2>1 DEF LaneInv, Watermark, Fresh
    <2>3. GoneThrough(l)' /\ HandSafe(l)' /\ RemovalSafe(l)'
      BY <2>1 DEF GoneThrough, HandSafe, RemovalSafe
    <2> QED
      BY <1>b, <2>1, <2>2, <2>3 DEF LaneInv, Held
  <1>2. CASE Recover(l) /\ claimed[l]
    <2>1. pc[l] = "recover" /\ pc'[l] = "reProc" /\ queue'[l] = queue[l] \o Unprocessed(l)
      BY <1>2 DEF Recover
    <2>2. Unprocessed(l) \in Seq(Items) /\ Range(Unprocessed(l)) = Left(l)
      BY <1>2, UnprocessedRange DEF Left
    <2>3. Range(queue'[l]) = Range(queue[l]) \cup Left(l)
      BY <2>1, <2>2, ConcatRange
    <2>4. Watermark(l)'
      BY <1>2, <1>a, <2>1 DEF LaneInv, Watermark, Fresh
    <2>5. GoneThrough(l)' /\ HandSafe(l)' /\ RemovalSafe(l)'
      BY <1>b, <2>1, <2>3 DEF GoneThrough, HandSafe, RemovalSafe
    <2> QED
      BY <1>b, <2>3, <2>4, <2>5 DEF LaneInv, Held
  <1>3. CASE Recover(l) /\ ~claimed[l]
    <2>1. pc[l] = "recover" /\ pc'[l] = "idle" /\ queue' = queue
      BY <1>3 DEF Recover
    <2>2. ckpt[l] = 0
      BY <1>3, <2>1 DEF LaneInv, Watermark
    <2>3. Watermark(l)'
      BY <1>3, <1>a, <2>1, <2>2 DEF Watermark
    <2>4. GoneThrough(l)' /\ HandSafe(l)' /\ RemovalSafe(l)'
      BY <2>1 DEF GoneThrough, HandSafe, RemovalSafe
    <2> QED
      BY <1>b, <2>1, <2>3, <2>4 DEF LaneInv, Held
  <1> QED
    BY <1>1, <1>2, <1>3

\* A failed sync that goes unnoticed is a breach; the others stop the lane.
LEMMA SyncFailsLoss ==
    ASSUME FileTypes, LaneTypes, NEW l \in Lanes, LaneInv(l), Safe(l) \subseteq Safe(l)',
           breach' = {}, SyncFails(l)
    PROVE  LaneInv(l)' /\ Held(l) \subseteq Held(l)'
  <1>1. /\ pc[l] \in {"handSync", "ackSync"} /\ pc'[l] = "paused"
        /\ UNCHANGED <<queue, processing, claimed, ckpt, acks, lines>>
    BY DEF SyncFails, OnSyncFailure, LaneTypes
  <1>2. pc[l] \in Batch /\ pc'[l] \notin Batch
    BY <1>1 DEF Batch, HandStates, AckStates, Synced, Flushing
  <1>3. HandSafe(l)' /\ QueueGrows(l)
    BY <1>1 DEF HandSafe, HandStates, QueueGrows
  <1> QED
    BY <1>1, <1>2, <1>3, BatchStep

\* The steps both lanes have, together.
LEMMA LaneLoss ==
    ASSUME FileTypes, StoreTypes, LaneTypes, NEW l \in Lanes, AckLane(l), LaneInv(l),
           Safe(l) \subseteq Safe(l)', breach' = {}, LaneStep(l) \/ SyncFails(l)
    PROVE  LaneInv(l)' /\ Held(l) \subseteq Held(l)'
  <1>1. LogGrows
    BY LaneFrame
  <1> QED
    BY <1>1, ClaimLoss, ReadLoss, RemoveLoss, CkptLoss, SyncLoss, AckLoss, SkipLoss, StopLoss,
       SyncFailsLoss DEF LaneStep

-------------------------------------------------------------------------------
(* The steps of the fast lane.                                             *)

\* The line in hand is done with, and is safe, applied or buffered.
LEMMA FastDone ==
    ASSUME FileTypes, LaneTypes, LaneInv("fast"), Safe("fast") \subseteq Safe("fast")', LogGrows,
           UNCHANGED <<queue, processing, claimed, ckpt, acks, lines>>,
           Range(pending) \subseteq Range(pending'),
           pc["fast"] = "item", MoreLines("fast"), pc'["fast"] \in {"item", "ckptSync"},
           idx'["fast"] = idx["fast"] + 1,
           Cur("fast") \in Safe("fast")' \cup Range(log') \cup Range(pending')
    PROVE  LaneInv("fast")' /\ Held("fast") \subseteq Held("fast")'
  <1> USE TwoLanes
  <1>1. pc["fast"] \in Batch /\ pc'["fast"] \in Batch
    BY DEF Batch
  <1>2. SoFar("fast") \subseteq Safe("fast") \cup Range(log) \cup Range(pending)
    BY <1>1 DEF LaneInv, GoneThrough, Unsynced, Buffered
  <1>3. SoFar("fast")' = SoFar("fast") \cup {Cur("fast")} /\ idx'["fast"] <= Len(lines["fast"])
    BY SoFarNext
  <1>4. Unsynced("fast")' = Range(log') /\ Buffered("fast")' = Range(pending')
    BY DEF Unsynced, Buffered, Synced, Flushing
  <1>5. SoFar("fast")' \subseteq Safe("fast")' \cup Unsynced("fast")' \cup Buffered("fast")'
    BY <1>2, <1>3, <1>4 DEF LogGrows
  <1>6. HandSafe("fast")' /\ QueueGrows("fast")
    BY DEF HandSafe, HandStates, QueueGrows
  <1> QED
    BY <1>1, <1>3, <1>5, <1>6, BatchStep

\* The line in hand waits for its acknowledgement or its handoff.
LEMMA FastHolds ==
    ASSUME FileTypes, LaneTypes, LaneInv("fast"), Safe("fast") \subseteq Safe("fast")', LogGrows,
           UNCHANGED <<queue, processing, claimed, ckpt, acks, lines, idx>>,
           Range(pending) \subseteq Range(pending'),
           pc["fast"] = "item", pc'["fast"] \in {"ackSync", "handSync", "endSync"},
           pc'["fast"] = "ackSync" => Cur("fast") \in Safe("fast")' \cup Range(log'),
           pc'["fast"] = "handSync" => Cur("fast") \in Range(pending')
    PROVE  LaneInv("fast")' /\ Held("fast") \subseteq Held("fast")'
  <1> USE TwoLanes
  <1>1. pc["fast"] \in Batch /\ pc'["fast"] \in Batch
    BY DEF Batch, HandStates, AckStates
  <1>2. SoFar("fast") \subseteq Safe("fast") \cup Range(log) \cup Range(pending) /\ idx["fast"] <= Len(lines["fast"])
    BY <1>1 DEF LaneInv, GoneThrough, Unsynced, Buffered
  <1>3. SoFar("fast")' = SoFar("fast")
    BY SoFarSame
  <1>4. Unsynced("fast")' = Range(log') /\ Buffered("fast")' = Range(pending')
    BY DEF Unsynced, Buffered, Synced, Flushing
  <1>5. SoFar("fast")' \subseteq Safe("fast")' \cup Unsynced("fast")' \cup Buffered("fast")'
    BY <1>2, <1>3, <1>4 DEF LogGrows
  <1>6. HandSafe("fast")' /\ QueueGrows("fast")
    BY DEF HandSafe, HandStates, QueueGrows, Cur
  <1> QED
    BY <1>1, <1>2, <1>5, <1>6, BatchStep

\* flush_slow puts the buffered distills into the slow lane's hands before the watermark or the ack.
LEMMA FlushLoss ==
    ASSUME FileTypes, LaneTypes, LaneInv("fast"), Safe("fast") \subseteq Safe("fast")', LogGrows, FlushSlow
    PROVE  LaneInv("fast")' /\ Held("fast") \subseteq Held("fast")'
  <1> USE TwoLanes DEF FileTypes, LaneTypes
  <1>1. /\ pc["fast"] \in {"handFlush", "ckptFlush", "endFlush"}
        /\ pc["fast"] = "handFlush" => pc'["fast"] = "ackSync"
        /\ pc["fast"] = "ckptFlush" => pc'["fast"] = "ckptWrite"
        /\ pc["fast"] = "endFlush" => pc'["fast"] = IF MoreLines("fast") THEN "stopCkpt" ELSE "rmProc"
        /\ UNCHANGED <<processing, claimed, ckpt, acks, lines, idx, log>>
        /\ queue'["fast"] = queue["fast"] /\ queue'["slow"] = queue["slow"] \o pending
    BY DEF FlushSlow, BatchDone
  <1>2. Range(pending) \subseteq Safe("fast")'
    <2>1. Range(pending) \subseteq Range(queue'["slow"])
      BY <1>1, ConcatRange
    <2> QED
      BY <2>1 DEF Safe
  <1>3. pc["fast"] \in Batch /\ pc'["fast"] \in Batch
    BY <1>1 DEF Batch, HandStates, AckStates, Synced, Flushing
  <1>4. /\ SoFar("fast")' = SoFar("fast") /\ idx'["fast"] <= Len(lines["fast"])
        /\ SoFar("fast") \subseteq Safe("fast") \cup Unsynced("fast") \cup Range(pending)
    BY <1>1, <1>3, SoFarSame DEF LaneInv, GoneThrough, Buffered
  <1>5. /\ pc["fast"] # "handFlush" => Unsynced("fast") = {}
        /\ pc["fast"] = "handFlush" => Unsynced("fast")' = Range(log) /\ Unsynced("fast") = Range(log)
    BY <1>1 DEF Unsynced, Synced, Flushing
  <1>6. SoFar("fast")' \subseteq Safe("fast")' \cup Unsynced("fast")' \cup Buffered("fast")'
    BY <1>2, <1>4, <1>5
  <1>7. HandSafe("fast")' /\ QueueGrows("fast")
    BY <1>1, <1>2 DEF LaneInv, HandSafe, HandStates, QueueGrows, Cur
  <1>8. pc'["fast"] = "rmProc" => Range(lines["fast"]) \subseteq Safe("fast")'
    <2> SUFFICES ASSUME pc'["fast"] = "rmProc" PROVE Range(lines["fast"]) \subseteq Safe("fast")'
      OBVIOUS
    <2>1. pc["fast"] = "endFlush" /\ ~MoreLines("fast")
      BY <1>1
    <2>2. Range(lines["fast"]) \subseteq SoFar("fast")
      BY <2>1, SoFarAll
    <2> QED
      BY <1>2, <1>4, <1>5, <2>1, <2>2
  <1> QED
    BY <1>1, <1>3, <1>4, <1>6, <1>7, <1>8, BatchStep

\* The fast lane's own steps.
LEMMA FastLoss ==
    ASSUME FileTypes, StoreTypes, LaneTypes, LaneInv("fast"), Safe("fast") \subseteq Safe("fast")',
           LogGrows, FastOnly
    PROVE  LaneInv("fast")' /\ Held("fast") \subseteq Held("fast")'
  <1> DEFINE Goal == LaneInv("fast")' /\ Held("fast") \subseteq Held("fast")'
  <1> USE TwoLanes DEF FileTypes, LaneTypes
  <1>1. ASSUME NEW i \in Items, Coalesce(i) PROVE Goal
    <2>1. /\ pc["fast"] = "item" /\ MoreLines("fast") /\ i = Cur("fast")
          /\ UNCHANGED <<queue, processing, claimed, ckpt, acks, lines, pending>>
      BY <1>1 DEF Coalesce, FastItem
    <2>2. i \in Safe("fast")'
      BY <1>1 DEF Coalesce, Safe, Settled
    <2>3. CASE NeedsAck(i)
      <3>1. pc'["fast"] = "ackSync" /\ idx' = idx
        BY <1>1, <2>3 DEF Coalesce
      <3> QED
        BY <2>1, <2>2, <3>1, FastHolds
    <2>4. CASE ~NeedsAck(i)
      <3>1. pc'["fast"] = "item" /\ idx'["fast"] = idx["fast"] + 1
        BY <1>1, <2>1, <2>4 DEF Coalesce
      <3> QED
        BY <2>1, <2>2, <3>1, FastDone
    <2> QED
      BY <2>3, <2>4
  <1>2. ASSUME NEW i \in Items, Apply(i) PROVE Goal
    <2>1. /\ pc["fast"] = "item" /\ MoreLines("fast") /\ i = Cur("fast")
          /\ UNCHANGED <<queue, processing, claimed, ckpt, acks, lines, pending>>
      BY <1>2 DEF Apply, FastItem
    <2>2. i \in Range(log')
      BY <1>2, AppendGrows DEF Apply, Stored
    <2>3. CASE NeedsAck(i)
      <3>1. pc'["fast"] = "ackSync" /\ idx' = idx
        BY <1>2, <2>3 DEF Apply
      <3> QED
        BY <2>1, <2>2, <3>1, FastHolds
    <2>4. CASE ~NeedsAck(i)
      <3>1. pc'["fast"] \in {"item", "ckptSync"} /\ idx'["fast"] = idx["fast"] + 1
        BY <1>2, <2>4 DEF Apply, Done
      <3> QED
        BY <2>1, <2>2, <3>1, FastDone
    <2> QED
      BY <2>3, <2>4
  <1>3. ASSUME NEW i \in Items, DeadLetter(i) PROVE Goal
    <2>1. /\ pc["fast"] = "item" /\ MoreLines("fast") /\ i = Cur("fast")
          /\ UNCHANGED <<queue, processing, claimed, ckpt, acks, lines, pending>>
          /\ pc'["fast"] \in {"item", "ckptSync"} /\ idx'["fast"] = idx["fast"] + 1
      BY <1>3 DEF DeadLetter, FastItem, Done
    <2>2. i \in Safe("fast")'
      BY <1>3 DEF DeadLetter, WriteFailedItem, Safe, Settled, GivenUp
    <2> QED
      BY <2>1, <2>2, FastDone
  <1>4. ASSUME NEW i \in Items, Reroute(i) PROVE Goal
    <2>1. /\ pc["fast"] = "item" /\ MoreLines("fast") /\ i = Cur("fast")
          /\ UNCHANGED <<queue, processing, claimed, ckpt, acks, lines>>
          /\ pending' = Append(pending, i)
      BY <1>4 DEF Reroute, FastItem
    <2>2. Range(pending) \subseteq Range(pending') /\ i \in Range(pending')
      <3>1. pending \in Seq(Items)
        OBVIOUS
      <3>2. Range(Append(pending, i)) = Range(pending) \cup {i}
        BY <3>1, AppendRange
      <3> QED
        BY <2>1, <3>2
    <2>3. CASE NeedsAck(i)
      <3>1. pc'["fast"] = "handSync" /\ idx' = idx
        BY <1>4, <2>3 DEF Reroute
      <3> QED
        BY <2>1, <2>2, <3>1, FastHolds
    <2>4. CASE ~NeedsAck(i)
      <3>1. pc'["fast"] \in {"item", "ckptSync"} /\ idx'["fast"] = idx["fast"] + 1
        BY <1>4, <2>4 DEF Reroute, Done
      <3> QED
        BY <2>1, <2>2, <3>1, FastDone
    <2> QED
      BY <2>3, <2>4
  <1>5. CASE FlushSlow
    BY <1>5, FlushLoss
  <1>6. CASE FlushFails
    <2>1. /\ pc["fast"] \in {"handFlush", "ckptFlush", "endFlush"} /\ pc'["fast"] = "paused"
          /\ UNCHANGED <<queue, processing, claimed, ckpt, acks, lines>>
      BY <1>6 DEF FlushFails
    <2>2. pc["fast"] \in Batch /\ pc'["fast"] \notin Batch
      BY <2>1 DEF Batch, HandStates, AckStates, Synced, Flushing
    <2>3. HandSafe("fast")' /\ QueueGrows("fast")
      BY <2>1 DEF HandSafe, HandStates, QueueGrows
    <2> QED
      BY <2>1, <2>2, <2>3, BatchStep
  <1>7. CASE FastBatchEnd
    <2>1. /\ pc["fast"] = "item" /\ pc'["fast"] = "endSync"
          /\ UNCHANGED <<queue, processing, claimed, ckpt, acks, lines, idx, pending>>
      BY <1>7 DEF FastBatchEnd
    <2> QED
      BY <2>1, FastHolds
  <1> QED
    BY <1>1, <1>2, <1>3, <1>4, <1>5, <1>6, <1>7 DEF FastOnly

-------------------------------------------------------------------------------
(* The steps of the slow lane.                                             *)

\* The line in hand is safe or applied: on to the checkpoint, or to the ack.
LEMMA SlowDone ==
    ASSUME FileTypes, LaneTypes, LaneInv("slow"), Safe("slow") \subseteq Safe("slow")', LogGrows,
           UNCHANGED <<queue, processing, claimed, ckpt, acks, lines>>,
           pc["slow"] \in {"item", "distill"}, MoreLines("slow"), pc'["slow"] = "ckptSync",
           idx'["slow"] = idx["slow"] + 1,
           Cur("slow") \in Safe("slow")' \cup Range(log')
    PROVE  LaneInv("slow")' /\ Held("slow") \subseteq Held("slow")'
  <1> USE TwoLanes
  <1>1. pc["slow"] \in Batch /\ pc'["slow"] \in Batch
    BY DEF Batch
  <1>2. SoFar("slow") \subseteq Safe("slow")
    BY <1>1 DEF LaneInv, GoneThrough, Unsynced, Buffered
  <1>3. SoFar("slow")' = SoFar("slow") \cup {Cur("slow")} /\ idx'["slow"] <= Len(lines["slow"])
    BY SoFarNext
  <1>4. Unsynced("slow")' = Range(log')
    BY DEF Unsynced
  <1>5. SoFar("slow")' \subseteq Safe("slow")' \cup Unsynced("slow")' \cup Buffered("slow")'
    BY <1>2, <1>3, <1>4
  <1>6. HandSafe("slow")' /\ QueueGrows("slow")
    BY DEF HandSafe, HandStates, QueueGrows
  <1> QED
    BY <1>1, <1>3, <1>5, <1>6, BatchStep

\* The lane goes on with the same line, or ends its batch.
LEMMA SlowHolds ==
    ASSUME FileTypes, LaneTypes, LaneInv("slow"), Safe("slow") \subseteq Safe("slow")',
           UNCHANGED <<processing, claimed, ckpt, acks, lines, idx>>, QueueGrows("slow"),
           pc["slow"] \in {"item", "probe", "distill", "defer"},
           pc'["slow"] \in {"probe", "distill", "defer", "ackSync", "stopCkpt", "rmProc"},
           pc'["slow"] = "ackSync" => Cur("slow") \in Safe("slow")' \cup Range(log'),
           pc'["slow"] = "rmProc" => Range(lines["slow"]) \subseteq SoFar("slow") \cup Range(queue'["slow"])
    PROVE  LaneInv("slow")' /\ Held("slow") \subseteq Held("slow")'
  <1> USE TwoLanes
  <1>1. pc["slow"] \in Batch /\ pc'["slow"] \in Batch
    BY DEF Batch, AckStates, Synced
  <1>2. SoFar("slow") \subseteq Safe("slow") /\ idx["slow"] <= Len(lines["slow"])
    BY <1>1 DEF LaneInv, GoneThrough, Unsynced, Buffered
  <1>3. SoFar("slow")' = SoFar("slow")
    BY SoFarSame
  <1>4. SoFar("slow")' \subseteq Safe("slow")' \cup Unsynced("slow")' \cup Buffered("slow")'
    BY <1>2, <1>3
  <1>5. HandSafe("slow")'
    BY DEF HandSafe, HandStates, Cur
  <1>6. pc'["slow"] = "rmProc" => Range(lines["slow"]) \subseteq Safe("slow")' \cup Range(queue'["slow"])
    BY <1>2
  <1> QED
    BY <1>1, <1>2, <1>4, <1>5, <1>6, BatchStep

\* The slow lane's own steps.
LEMMA SlowLoss ==
    ASSUME FileTypes, StoreTypes, LaneTypes, AckLane("slow"), LaneInv("slow"),
           Safe("slow") \subseteq Safe("slow")', LogGrows, SlowOnly
    PROVE  LaneInv("slow")' /\ Held("slow") \subseteq Held("slow")'
  <1> DEFINE Goal == LaneInv("slow")' /\ Held("slow") \subseteq Held("slow")'
  <1> USE TwoLanes DEF FileTypes, LaneTypes
  <1>1. ASSUME NEW i \in Distills, BumpAttempt(i) PROVE Goal
    <2>1. /\ pc["slow"] = "item" /\ pc'["slow"] = "probe" /\ QueueGrows("slow")
          /\ UNCHANGED <<processing, claimed, ckpt, acks, lines, idx>>
      BY <1>1 DEF BumpAttempt, SlowItem, QueueGrows
    <2> QED
      BY <2>1, SlowHolds
  <1>2. ASSUME NEW i \in Distills, PoisonPill(i) PROVE Goal
    <2>1. /\ pc["slow"] = "item" /\ MoreLines("slow") /\ i = Cur("slow") /\ pc'["slow"] = "ckptSync"
          /\ UNCHANGED <<queue, processing, claimed, ckpt, acks, lines>> /\ idx'["slow"] = idx["slow"] + 1
      BY <1>2 DEF PoisonPill, SlowItem, Done
    <2>2. i \in Safe("slow")'
      BY <1>2 DEF PoisonPill, WriteFailedItem, Safe, Settled, GivenUp
    <2> QED
      BY <2>1, <2>2, SlowDone
  <1>3. ASSUME NEW i \in Distills, Distill(i) PROVE Goal
    <2>1. /\ pc["slow"] = "distill" /\ i = Cur("slow")
          /\ UNCHANGED <<queue, processing, claimed, ckpt, acks, lines>>
      BY <1>3 DEF Distill
    <2>2. MoreLines("slow")
      BY <2>1 DEF AckLane, InHand, Hot, Working
    <2>3. i \in Safe("slow")' \cup Range(log')
      <3>1. i \in Range(log') \cup Unstored'
        BY <1>3, AppendGrows DEF Distill, DistillOutcome, Stored, Unstored
      <3> QED
        BY <3>1 DEF Safe, Settled, GivenUp
    <2>4. CASE NeedsAck(i)
      <3>1. pc'["slow"] = "ackSync" /\ idx' = idx /\ QueueGrows("slow")
        BY <1>3, <2>1, <2>4 DEF Distill, QueueGrows
      <3> QED
        BY <2>1, <2>3, <3>1, SlowHolds
    <2>5. CASE ~NeedsAck(i)
      <3>1. pc'["slow"] = "ckptSync" /\ idx'["slow"] = idx["slow"] + 1
        BY <1>3, <2>5 DEF Distill, Done
      <3> QED
        BY <2>1, <2>2, <2>3, <3>1, SlowDone
    <2> QED
      BY <2>4, <2>5
  <1>4. ASSUME NEW i \in Distills, DistillFails(i) PROVE Goal
    <2>1. /\ pc["slow"] = "distill" /\ i = Cur("slow") /\ pc'["slow"] = "ckptSync"
          /\ UNCHANGED <<queue, processing, claimed, ckpt, acks, lines>> /\ idx'["slow"] = idx["slow"] + 1
      BY <1>4 DEF DistillFails, Done
    <2>2. MoreLines("slow")
      BY <2>1 DEF AckLane, InHand, Hot, Working
    <2>3. i \in Safe("slow")'
      BY <1>4 DEF DistillFails, WriteFailedItem, Safe, Settled, GivenUp
    <2> QED
      BY <2>1, <2>2, <2>3, SlowDone
  <1>5. CASE EndpointUp \/ EndpointDown
    <2>1. /\ pc["slow"] = "probe" /\ pc'["slow"] \in {"distill", "defer"} /\ QueueGrows("slow")
          /\ UNCHANGED <<processing, claimed, ckpt, acks, lines, idx>>
      BY <1>5 DEF EndpointUp, EndpointDown, QueueGrows
    <2> QED
      BY <2>1, SlowHolds
  <1>6. CASE Defer
    <2>1. /\ pc["slow"] = "defer" /\ pc'["slow"] = "rmProc" /\ queue'["slow"] = queue["slow"] \o Remainder
          /\ UNCHANGED <<processing, claimed, ckpt, acks, lines, idx>>
      BY <1>6 DEF Defer
    <2>2. /\ lines["slow"] \in Seq(Items) /\ idx["slow"] \in Nat /\ Remainder \in Seq(Items)
          /\ Len(lines["slow"]) \in Nat /\ DOMAIN lines["slow"] = 1 .. Len(lines["slow"])
      BY DEF Remainder
    <2>3. Range(lines["slow"]) \subseteq SoFar("slow") \cup Range(Remainder)
      <3> SUFFICES ASSUME NEW k \in 1 .. Len(lines["slow"]), ~(k \in 1 .. idx["slow"])
                   PROVE  lines["slow"][k] \in Range(Remainder)
        BY <2>2 DEF Range, SoFar
      <3> DEFINE m == idx["slow"] + 1
                 n == Len(lines["slow"])
      <3>1. m \in 1 .. n + 1 /\ n \in Nat /\ k \in m .. n
        BY <2>2
      <3>2. Remainder = SubSeq(lines["slow"], m, n)
        BY DEF Remainder
      <3>3. k - m + 1 \in 1 .. n - m + 1 /\ m + (k - m + 1) - 1 = k /\ m \in Int /\ n \in Int /\ m <= n
        <4> HIDE DEF m, n
        <4> QED
          BY <3>1
      <3>4. /\ Len(Remainder) = n - m + 1 /\ DOMAIN Remainder = 1 .. n - m + 1
            /\ Remainder[k - m + 1] = lines["slow"][m + (k - m + 1) - 1]
        <4>1. \A j \in m .. n : lines["slow"][j] \in Items
          BY <2>2, <3>1, SMTT(30)
        <4> HIDE DEF m, n
        <4>2. /\ Len(SubSeq(lines["slow"], m, n)) = n - m + 1
              /\ \A j \in 1 .. n - m + 1 : SubSeq(lines["slow"], m, n)[j] = lines["slow"][m + j - 1]
          BY <3>3, <4>1, SubSeqProperties
        <4>3. DOMAIN Remainder = 1 .. Len(Remainder)
          BY <2>2
        <4> QED
          BY <3>2, <3>3, <4>2, <4>3
      <3>5. k - m + 1 \in DOMAIN Remainder /\ Remainder[k - m + 1] = lines["slow"][k]
        BY <3>3, <3>4
      <3> QED
        BY <3>5 DEF Range
    <2>4. Range(queue'["slow"]) = Range(queue["slow"]) \cup Range(Remainder)
      BY <2>1, <2>2, ConcatRange
    <2> QED
      BY <2>1, <2>3, <2>4, SlowHolds DEF QueueGrows
  <1>7. CASE SlowBatchEnd
    <2>1. /\ pc["slow"] = "item" /\ pc'["slow"] = IF MoreLines("slow") THEN "stopCkpt" ELSE "rmProc"
          /\ QueueGrows("slow")
          /\ UNCHANGED <<processing, claimed, ckpt, acks, lines, idx>>
      BY <1>7 DEF SlowBatchEnd, QueueGrows
    <2>2. ~MoreLines("slow") => Range(lines["slow"]) \subseteq SoFar("slow")
      BY SoFarAll
    <2> QED
      BY <2>1, <2>2, SlowHolds
  <1> QED
    BY <1>1, <1>2, <1>3, <1>4, <1>5, <1>6, <1>7 DEF SlowOnly

-------------------------------------------------------------------------------
(* Hooks and restarts.                                                     *)

\* A line that does not come too late is queued, or in a file still to be read.
LEMMA HookLoss ==
    ASSUME FileTypes, StoreTypes, LaneTypes, RestTypes, HooksFollow, \A l \in Lanes : LaneInv(l),
           breach' = {},
           NEW i \in Items, HookWrite(i)
    PROVE  (\A l \in Lanes : LaneInv(l)') /\ Held("fast") \cup {i} \subseteq Held("fast")'
  <1> USE TwoLanes DEF FileTypes, LaneTypes
  <1>0. Growth /\ LogGrows /\ Stays("fast") /\ Stays("slow")
    BY OtherFrame
  <1>1. /\ UNCHANGED <<claimed, ckpt, pending>> /\ processing'["slow"] = processing["slow"]
        /\ queue'["slow"] = queue["slow"]
    BY DEF HookWrite
  <1>2. LaneInv("slow")' /\ Safe("fast") \subseteq Safe("fast")'
    BY <1>0, <1>1, SlowRests DEF Untouched, QueueGrows
  <1>3. CASE hook[i] # "proc"
    <2>1. hook[i] \in {"new", "queue"}
      BY <1>3 DEF HookWrite, TooLate
    <2>2. processing' = processing /\ queue'["fast"] = queue["fast"] \o <<i>> /\ <<i>> \in Seq(Items)
      BY <1>3, <2>1, SMTT(30) DEF HookWrite
    <2>3. Range(queue'["fast"]) = Range(queue["fast"]) \cup Range(<<i>>) /\ i \in Range(<<i>>)
      <3>1. i \in Range(<<i>>)
        BY DEF Range
      <3> QED
        BY <2>2, <3>1, ConcatRange
    <2>4. LaneInv("fast")' /\ Held("fast") \subseteq Held("fast")'
      BY <1>0, <1>1, <1>2, <2>2, <2>3, LaneUntouched DEF Untouched, QueueGrows
    <2> QED
      BY <1>2, <2>3, <2>4 DEF Held, Lanes
  <1>4. CASE hook[i] = "proc"
    <2>1. claimed["fast"] /\ pc["fast"] \in {"claimed", "recover"}
      BY <1>4 DEF HooksFollow, HookWrite, TooLate
    <2>2. /\ queue' = queue /\ processing'["fast"] = Append(processing["fast"], i)
      BY <1>4 DEF HookWrite
    <2> DEFINE n == Len(processing["fast"])
    <2>3. /\ n \in Nat /\ Len(processing'["fast"]) = n + 1 /\ processing'["fast"][n + 1] = i
          /\ \A k \in 1 .. n : processing'["fast"][k] = processing["fast"][k]
          /\ ckpt["fast"] \in Nat /\ ckpt["fast"] <= n
      BY <2>1, <2>2 DEF LaneInv, Watermark
    <2>4. /\ Left("fast") = {processing["fast"][k] : k \in Remaining("fast")}
          /\ Left("fast")' = {processing'["fast"][k] : k \in Remaining("fast")'}
      BY <1>1, <2>1 DEF Left
    <2>5. /\ \A k \in Remaining("fast") : k \in Remaining("fast")' /\ k \in 1 .. n
          /\ i \notin acks["fast"] => n + 1 \in Remaining("fast")'
      <3>1. acks'["fast"] = acks["fast"] /\ ckpt'["fast"] = ckpt["fast"]
        BY <1>0, <1>1 DEF Stays
      <3>2. \A k \in (ckpt["fast"] + 1) .. n :
              k \in 1 .. n /\ k \in (ckpt'["fast"] + 1) .. Len(processing'["fast"])
        BY <2>3, <3>1
      <3>3. n + 1 \in (ckpt'["fast"] + 1) .. Len(processing'["fast"])
        BY <2>3, <3>1
      <3>4. \A k \in Remaining("fast") : k \in Remaining("fast")' /\ k \in 1 .. n
        BY <2>3, <3>1, <3>2 DEF Remaining
      <3> QED
        BY <2>3, <3>1, <3>3, <3>4 DEF Remaining
    <2>6. Left("fast") \subseteq Left("fast")' /\ i \in Left("fast")' \cup acks["fast"]
      <3> HIDE DEF n
      <3> QED
        BY <2>3, <2>4, <2>5
    <2>7. acks["fast"] \subseteq Safe("fast")'
      BY <1>2 DEF LaneInv, Skipped
    <2>8. Watermark("fast")'
      BY <1>0, <1>1, <2>1, <2>3 DEF LaneInv, Watermark, Stays
    <2>9. Skipped("fast")'
      <3>1. \A k \in 1 .. ckpt["fast"] : processing["fast"][k] \in Safe("fast")' /\ k \in 1 .. n
        BY <1>2, <2>1, <2>3, SMTT(30) DEF LaneInv, Skipped
      <3> QED
        BY <1>0, <1>1, <2>3, <2>7, <3>1 DEF Skipped, Stays
    <2>10. GoneThrough("fast")' /\ HandSafe("fast")' /\ RemovalSafe("fast")'
      BY <1>0, <2>1 DEF Stays, GoneThrough, HandSafe, RemovalSafe, Batch, HandStates, AckStates, Synced, Flushing
    <2> QED
      BY <1>2, <2>2, <2>6, <2>7, <2>8, <2>9, <2>10 DEF LaneInv, Held, Lanes
  <1> QED
    BY <1>3, <1>4

\* A restart finds what was recoverable, if every watermark has its file.
LEMMA RebootLoss ==
    ASSUME FileTypes, StoreTypes, LaneTypes, \A l \in Lanes : LaneInv(l), breach' = {}, Restart \/ Crash
    PROVE  (\A l \in Lanes : LaneInv(l)') /\ Held("fast") \subseteq Held("fast")'
  <1>0. /\ Growth /\ UNCHANGED <<queue, processing, claimed, ckpt, acks>>
        /\ \A l \in Lanes : pc'[l] = "recover" /\ ~(~claimed[l] /\ ckpt[l] > 0)
    BY TwoLanes, RebootFrame
  <1>1. Left("slow")' = Left("slow") /\ Left("fast")' = Left("fast")
    BY <1>0, TwoLanes, LeftSame
  <1>2. Safe("slow") \subseteq Safe("slow")'
    BY <1>0, SettledGrows
  <1>3. Safe("fast") \subseteq Safe("fast")'
    BY <1>0, <1>1, <1>2 DEF Safe
  <1>4. ASSUME NEW l \in Lanes PROVE LaneInv(l)'
    <2>1. Safe(l) \subseteq Safe(l)'
      BY <1>2, <1>3 DEF Lanes
    <2>2. Watermark(l)' /\ Skipped(l)'
      BY <1>0, <2>1 DEF LaneInv, Watermark, Skipped, Fresh, Batch, HandStates, AckStates, Synced, Flushing
    <2>3. GoneThrough(l)' /\ HandSafe(l)' /\ RemovalSafe(l)'
      BY <1>0 DEF GoneThrough, HandSafe, RemovalSafe, Batch, HandStates, AckStates, Synced, Flushing
    <2> QED
      BY <2>2, <2>3 DEF LaneInv
  <1> QED
    BY <1>0, <1>1, <1>3, <1>4 DEF Held

\* What the hooks hold open exists.
LEMMA HooksKept ==
    ASSUME FileTypes, LaneTypes, RestTypes, HooksFollow, Next
    PROVE  HooksFollow'
  <1> USE TwoLanes DEF FileTypes, RestTypes, HooksFollow
  <1>1. ASSUME NEW i \in Items, HookOpen(i) \/ HookWrite(i) PROVE HooksFollow'
    BY <1>1 DEF HookOpen, HookWrite
  <1>2. CASE Shutdown \/ Restart \/ Crash \/ FastOnly \/ SlowOnly
    <2>1. hook' = hook /\ claimed' = claimed
      <3>1. CASE Shutdown \/ Restart \/ Crash
        BY <3>1 DEF Shutdown, Restart, Crash
      <3>2. CASE FastOnly
        BY <3>2 DEF FastOnly, Coalesce, Apply, DeadLetter, Reroute, FlushSlow, FlushFails, FastBatchEnd
      <3>3. CASE SlowOnly
        BY <3>3 DEF SlowOnly, BumpAttempt, PoisonPill, Distill, DistillFails, EndpointUp, EndpointDown,
                    Defer, SlowBatchEnd
      <3> QED
        BY <1>2, <3>1, <3>2, <3>3
    <2> QED
      BY <2>1
  <1>3. ASSUME NEW l \in Lanes, LaneStep(l) \/ SyncFails(l) PROVE HooksFollow'
    <2>1. CASE Claim(l)
      BY <2>1 DEF Claim, Follow
    <2>2. CASE RemoveProcessing(l)
      BY <2>2 DEF RemoveProcessing, Follow
    <2>3. CASE ReadLines(l) /\ processing[l] = <<>>
      BY <2>3 DEF ReadLines, Follow
    <2>4. CASE ReadLines(l) /\ processing[l] # <<>>
      BY <2>4 DEF ReadLines
    <2>5. CASE \/ RemoveCkpt(l) \/ WriteCkpt(l) \/ SyncStore(l) \/ RecordAck(l) \/ SkipAcked(l)
               \/ LaneStops(l) \/ Recover(l) \/ SyncFails(l)
      BY <2>5 DEF RemoveCkpt, WriteCkpt, SyncStore, RecordAck, SkipAcked, LaneStops, Recover, SyncFails
    <2> QED
      BY <1>3, <2>1, <2>2, <2>3, <2>4, <2>5 DEF LaneStep
  <1> QED
    BY <1>1, <1>2, <1>3, Steps

\* No step puts an accepted item that no lane has given up out of reach, but in one
\* of the four breaches.
LEMMA LossKept ==
    ASSUME FileTypes, StoreTypes, LaneTypes, RestTypes, \A l \in Lanes : AckLane(l), HooksFollow,
           LossInv, Next
    PROVE  LossInv'
  <1> SUFFICES ASSUME breach' = {} PROVE Kept' /\ \A l \in Lanes : LaneInv(l)'
    BY DEF LossInv
  <1> USE TwoLanes
  <1> DEFINE Goal == Kept' /\ \A l \in Lanes : LaneInv(l)'
  <1>0. ASSUME breach \subseteq breach' PROVE Kept /\ \A l \in Lanes : LaneInv(l)
    <2>1. breach = {}
      BY <1>0
    <2> QED
      BY <2>1 DEF LossInv
  <1>1. ASSUME NEW i \in Items, HookWrite(i) PROVE Goal
    <2>1. Growth
      BY <1>1, OtherFrame
    <2>2. Kept /\ \A l \in Lanes : LaneInv(l)
      BY <1>0, <2>1 DEF Growth
    <2>3. (\A l \in Lanes : LaneInv(l)') /\ Held("fast") \cup {i} \subseteq Held("fast")'
      BY <1>1, <2>2, HookLoss
    <2>4. accepted' \subseteq accepted \cup {i}
      BY <1>1 DEF HookWrite
    <2> QED
      BY <2>2, <2>3, <2>4 DEF Kept
  <1>2. CASE (\E i \in Items : HookOpen(i)) \/ Shutdown
    <2>1. Growth /\ LogGrows /\ UNCHANGED <<queue, processing, claimed, ckpt, acks, pending, accepted>>
      BY <1>2, OtherFrame DEF HookOpen, Shutdown
    <2>2. /\ Untouched("slow") /\ QueueGrows("slow")
          /\ Untouched("fast") /\ QueueGrows("fast")
      BY <1>2, <2>1, OtherFrame DEF Untouched, QueueGrows
    <2>3. Kept /\ \A l \in Lanes : LaneInv(l)
      BY <1>0, <2>1 DEF Growth
    <2>4. LaneInv("slow")' /\ Safe("fast") \subseteq Safe("fast")'
      BY <2>1, <2>2, <2>3, SlowRests
    <2>5. LaneInv("fast")' /\ Held("fast") \subseteq Held("fast")'
      BY <2>1, <2>2, <2>3, <2>4, LaneUntouched
    <2> QED
      BY <2>1, <2>3, <2>4, <2>5 DEF Kept, Lanes
  <1>3. CASE Restart \/ Crash
    <2>1. Growth /\ accepted' = accepted
      BY <1>3, RebootFrame
    <2>2. Kept /\ \A l \in Lanes : LaneInv(l)
      BY <1>0, <2>1 DEF Growth
    <2>3. (\A l \in Lanes : LaneInv(l)') /\ Held("fast") \subseteq Held("fast")'
      BY <1>3, <2>2, RebootLoss
    <2> QED
      BY <2>1, <2>2, <2>3 DEF Kept
  <1>4. CASE FastOnly \/ LaneStep("fast") \/ SyncFails("fast")
    <2>1. Growth /\ LogGrows /\ Untouched("slow") /\ QueueGrows("slow")
      <3>1. CASE FastOnly
        BY <3>1, FastFrame
      <3>2. CASE LaneStep("fast") \/ SyncFails("fast")
        <4>1. "slow" \in Lanes \ {"fast"}
          BY DEF Lanes
        <4> QED
          BY <3>2, <4>1, LaneFrame DEF QueueGrows
      <3> QED
        BY <1>4, <3>1, <3>2
    <2>2. accepted' = accepted
      BY <1>4 DEF FastOnly, Coalesce, Apply, DeadLetter, Reroute, FlushSlow, FlushFails, FastBatchEnd,
                  LaneStep, Claim, ReadLines, RemoveProcessing, RemoveCkpt, WriteCkpt, SyncStore,
                  RecordAck, SkipAcked, LaneStops, Recover, SyncFails
    <2>3. Kept /\ \A l \in Lanes : LaneInv(l)
      BY <1>0, <2>1 DEF Growth
    <2>4. LaneInv("slow")' /\ Safe("fast") \subseteq Safe("fast")'
      BY <2>1, <2>3, SlowRests
    <2>5. LaneInv("fast")' /\ Held("fast") \subseteq Held("fast")'
      <3>1. CASE FastOnly
        BY <2>1, <2>3, <2>4, <3>1, FastLoss
      <3>2. CASE LaneStep("fast") \/ SyncFails("fast")
        BY <2>3, <2>4, <3>2, LaneLoss
      <3> QED
        BY <1>4, <3>1, <3>2
    <2> QED
      BY <2>2, <2>3, <2>4, <2>5 DEF Kept, Lanes
  <1>5. CASE SlowOnly \/ LaneStep("slow") \/ SyncFails("slow")
    <2>1. Growth /\ LogGrows /\ Untouched("fast") /\ QueueGrows("fast") /\ pending' = pending
      <3>1. CASE SlowOnly
        BY <3>1, SlowFrame DEF QueueGrows
      <3>2. CASE LaneStep("slow") \/ SyncFails("slow")
        <4>1. "fast" \in Lanes \ {"slow"}
          BY DEF Lanes
        <4> QED
          BY <3>2, <4>1, LaneFrame DEF QueueGrows
      <3> QED
        BY <1>5, <3>1, <3>2
    <2>2. accepted' = accepted
      BY <1>5 DEF SlowOnly, BumpAttempt, PoisonPill, Distill, DistillFails, EndpointUp, EndpointDown, Defer,
                  SlowBatchEnd, LaneStep, Claim, ReadLines, RemoveProcessing, RemoveCkpt, WriteCkpt,
                  SyncStore, RecordAck, SkipAcked, LaneStops, Recover, SyncFails
    <2>3. Kept /\ \A l \in Lanes : LaneInv(l)
      BY <1>0, <2>1 DEF Growth
    <2>4. Safe("slow") \subseteq Safe("slow")'
      BY <2>1, SettledGrows
    <2>5. LaneInv("slow")' /\ Held("slow") \subseteq Held("slow")'
      <3>1. CASE SlowOnly
        BY <2>1, <2>3, <2>4, <3>1, SlowLoss
      <3>2. CASE LaneStep("slow") \/ SyncFails("slow")
        BY <2>3, <2>4, <3>2, LaneLoss
      <3> QED
        BY <1>5, <3>1, <3>2
    <2>6. (\A l \in Lanes : LaneInv(l)') /\ Held("fast") \subseteq Held("fast")'
      BY <2>1, <2>3, <2>5, SlowMoves
    <2> QED
      BY <2>2, <2>3, <2>6 DEF Kept
  <1> QED
    BY <1>1, <1>2, <1>3, <1>4, <1>5, Steps DEF Lanes

-------------------------------------------------------------------------------
(* What is acknowledged is not applied again.                              *)

\* A step that moves no line.
LEMMA OnceQuiet ==
    ASSUME OnceInv, UNCHANGED <<queue, processing, acks, pending, hook, everAcked, lines>>,
           pc'["fast"] \in Batch => pc["fast"] \in Batch,
           pc'["fast"] = "claimed" => pc["fast"] = "claimed"
    PROVE  OnceInv'
  BY DEF OnceInv, SlowDistills, Unsent, OnePlace, NeverAgain

\* A hook writes a line once.
LEMMA OnceHooks ==
    ASSUME FileTypes, RestTypes, OnceInv, NEW i \in Items, HookOpen(i) \/ HookWrite(i)
    PROVE  OnceInv'
  <1> USE TwoLanes DEF FileTypes, RestTypes
  <1>1. CASE HookOpen(i)
    <2>1. /\ UNCHANGED <<queue, processing, acks, pending, everAcked, lines, pc>>
          /\ \A j \in Items : hook'[j] # "sent" => hook[j] # "sent"
      BY <1>1 DEF HookOpen
    <2> QED
      BY <2>1 DEF OnceInv, SlowDistills, Unsent, OnePlace, NeverAgain
  <1>2. CASE HookWrite(i)
    <2>1. /\ UNCHANGED <<acks, pending, everAcked, lines, pc>>
          /\ queue'["slow"] = queue["slow"] /\ processing'["slow"] = processing["slow"]
          /\ hook[i] # "sent" /\ hook'[i] = "sent" /\ \A j \in Items \ {i} : hook'[j] = hook[j]
      BY <1>2 DEF HookWrite
    <2>2. \/ processing' = processing /\ queue' = [queue EXCEPT !["fast"] = Append(queue["fast"], i)]
          \/ queue' = queue /\ processing' = [processing EXCEPT !["fast"] = Append(processing["fast"], i)]
          \/ UNCHANGED <<queue, processing>>
      BY <1>2 DEF HookWrite
    <2>3. \/ processing'["fast"] = processing["fast"] /\ queue'["fast"] = Append(queue["fast"], i)
          \/ queue'["fast"] = queue["fast"] /\ processing'["fast"] = Append(processing["fast"], i)
          \/ queue'["fast"] = queue["fast"] /\ processing'["fast"] = processing["fast"]
      BY <2>2
    <2>4. /\ Range(queue["fast"]) \subseteq Range(queue'["fast"])
          /\ Range(queue'["fast"]) \subseteq Range(queue["fast"]) \cup {i}
          /\ Range(processing["fast"]) \subseteq Range(processing'["fast"])
          /\ Range(processing'["fast"]) \subseteq Range(processing["fast"]) \cup {i}
      <3>1. queue["fast"] \in Seq(Items) /\ processing["fast"] \in Seq(Items)
        OBVIOUS
      <3>2. /\ Range(Append(queue["fast"], i)) = Range(queue["fast"]) \cup {i}
            /\ Range(Append(processing["fast"], i)) = Range(processing["fast"]) \cup {i}
        BY <3>1, AppendRange
      <3> QED
        BY <2>3, <3>2
    <2>5. i \notin Range(queue["fast"]) \cup Range(processing["fast"]) \cup (everAcked \ Distills)
      BY <2>1 DEF OnceInv, Unsent
    <2>6. SlowDistills' /\ Unsent'
      BY <2>1, <2>4 DEF OnceInv, SlowDistills, Unsent
    <2>7. OnePlace'
      BY <2>1, <2>3, <2>4, <2>5 DEF OnceInv, OnePlace
    <2>8. NeverAgain'
      BY <2>1, <2>4, <2>5 DEF OnceInv, NeverAgain
    <2> QED
      BY <2>6, <2>7, <2>8 DEF OnceInv
  <1> QED
    BY <1>1, <1>2

\* The steps both lanes have: a line goes back to the queue only while it is not acknowledged.
LEMMA OnceLane ==
    ASSUME FileTypes, LaneTypes, RestTypes, NEW l \in Lanes, AckLane(l), OnceInv, LaneStep(l) \/ SyncFails(l)
    PROVE  OnceInv'
  <1> USE TwoLanes DEF FileTypes, LaneTypes, RestTypes
  <1>1. CASE Claim(l)
    <2>1. /\ processing' = [processing EXCEPT ![l] = queue[l]] /\ queue' = [queue EXCEPT ![l] = <<>>]
          /\ UNCHANGED <<acks, pending, everAcked, lines>>
          /\ l = "slow" => pc'["fast"] = pc["fast"]
          /\ l = "fast" => pc'["fast"] = "claimed"
          /\ \A i \in Items : hook'[i] # "sent" => hook[i] # "sent"
      BY <1>1 DEF Claim, Follow
    <2>2. Range(<<>>) = {}
      BY DEF Range
    <2>3. CASE l = "fast"
      <3>1. /\ queue'["fast"] = <<>> /\ processing'["fast"] = queue["fast"] /\ pc'["fast"] \notin Batch
            /\ queue'["slow"] = queue["slow"] /\ processing'["slow"] = processing["slow"]
        BY <2>1, <2>3 DEF Batch, HandStates, AckStates, Synced, Flushing
      <3> QED
        BY <2>1, <2>2, <3>1, SMTT(30) DEF OnceInv, SlowDistills, Unsent, OnePlace, NeverAgain
    <2>4. CASE l = "slow"
      <3>1. /\ queue'["slow"] = <<>> /\ processing'["slow"] = queue["slow"] /\ pc'["fast"] = pc["fast"]
            /\ queue'["fast"] = queue["fast"] /\ processing'["fast"] = processing["fast"]
        BY <2>1, <2>4
      <3> QED
        BY <2>1, <2>2, <3>1 DEF OnceInv, SlowDistills, Unsent, OnePlace, NeverAgain
    <2> QED
      BY <2>3, <2>4 DEF Lanes
  <1>2. CASE ReadLines(l)
    <2>1. /\ UNCHANGED <<queue, processing, pending, everAcked>>
          /\ \A i \in Items : hook'[i] # "sent" => hook[i] # "sent"
      BY <1>2, SMTT(30) DEF ReadLines, Follow
    <2>2. /\ lines'["slow"] = lines["slow"] \/ lines'["slow"] = processing["slow"]
          /\ acks'["fast"] = acks["fast"] \/ acks'["fast"] = acks["fast"] \cap Range(processing["fast"])
          /\ l = "slow" => pc'["fast"] = pc["fast"] /\ lines'["fast"] = lines["fast"]
          /\ l = "fast" => pc["fast"] = "claimed" /\
               (pc'["fast"] = "idle" \/ (pc'["fast"] = "item" /\ lines'["fast"] = processing["fast"]))
      <3>1. CASE processing[l] = <<>>
        BY <1>2, <3>1 DEF ReadLines
      <3>2. CASE processing[l] # <<>>
        BY <1>2, <3>2, SMTT(30) DEF ReadLines
      <3> QED
        BY <3>1, <3>2
    <2>3. SlowDistills' /\ Unsent' /\ NeverAgain'
      BY <2>1, <2>2 DEF OnceInv, SlowDistills, Unsent, NeverAgain
    <2>4. OnePlace'
      BY <2>1, <2>2 DEF Lanes, OnceInv, OnePlace, Batch, HandStates, AckStates, Synced, Flushing
    <2> QED
      BY <2>3, <2>4 DEF OnceInv
  <1>3. CASE RemoveProcessing(l)
    <2>1. /\ processing' = [processing EXCEPT ![l] = <<>>] /\ UNCHANGED <<queue, acks, pending, everAcked, lines>>
          /\ \A i \in Items : hook'[i] # "sent" => hook[i] # "sent"
          /\ pc'["fast"] = pc["fast"] \/ pc'["fast"] \in {"rmCkpt", "reCkpt"}
          /\ l = "fast" => pc'["fast"] \in {"rmCkpt", "reCkpt"}
      BY <1>3 DEF RemoveProcessing, Follow
    <2>2. /\ Range(processing'["slow"]) \subseteq Range(processing["slow"])
          /\ Range(processing'["fast"]) \subseteq Range(processing["fast"])
          /\ l = "slow" => processing'["fast"] = processing["fast"]
      BY <2>1, SMTT(30) DEF Range
    <2> QED
      BY <2>1, <2>2 DEF Lanes, OnceInv, SlowDistills, Unsent, OnePlace, NeverAgain, Batch, HandStates, AckStates,
                        Synced, Flushing
  <1>4. CASE RecordAck(l)
    <2>1. /\ UNCHANGED <<queue, processing, pending, hook, lines>>
          /\ pc[l] = "ackWrite" /\ everAcked' = everAcked \cup {Cur(l)}
          /\ acks'[l] = acks[l] \cup {Cur(l)} /\ acks["fast"] \subseteq acks'["fast"]
          /\ pc'["fast"] = pc["fast"] \/ (pc'["fast"] \in {"item", "ckptSync"} /\ pc["fast"] \in Batch)
      BY <1>4 DEF RecordAck, Done, Lanes, Batch, AckStates
    <2>2. MoreLines(l)
      BY <2>1 DEF AckLane, InHand, Hot, AckStates
    <2>3. Cur(l) \in Range(lines[l])
      <3>1. idx[l] + 1 \in DOMAIN lines[l]
        BY <2>2, SMTT(30) DEF MoreLines
      <3> QED
        BY <3>1 DEF Cur, Range
    <2>4. OnePlace' /\ SlowDistills'
      BY <2>1 DEF OnceInv, OnePlace, SlowDistills, Batch
    <2>5. CASE l = "slow"
      <3>1. everAcked' \ Distills = everAcked \ Distills
        BY <2>1, <2>3, <2>5 DEF OnceInv, SlowDistills
      <3> QED
        BY <2>1, <2>4, <3>1 DEF OnceInv, Unsent, NeverAgain
    <2>6. CASE l = "fast"
      <3>1. Cur("fast") \in Range(processing["fast"]) /\ Cur("fast") \notin Range(queue["fast"])
        BY <2>1, <2>3, <2>6 DEF OnceInv, OnePlace, Batch, AckStates
      <3>2. NeverAgain'
        BY <2>1, <2>6, <3>1 DEF OnceInv, NeverAgain
      <3>3. Unsent'
        BY <2>1, <2>6, <3>1 DEF OnceInv, Unsent
      <3> QED
        BY <2>4, <3>2, <3>3 DEF OnceInv
    <2> QED
      BY <2>5, <2>6 DEF Lanes
  <1>5. CASE Recover(l)
    <2>1. /\ UNCHANGED <<processing, acks, pending, hook, everAcked, lines>>
          /\ queue' = queue \/ queue' = [queue EXCEPT ![l] = queue[l] \o Unprocessed(l)]
          /\ pc'["fast"] = pc["fast"] \/ pc'["fast"] \in {"idle", "reProc"}
          /\ l = "fast" => pc'["fast"] \in {"idle", "reProc"}
      BY <1>5 DEF Recover
    <2>2. /\ Unprocessed(l) \in Seq(Items)
          /\ Range(Unprocessed(l)) = {processing[l][k] : k \in Remaining(l)}
      BY UnprocessedRange
    <2>3. \A i \in Range(Unprocessed(l)) : i \in Range(processing[l]) /\ i \notin acks[l]
      <3>1. /\ processing[l] \in Seq(Items) /\ DOMAIN processing[l] = 1 .. Len(processing[l])
            /\ ckpt[l] \in Nat /\ Len(processing[l]) \in Nat
        OBVIOUS
      <3>2. \A k \in Remaining(l) : k \in DOMAIN processing[l] /\ processing[l][k] \notin acks[l]
        BY <3>1, SMTT(30) DEF Remaining
      <3>3. \A i \in Range(Unprocessed(l)) : \E k \in Remaining(l) : i = processing[l][k]
        BY <2>2
      <3>4. \A k \in DOMAIN processing[l] : processing[l][k] \in Range(processing[l])
        BY DEF Range
      <3> QED
        BY <3>2, <3>3, <3>4
    <2>4. Range(queue'[l]) \subseteq Range(queue[l]) \cup Range(Unprocessed(l))
      <3>1. queue[l] \in Seq(Items)
        OBVIOUS
      <3>2. Range(queue[l] \o Unprocessed(l)) = Range(queue[l]) \cup Range(Unprocessed(l))
        BY <2>2, <3>1, ConcatRange
      <3>3. queue'[l] = queue[l] \/ queue'[l] = queue[l] \o Unprocessed(l)
        BY <2>1
      <3> QED
        BY <3>2, <3>3
    <2>5. CASE l = "fast"
      <3>1. queue'["slow"] = queue["slow"] /\ pc'["fast"] \notin Batch \cup {"claimed"}
        BY <2>1, <2>5 DEF Batch, HandStates, AckStates, Synced, Flushing
      <3>2. NeverAgain'
        BY <2>1, <2>3, <2>4, <2>5 DEF OnceInv, NeverAgain
      <3>3. SlowDistills' /\ Unsent' /\ OnePlace'
        BY <2>1, <2>3, <2>4, <2>5, <3>1 DEF OnceInv, SlowDistills, Unsent, OnePlace
      <3> QED
        BY <3>2, <3>3 DEF OnceInv
    <2>6. CASE l = "slow"
      <3>1. queue'["fast"] = queue["fast"]
        BY <2>1, <2>6
      <3>2. Range(queue'["slow"]) \subseteq Range(queue["slow"]) \cup Range(processing["slow"])
        BY <2>3, <2>4, <2>6
      <3>3. OnePlace'
        BY <2>1, <3>1 DEF OnceInv, OnePlace, Batch, HandStates, AckStates, Synced, Flushing
      <3> QED
        BY <2>1, <3>1, <3>2, <3>3 DEF OnceInv, SlowDistills, Unsent, NeverAgain
    <2> QED
      BY <2>5, <2>6 DEF Lanes
  <1>6. CASE RemoveCkpt(l) \/ WriteCkpt(l) \/ SkipAcked(l) \/ LaneStops(l)
    <2>1. /\ UNCHANGED <<queue, processing, acks, pending, hook, everAcked, lines>>
          /\ pc'["fast"] \in Batch => pc["fast"] \in Batch
          /\ pc'["fast"] = "claimed" => pc["fast"] = "claimed"
      <3> USE DEF Batch, HandStates, AckStates, Synced, Flushing
      <3>1. CASE RemoveCkpt(l) \/ WriteCkpt(l)
        BY <3>1, SMTT(30) DEF RemoveCkpt, WriteCkpt
      <3>2. CASE SkipAcked(l) \/ LaneStops(l)
        BY <3>2, SMTT(30) DEF SkipAcked, LaneStops
      <3> QED
        BY <1>6, <3>1, <3>2
    <2> QED
      BY <2>1, OnceQuiet
  <1>7. CASE SyncStore(l) \/ SyncFails(l)
    <2>1. /\ UNCHANGED <<queue, processing, acks, pending, hook, everAcked, lines>>
          /\ pc'["fast"] \in Batch => pc["fast"] \in Batch
          /\ pc'["fast"] = "claimed" => pc["fast"] = "claimed"
      BY <1>7 DEF SyncStore, SyncFails, OnSyncFailure, AfterSync, Batch, HandStates, AckStates, Synced, Flushing
    <2> QED
      BY <2>1, OnceQuiet
  <1> QED
    BY <1>1, <1>2, <1>3, <1>4, <1>5, <1>6, <1>7 DEF LaneStep

\* The fast lane hands over nothing but distills.
LEMMA OnceFast ==
    ASSUME FileTypes, LaneTypes, OnceInv, FastOnly
    PROVE  OnceInv'
  <1> USE TwoLanes DEF FileTypes, LaneTypes
  <1>1. pc["fast"] \in Batch /\ pc'["fast"] # "claimed" /\ UNCHANGED <<processing, acks, hook, everAcked, lines>>
    <2>1. CASE \E i \in Items : Coalesce(i) \/ DeadLetter(i)
      BY <2>1 DEF Coalesce, DeadLetter, FastItem, Done, Batch
    <2>2. CASE \E i \in Items : Apply(i) \/ Reroute(i)
      BY <2>2 DEF Apply, Reroute, FastItem, Done, Batch
    <2>3. CASE FlushSlow \/ FlushFails \/ FastBatchEnd
      BY <2>3 DEF FlushSlow, FlushFails, FastBatchEnd, BatchDone, Batch, HandStates, Flushing
    <2> QED
      BY <2>1, <2>2, <2>3 DEF FastOnly
  <1>2. queue'["fast"] = queue["fast"]
    BY DEF FastOnly, Coalesce, DeadLetter, Apply, Reroute, FlushSlow, FlushFails, FastBatchEnd
  <1>3. Range(queue'["slow"]) \cup Range(pending') \subseteq Range(queue["slow"]) \cup Range(pending) \cup Distills
    <2>1. ASSUME NEW i \in Distills, pending' = Append(pending, i), queue' = queue
          PROVE  Range(queue'["slow"]) \cup Range(pending') \subseteq Range(queue["slow"]) \cup Range(pending) \cup Distills
      <3>1. pending \in Seq(Items) /\ i \in Items
        BY DEF Items
      <3> QED
        BY <2>1, <3>1, AppendRange
    <2>2. CASE FlushSlow
      <3>1. queue'["slow"] = queue["slow"] \o pending /\ pending' = <<>>
        BY <2>2 DEF FlushSlow
      <3>2. Range(pending') = {}
        BY <3>1 DEF Range
      <3> QED
        BY <3>1, <3>2, ConcatRange
    <2>3. CASE UNCHANGED <<queue, pending>>
      BY <2>3
    <2>4. \/ \E i \in Distills : pending' = Append(pending, i) /\ queue' = queue
          \/ FlushSlow
          \/ UNCHANGED <<queue, pending>>
      BY DEF FastOnly, Coalesce, DeadLetter, Apply, Reroute, FlushFails, FastBatchEnd
    <2> QED
      BY <2>1, <2>2, <2>3, <2>4
  <1> QED
    BY <1>1, <1>2, <1>3 DEF OnceInv, SlowDistills, Unsent, OnePlace, NeverAgain

\* The slow lane puts back its own lines.
LEMMA OnceSlow ==
    ASSUME FileTypes, LaneTypes, OnceInv, SlowOnly
    PROVE  OnceInv'
  <1> USE TwoLanes DEF FileTypes, LaneTypes
  <1>1. UNCHANGED <<processing, acks, hook, everAcked, lines, pending>> /\ pc'["fast"] = pc["fast"]
    <2>1. CASE \E i \in Distills : BumpAttempt(i) \/ PoisonPill(i)
      BY <2>1 DEF BumpAttempt, PoisonPill, Done
    <2>2. CASE \E i \in Distills : Distill(i) \/ DistillFails(i)
      BY <2>2 DEF Distill, DistillFails, Done
    <2>3. CASE EndpointUp \/ EndpointDown \/ Defer \/ SlowBatchEnd
      BY <2>3 DEF EndpointUp, EndpointDown, Defer, SlowBatchEnd
    <2> QED
      BY <2>1, <2>2, <2>3 DEF SlowOnly
  <1>2. CASE Defer
    <2>1. queue'["fast"] = queue["fast"] /\ queue'["slow"] = queue["slow"] \o Remainder
      BY <1>2 DEF Defer
    <2>2. Remainder \in Seq(Items) /\ Range(Remainder) \subseteq Range(lines["slow"])
      BY SMTT(30) DEF Remainder, Range
    <2>3. Range(queue'["slow"]) \subseteq Range(queue["slow"]) \cup Range(lines["slow"])
      BY <2>1, <2>2, ConcatRange
    <2> QED
      BY <1>1, <2>1, <2>3 DEF OnceInv, SlowDistills, Unsent, OnePlace, NeverAgain
  <1>3. CASE ~Defer
    <2>1. queue' = queue
      BY <1>3 DEF SlowOnly, BumpAttempt, PoisonPill, Distill, DistillFails, EndpointUp, EndpointDown, SlowBatchEnd
    <2> QED
      BY <1>1, <2>1, OnceQuiet
  <1> QED
    BY <1>2, <1>3

\* No step brings an acknowledged write back.
LEMMA OnceKept ==
    ASSUME FileTypes, StoreTypes, LaneTypes, RestTypes, \A l \in Lanes : AckLane(l), OnceInv, Next
    PROVE  OnceInv'
  <1>1. CASE Shutdown
    <2>1. UNCHANGED <<queue, processing, acks, pending, hook, everAcked, lines, pc>>
      BY <1>1 DEF Shutdown
    <2> QED
      BY <2>1, OnceQuiet
  <1>2. CASE Restart \/ Crash
    <2>1. /\ UNCHANGED <<queue, processing, acks, hook, everAcked>> /\ pc'["fast"] = "recover"
          /\ lines'["slow"] = <<>> /\ pending' = <<>>
      BY <1>2, TwoLanes DEF Restart, Crash, Reboot
    <2>2. Range(<<>>) = {}
      BY DEF Range
    <2> QED
      BY <2>1, <2>2 DEF OnceInv, SlowDistills, Unsent, OnePlace, NeverAgain, Batch, HandStates, AckStates,
                        Synced, Flushing
  <1> QED
    BY <1>1, <1>2, Steps, OnceHooks, OnceLane, OnceFast, OnceSlow

-------------------------------------------------------------------------------
(* The theorems.                                                           *)

\* A first start on empty files.
LEMMA InitHolds == Init => IInv
  <1> SUFFICES ASSUME Init PROVE IInv
    OBVIOUS
  <1>1. FileTypes /\ StoreTypes
    BY DEF Init, FileTypes, StoreTypes
  <1>2. LaneTypes /\ RestTypes
    BY DEF Init, LaneTypes, RestTypes, States
  <1>3. TypeOK
    BY <1>1, <1>2 DEF TypeOK, FileTypes, StoreTypes, LaneTypes, RestTypes
  <1>4. \A l \in Lanes : pc[l] = "recover" /\ ~claimed[l] /\ ckpt[l] = 0 /\ acks[l] = {}
    BY DEF Init
  <1>5. \A l \in Lanes : AckLane(l)
    BY <1>4 DEF AckLane, InHand, AckGround, Hot, Working, HandStates, AckStates
  <1>6. CountInv
    <2>1. /\ pc["slow"] = "recover" /\ poisoned = {} /\ restarts = 0 /\ down = 0
          /\ \A i \in Distills : attempts[i] = 0 /\ crashedIn[i] = 0
      BY TwoLanes DEF Init
    <2> QED
      BY <2>1 DEF CountInv, CrashesAreCounted, AttemptOnDisk, AttemptsHaveCause, PoisonedForCause, Working
  <1>7. \A l \in Lanes : LaneInv(l)
    BY <1>4 DEF LaneInv, Watermark, Skipped, GoneThrough, HandSafe, RemovalSafe, Fresh, Batch, HandStates,
                AckStates, Synced, Flushing
  <1>8. HooksFollow /\ Kept
    BY DEF Init, HooksFollow, Kept, Range
  <1>9. OnceInv
    BY <1>4, TwoLanes DEF Init, OnceInv, SlowDistills, Unsent, OnePlace, NeverAgain, Range, Batch, HandStates, AckStates,
                Synced, Flushing
  <1> QED
    BY <1>3, <1>5, <1>6, <1>7, <1>8, <1>9 DEF IInv, LossInv

\* Every step preserves the invariant.
LEMMA StepHolds == IInv /\ [Next]_vars => IInv'
  <1>1. ASSUME IInv, Next PROVE IInv'
    <2>1. FileTypes /\ StoreTypes /\ LaneTypes /\ RestTypes
      BY <1>1 DEF IInv, TypeOK, FileTypes, StoreTypes, LaneTypes, RestTypes
    <2>2. TypeOK'
      BY <1>1, TypeKept DEF IInv
    <2>3. RestTypes'
      BY <2>2 DEF TypeOK, RestTypes
    <2>4. \A l \in Lanes : AckLane(l)'
      BY <1>1, <2>1, AckKept DEF IInv
    <2>5. CountInv'
      BY <1>1, <2>1, <2>3, CountKept DEF IInv
    <2>6. LossInv'
      BY <1>1, <2>1, LossKept DEF IInv
    <2>7. HooksFollow' /\ OnceInv'
      BY <1>1, <2>1, HooksKept, OnceKept DEF IInv
    <2> QED
      BY <2>2, <2>4, <2>5, <2>6, <2>7 DEF IInv
  <1>2. ASSUME IInv, UNCHANGED vars PROVE IInv'
    <2> USE <1>2 DEF vars
    <2>1. TypeOK'
      BY DEF IInv, TypeOK
    <2>2. \A l \in Lanes : AckLane(l)'
      BY DEF IInv, AckLane, InHand, AckGround, Ground, Unstored, Durable, MoreLines, Cur
    <2>3. CountInv'
      BY DEF IInv, CountInv, CrashesAreCounted, AttemptOnDisk, AttemptsHaveCause, PoisonedForCause, Cur
    <2>4. \A l \in Lanes : Remaining(l)' = Remaining(l) /\ Left(l)' = Left(l) /\ SoFar(l)' = SoFar(l)
      BY DEF Remaining, Left, SoFar
    <2>5. \A l \in Lanes : Safe(l)' = Safe(l) /\ Held(l)' = Held(l)
      <3>1. Settled' = Settled
        BY DEF Settled, Unstored, GivenUp, Durable
      <3>2. \A l \in Lanes : Safe(l)' = Safe(l)
        BY <2>4, <3>1, TwoLanes DEF Safe
      <3> QED
        BY <2>4, <3>2 DEF Held
    <2>6. \A l \in Lanes : LaneInv(l) => LaneInv(l)'
      BY <2>4, <2>5 DEF LaneInv, Watermark, Skipped, GoneThrough, HandSafe, RemovalSafe, Unsynced, Buffered, Cur
    <2>7. LossInv'
      BY <2>5, <2>6, TwoLanes DEF IInv, LossInv, Kept
    <2>8. HooksFollow' /\ OnceInv'
      BY DEF IInv, HooksFollow, OnceInv, SlowDistills, Unsent, OnePlace, NeverAgain
    <2> QED
      BY <2>1, <2>2, <2>3, <2>7, <2>8 DEF IInv
  <1> QED
    BY <1>1, <1>2

\* The invariant holds throughout.
THEOREM Inductive == Spec => []IInv
  BY InitHolds, StepHolds, PTL DEF Spec

\* The queue files, the store and the lanes' locals keep their types through
\* every interleaving of hooks, lanes, crashes and restarts.
THEOREM TypeCorrect == Spec => []TypeOK
  <1>1. IInv => TypeOK
    BY DEF IInv
  <1> QED
    BY <1>1, Inductive, PTL

\* record() publishes an id only for work that a crash cannot undo, for any
\* items and any number of crashes; a distill's id also when it ran to its end and
\* stored nothing.
THEOREM AckDurable == Spec => []AckedIsDurable
  <1>1. IInv => AckedIsDurable
    BY TwoLanes DEF IInv, AckLane, AckGround, Ground, AckedIsDurable
  <1> QED
    BY <1>1, Inductive, PTL

\* bump_distill_attempt is on disk before the distill can crash, so the counter
\* never falls behind the crashes of a session.
THEOREM CrashesCounted == Spec => []CrashesAreCounted
  <1>1. IInv => CrashesAreCounted
    BY DEF IInv, CountInv
  <1> QED
    BY <1>1, Inductive, PTL

\* run_slow gives up no session that has not failed itself without
\* kMaxDistillAttempts restarts or outages.
THEOREM PoisonHasCause == Spec => []PoisonedForCause
  <1>1. IInv => PoisonedForCause
    BY DEF IInv, CountInv
  <1> QED
    BY <1>1, Inductive, PTL

\* However many items, batches, crashes and shutdowns there are, an accepted item
\* is out of reach of recover_processing only after one of the four breaches, or when
\* a lane has given up that very item: a distill that stored nothing, or a line
\* whose dead letter write_failed_item could not append.
THEOREM NothingLost == Spec => []NoLossUnlessBreached
  <1>1. IInv => NoLossUnlessBreached
    <2> SUFFICES ASSUME IInv, breach = {} PROVE accepted \ GivenUp \subseteq Recoverable
      BY DEF NoLossUnlessBreached, NoLoss
    <2>1. accepted \subseteq Settled \cup Range(queue["slow"]) \cup Left("slow")
                                     \cup Range(queue["fast"]) \cup Left("fast")
      BY DEF IInv, LossInv, Kept, Held, Safe
    <2>2. \A l \in Lanes : claimed[l] => Range(Unprocessed(l)) = Left(l)
      <3> SUFFICES ASSUME NEW l \in Lanes, claimed[l] PROVE Range(Unprocessed(l)) = Left(l)
        OBVIOUS
      <3>1. processing[l] \in Seq(Items) /\ ckpt[l] \in Nat
        BY DEF IInv, TypeOK
      <3> QED
        BY <3>1, UnprocessedRange DEF Left
    <2> DEFINE Queued == UNION {Range(queue[l]) : l \in Lanes}
               Requeued == UNION {Range(Unprocessed(l)) : l \in {m \in Lanes : claimed[m]}}
    <2>3. \A l \in Lanes : Left(l) \subseteq Requeued
      <3> SUFFICES ASSUME NEW l \in Lanes, claimed[l] PROVE Left(l) \subseteq Requeued
        BY DEF Left
      <3> QED
        BY <2>2
    <2>4. \A l \in Lanes : Range(queue[l]) \subseteq Queued
      OBVIOUS
    <2>5. Recoverable \cup GivenUp = Settled \cup Queued \cup Requeued
      <3>1. Recoverable = Durable \cup failed \cup superseded \cup Queued \cup Requeued
        BY DEF Recoverable
      <3> HIDE DEF Queued, Requeued
      <3> QED
        BY <3>1 DEF Settled
    <2> HIDE DEF Queued, Requeued
    <2> QED
      BY <2>1, <2>3, <2>4, <2>5, TwoLanes
  <1> QED
    BY <1>1, Inductive, PTL

\* Applications of an item never grow but by applying it.
LEMMA ApplicationsAppend ==
    ASSUME NEW s \in Seq(Items), NEW i \in Items, NEW j \in Items, i # j
    PROVE  Applications(i, Append(s, j)) = Applications(i, s)
  <1>1. /\ Len(s) \in Nat /\ DOMAIN s = 1 .. Len(s) /\ DOMAIN Append(s, j) = 1 .. Len(s) + 1
        /\ \A k \in 1 .. Len(s) : Append(s, j)[k] = s[k]
        /\ Append(s, j)[Len(s) + 1] = j
    OBVIOUS
  <1>2. {k \in DOMAIN Append(s, j) : Append(s, j)[k] = i} = {k \in DOMAIN s : s[k] = i}
    BY <1>1
  <1> QED
    BY <1>2 DEF Applications

\* A crash can only take applications away.
LEMMA ApplicationsPrefix ==
    ASSUME NEW s \in Seq(Items), NEW i \in Items, NEW n \in 0 .. Len(s)
    PROVE  Applications(i, SubSeq(s, 1, n)) <= Applications(i, s)
  <1>1. /\ Len(s) \in Nat /\ DOMAIN s = 1 .. Len(s) /\ DOMAIN SubSeq(s, 1, n) = 1 .. n
        /\ \A k \in 1 .. n : SubSeq(s, 1, n)[k] = s[k]
    OBVIOUS
  <1>2. {k \in DOMAIN SubSeq(s, 1, n) : SubSeq(s, 1, n)[k] = i} \subseteq {k \in DOMAIN s : s[k] = i}
    BY <1>1
  <1>3. IsFiniteSet({k \in DOMAIN s : s[k] = i})
    <2>1. IsFiniteSet(1 .. Len(s))
      BY FS_Interval
    <2> QED
      BY <1>1, <2>1, FS_Subset
  <1> QED
    BY <1>2, <1>3, FS_Subset DEF Applications

\* Whatever the step, an acknowledged write is not what it applies.
LEMMA AppliedOnce ==
    ASSUME IInv, [Next]_vars, NEW i \in everAcked \ Distills
    PROVE  Applications(i, log') <= Applications(i, log)
  <1>1. /\ FileTypes /\ StoreTypes /\ LaneTypes /\ i \in Items
    BY DEF IInv, TypeOK, FileTypes, StoreTypes, LaneTypes
  <1>2. Applications(i, log) \in Nat
    <2>1. IsFiniteSet({k \in DOMAIN log : log[k] = i})
      <3>1. DOMAIN log = 1 .. Len(log) /\ Len(log) \in Nat
        BY <1>1 DEF StoreTypes
      <3>2. IsFiniteSet(DOMAIN log)
        BY <3>1, FS_Interval
      <3> QED
        BY <3>2, FS_Subset
    <2> QED
      BY <2>1, FS_CardinalityType DEF Applications
  <1>3. CASE log' = log
    BY <1>2, <1>3
  <1>4. ASSUME NEW j \in Items, Apply(j) PROVE Applications(i, log') <= Applications(i, log)
    <2>1. log' = Append(log, j) /\ pc["fast"] = "item" /\ MoreLines("fast") /\ j = Cur("fast") /\ j \notin acks["fast"]
      BY <1>4 DEF Apply, Stored, FastItem
    <2>2. j \in Range(processing["fast"])
      <3>1. idx["fast"] + 1 \in DOMAIN lines["fast"]
        BY <1>1, <2>1, TwoLanes DEF LaneTypes, MoreLines
      <3>2. j \in Range(lines["fast"])
        BY <2>1, <3>1 DEF Cur, Range
      <3> QED
        BY <2>1, <3>2 DEF IInv, OnceInv, OnePlace, Batch
    <2>3. i # j
      BY <2>1, <2>2 DEF IInv, OnceInv, NeverAgain
    <2> QED
      BY <1>1, <1>2, <2>1, <2>3, ApplicationsAppend DEF StoreTypes
  <1>5. ASSUME NEW j \in Distills, Distill(j) PROVE Applications(i, log') <= Applications(i, log)
    <2>1. (log' = Append(log, j) \/ log' = log) /\ j \in Items /\ i # j /\ log \in Seq(Items)
      BY <1>1, <1>5 DEF Distill, DistillOutcome, Stored, Items, StoreTypes
    <2>2. Applications(i, Append(log, j)) = Applications(i, log)
      BY <1>1, <2>1, ApplicationsAppend
    <2>3. CASE log' = Append(log, j)
      BY <1>2, <2>2, <2>3
    <2> QED
      BY <1>3, <2>1, <2>3
  <1>6. CASE Restart \/ Crash
    <2>1. \E n \in 0 .. Len(log) : log' = SubSeq(log, 1, n)
      <3>1. synced \in 0 .. Len(log) /\ Len(log) \in Nat
        BY <1>1 DEF StoreTypes
      <3>2. CASE Restart
        BY <3>1, <3>2 DEF Restart, Reboot
      <3>3. CASE Crash
        <4>1. PICK n \in synced .. Len(log) : Reboot(n)
          BY <3>3 DEF Crash
        <4>2. n \in 0 .. Len(log)
          BY <3>1
        <4> QED
          BY <4>1, <4>2 DEF Reboot
      <3> QED
        BY <1>6, <3>2, <3>3
    <2> QED
      <3>1. log \in Seq(Items)
        BY <1>1 DEF StoreTypes
      <3> QED
        BY <1>1, <2>1, <3>1, ApplicationsPrefix
  <1>7. \/ log' = log
        \/ \E j \in Items : Apply(j)
        \/ \E j \in Distills : Distill(j)
        \/ Restart \/ Crash
    <2>1. CASE UNCHANGED vars
      BY <2>1 DEF vars
    <2>2. CASE (\E j \in Items : HookOpen(j) \/ HookWrite(j)) \/ Shutdown
      BY <2>2 DEF HookOpen, HookWrite, Shutdown
    <2>3. CASE \E l \in Lanes : LaneStep(l) \/ SyncFails(l)
      BY <2>3 DEF LaneStep, Claim, ReadLines, RemoveProcessing, RemoveCkpt, WriteCkpt, SyncStore,
                  RecordAck, SkipAcked, LaneStops, Recover, SyncFails
    <2>4. CASE FastOnly
      BY <2>4 DEF FastOnly, Coalesce, DeadLetter, Reroute, FlushSlow, FlushFails, FastBatchEnd
    <2>5. CASE SlowOnly
      BY <2>5 DEF SlowOnly, BumpAttempt, PoisonPill, DistillFails, EndpointUp, EndpointDown, Defer, SlowBatchEnd
    <2> QED
      BY <2>1, <2>2, <2>3, <2>4, <2>5, Steps
  <1> QED
    BY <1>3, <1>4, <1>5, <1>6, <1>7

\* The ack ledger, rotated to the ids of each batch, is enough to keep run() from
\* applying an acknowledged write again, through any number of recoveries.
THEOREM AcknowledgedOnce == Spec => AckedAppliedOnce
  <1>1. IInv /\ [Next]_vars => [\A i \in everAcked \ Distills : Applications(i, log') <= Applications(i, log)]_vars
    BY AppliedOnce
  <1> QED
    BY <1>1, Inductive, PTL DEF Spec, AckedAppliedOnce

-------------------------------------------------------------------------------
(* The lanes implement the queue that hooks are promised (AckedQueue).       *)

\* Where a line can be while it is not dealt with.
Anywhere ==
    Range(queue["fast"]) \cup Range(processing["fast"]) \cup Range(lines["fast"]) \cup Range(pending)
      \cup Range(queue["slow"]) \cup Range(processing["slow"]) \cup Range(lines["slow"])

\* Nothing is at work that no hook has written, and hooks write a line once.
Written ==
    /\ Anywhere \subseteq accepted
    /\ \A i \in Items : hook[i] # "sent" => i \notin accepted

\* The steps both lanes have move lines between the places of the lane.
LEMMA LaneMoves ==
    ASSUME FileTypes, StoreTypes, LaneTypes, RestTypes, NEW l \in Lanes, LaneStep(l) \/ SyncFails(l)
    PROVE  Anywhere' \subseteq Anywhere
  <1> DEFINE Places(m) == Range(queue[m]) \cup Range(processing[m]) \cup Range(lines[m])
             Places2(m) == Range(queue'[m]) \cup Range(processing'[m]) \cup Range(lines'[m])
  <1>1. /\ pending' = pending
        /\ \A m \in Lanes \ {l} : Places2(m) = Places(m)
    BY LaneFrame DEF Untouched, Stays
  <1>2. Places2(l) \subseteq Places(l)
    <2> USE DEF FileTypes, LaneTypes
    <2>0. Range(<<>>) = {}
      BY DEF Range
    <2>1. CASE Claim(l)
      <3>1. processing'[l] = queue[l] /\ queue'[l] = <<>> /\ lines' = lines
        BY <2>1 DEF Claim
      <3> QED
        BY <2>0, <3>1
    <2>2. CASE ReadLines(l)
      <3>1. /\ queue' = queue /\ processing' = processing
            /\ lines'[l] = lines[l] \/ lines'[l] = processing[l]
        <4>1. CASE processing[l] = <<>>
          BY <2>2, <4>1 DEF ReadLines
        <4>2. CASE processing[l] # <<>>
          BY <2>2, <4>2 DEF ReadLines
        <4> QED
          BY <4>1, <4>2
      <3> QED
        BY <3>1
    <2>3. CASE RemoveProcessing(l)
      <3>1. processing'[l] = <<>> /\ queue' = queue /\ lines' = lines
        BY <2>3 DEF RemoveProcessing
      <3> QED
        BY <2>0, <3>1
    <2>4. CASE RemoveCkpt(l) \/ WriteCkpt(l) \/ SyncStore(l)
      BY <2>4 DEF RemoveCkpt, WriteCkpt, SyncStore
    <2>5. CASE RecordAck(l) \/ SkipAcked(l) \/ LaneStops(l) \/ SyncFails(l)
      BY <2>5 DEF RecordAck, SkipAcked, LaneStops, SyncFails
    <2>6. CASE Recover(l)
      <3>1. /\ processing' = processing /\ lines' = lines
            /\ queue'[l] = queue[l] \/ queue'[l] = queue[l] \o Unprocessed(l)
        BY <2>6 DEF Recover
      <3>2. Unprocessed(l) \in Seq(Items) /\ Range(Unprocessed(l)) = {processing[l][k] : k \in Remaining(l)}
        BY UnprocessedRange
      <3>3. \A k \in Remaining(l) : k \in DOMAIN processing[l]
        <4>1. processing[l] \in Seq(Items) /\ ckpt[l] \in Nat
          OBVIOUS
        <4> QED
          BY <4>1 DEF Remaining
      <3>4. Range(Unprocessed(l)) \subseteq Range(processing[l])
        BY <3>2, <3>3 DEF Range
      <3>5. Range(queue[l] \o Unprocessed(l)) = Range(queue[l]) \cup Range(Unprocessed(l))
        BY <3>2, ConcatRange
      <3> QED
        BY <3>1, <3>4, <3>5
    <2> QED
      BY <2>1, <2>2, <2>3, <2>4, <2>5, <2>6 DEF LaneStep
  <1>3. /\ Anywhere = Places("fast") \cup Places("slow") \cup Range(pending)
        /\ Anywhere' = Places2("fast") \cup Places2("slow") \cup Range(pending')
    BY DEF Anywhere
  <1>4. \A m \in Lanes : Places2(m) \subseteq Places(m)
    BY <1>1, <1>2
  <1> HIDE DEF Places, Places2
  <1> QED
    BY <1>1, <1>3, <1>4, TwoLanes

\* The fast lane hands over its lines through pending_slow.
LEMMA FastMoves ==
    ASSUME FileTypes, LaneTypes, FastOnly
    PROVE  Anywhere' \subseteq Anywhere
  <1> USE TwoLanes DEF FileTypes, LaneTypes
  <1>1. UNCHANGED <<processing, lines>> /\ queue'["fast"] = queue["fast"]
    BY DEF FastOnly, Coalesce, DeadLetter, Apply, Reroute, FlushSlow, FlushFails, FastBatchEnd
  <1>2. Range(queue'["slow"]) \cup Range(pending')
          \subseteq Range(queue["slow"]) \cup Range(pending) \cup Range(lines["fast"])
    <2>1. ASSUME NEW i \in Items, Reroute(i)
          PROVE  Range(queue'["slow"]) \cup Range(pending')
                   \subseteq Range(queue["slow"]) \cup Range(pending) \cup Range(lines["fast"])
      <3>1. /\ queue' = queue /\ pending' = Append(pending, i)
            /\ i = lines["fast"][idx["fast"] + 1] /\ idx["fast"] < Len(lines["fast"])
        BY <2>1 DEF Reroute, FastItem, MoreLines, Cur
      <3>2. lines["fast"] \in Seq(Items) /\ idx["fast"] \in Nat
        OBVIOUS
      <3>3. idx["fast"] + 1 \in DOMAIN lines["fast"]
        BY <3>1, <3>2
      <3>4. i \in Range(lines["fast"])
        BY <3>1, <3>3 DEF Range
      <3> QED
        BY <3>1, <3>4, AppendRange
    <2>2. CASE FlushSlow
      <3>1. queue'["slow"] = queue["slow"] \o pending /\ pending' = <<>>
        BY <2>2 DEF FlushSlow
      <3>2. Range(pending') = {}
        BY <3>1 DEF Range
      <3> QED
        BY <3>1, <3>2, ConcatRange
    <2>3. CASE UNCHANGED <<queue, pending>>
      BY <2>3
    <2>4. \/ \E i \in Items : Reroute(i)
          \/ FlushSlow
          \/ UNCHANGED <<queue, pending>>
      BY DEF FastOnly, Coalesce, DeadLetter, Apply, FlushFails, FastBatchEnd
    <2> QED
      BY <2>1, <2>2, <2>3, <2>4
  <1> QED
    BY <1>1, <1>2 DEF Anywhere

\* The slow lane puts back its own lines.
LEMMA SlowMovesLines ==
    ASSUME FileTypes, LaneTypes, SlowOnly
    PROVE  Anywhere' \subseteq Anywhere
  <1> USE TwoLanes DEF FileTypes, LaneTypes
  <1>1. UNCHANGED <<processing, lines, pending>>
    BY DEF SlowOnly, BumpAttempt, PoisonPill, Distill, DistillFails, EndpointUp, EndpointDown, Defer, SlowBatchEnd
  <1>2. CASE Defer
    <2>1. queue'["fast"] = queue["fast"] /\ queue'["slow"] = queue["slow"] \o Remainder
      BY <1>2 DEF Defer
    <2>2. Remainder \in Seq(Items) /\ Range(Remainder) \subseteq Range(lines["slow"])
      BY SMTT(30) DEF Remainder, Range
    <2>3. Range(queue'["slow"]) \subseteq Range(queue["slow"]) \cup Range(lines["slow"])
      BY <2>1, <2>2, ConcatRange
    <2> QED
      BY <1>1, <2>1, <2>3 DEF Anywhere
  <1>3. CASE ~Defer
    <2>1. queue' = queue
      BY <1>3 DEF SlowOnly, BumpAttempt, PoisonPill, Distill, DistillFails, EndpointUp, EndpointDown, SlowBatchEnd
    <2> QED
      BY <1>1, <2>1 DEF Anywhere
  <1> QED
    BY <1>2, <1>3

\* Only a hook brings a new line in.
LEMMA WrittenKept ==
    ASSUME IInv, Written, [Next]_vars
    PROVE  Written'
  <1>1. FileTypes /\ StoreTypes /\ LaneTypes /\ RestTypes
    BY DEF IInv, TypeOK, FileTypes, StoreTypes, LaneTypes, RestTypes
  <1>2. ASSUME Anywhere' \subseteq Anywhere, accepted' = accepted,
               \A i \in Items : hook'[i] # "sent" => hook[i] # "sent"
        PROVE  Written'
    BY <1>2 DEF Written
  <1>3. CASE UNCHANGED vars
    BY <1>3, <1>2 DEF vars, Anywhere
  <1>4. CASE (\E i \in Items : HookOpen(i)) \/ Shutdown
    <2>1. UNCHANGED <<queue, processing, lines, pending, accepted>>
      BY <1>4 DEF HookOpen, Shutdown
    <2>2. \A i \in Items : hook'[i] # "sent" => hook[i] # "sent"
      BY <1>4, <1>1 DEF HookOpen, Shutdown, RestTypes
    <2>3. Anywhere' = Anywhere
      BY <2>1 DEF Anywhere
    <2> QED
      BY <1>2, <2>1, <2>2, <2>3
  <1>5. ASSUME NEW i \in Items, HookWrite(i) PROVE Written'
    <2>1. /\ UNCHANGED <<lines, pending>> /\ accepted' = accepted \cup {i}
          /\ queue'["slow"] = queue["slow"] /\ processing'["slow"] = processing["slow"]
          /\ hook[i] # "sent" /\ hook'[i] = "sent" /\ \A j \in Items \ {i} : hook'[j] = hook[j]
      BY <1>1, <1>5, TwoLanes DEF HookWrite, RestTypes, FileTypes
    <2>2. /\ queue'["fast"] = queue["fast"] \/ queue'["fast"] = Append(queue["fast"], i)
          /\ processing'["fast"] = processing["fast"] \/ processing'["fast"] = Append(processing["fast"], i)
      BY <1>1, <1>5, TwoLanes DEF HookWrite, FileTypes
    <2>3. /\ Range(Append(queue["fast"], i)) = Range(queue["fast"]) \cup {i}
          /\ Range(Append(processing["fast"], i)) = Range(processing["fast"]) \cup {i}
          /\ accepted' = accepted \cup {i}
      <3>1. queue["fast"] \in Seq(Items) /\ processing["fast"] \in Seq(Items)
        BY <1>1, TwoLanes DEF FileTypes, RestTypes
      <3>2. \A s \in Seq(Items) : Range(Append(s, i)) = Range(s) \cup {i}
        BY AppendRange
      <3> QED
        BY <2>1, <3>1, <3>2
    <2>4. Anywhere' \subseteq Anywhere \cup {i}
      <3>1. Range(queue'["fast"]) \subseteq Range(queue["fast"]) \cup {i}
        BY <2>2, <2>3
      <3>2. Range(processing'["fast"]) \subseteq Range(processing["fast"]) \cup {i}
        BY <2>2, <2>3
      <3> QED
        BY <2>1, <3>1, <3>2 DEF Anywhere
    <2> QED
      BY <2>1, <2>3, <2>4 DEF Written
  <1>6. CASE Restart \/ Crash
    <2>1. /\ UNCHANGED <<queue, processing, hook, accepted>>
          /\ lines'["slow"] = <<>> /\ lines'["fast"] = <<>> /\ pending' = <<>>
      BY <1>6, TwoLanes DEF Restart, Crash, Reboot
    <2>2. Range(<<>>) = {}
      BY DEF Range
    <2>3. Anywhere' \subseteq Anywhere
      BY <2>1, <2>2 DEF Anywhere
    <2> QED
      BY <1>2, <2>1, <2>3
  <1>7. ASSUME NEW l \in Lanes, LaneStep(l) \/ SyncFails(l) PROVE Written'
    <2>1. accepted' = accepted
      BY <1>7 DEF LaneStep, Claim, ReadLines, RemoveProcessing, RemoveCkpt, WriteCkpt, SyncStore,
                  RecordAck, SkipAcked, LaneStops, Recover, SyncFails
    <2>2. \A i \in Items : hook'[i] # "sent" => hook[i] # "sent"
      <3>1. CASE UNCHANGED hook
        BY <3>1
      <3>2. ASSUME NEW from \in {"queue", "proc"}, NEW to \in {"proc", "gone"}, Follow(l, from, to)
            PROVE  \A i \in Items : hook'[i] # "sent" => hook[i] # "sent"
        BY <3>2 DEF Follow
      <3>3. CASE Claim(l)
        BY <3>2, <3>3 DEF Claim
      <3>4. CASE ReadLines(l)
        BY <3>1, <3>2, <3>4 DEF ReadLines
      <3>5. CASE RemoveProcessing(l)
        BY <3>2, <3>5 DEF RemoveProcessing
      <3>6. CASE ~Claim(l) /\ ~ReadLines(l) /\ ~RemoveProcessing(l)
        BY <1>7, <3>1, <3>6 DEF LaneStep, RemoveCkpt, WriteCkpt, SyncStore, RecordAck, SkipAcked, LaneStops,
                  Recover, SyncFails
      <3> QED
        BY <3>3, <3>4, <3>5, <3>6
    <2>3. Anywhere' \subseteq Anywhere
      BY <1>1, <1>7, LaneMoves
    <2> QED
      BY <1>2, <2>1, <2>2, <2>3
  <1>8. CASE FastOnly
    <2>1. UNCHANGED <<accepted, hook>>
      BY <1>8 DEF FastOnly, Coalesce, DeadLetter, Apply, Reroute, FlushSlow, FlushFails, FastBatchEnd
    <2> QED
      BY <1>1, <1>2, <1>8, <2>1, FastMoves
  <1>9. CASE SlowOnly
    <2>1. UNCHANGED <<accepted, hook>>
      BY <1>9 DEF SlowOnly, BumpAttempt, PoisonPill, Distill, DistillFails, EndpointUp, EndpointDown, Defer,
                  SlowBatchEnd
    <2> QED
      BY <1>1, <1>2, <1>9, <2>1, SlowMovesLines
  <1> QED
    BY <1>3, <1>4, <1>5, <1>6, <1>7, <1>8, <1>9, Steps

\* A first start finds no lines.
LEMMA WrittenInit == Init => Written
  <1>1. Range(<<>>) = {}
    BY DEF Range
  <1> QED
    BY <1>1, TwoLanes DEF Init, Written, Anywhere

LEMMA WrittenHolds == Spec => []Written
  BY WrittenInit, WrittenKept, Inductive, PTL DEF Spec

\* A line in hand was written by a hook.
LEMMA InHandWritten ==
    ASSUME LaneTypes, Written, NEW l \in Lanes, MoreLines(l)
    PROVE  Cur(l) \in Range(lines[l]) /\ Cur(l) \in accepted /\ Cur(l) \in Items
  <1>1. lines[l] \in Seq(Items) /\ idx[l] \in Nat /\ idx[l] < Len(lines[l])
    BY DEF LaneTypes, MoreLines
  <1>2. idx[l] + 1 \in DOMAIN lines[l]
    BY <1>1
  <1>3. Cur(l) \in Range(lines[l]) /\ Cur(l) \in Items
    BY <1>1, <1>2 DEF Cur, Range
  <1>4. Range(lines[l]) \subseteq accepted
    BY DEF Lanes, Written, Anywhere
  <1> QED
    BY <1>3, <1>4

\* What is not seen of the lanes.
Quiet ==
    /\ UNCHANGED <<accepted, log, synced, superseded, everAcked>>
    /\ "twin" \in breach' <=> "twin" \in breach

LEMMA QuietStutters ==
    ASSUME Quiet
    PROVE  UNCHANGED AckedQueueSpec!queueVars
  <1>1. ("twin" \in breach') = ("twin" \in breach)
    BY DEF Quiet
  <1>2. UNCHANGED <<accepted, log, synced, superseded, everAcked>>
    BY DEF Quiet
  <1> QED
    BY <1>1, <1>2, Zenon DEF AckedQueueSpec!queueVars

\* The steps both lanes have: a sync, an answer, or nothing to be seen.
LEMMA LaneRefines ==
    ASSUME IInv, Written, NEW l \in Lanes, LaneStep(l) \/ SyncFails(l)
    PROVE  AckedQueueSpec!Next \/ Quiet
  <1>1. FileTypes /\ StoreTypes /\ LaneTypes /\ RestTypes
    BY DEF IInv, TypeOK, FileTypes, StoreTypes, LaneTypes, RestTypes
  <1>2. CASE Claim(l) \/ ReadLines(l) \/ RemoveProcessing(l) \/ RemoveCkpt(l) \/ WriteCkpt(l)
    BY <1>2 DEF Claim, ReadLines, RemoveProcessing, RemoveCkpt, WriteCkpt, Quiet, histVars, storeVars
  <1>3. CASE SkipAcked(l) \/ LaneStops(l) \/ Recover(l)
    BY <1>3 DEF SkipAcked, LaneStops, Recover, Quiet, histVars, storeVars
  <1>4. CASE SyncFails(l)
    BY <1>4 DEF SyncFails, Quiet, storeVars
  <1>5. CASE SyncStore(l)
    <2>1. synced' = Len(log) /\ UNCHANGED <<accepted, log, superseded, everAcked, breach>>
      BY <1>5 DEF SyncStore, histVars
    <2>2. AckedQueueSpec!Sync
      BY <2>1 DEF AckedQueueSpec!Sync
    <2> QED
      BY <2>2 DEF AckedQueueSpec!Next
  <1>6. CASE RecordAck(l)
    <2>1. /\ pc[l] = "ackWrite" /\ everAcked' = everAcked \cup {Cur(l)}
          /\ UNCHANGED <<accepted, log, synced, superseded, breach>>
      BY <1>6 DEF RecordAck, storeVars
    <2>2. MoreLines(l) /\ Cur(l) \in Ground(l) \cup Durable
      BY <2>1 DEF IInv, AckLane, InHand, AckGround, Hot, AckStates
    <2>3. Cur(l) \in Range(lines[l]) /\ Cur(l) \in accepted /\ Cur(l) \in Items
      BY <1>1, <2>2, InHandWritten
    <2>4. Cur(l) \in Items \ Distills => Cur(l) \in Durable \cup superseded
      <3>1. CASE l = "fast"
        BY <2>2, <3>1 DEF Ground
      <3>2. CASE l = "slow"
        BY <2>3, <3>2 DEF IInv, OnceInv, SlowDistills
      <3> QED
        BY <3>1, <3>2, TwoLanes DEF Lanes
    <2>5. AckedQueueSpec!Durable = Durable
      BY DEF AckedQueueSpec!Durable, Durable
    <2>6. AckedQueueSpec!Answer(Cur(l))
      BY <2>1, <2>3, <2>4, <2>5 DEF AckedQueueSpec!Answer
    <2> QED
      BY <2>3, <2>6 DEF AckedQueueSpec!Next
  <1> QED
    BY <1>2, <1>3, <1>4, <1>5, <1>6 DEF LaneStep

\* The fast lane applies or replaces a line that was written and not answered.
LEMMA FastRefines ==
    ASSUME IInv, Written, FastOnly
    PROVE  AckedQueueSpec!Next \/ Quiet
  <1>1. FileTypes /\ StoreTypes /\ LaneTypes /\ RestTypes
    BY DEF IInv, TypeOK, FileTypes, StoreTypes, LaneTypes, RestTypes
  <1>2. ASSUME NEW i \in Items, FastItem(i)
        PROVE  /\ i \in accepted /\ i \notin everAcked \ Distills
               /\ \A m \in DOMAIN lines["fast"] : lines["fast"][m] \in accepted
    <2>1. pc["fast"] = "item" /\ MoreLines("fast") /\ i = Cur("fast") /\ i \notin acks["fast"]
      BY <1>2 DEF FastItem
    <2>2. i \in Range(lines["fast"]) /\ i \in accepted
      BY <1>1, <2>1, TwoLanes, InHandWritten
    <2>3. i \in Range(processing["fast"])
      BY <2>1, <2>2 DEF IInv, OnceInv, OnePlace, Batch
    <2>4. \A m \in DOMAIN lines["fast"] : lines["fast"][m] \in accepted
      <3>1. Range(lines["fast"]) \subseteq accepted
        BY DEF Written, Anywhere
      <3> QED
        BY <3>1 DEF Range
    <2> QED
      BY <2>1, <2>2, <2>3, <2>4 DEF IInv, OnceInv, NeverAgain
  <1>3. ASSUME NEW i \in Items, Apply(i) PROVE AckedQueueSpec!Next
    <2>1. log' = Append(log, i) /\ UNCHANGED <<accepted, synced, superseded, everAcked, breach>>
      BY <1>3 DEF Apply, Stored, histVars
    <2>2. i \in accepted /\ i \notin everAcked \ Distills
      BY <1>2, <1>3 DEF Apply
    <2>3. AckedQueueSpec!Apply(i)
      BY <2>1, <2>2 DEF AckedQueueSpec!Apply
    <2> QED
      BY <2>3 DEF AckedQueueSpec!Next
  <1>4. ASSUME NEW i \in Items, Coalesce(i) PROVE AckedQueueSpec!Next
    <2> DEFINE k == idx["fast"] + 1
    <2>1. /\ superseded' = superseded \cup {i} /\ breach' = breach \cup {b \in {"twin"} : Twin(k)}
          /\ UNCHANGED <<accepted, log, synced, everAcked>>
          /\ FastItem(i) /\ Superseded(k) /\ i = lines["fast"][k]
      BY <1>4 DEF Coalesce, FastItem, Cur, storeVars
    <2>2. i \in (accepted \cap Saves) \ everAcked
      <3>1. i \in Saves
        BY <2>1 DEF Superseded
      <3> QED
        BY <1>2, <2>1, <3>1
    <2>3. Twin(k) => "twin" \in breach'
      BY <2>1
    <2>4. ~Twin(k) => accepted \cap Saves # {i}
      <3>1. SUFFICES ASSUME ~Twin(k) PROVE accepted \cap Saves # {i}
        OBVIOUS
      <3>2. PICK m \in (k + 1) .. Len(lines["fast"]) : lines["fast"][m] \in Saves /\ lines["fast"][m] # i
        BY <2>1, <3>1 DEF Twin
      <3>3. m \in DOMAIN lines["fast"]
        <4>1. lines["fast"] \in Seq(Items) /\ idx["fast"] \in Nat
          BY <1>1, TwoLanes DEF LaneTypes
        <4> QED
          BY <3>2, <4>1
      <3>4. lines["fast"][m] \in accepted
        BY <1>2, <2>1, <3>3
      <3> QED
        BY <3>2, <3>4
    <2>5. ("twin" \in breach') \in BOOLEAN /\ ("twin" \in breach => "twin" \in breach')
      BY <2>1
    <2>6. AckedQueueSpec!Replace(i)
      <3> HIDE DEF k
      <3> QED
        BY <2>1, <2>2, <2>3, <2>4, <2>5 DEF AckedQueueSpec!Replace
    <2> QED
      BY <2>6 DEF AckedQueueSpec!Next
  <1>5. CASE (\E i \in Items : DeadLetter(i) \/ Reroute(i)) \/ FlushSlow \/ FlushFails \/ FastBatchEnd
    BY <1>5 DEF DeadLetter, Reroute, FlushSlow, FlushFails, FastBatchEnd, Quiet, histVars, storeVars
  <1> QED
    BY <1>3, <1>4, <1>5 DEF FastOnly

\* The slow lane applies distills, answered for or not.
LEMMA SlowRefines ==
    ASSUME IInv, Written, SlowOnly
    PROVE  AckedQueueSpec!Next \/ Quiet
  <1>1. LaneTypes
    BY DEF IInv, TypeOK, LaneTypes
  <1>2. ASSUME NEW i \in Distills, Distill(i) PROVE AckedQueueSpec!Next \/ Quiet
    <2>1. /\ pc["slow"] = "distill" /\ i = Cur("slow")
          /\ UNCHANGED <<accepted, synced, superseded, everAcked, breach>>
          /\ log' = Append(log, i) \/ log' = log
      BY <1>2 DEF Distill, DistillOutcome, Stored
    <2>2. i \in accepted /\ i \in Items
      <3>1. MoreLines("slow")
        BY <2>1, TwoLanes DEF IInv, AckLane, InHand, Hot, Working
      <3> QED
        BY <1>1, <2>1, <3>1, TwoLanes, InHandWritten
    <2>3. CASE log' = Append(log, i)
      <3>1. AckedQueueSpec!Apply(i)
        BY <2>1, <2>2, <2>3 DEF AckedQueueSpec!Apply
      <3> QED
        BY <2>2, <3>1 DEF AckedQueueSpec!Next
    <2>4. CASE log' = log
      BY <2>1, <2>4 DEF Quiet
    <2> QED
      BY <2>1, <2>3, <2>4
  <1>3. CASE ~\E i \in Distills : Distill(i)
    BY <1>3 DEF SlowOnly, BumpAttempt, PoisonPill, DistillFails, EndpointUp, EndpointDown, Defer, SlowBatchEnd,
                Quiet, histVars, storeVars
  <1> QED
    BY <1>2, <1>3

\* A crash keeps what was synced; a shutdown keeps everything.
LEMMA RestartsRefine ==
    ASSUME IInv, Restart \/ Crash
    PROVE  AckedQueueSpec!Next
  <1>1. log \in Seq(Items) /\ synced \in 0 .. Len(log)
    BY DEF IInv, TypeOK
  <1>2. PICK n \in synced .. Len(log) : Reboot(n)
    <2>1. CASE Restart
      <3>1. Len(log) \in synced .. Len(log)
        BY <1>1
      <3> QED
        BY <2>1, <3>1 DEF Restart
    <2>2. CASE Crash
      BY <2>2 DEF Crash
    <2> QED
      BY <2>1, <2>2
  <1>3. UNCHANGED <<accepted, superseded, everAcked>>
    BY DEF Restart, Crash
  <1>4. log' = SubSeq(log, 1, n) /\ synced' = n
    BY <1>2 DEF Reboot
  <1>5. ("twin" \in breach') = ("twin" \in breach)
    <2>1. "twin" \in breach' <=> "twin" \in breach
      BY <1>2 DEF Reboot
    <2> QED
      BY <2>1
  <1>6. AckedQueueSpec!Crash
    BY <1>3, <1>4, <1>5 DEF AckedQueueSpec!Crash
  <1> QED
    BY <1>6 DEF AckedQueueSpec!Next

LEMMA StepsRefine ==
    ASSUME IInv, Written, [Next]_vars
    PROVE  [AckedQueueSpec!Next]_AckedQueueSpec!queueVars
  <1>1. CASE UNCHANGED vars
    BY <1>1, QuietStutters DEF vars, storeVars, histVars, Quiet
  <1>2. CASE (\E i \in Items : HookOpen(i)) \/ Shutdown
    <2>1. Quiet
      BY <1>2 DEF HookOpen, Shutdown, Quiet, storeVars, histVars
    <2> QED
      BY <2>1, QuietStutters
  <1>3. ASSUME NEW i \in Items, HookWrite(i) PROVE AckedQueueSpec!Next
    <2>1. /\ hook[i] # "sent" /\ accepted' = accepted \cup {i}
          /\ UNCHANGED <<log, synced, superseded, everAcked>>
          /\ "twin" \in breach' <=> "twin" \in breach
      BY <1>3 DEF HookWrite, storeVars
    <2>2. accepted' = accepted \cup {i} /\ i \notin accepted
      BY <2>1 DEF Written
    <2>3. ("twin" \in breach') = ("twin" \in breach)
      BY <2>1
    <2>4. AckedQueueSpec!Accept(i)
      BY <2>1, <2>2, <2>3 DEF AckedQueueSpec!Accept
    <2> QED
      BY <2>4 DEF AckedQueueSpec!Next
  <1>4. CASE Restart \/ Crash
    BY <1>4, RestartsRefine
  <1>5. CASE FastOnly \/ SlowOnly \/ \E l \in Lanes : LaneStep(l) \/ SyncFails(l)
    BY <1>5, FastRefines, SlowRefines, LaneRefines, QuietStutters
  <1> QED
    BY <1>1, <1>2, <1>3, <1>4, <1>5, Steps

\* For any items and any number of crashes, shutdowns and outages, run()'s lanes are the
\* queue that hooks are promised: what was answered is durable or replaced, and
\* stays so, and no answered write is applied again.
THEOREM Refinement == Spec => ImplementsAckedQueue
  <1>1. Init => AckedQueueSpec!Init
    <2>1. Range(<<>>) = {}
      BY DEF Range
    <2>2. SUFFICES ASSUME Init PROVE AckedQueueSpec!Init
      OBVIOUS
    <2>3. accepted = {} /\ log = <<>> /\ synced = 0 /\ superseded = {} /\ everAcked = {} /\ breach = {}
      BY <2>2 DEF Init
    <2>4. ("twin" \in breach) = FALSE
      BY <2>3
    <2> QED
      BY <2>1, <2>3, <2>4 DEF AckedQueueSpec!Init
  <1>2. IInv /\ Written /\ [Next]_vars => [AckedQueueSpec!Next]_AckedQueueSpec!queueVars
    BY StepsRefine
  <1> QED
    BY <1>1, <1>2, Inductive, WrittenHolds, PTL DEF Spec, ImplementsAckedQueue, AckedQueueSpec!Spec
===============================================================================
