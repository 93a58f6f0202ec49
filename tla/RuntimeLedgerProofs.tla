-------------------------- MODULE RuntimeLedgerProofs --------------------------
(***************************************************************************)
(* Exactly-once shipping of the outcome tail, for every length of tail,    *)
(* every number of foreign bytes and faults, and every chunk size.         *)
(*                                                                         *)
(* ExactlyOnce is not inductive: that the next byte written is the right   *)
(* one rests on what the intent file, the offset file and the locals of a  *)
(* running flush say about the durable ledger.  The invariant adds that.   *)
(***************************************************************************)
EXTENDS RuntimeLedger, TLAPS

\* What an intent file on disk promises: its batch ends a record, the offset
\* is at one of its ends, and nothing beyond it has been written anywhere,
\* nor anything of it below its destination.
Promise(it) ==
    it.length > 0 =>
      /\ it.offset + it.length \in newlines
      /\ offsetFile \in {it.offset, it.offset + it.length}
      /\ \A j \in 1 .. Len(durable) : durable[j] <= it.offset + it.length
      /\ \A j \in 1 .. Len(durable) : j <= it.destination => durable[j] <= it.offset

FilesInv ==
    /\ offsetFile \in newlines \cup {0}
    /\ Promise(intent)
    /\ Promise(ghost)
    /\ ghost.length > 0 => intent.length = 0
    /\ intent.length = 0 => \A j \in 1 .. Len(durable) : durable[j] <= offsetFile

\* The running flush works on the batch of the intent file.
OnIntent == intent.length > 0 /\ batch.offset = intent.offset /\ batch.length = intent.length

FlushInv ==
    /\ pc = "lock" =>
         /\ intent.length = 0
         /\ batch.offset = offsetFile
         /\ batch.offset + batch.length \in newlines
         /\ batch.length > 0
         /\ written = 0
    /\ pc = "recover" => OnIntent
    /\ pc = "write" =>
         /\ OnIntent
         /\ written <= batch.length
         /\ intent.destination <= Len(durable)
         /\ \A j \in 1 .. Len(durable) : durable[j] <= batch.offset + written
         /\ \A v \in 1 .. batch.offset + written : Holds(v, Len(durable))
    /\ pc \in {"offset", "remove"} =>
         /\ OnIntent
         /\ \A v \in 1 .. batch.offset + batch.length : Holds(v, synced)
    /\ pc = "remove" => offsetFile = batch.offset + batch.length

Ordered ==
    \A i, j \in 1 .. Len(durable) :
       i < j /\ durable[i] > 0 /\ durable[j] > 0 => durable[i] < durable[j]

Gapless ==
    \A j \in 1 .. Len(durable) : \A v \in 1 .. durable[j] : Holds(v, Len(durable))

IInv ==
    /\ TypeOK
    /\ FilesInv
    /\ FlushInv
    /\ Ordered
    /\ Gapless
    /\ AcknowledgedIsDurable

-------------------------------------------------------------------------------
\* Appending a byte leaves the earlier ones where they are.
LEMMA AppendFacts ==
    ASSUME NEW s \in Seq(Nat), NEW x \in Nat
    PROVE  /\ Append(s, x) \in Seq(Nat)
           /\ Len(Append(s, x)) = Len(s) + 1
           /\ \A j \in 1 .. Len(s) : Append(s, x)[j] = s[j]
           /\ Append(s, x)[Len(s) + 1] = x
    OBVIOUS

\* What survives a host crash is a prefix.
LEMMA PrefixFacts ==
    ASSUME NEW s \in Seq(Nat), NEW n \in 0 .. Len(s)
    PROVE  /\ SubSeq(s, 1, n) \in Seq(Nat)
           /\ Len(SubSeq(s, 1, n)) = n
           /\ \A j \in 1 .. n : SubSeq(s, 1, n)[j] = s[j]
    OBVIOUS

LEMMA NoIntentType == NoIntent \in Intents /\ NoIntent.length = 0 /\ NoBatch \in Batches
    BY DEF NoIntent, Intents, NoBatch, Batches

LEMMA InitTypeOK == Init => TypeOK
    BY NoIntentType, BoundsAssumption DEF Init, TypeOK

LEMMA NextTypeOK == TypeOK /\ [Next]_vars => TypeOK'
<1> SUFFICES ASSUME TypeOK, [Next]_vars PROVE TypeOK'
    OBVIOUS
<1> USE BoundsAssumption, NoIntentType
<1>1. CASE HookAppend
    BY <1>1 DEF HookAppend, TypeOK
<1>2. CASE ForeignAppend
    BY <1>2, AppendFacts DEF ForeignAppend, TypeOK
<1>3. CASE FlushRecover
    BY <1>3 DEF FlushRecover, TypeOK, files, Intents, Batches
<1>4. CASE FlushRead
    BY <1>4 DEF FlushRead, BatchEnd, TypeOK, files, Batches
<1>5. CASE PublishIntent
    BY SMTT(30), <1>5 DEF PublishIntent, NewIntent, TypeOK, Intents, Batches
<1>6. CASE RecoverAppend
  <2>1. batch.length \in Nat /\ intent.destination \in Nat /\ Len(durable) \in Nat
      BY DEF TypeOK, Batches, Intents
  <2>2. Already \in Nat
      BY <1>6, <2>1 DEF RecoverAppend, Matches, Already
  <2>3. QED
      BY <1>6, <2>2 DEF RecoverAppend, TypeOK, files, Batches
<1>7. CASE RecoverConflict
    BY <1>7 DEF RecoverConflict, TypeOK, files
<1>8. CASE WriteByte
  <2>1. batch.offset + written + 1 \in Nat
      BY DEF TypeOK, Batches
  <2>2. QED
      BY <1>8, <2>1, AppendFacts DEF WriteByte, TypeOK
<1>9. CASE Fsync
    BY <1>9 DEF Fsync, FsyncedTo, TypeOK
<1>10. CASE PublishOffset
    BY <1>10 DEF PublishOffset, BatchOffset, TypeOK, Batches
<1>11. CASE RemoveIntent
    BY <1>11 DEF RemoveIntent, TypeOK
<1>12. CASE FlushThrows
    BY <1>12 DEF FlushThrows, TypeOK, files
<1>13. CASE HostCrash
  <2>1. PICK n \in synced .. Len(durable) : durable' = SubSeq(durable, 1, n)
      BY <1>13 DEF HostCrash
  <2>2. n \in 0 .. Len(durable)
      BY DEF TypeOK
  <2>3. durable' \in Seq(Nat) /\ Len(durable') = n
      BY <2>1, <2>2, PrefixFacts DEF TypeOK
  <2>4. QED
      BY <1>13, <2>3 DEF HostCrash, TypeOK
<1>14. CASE UNCHANGED vars
    BY <1>14 DEF vars, TypeOK
<1>15. QED
    BY <1>1, <1>2, <1>3, <1>4, <1>5, <1>6, <1>7, <1>8, <1>9, <1>10, <1>11,
       <1>12, <1>13, <1>14 DEF Next

\* Every file and local of the ledger thread keeps its type, for every bound.
THEOREM TypeCorrect == Spec => []TypeOK
    BY InitTypeOK, NextTypeOK, PTL DEF Spec
-------------------------------------------------------------------------------
LEMMA InitIInv == Init => IInv
    BY InitTypeOK, NoIntentType
    DEF Init, IInv, FilesInv, Promise, FlushInv, Ordered, Gapless, AcknowledgedIsDurable

\* Steps that leave the durable ledger as it is keep its order.
LEMMA DurableUnchanged ==
    ASSUME Ordered, Gapless, durable' = durable
    PROVE  Ordered' /\ Gapless'
    BY DEF Ordered, Gapless, Holds

\* A byte beyond all shipped ones, with no gap below it, keeps the order.
LEMMA AppendNext ==
    ASSUME NEW x \in Nat,
           durable \in Seq(Nat),
           durable' = Append(durable, x),
           Ordered, Gapless,
           x > 0 => /\ \A j \in 1 .. Len(durable) : durable[j] < x
                    /\ \A v \in 1 .. (x - 1) : Holds(v, Len(durable))
    PROVE  Ordered' /\ Gapless'
<1>1. /\ Len(durable') = Len(durable) + 1
      /\ \A j \in 1 .. Len(durable) : durable'[j] = durable[j] /\ durable[j] \in Nat
      /\ durable'[Len(durable) + 1] = x
      /\ Len(durable) \in Nat
    BY AppendFacts
<1>2. Ordered'
    BY <1>1 DEF Ordered
<1>3. ASSUME NEW j \in 1 .. Len(durable'), NEW v \in 1 .. durable'[j]
      PROVE  \E k \in 1 .. Len(durable') : durable'[k] = v
  <2>1. CASE j = Len(durable) + 1 /\ v = x
      BY <1>1, <2>1
  <2>2. CASE j = Len(durable) + 1 /\ v # x
    <3>1. x > 0 /\ v \in 1 .. (x - 1)
        BY <1>1, <1>3, <2>2
    <3>2. QED
        BY <1>1, <3>1 DEF Holds
  <2>3. CASE j # Len(durable) + 1
      BY <1>1, <1>3, <2>3 DEF Gapless, Holds
  <2>4. QED
      BY <2>1, <2>2, <2>3
<1>4. QED
    BY <1>2, <1>3 DEF Gapless, Holds

\* A batch found again at its destination is all that was written of it: no
\* byte of the ledger lies beyond it.
LEMMA FoundBounds ==
    ASSUME NEW D \in Seq(Nat), NEW off \in Nat, NEW len \in Nat, NEW dst \in Nat, NEW a \in Nat,
           a = len \/ dst + a = Len(D),
           \A i \in 1 .. a : D[dst + i] = off + i,
           \A j \in 1 .. Len(D) : D[j] <= off + len,
           \A j \in 1 .. Len(D) : j <= dst => D[j] <= off
    PROVE  \A j \in 1 .. Len(D) : D[j] <= off + a
<1> SUFFICES ASSUME NEW j \in 1 .. Len(D) PROVE D[j] <= off + a
    OBVIOUS
<1>1. D[j] \in Nat /\ Len(D) \in Nat
    OBVIOUS
<1>2. CASE j <= dst
    BY <1>1, <1>2
<1>3. CASE a = len
    BY <1>3
<1>4. CASE j > dst /\ dst + a = Len(D)
  <2>1. j - dst \in 1 .. a /\ dst + (j - dst) = j
      BY <1>1, <1>4
  <2>2. D[j] = off + (j - dst)
      BY <2>1
  <2>3. QED
      BY <2>1, <2>2
<1>5. QED
    BY <1>1, <1>2, <1>3, <1>4

LEMMA NextIInv == IInv /\ [Next]_vars => IInv'
<1> SUFFICES ASSUME IInv, [Next]_vars PROVE IInv'
    OBVIOUS
<1>t. TypeOK /\ TypeOK'
    BY NextTypeOK DEF IInv
<1>i. Ordered /\ Gapless /\ FilesInv /\ FlushInv /\ AcknowledgedIsDurable
    BY DEF IInv
<1>n. /\ Len(durable) \in Nat /\ synced \in Nat /\ synced <= Len(durable)
      /\ offsetFile \in Nat /\ written \in Nat /\ newlines \subseteq Nat
    BY SMTT(30), <1>t DEF TypeOK
<1>r. /\ intent.offset \in Nat /\ intent.length \in Nat /\ intent.destination \in Nat
      /\ ghost.offset \in Nat /\ ghost.length \in Nat /\ ghost.destination \in Nat
      /\ batch.offset \in Nat /\ batch.length \in Nat
    BY <1>t DEF TypeOK, Intents, Batches
<1>d. durable \in Seq(Nat)
    BY <1>t DEF TypeOK
<1>v. \A j \in 1 .. Len(durable) : durable[j] \in Nat
    BY <1>d
<1>1. CASE HookAppend
  <2>1. Ordered' /\ Gapless'
      BY <1>1, <1>i, DurableUnchanged DEF HookAppend
  <2>2. FilesInv'
      BY <1>1, <1>i, <1>n, <1>r, <1>v DEF HookAppend, FilesInv, Promise
  <2>3. FlushInv'
      BY <1>1, <1>i, <1>n, <1>r, <1>v DEF HookAppend, FlushInv, OnIntent, Holds
  <2>4. AcknowledgedIsDurable'
      BY <1>1, <1>i, <1>n, <1>r, <1>v DEF HookAppend, AcknowledgedIsDurable, Holds
  <2>5. QED
      BY <1>t, <2>1, <2>2, <2>3, <2>4 DEF IInv
<1>2. CASE ForeignAppend
  <2>1. Ordered' /\ Gapless'
      BY <1>2, <1>i, <1>d, AppendNext DEF ForeignAppend
  <2>2. /\ Len(durable') = Len(durable) + 1
        /\ \A j \in 1 .. Len(durable) : durable'[j] = durable[j]
        /\ durable'[Len(durable) + 1] = 0
      BY <1>2, <1>d, AppendFacts DEF ForeignAppend
  <2>3. FilesInv'
    <3>1. ASSUME NEW b \in Nat, NEW d \in Nat,
                 \A j \in 1 .. Len(durable) : j <= d => durable[j] <= b
          PROVE  \A j \in 1 .. Len(durable') : j <= d => durable'[j] <= b
        BY <1>n, <2>2, <3>1
    <3>2. ASSUME NEW b \in Nat, \A j \in 1 .. Len(durable) : durable[j] <= b
          PROVE  \A j \in 1 .. Len(durable') : durable'[j] <= b
        BY <1>n, <2>2, <3>2
    <3>3. UNCHANGED <<newlines, offsetFile, intent, ghost>>
        BY <1>2 DEF ForeignAppend
    <3>4. ASSUME NEW it \in Intents, Promise(it) PROVE Promise(it)'
      <4>1. it.offset \in Nat /\ it.offset + it.length \in Nat /\ it.destination \in Nat
          BY DEF Intents
      <4>2. QED
          BY <3>1, <3>2, <3>3, <3>4, <4>1 DEF Promise
    <3>5. Promise(intent)' /\ Promise(ghost)'
        BY <1>i, <1>t, <3>3, <3>4 DEF FilesInv, TypeOK, Promise
    <3>6. QED
        BY <1>i, <1>n, <3>2, <3>3, <3>5 DEF FilesInv
  <2>4. FlushInv'
    <3>1. UNCHANGED <<newlines, synced, offsetFile, intent, pc, batch, written>>
        BY <1>2 DEF ForeignAppend
    <3>2. ASSUME pc = "write"
          PROVE  \A j \in 1 .. Len(durable') : durable'[j] <= batch.offset + written
      <4>1. batch.offset + written \in Nat
          BY <1>n, <1>r
      <4>2. \A j \in 1 .. Len(durable) : durable[j] <= batch.offset + written
          BY <1>i, <3>2 DEF FlushInv
      <4>3. QED
          BY <1>n, <2>2, <4>1, <4>2
    <3>h. \A v : Holds(v, Len(durable)) => Holds(v, Len(durable))'
        BY <1>n, <2>2 DEF Holds
    <3>3. \A v : Holds(v, synced) => Holds(v, synced)'
        BY <1>n, <2>2, <3>1 DEF Holds
    <3>4. pc = "write" => (intent.destination <= Len(durable))'
        BY <1>i, <1>n, <1>r, <2>2, <3>1 DEF FlushInv
    <3>5. QED
        BY <1>i, <3>1, <3>2, <3>h, <3>3, <3>4 DEF FlushInv, OnIntent
  <2>5. AcknowledgedIsDurable'
      BY SMTT(30), <1>2, <1>i, <1>n, <1>r, <1>v, <2>2 DEF ForeignAppend, AcknowledgedIsDurable, Holds
  <2>6. QED
      BY <1>t, <2>1, <2>3, <2>4, <2>5 DEF IInv
<1>3. CASE FlushRecover
  <2>1. Ordered' /\ Gapless'
      BY <1>3, <1>i, DurableUnchanged DEF FlushRecover, files
  <2>2. FilesInv' /\ AcknowledgedIsDurable'
      BY <1>3, <1>i, <1>n, <1>r, <1>v DEF FlushRecover, files, FilesInv, Promise, AcknowledgedIsDurable, Holds
  <2>3. FlushInv'
      BY <1>3, <1>i, <1>n, <1>r, <1>v DEF FlushRecover, files, FlushInv, OnIntent
  <2>4. QED
      BY <1>t, <2>1, <2>2, <2>3 DEF IInv
<1>4. CASE FlushRead
  <2>1. Ordered' /\ Gapless'
      BY <1>4, <1>i, DurableUnchanged DEF FlushRead, files
  <2>2. FilesInv' /\ AcknowledgedIsDurable'
      BY <1>4, <1>i, <1>n, <1>r, <1>v DEF FlushRead, files, FilesInv, Promise, AcknowledgedIsDurable, Holds
  <2>3. FlushInv'
      BY <1>4, <1>i, <1>n, <1>r, <1>v DEF FlushRead, BatchEnd, files, FlushInv, OnIntent
  <2>4. QED
      BY <1>t, <2>1, <2>2, <2>3 DEF IInv
<1>5. CASE PublishIntent
  <2>1. Ordered' /\ Gapless'
      BY <1>5, <1>i, DurableUnchanged DEF PublishIntent, NewIntent
  <2>2. \A j \in 1 .. Len(durable) : durable[j] <= offsetFile
      BY <1>5, <1>i, <1>n, <1>r, <1>v DEF PublishIntent, NewIntent, FlushInv, FilesInv
  <2>3. FilesInv'
    <3>1. /\ intent'.offset = batch.offset /\ intent'.length = batch.length
          /\ intent'.destination = Len(durable)
          /\ ghost'.length = 0
          /\ UNCHANGED <<newlines, offsetFile, durable>>
        BY <1>5, NoIntentType DEF PublishIntent, NewIntent
    <3>2. batch.offset = offsetFile /\ batch.length > 0 /\ batch.offset + batch.length \in newlines
        BY <1>5, <1>i DEF PublishIntent, NewIntent, FlushInv
    <3>3. \A j \in 1 .. Len(durable) : durable[j] <= batch.offset + batch.length
        BY <1>n, <1>r, <1>v, <2>2, <3>2
    <3>4. QED
        BY <1>i, <1>n, <1>r, <2>2, <3>1, <3>2, <3>3 DEF FilesInv, Promise
  <2>4. AcknowledgedIsDurable'
      BY <1>5, <1>i, <1>n, <1>r, <1>v DEF PublishIntent, NewIntent, AcknowledgedIsDurable, Holds
  <2>5. \A v \in 1 .. offsetFile : Holds(v, Len(durable))
      BY <1>i, <1>n, <1>r, <1>v DEF AcknowledgedIsDurable, Holds
  <2>6. FlushInv'
      BY <1>5, <1>i, <1>n, <1>r, <1>v, <2>2, <2>5 DEF PublishIntent, NewIntent, FlushInv, OnIntent, Holds
  <2>7. QED
      BY <1>t, <2>1, <2>3, <2>4, <2>6 DEF IInv
<1>6. CASE RecoverAppend
  <2> DEFINE dst == intent.destination
  <2>1. Ordered' /\ Gapless'
      BY <1>6, <1>i, DurableUnchanged DEF RecoverAppend, files
  <2>2. FilesInv' /\ AcknowledgedIsDurable'
      BY <1>6, <1>i, <1>n, <1>r, <1>v DEF RecoverAppend, files, FilesInv, Promise, AcknowledgedIsDurable, Holds
  <2>3. OnIntent /\ Len(durable) >= dst
      BY <1>6, <1>i DEF RecoverAppend, FlushInv, Matches
  <2>4. /\ Already \in Nat /\ Already <= batch.length /\ dst + Already <= Len(durable)
        /\ Already = batch.length \/ dst + Already = Len(durable)
      BY SMTT(30), <1>n, <1>r, <2>3 DEF Already
  <2>5. \A i \in 1 .. Already : durable[dst + i] = batch.offset + i
      BY <1>6 DEF RecoverAppend, Matches
  <2>6. /\ \A j \in 1 .. Len(durable) : durable[j] <= batch.offset + batch.length
        /\ \A j \in 1 .. Len(durable) : j <= dst => durable[j] <= batch.offset
        /\ batch.offset <= offsetFile
      BY <1>i, <1>n, <1>r, <2>3 DEF FilesInv, Promise, OnIntent
  <2>7. \A j \in 1 .. Len(durable) : durable[j] <= batch.offset + Already
    <3> DEFINE off == batch.offset
               len == batch.length
               a == Already
    <3>1. dst \in Nat /\ off \in Nat /\ len \in Nat /\ durable \in Seq(Nat)
        BY <1>d, <1>r
    <3>2. a \in Nat /\ (a = len \/ dst + a = Len(durable))
        BY <2>4
    <3>3. \A i \in 1 .. a : durable[dst + i] = off + i
        BY <2>5
    <3>4. /\ \A j \in 1 .. Len(durable) : durable[j] <= off + len
          /\ \A j \in 1 .. Len(durable) : j <= dst => durable[j] <= off
        BY <2>6
    <3> HIDE DEF dst, off, len, a
    <3>5. \A j \in 1 .. Len(durable) : durable[j] <= off + a
        BY <3>1, <3>2, <3>3, <3>4, FoundBounds
    <3>. QED  BY <3>5 DEF off, a
  <2>8. \A v \in 1 .. batch.offset : \E j \in 1 .. Len(durable) : durable[j] = v
      BY SMTT(30), <1>i, <1>n, <1>r, <2>6 DEF AcknowledgedIsDurable, Holds
  <2>9. \A v \in 1 .. (batch.offset + Already) : Holds(v, Len(durable))
    <3> DEFINE off == batch.offset
               a == Already
    <3>1. /\ off \in Nat /\ dst \in Nat /\ a \in Nat /\ dst + a <= Len(durable)
          /\ \A i \in 1 .. a : durable[dst + i] = off + i
          /\ \A v \in 1 .. off : \E j \in 1 .. Len(durable) : durable[j] = v
        BY <1>r, <2>4, <2>5, <2>8
    <3> HIDE DEF off, dst, a
    <3>2. ASSUME NEW v \in 1 .. (off + a) PROVE \E j \in 1 .. Len(durable) : durable[j] = v
      <4>1. CASE v \in 1 .. off
          BY <3>1, <4>1
      <4>2. CASE v \notin 1 .. off
        <5>1. v - off \in 1 .. a /\ off + (v - off) = v
            BY <3>1, <4>2
        <5>2. durable[dst + (v - off)] = v
            BY <3>1, <5>1
        <5>3. dst + (v - off) \in 1 .. Len(durable)
            BY <1>n, <3>1, <5>1
        <5>4. QED
            BY <5>2, <5>3
      <4>3. QED
          BY <4>1, <4>2
    <3>3. QED
        BY <3>2 DEF off, a, Holds
  <2>10. /\ pc' = "write" /\ written' = Already
         /\ UNCHANGED <<batch, intent, durable>>
      BY <1>6 DEF RecoverAppend, files
  <2>11. FlushInv'
      BY <2>3, <2>4, <2>7, <2>9, <2>10 DEF FlushInv, OnIntent, Holds
  <2>12. QED
      BY <1>t, <2>1, <2>2, <2>11 DEF IInv
<1>7. CASE RecoverConflict \/ FlushThrows
  <2>1. durable' = durable /\ synced' = synced /\ pc' = "idle" /\ UNCHANGED <<newlines, files>>
      BY <1>7 DEF RecoverConflict, FlushThrows, files
  <2>2. Ordered' /\ Gapless'
      BY <1>i, <2>1, DurableUnchanged
  <2>3. FilesInv' /\ AcknowledgedIsDurable' /\ FlushInv'
      BY <1>i, <1>n, <1>r, <1>v, <2>1 DEF files, FilesInv, Promise, AcknowledgedIsDurable, Holds, FlushInv
  <2>4. QED
      BY <1>t, <2>2, <2>3 DEF IInv
<1>8. CASE WriteByte
  <2> DEFINE x == batch.offset + written + 1
  <2>1. /\ durable' = Append(durable, x) /\ written' = written + 1 /\ pc' = "write"
        /\ UNCHANGED <<batch, intent, ghost, synced, offsetFile, newlines>>
      BY <1>8 DEF WriteByte
  <2>2. /\ OnIntent /\ written < batch.length /\ intent.destination <= Len(durable)
        /\ \A j \in 1 .. Len(durable) : durable[j] <= batch.offset + written
        /\ \A v \in 1 .. (batch.offset + written) : Holds(v, Len(durable))
      BY <1>8, <1>i DEF WriteByte, FlushInv
  <2>3. x \in Nat /\ x - 1 = batch.offset + written
      BY SMTT(30), <1>n, <1>r
  <2>4. \A j \in 1 .. Len(durable) : durable[j] < x
      BY SMTT(30), <1>n, <1>r, <1>v, <2>2
  <2>5. \A v \in 1 .. (x - 1) : Holds(v, Len(durable))
      BY <2>2, <2>3
  <2>6. x <= intent.offset + intent.length /\ written + 1 <= batch.length
      BY <1>n, <1>r, <2>2 DEF OnIntent
  <2>7. batch.offset + (written + 1) = x
      BY SMTT(30), <1>n, <1>r
  <2> HIDE DEF x
  <2>8. Ordered' /\ Gapless'
      BY <1>i, <1>d, <2>1, <2>3, <2>4, <2>5, AppendNext
  <2>9. /\ Len(durable') = Len(durable) + 1
        /\ \A j \in 1 .. Len(durable) : durable'[j] = durable[j]
        /\ durable'[Len(durable) + 1] = x
      BY <1>d, <2>1, <2>3, AppendFacts
  <2>10. \A j \in 1 .. Len(durable') : durable'[j] \in Nat /\ durable'[j] <= x
      BY <1>n, <1>v, <2>3, <2>4, <2>9
  <2>11. \A v \in 1 .. x : \E j \in 1 .. Len(durable') : durable'[j] = v
    <3> SUFFICES ASSUME NEW v \in 1 .. x PROVE \E j \in 1 .. Len(durable') : durable'[j] = v
        OBVIOUS
    <3>1. CASE v = x
        BY <1>n, <2>9, <3>1
    <3>2. CASE v # x
      <4>1. v \in 1 .. (x - 1)
          BY <2>3, <3>2
      <4>2. PICK j \in 1 .. Len(durable) : durable[j] = v
          BY <2>5, <4>1 DEF Holds
      <4>3. QED
          BY <1>n, <2>9, <4>2
    <3>3. QED
        BY <3>1, <3>2
  <2>12. FilesInv'
    <3>1. intent.length > 0 /\ ghost.length = 0
        BY <1>i, <1>r, <2>2 DEF OnIntent, FilesInv
    <3>2. \A j \in 1 .. Len(durable') : durable'[j] <= intent.offset + intent.length
        BY <1>r, <2>3, <2>6, <2>10
    <3>3. \A j \in 1 .. Len(durable) : j <= intent.destination => durable[j] <= intent.offset
        BY <1>i, <3>1 DEF FilesInv, Promise
    <3>4. \A j \in 1 .. Len(durable') : j <= intent.destination => durable'[j] <= intent.offset
        BY <1>n, <1>r, <2>2, <2>9, <3>3
    <3>5. Promise(intent)' /\ Promise(ghost)'
        BY <1>i, <1>r, <2>1, <3>1, <3>2, <3>4 DEF FilesInv, Promise
    <3>6. QED
        BY <1>i, <1>r, <2>1, <3>1, <3>5 DEF FilesInv
  <2>13. AcknowledgedIsDurable'
    <3>1. \A v : Holds(v, synced) => Holds(v, synced)'
        BY <1>n, <2>1, <2>9 DEF Holds
    <3>2. QED
        BY <1>i, <2>1, <3>1 DEF AcknowledgedIsDurable
  <2>14. FlushInv'
    <3>1. (intent.destination <= Len(durable))'
        BY <1>n, <1>r, <2>1, <2>2, <2>9
    <3>2. QED
        BY <2>1, <2>2, <2>6, <2>7, <2>10, <2>11, <3>1 DEF FlushInv, OnIntent, Holds
  <2>15. QED
      BY <1>t, <2>8, <2>12, <2>13, <2>14 DEF IInv
<1>9. CASE Fsync
  <2>1. Ordered' /\ Gapless'
      BY <1>9, <1>i, DurableUnchanged DEF Fsync, FsyncedTo
  <2>2. FilesInv'
      BY <1>9, <1>i, <1>n, <1>r, <1>v DEF Fsync, FsyncedTo, FilesInv, Promise
  <2>3. \A v : Holds(v, synced) => Holds(v, synced)'
      BY <1>9, <1>n DEF Fsync, FsyncedTo, Holds
  <2>4. AcknowledgedIsDurable'
      BY <1>9, <1>i, <2>3 DEF Fsync, FsyncedTo, AcknowledgedIsDurable
  <2>5. \A v \in 1 .. (batch.offset + batch.length) : Holds(v, synced)'
      BY <1>9, <1>i DEF Fsync, FsyncedTo, FlushInv, Holds
  <2>6. FlushInv'
      BY <1>9, <1>i, <2>5 DEF Fsync, FsyncedTo, FlushInv, OnIntent
  <2>7. QED
      BY <1>t, <2>1, <2>2, <2>4, <2>6 DEF IInv
<1>10. CASE PublishOffset
  <2>1. Ordered' /\ Gapless'
      BY <1>10, <1>i, DurableUnchanged DEF PublishOffset, BatchOffset
  <2>2. FilesInv'
      BY <1>10, <1>i, <1>n, <1>r, <1>v DEF PublishOffset, BatchOffset, FilesInv, Promise, FlushInv, OnIntent
  <2>3. AcknowledgedIsDurable' /\ FlushInv'
      BY <1>10, <1>i, <1>n, <1>r, <1>v DEF PublishOffset, BatchOffset, AcknowledgedIsDurable, FlushInv, OnIntent, Holds
  <2>4. QED
      BY <1>t, <2>1, <2>2, <2>3 DEF IInv
<1>11. CASE RemoveIntent
  <2>1. Ordered' /\ Gapless'
      BY <1>11, <1>i, DurableUnchanged DEF RemoveIntent
  <2>2. FilesInv'
    <3>1. /\ intent'.length = 0 /\ ghost' = intent
          /\ UNCHANGED <<newlines, offsetFile, durable>>
        BY <1>11, NoIntentType DEF RemoveIntent
    <3>2. intent.length > 0 /\ offsetFile = intent.offset + intent.length
        BY <1>11, <1>i DEF RemoveIntent, FlushInv, OnIntent
    <3>3. Promise(intent)' /\ Promise(ghost)'
        BY <1>i, <3>1 DEF FilesInv, Promise
    <3>4. QED
        BY <1>i, <3>1, <3>2, <3>3 DEF FilesInv, Promise
  <2>3. AcknowledgedIsDurable' /\ FlushInv'
      BY <1>11, <1>i, <1>n, <1>r, <1>v DEF RemoveIntent, AcknowledgedIsDurable, FlushInv, Holds
  <2>4. QED
      BY <1>t, <2>1, <2>2, <2>3 DEF IInv
<1>12. CASE HostCrash
  <2>1. PICK n \in synced .. Len(durable) : durable' = SubSeq(durable, 1, n)
      BY <1>12 DEF HostCrash
  <2>2. /\ n \in Nat /\ synced <= n /\ n <= Len(durable)
        /\ Len(durable') = n
        /\ \A j \in 1 .. n : durable'[j] = durable[j]
      BY <1>n, <1>d, <2>1, PrefixFacts
  <2>3. Ordered'
      BY <1>i, <1>n, <2>2 DEF Ordered
  <2>4. Gapless'
    <3> SUFFICES ASSUME NEW j \in 1 .. n, NEW v \in 1 .. durable'[j]
                 PROVE  \E k \in 1 .. n : durable'[k] = v
        BY <2>2 DEF Gapless, Holds
    <3>1. PICK k \in 1 .. Len(durable) : durable[k] = v
      <4>1. j \in 1 .. Len(durable) /\ v \in 1 .. durable[j]
          BY <1>n, <2>2
      <4>2. QED
          BY <1>i, <4>1 DEF Gapless, Holds
    <3>2. k <= j
      <4>1. /\ j \in 1 .. Len(durable) /\ k \in 1 .. Len(durable)
            /\ durable[k] > 0 /\ durable[j] > 0 /\ durable[k] <= durable[j]
            /\ j \in Nat /\ k \in Nat /\ durable[k] \in Int /\ durable[j] \in Int
          BY SMTT(30), <1>n, <1>r, <1>v, <2>2, <3>1
      <4>2. j < k => durable[j] < durable[k]
          BY <1>i, <4>1 DEF Ordered
      <4>3. QED
          BY <4>1, <4>2
    <3>3. QED
        BY <2>2, <3>1, <3>2
  <2>5. FilesInv'
    <3>1. /\ ghost'.length = 0
          /\ intent' = intent \/ (ghost.length > 0 /\ intent' = ghost)
          /\ UNCHANGED <<newlines, offsetFile>>
        BY <1>12, NoIntentType DEF HostCrash
    <3>2. ASSUME NEW it, Promise(it)
          PROVE  it.length > 0 =>
                   /\ it.offset + it.length \in newlines
                   /\ offsetFile \in {it.offset, it.offset + it.length}
                   /\ \A j \in 1 .. n : durable'[j] <= it.offset + it.length
                   /\ \A j \in 1 .. n : j <= it.destination => durable'[j] <= it.offset
        BY <1>n, <2>2, <3>2 DEF Promise
    <3>3. Promise(intent)' /\ Promise(ghost)'
      <4>1. Promise(ghost)'
          BY <3>1 DEF Promise
      <4>2. CASE intent' = intent
          BY <1>i, <2>2, <3>1, <3>2, <4>1, <4>2 DEF FilesInv, Promise
      <4>3. CASE intent' = ghost
          BY <1>i, <2>2, <3>1, <3>2, <4>1, <4>3 DEF FilesInv, Promise
      <4>4. QED
          BY <3>1, <4>2, <4>3
    <3>4. (intent.length = 0 => \A j \in 1 .. Len(durable) : durable[j] <= offsetFile)'
        BY <1>i, <1>n, <1>r, <2>2, <3>1 DEF FilesInv
    <3>5. QED
        BY <1>i, <3>1, <3>3, <3>4 DEF FilesInv
  <2>6. AcknowledgedIsDurable' /\ FlushInv'
      BY <1>12, <1>i, <1>n, <1>r, <1>v, <2>2 DEF HostCrash, AcknowledgedIsDurable, FlushInv, Holds
  <2>7. QED
      BY <1>t, <2>3, <2>4, <2>5, <2>6 DEF IInv
<1>13. CASE UNCHANGED vars
    BY <1>13, <1>t, <1>i, <1>n, <1>r, <1>v DEF vars, IInv, FilesInv, Promise, FlushInv, OnIntent, Ordered,
       Gapless, AcknowledgedIsDurable, Holds
<1>14. QED
    BY <1>1, <1>2, <1>3, <1>4, <1>5, <1>6, <1>7, <1>8, <1>9, <1>10, <1>11, <1>12, <1>13 DEF Next

\* The strengthened invariant holds of the whole specification.
THEOREM Inductive == Spec => []IInv
    BY InitIInv, NextIInv, PTL DEF Spec

\* Exactly-once shipping, for every length of tail, number of faults and of
\* foreign bytes: crashes and recoveries never duplicate, reorder or skip a
\* byte of the tail in the durable ledger.
THEOREM ShippedExactlyOnce == Spec => []ExactlyOnce
<1>1. ASSUME IInv PROVE ExactlyOnce
  <2>1. DOMAIN durable = 1 .. Len(durable)
      BY <1>1 DEF IInv, TypeOK
  <2>2. QED
      BY <1>1, <2>1 DEF IInv, Ordered, Gapless, ExactlyOnce
<1>2. QED
    BY <1>1, Inductive, PTL

\* The offset file never covers a byte a host crash could still take away.
THEOREM OffsetIsDurable == Spec => []AcknowledgedIsDurable
<1>1. IInv => AcknowledgedIsDurable
    BY DEF IInv
<1>2. QED
    BY <1>1, Inductive, PTL

\* A record is only ever cut short on the durable ledger while an intent
\* still promises its rest.
THEOREM TornRecordsAreCovered == Spec => []TornOnlyUnderIntent
<1>1. ASSUME IInv PROVE TornOnlyUnderIntent
  <2>1. offsetFile \in newlines \cup {0}
      BY <1>1 DEF IInv, FilesInv
  <2>2. ASSUME intent.length = 0, NEW j \in DOMAIN durable, durable[j] > 0
        PROVE  \E e \in newlines : durable[j] <= e /\ Holds(e, Len(durable))
    <3>1. /\ j \in 1 .. Len(durable) /\ durable[j] \in Nat /\ offsetFile \in Nat
          /\ synced \in Nat /\ synced <= Len(durable) /\ Len(durable) \in Nat
        BY <1>1, <2>2 DEF IInv, TypeOK
    <3>2. durable[j] <= offsetFile
        BY <1>1, <2>2, <3>1 DEF IInv, FilesInv
    <3>3. offsetFile \in newlines /\ offsetFile \in 1 .. offsetFile
        BY <2>1, <2>2, <3>1, <3>2
    <3>4. Holds(offsetFile, Len(durable))
        BY <1>1, <3>1, <3>3 DEF IInv, AcknowledgedIsDurable, Holds
    <3>5. QED
        BY <3>2, <3>3, <3>4
  <2>3. QED
      BY <2>1, <2>2 DEF TornOnlyUnderIntent
<1>2. QED
    BY <1>1, Inductive, PTL
-------------------------------------------------------------------------------
(* The refinement.  Sent is the number n for which IsSent(n, Len(durable)); *)
(* that there is one, also after a crash has cut the ledger, is an         *)
(* invariant of its own.                                                   *)

IsSent(n, m) ==
    /\ \A v \in 1 .. n : Holds(v, m)
    /\ \A j \in 1 .. m : durable[j] <= n

Prefixes == \A m \in 0 .. Len(durable) : \E n \in 0 .. tailLen : IsSent(n, m)

\* No two numbers describe the same ledger, so Sent is the one there is.
SentUnique == \A n \in 0 .. tailLen : IsSent(n, Len(durable)) => Sent = n

LEMMA SentIs == TypeOK => SentUnique
<1> SUFFICES ASSUME TypeOK, NEW n \in 0 .. tailLen, IsSent(n, Len(durable))
             PROVE  Sent = n
    BY DEF SentUnique
<1> DEFINE Good(k) == /\ \A v \in 1 .. k : Holds(v, Len(durable))
                      /\ \A j \in DOMAIN durable : durable[j] <= k
<1>1. /\ DOMAIN durable = 1 .. Len(durable) /\ Len(durable) \in Nat /\ tailLen \in Nat
      /\ \A j \in 1 .. Len(durable) : durable[j] \in Nat
  <2>1. durable \in Seq(Nat) /\ tailLen \in Nat
      BY BoundsAssumption DEF TypeOK
  <2>2. QED
      BY <2>1
<1>2. Good(n)
    BY <1>1 DEF IsSent
<1>3. ASSUME NEW k \in 0 .. tailLen, Good(k) PROVE k = n
  <2>1. k \in Nat /\ n \in Nat
      BY <1>1
  <2>2. ASSUME n < k PROVE FALSE
    <3>1. Holds(k, Len(durable))
        BY <1>3, <2>1, <2>2
    <3>2. QED
        BY <1>1, <2>1, <2>2, <3>1 DEF IsSent, Holds
  <2>3. ASSUME k < n PROVE FALSE
    <3>1. Holds(n, Len(durable))
        BY <2>1, <2>3 DEF IsSent
    <3>2. QED
        BY <1>1, <1>3, <2>1, <2>3, <3>1 DEF Holds
  <2>4. QED
      BY <2>1, <2>2, <2>3
<1>4. Sent = CHOOSE k \in 0 .. tailLen : Good(k)
    BY DEF Sent
<1>5. QED
  <2> HIDE DEF Good
  <2>1. QED
      BY <1>2, <1>3, <1>4

LEMMA SentIsNext == TypeOK' => SentUnique'
    BY SentIs, PTL

\* An append extends what is sent when it is of the next byte, and not when the
\* byte is of another writer; nothing else is appended.
LEMMA AppendExtends ==
    ASSUME TypeOK, Prefixes, NEW x \in Nat, durable' = Append(durable, x), tailLen' = tailLen,
           x > 0 => x <= tailLen /\ IsSent(x - 1, Len(durable))
    PROVE  Prefixes' /\ (x > 0 => IsSent(x, Len(durable))')
<1> PICK d \in Nat : d = Len(durable)
  <2>1. durable \in Seq(Nat)
      BY DEF TypeOK
  <2>2. QED
      BY <2>1
<1>1. /\ d = Len(durable) /\ tailLen \in Nat /\ Len(durable') = d + 1 /\ durable'[d + 1] = x
      /\ \A j \in 1 .. d : durable'[j] = durable[j] /\ durable[j] \in Nat
  <2>1. durable \in Seq(Nat) /\ tailLen \in Nat
      BY BoundsAssumption DEF TypeOK
  <2>2. QED
      BY <2>1, AppendFacts
<1>2. ASSUME NEW m \in 0 .. d, NEW n \in 0 .. tailLen, IsSent(n, m) PROVE IsSent(n, m)'
  <2>1. \A j \in 1 .. m : j \in 1 .. d /\ durable'[j] = durable[j]
      BY <1>1
  <2>2. QED
      BY <1>2, <2>1 DEF IsSent, Holds
<1>3. CASE x = 0
  <2>1. PICK n \in 0 .. tailLen : IsSent(n, d)
      BY <1>1 DEF Prefixes
  <2>2. \A v \in 1 .. n : \E j \in 1 .. d : durable'[j] = v
      BY <1>1, <2>1 DEF IsSent, Holds
  <2>3. IsSent(n, d + 1)'
    <3>1. \A j \in 1 .. d + 1 : durable'[j] <= n
        BY <1>1, <1>3, <2>1 DEF IsSent
    <3>2. QED
        BY <1>1, <2>2, <3>1 DEF IsSent, Holds
  <2>4. ASSUME NEW m \in 0 .. d + 1 PROVE \E k \in 0 .. tailLen : IsSent(k, m)'
    <3>1. CASE m = d + 1
        BY <2>3, <3>1
    <3>2. CASE m \in 0 .. d
        BY <1>2, <3>2 DEF Prefixes
    <3>3. QED
        BY <1>1, <3>1, <3>2
  <2>5. QED
      BY <1>1, <1>3, <2>4 DEF Prefixes
<1>4. CASE x > 0
  <2>1. x \in 0 .. tailLen /\ IsSent(x - 1, d)
      BY <1>1, <1>4
  <2>2. \A v \in 1 .. x - 1 : \E j \in 1 .. d : durable'[j] = v
      BY <1>1, <2>1 DEF IsSent, Holds
  <2>3. \A v \in 1 .. x : \E j \in 1 .. d + 1 : durable'[j] = v
      BY <1>1, <2>1, <2>2
  <2>4. IsSent(x, d + 1)'
    <3>1. \A j \in 1 .. d + 1 : durable'[j] <= x
        BY <1>1, <2>1 DEF IsSent
    <3>2. QED
        BY <1>1, <2>3, <3>1 DEF IsSent, Holds
  <2>5. ASSUME NEW m \in 0 .. d + 1 PROVE \E k \in 0 .. tailLen : IsSent(k, m)'
    <3>1. CASE m = d + 1
        BY <2>1, <2>4, <3>1
    <3>2. CASE m \in 0 .. d
        BY <1>2, <3>2 DEF Prefixes
    <3>3. QED
        BY <1>1, <3>1, <3>2
  <2>6. QED
      BY <1>1, <2>4, <2>5 DEF Prefixes
<1>5. QED
    BY <1>3, <1>4

\* In the middle of a write, what is sent is what the batch had before it and what
\* of it is written; once written, the batch.
LEMMA SentInFlush ==
    ASSUME IInv
    PROVE  /\ pc = "write" => /\ IsSent(batch.offset + written, Len(durable))
                              /\ batch.offset + batch.length \in 0 .. tailLen
           /\ pc = "offset" => /\ IsSent(batch.offset + batch.length, Len(durable))
                               /\ batch.offset + batch.length \in 0 .. tailLen
                               /\ offsetFile \in {batch.offset, batch.offset + batch.length}
                               /\ batch.length > 0
<1>0. batch.offset \in Nat /\ batch.length \in Nat
    BY DEF IInv, TypeOK, Batches
<1>1. /\ Len(durable) \in Nat /\ synced \in Nat /\ synced <= Len(durable)
      /\ newlines \subseteq 1 .. tailLen /\ tailLen \in Nat
    BY DEF IInv, TypeOK
<1>2. CASE pc = "write"
  <2>1. /\ OnIntent /\ Promise(intent)
        /\ \A j \in 1 .. Len(durable) : durable[j] <= batch.offset + written
        /\ \A v \in 1 .. batch.offset + written : Holds(v, Len(durable))
      BY <1>2 DEF IInv, FlushInv, FilesInv
  <2>2. batch.offset + batch.length \in newlines
      BY <2>1 DEF OnIntent, Promise
  <2>3. batch.offset + batch.length \in 0 .. tailLen
      BY <1>0, <1>1, <2>2
  <2>4. QED
      BY <1>2, <2>1, <2>3 DEF IsSent
<1>3. CASE pc = "offset"
  <2>1. /\ OnIntent /\ Promise(intent)
        /\ \A v \in 1 .. batch.offset + batch.length : Holds(v, synced)
      BY <1>3 DEF IInv, FlushInv, FilesInv
  <2>2. \A v \in 1 .. batch.offset + batch.length : Holds(v, Len(durable))
      BY <1>1, <2>1 DEF Holds
  <2>3. /\ batch.length > 0
        /\ batch.offset + batch.length \in newlines
        /\ offsetFile \in {batch.offset, batch.offset + batch.length}
        /\ \A j \in 1 .. Len(durable) : durable[j] <= batch.offset + batch.length
      BY <2>1 DEF OnIntent, Promise
  <2>4. batch.offset + batch.length \in 0 .. tailLen
      BY <1>0, <1>1, <2>3
  <2>5. QED
      BY <1>3, <2>2, <2>3, <2>4 DEF IsSent
<1>4. QED
    BY <1>2, <1>3
\* Appends extend what is sent by at most the next byte, a crash cuts it short.
LEMMA NextPrefixes ==
    ASSUME IInv, Prefixes, [Next]_vars
    PROVE  Prefixes'
<1>1. /\ TypeOK /\ tailLen \in Nat /\ Len(durable) \in Nat
      /\ batch.offset \in Nat /\ batch.length \in Nat /\ written \in Nat
    BY DEF IInv, TypeOK, Batches
<1>2. ASSUME UNCHANGED durable, tailLen' \in Nat, tailLen <= tailLen' PROVE Prefixes'
  <2>1. ASSUME NEW m \in 0 .. Len(durable), NEW n \in 0 .. tailLen, IsSent(n, m)
        PROVE  IsSent(n, m)' /\ n \in 0 .. tailLen'
      BY <1>1, <1>2, <2>1 DEF IsSent, Holds
  <2>2. ASSUME NEW m \in 0 .. Len(durable) PROVE \E n \in 0 .. tailLen' : IsSent(n, m)'
      BY <2>1 DEF Prefixes
  <2>3. QED
      BY <1>2, <2>2 DEF Prefixes
<1>3. CASE HookAppend
    BY <1>1, <1>2, <1>3 DEF HookAppend
<1>4. CASE ForeignAppend
    BY <1>1, <1>4, AppendExtends DEF ForeignAppend
<1>5. CASE WriteByte
  <2> DEFINE x == batch.offset + written + 1
  <2>1. x \in Nat /\ x <= tailLen /\ IsSent(x - 1, Len(durable))
    <3>1. /\ IsSent(batch.offset + written, Len(durable)) /\ written < batch.length
          /\ batch.offset + batch.length \in 0 .. tailLen
        BY <1>5, SentInFlush DEF WriteByte
    <3>2. x - 1 = batch.offset + written
        BY <1>1
    <3>3. QED
        BY <1>1, <3>1, <3>2
  <2>2. QED
      BY <1>1, <1>5, <2>1, AppendExtends DEF WriteByte
<1>6. CASE HostCrash
  <2>1. PICK n \in 0 .. Len(durable) : durable' = SubSeq(durable, 1, n)
      BY <1>1, <1>6 DEF HostCrash, TypeOK
  <2>2. /\ Len(durable') = n /\ \A j \in 1 .. n : durable'[j] = durable[j]
        /\ tailLen' = tailLen
      BY <1>1, <1>6, <2>1, PrefixFacts DEF HostCrash, TypeOK
  <2>3. ASSUME NEW m \in 0 .. n PROVE \E k \in 0 .. tailLen' : IsSent(k, m)'
    <3>1. m \in 0 .. Len(durable) /\ \A j \in 1 .. m : j \in 1 .. n
        BY <1>1, <2>1
    <3>2. PICK k \in 0 .. tailLen : IsSent(k, m)
        BY <3>1 DEF Prefixes
    <3>3. IsSent(k, m)'
        BY <2>2, <3>1, <3>2 DEF IsSent, Holds
    <3>4. QED
        BY <2>2, <3>3
  <2>4. QED
      BY <2>2, <2>3 DEF Prefixes
<1>7. CASE \/ FlushRecover \/ FlushRead \/ PublishIntent \/ RecoverAppend \/ RecoverConflict
           \/ Fsync \/ PublishOffset \/ RemoveIntent \/ FlushThrows \/ UNCHANGED vars
  <2>1. UNCHANGED <<durable, tailLen>>
      BY <1>7 DEF FlushRecover, FlushRead, PublishIntent, RecoverAppend, RecoverConflict,
                  Fsync, PublishOffset, RemoveIntent, FlushThrows, vars, files
  <2>2. QED
      BY <1>1, <1>2, <2>1
<1>8. QED
    BY <1>3, <1>4, <1>5, <1>6, <1>7 DEF Next

\* So there is always exactly one number that Sent may be.
LEMMA PrefixesHold == Spec => []Prefixes
<1>1. Init => Prefixes
    BY BoundsAssumption DEF Init, Prefixes, IsSent
<1>2. QED
    BY <1>1, NextPrefixes, Inductive, PTL DEF Spec
\* Each step of the runtime ledger is a step of the outbox, or none.
LEMMA StepsRefine ==
    ASSUME IInv, IInv', Prefixes, Prefixes', [Next]_vars
    PROVE  [OutboxSpec!Next]_OutboxSpec!outboxVars
<1> USE DEF OutboxSpec!outboxVars
<1>1. /\ TypeOK /\ tailLen \in Nat /\ Len(durable) \in Nat /\ offsetFile \in Nat
      /\ batch.offset \in Nat /\ batch.length \in Nat /\ written \in Nat
  <2>1. TypeOK
      BY DEF IInv
  <2>2. tailLen \in Nat /\ durable \in Seq(Nat)
      BY <2>1, BoundsAssumption DEF TypeOK
  <2>3. offsetFile \in Nat /\ batch.offset \in Nat /\ batch.length \in Nat /\ written \in Nat
      BY <2>1 DEF TypeOK, Batches
  <2>4. Len(durable) \in Nat
      BY <2>2
  <2>5. QED
      BY <2>1, <2>2, <2>3, <2>4
<1>2. TypeOK'
    BY DEF IInv
<1>3. PICK n \in 0 .. tailLen : IsSent(n, Len(durable))
  <2>1. Len(durable) \in 0 .. Len(durable)
      BY <1>1
  <2>2. QED
      BY <2>1 DEF Prefixes
<1>4. Sent = n
    BY <1>1, <1>3, SentIs DEF SentUnique
<1>5. ASSUME NEW k \in 0 .. tailLen', IsSent(k, Len(durable))' PROVE Sent' = k
    BY <1>2, <1>5, SentIsNext DEF SentUnique
<1>6. ASSUME durable' = durable, tailLen' \in Nat, tailLen <= tailLen' PROVE Sent' = Sent
  <2>1. IsSent(n, Len(durable))' /\ n \in 0 .. tailLen'
      BY <1>1, <1>3, <1>6 DEF IsSent, Holds
  <2>2. QED
      BY <1>4, <1>5, <2>1
<1>7. CASE HookAppend
  <2>1. tailLen' = tailLen + 1 /\ UNCHANGED offsetFile /\ Sent' = Sent
      BY <1>1, <1>6, <1>7 DEF HookAppend
  <2>2. QED
      BY <2>1 DEF OutboxSpec!Next, OutboxSpec!Produce
<1>8. CASE ForeignAppend
  <2>1. durable' = Append(durable, 0) /\ UNCHANGED <<tailLen, offsetFile>>
      BY <1>8 DEF ForeignAppend
  <2>2. /\ Len(durable') = Len(durable) + 1 /\ durable'[Len(durable) + 1] = 0
        /\ \A j \in 1 .. Len(durable) : durable'[j] = durable[j]
      BY <1>1, <2>1, AppendFacts DEF TypeOK
  <2>3. IsSent(n, Len(durable))'
    <3>1. \A j \in 1 .. Len(durable) + 1 : durable'[j] <= n
        BY <1>1, <1>3, <2>2 DEF IsSent
    <3>2. \A v \in 1 .. n : \E j \in 1 .. Len(durable) + 1 : durable'[j] = v
        BY SMTT(30), <1>1, <1>3, <2>2 DEF IsSent, Holds
    <3>3. QED
        BY <2>2, <3>1, <3>2 DEF IsSent, Holds
  <2>4. QED
      BY <1>4, <1>5, <2>1, <2>3
<1>9. CASE WriteByte
  <2>1. PICK x \in Nat : x = batch.offset + written + 1
      BY <1>1
  <2>2. /\ durable' = Append(durable, x) /\ UNCHANGED <<tailLen, offsetFile>>
        /\ pc = "write" /\ written < batch.length
      BY <1>9, <2>1 DEF WriteByte
  <2>3. /\ IsSent(batch.offset + written, Len(durable))
        /\ batch.offset + batch.length \in 0 .. tailLen
      BY <2>2, SentInFlush
  <2>4. /\ batch.offset + written = x - 1 /\ x > 0 /\ x <= tailLen
        /\ x - 1 \in 0 .. tailLen /\ x \in 0 .. tailLen'
    <3>1. \A o, l, w, t \in Nat : x = o + w + 1 /\ w < l /\ o + l <= t =>
            o + w = x - 1 /\ x > 0 /\ x <= t /\ x - 1 \in 0 .. t /\ x \in 0 .. t
        OBVIOUS
    <3>2. batch.offset + batch.length <= tailLen
        BY <2>3
    <3>3. QED
        BY <1>1, <2>1, <2>2, <3>1, <3>2
  <2>5. Sent = x - 1
      BY <1>1, <2>3, <2>4, SentIs DEF SentUnique
  <2>6. IsSent(x, Len(durable))'
      BY <1>1, <2>2, <2>3, <2>4, AppendExtends
  <2>7. Sent' = x
      BY <1>5, <2>4, <2>6
  <2>8. Sent' = Sent + 1 /\ Sent < tailLen
      BY <1>1, <2>4, <2>5, <2>7
  <2>9. QED
      BY <2>2, <2>8 DEF OutboxSpec!Next, OutboxSpec!Deliver
<1>10. CASE PublishOffset
  <2>1. /\ pc = "offset" /\ offsetFile' = batch.offset + batch.length
        /\ UNCHANGED <<durable, tailLen>>
      BY <1>10 DEF PublishOffset, BatchOffset
  <2>2. /\ IsSent(batch.offset + batch.length, Len(durable))
        /\ batch.offset + batch.length \in 0 .. tailLen
        /\ offsetFile \in {batch.offset, batch.offset + batch.length} /\ batch.length > 0
      BY <2>1, SentInFlush
  <2>3. Sent = batch.offset + batch.length /\ Sent' = Sent
      BY <1>1, <1>6, <2>1, <2>2, SentIs DEF SentUnique
  <2>4. CASE offsetFile = batch.offset
    <3>1. offsetFile' \in (offsetFile + 1) .. Sent
        BY <1>1, <2>1, <2>2, <2>3, <2>4
    <3>2. QED
        BY <2>1, <2>3, <3>1 DEF OutboxSpec!Next, OutboxSpec!Acknowledge
  <2>5. CASE offsetFile # batch.offset
      BY <2>1, <2>2, <2>3, <2>5
  <2>6. QED
      BY <2>4, <2>5
<1>11. CASE HostCrash
  <2>1. PICK c \in synced .. Len(durable) : durable' = SubSeq(durable, 1, c)
      BY <1>11 DEF HostCrash
  <2>2. /\ synced \in Nat /\ c \in 0 .. Len(durable) /\ synced <= c
        /\ Len(durable') = c /\ \A j \in 1 .. c : durable'[j] = durable[j]
        /\ UNCHANGED <<tailLen, offsetFile>>
      BY <1>1, <1>11, <2>1, PrefixFacts DEF HostCrash, TypeOK
  <2>3. PICK k \in 0 .. tailLen : IsSent(k, c)
      BY <2>2 DEF Prefixes
  <2>4. IsSent(k, Len(durable))'
      BY <2>2, <2>3 DEF IsSent, Holds
  <2>5. Sent' = k
      BY <1>5, <2>2, <2>4
  <2>6. k <= n
    <3>1. CASE k = 0
        BY <1>1, <3>1
    <3>2. CASE k # 0
      <4>1. PICK j \in 1 .. c : durable[j] = k
          BY <1>1, <2>3, <3>2 DEF IsSent, Holds
      <4>2. QED
          BY <1>1, <1>3, <2>2, <4>1 DEF IsSent
    <3>3. QED
        BY <3>1, <3>2
  <2>7. offsetFile <= k
    <3>1. CASE offsetFile = 0
        BY <1>1, <3>1
    <3>2. CASE offsetFile # 0
      <4>1. PICK j \in 1 .. synced : durable[j] = offsetFile
          BY <1>1, <3>2 DEF IInv, AcknowledgedIsDurable, Holds
      <4>2. QED
          BY <1>1, <2>2, <2>3, <4>1 DEF IsSent
    <3>3. QED
        BY <3>1, <3>2
  <2>8. Sent' \in offsetFile .. Sent
      BY <1>1, <1>4, <2>5, <2>6, <2>7
  <2>9. QED
      BY <2>2, <2>8 DEF OutboxSpec!Next, OutboxSpec!FallBack
<1>12. CASE \/ FlushRecover \/ FlushRead \/ PublishIntent \/ RecoverAppend \/ RecoverConflict
            \/ Fsync \/ RemoveIntent \/ FlushThrows \/ UNCHANGED vars
  <2>1. UNCHANGED <<durable, tailLen, offsetFile>>
      BY <1>12 DEF FlushRecover, FlushRead, PublishIntent, RecoverAppend, RecoverConflict,
                   Fsync, RemoveIntent, FlushThrows, vars, files
  <2>2. QED
      BY <1>1, <1>6, <2>1
<1>13. QED
    BY <1>7, <1>8, <1>9, <1>10, <1>11, <1>12 DEF Next

\* The ledger's files, locks, crashes and recoveries implement the outbox: what is
\* sent grows by the next byte of the tail, is never sent twice, and falls back no
\* further than the offset that is published.
THEOREM Refinement == Spec => ImplementsOutbox
<1>1. Init => OutboxSpec!Init
  <2> SUFFICES ASSUME Init PROVE OutboxSpec!Init
      OBVIOUS
  <2>1. TypeOK /\ tailLen = 0 /\ durable = <<>> /\ offsetFile = 0
      BY InitTypeOK DEF Init
  <2>2. 0 \in 0 .. tailLen /\ IsSent(0, Len(durable))
      BY <2>1 DEF IsSent
  <2>3. QED
      BY <2>1, <2>2, SentIs DEF SentUnique, OutboxSpec!Init
<1>2. QED
    BY <1>1, StepsRefine, Inductive, PrefixesHold, PTL DEF Spec, ImplementsOutbox, OutboxSpec!Spec
===============================================================================
