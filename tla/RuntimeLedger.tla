----------------------------- MODULE RuntimeLedger -----------------------------
(***************************************************************************)
(* RuntimeLedger (queue_path.hpp): the daemon thread that ships the hooks' *)
(* node-local outcome tail to the durable outcome ledger on the shared     *)
(* file system, with an offset file and an intent file in between.         *)
(*                                                                         *)
(* A byte of the tail is known by its position; the durable ledger is the  *)
(* sequence of the tail positions it holds, with 0 for a byte somebody     *)
(* else appended (a hook without CHITTA_RUNTIME_LOCAL, the daemon of       *)
(* another node).  Records are JSON lines: `newlines' holds the positions  *)
(* that end one.  A host crash loses any suffix of the durable ledger that *)
(* was not fsynced, and the removal of the intent file if no later publish *)
(* fsynced the directory.                                                  *)
(***************************************************************************)
EXTENDS Integers, Sequences, FiniteSets

CONSTANTS
    MaxTail,      \* bound: bytes the hooks write
    MaxForeign,   \* bound: bytes other writers append to the durable ledger
    MaxFaults,    \* bound: exceptions and crashes
    Chunk         \* the 1 MiB bound on one flush's allocation

ASSUME BoundsAssumption ==
    /\ MaxTail \in Nat
    /\ MaxForeign \in Nat
    /\ MaxFaults \in Nat
    /\ Chunk \in Nat \ {0}

VARIABLES
    tailLen,      \* size of outcome_ledger.tail, which is never truncated
    newlines,     \* positions in the tail that hold a newline
    durable,      \* outcome_ledger.jsonl: tail position of each byte, 0 foreign
    synced,       \* prefix of the durable ledger that has been fsynced
    offsetFile,   \* outcome_ledger.tail.offset (0 when missing)
    intent,       \* outcome_ledger.tail.intent (length 0 when missing)
    ghost,        \* a removed intent whose directory entry is not fsynced yet
    pc,           \* where flush() is
    batch,        \* its locals: the part of the tail it ships,
    written,      \*   and how many bytes of it are in the durable ledger
    foreign,      \* bytes appended by others so far (bounded)
    faults        \* exceptions and crashes so far (bounded)

files == <<durable, synced, offsetFile, intent, ghost>>
vars == <<tailLen, newlines, durable, synced, offsetFile, intent, ghost,
          pc, batch, written, foreign, faults>>

Intents == [offset : Nat, length : Nat, destination : Nat]
NoIntent == [offset |-> 0, length |-> 0, destination |-> 0]
Batches == [offset : Nat, length : Nat]
NoBatch == [offset |-> 0, length |-> 0]

TypeOK ==
    /\ tailLen \in 0 .. MaxTail
    /\ newlines \in SUBSET (1 .. tailLen)
    /\ durable \in Seq(Nat)
    /\ synced \in 0 .. Len(durable)
    /\ offsetFile \in Nat
    /\ intent \in Intents
    /\ ghost \in Intents
    /\ pc \in {"idle", "lock", "recover", "write", "offset", "remove"}
    /\ batch \in Batches
    /\ written \in Nat
    /\ foreign \in 0 .. MaxForeign
    /\ faults \in 0 .. MaxFaults

Init ==
    /\ tailLen = 0
    /\ newlines = {}
    /\ durable = <<>>
    /\ synced = 0
    /\ offsetFile = 0
    /\ intent = NoIntent
    /\ ghost = NoIntent
    /\ pc = "idle"
    /\ batch = NoBatch
    /\ written = 0
    /\ foreign = 0
    /\ faults = 0

-------------------------------------------------------------------------------
(* The writers around the daemon.                                          *)

\* hooks/outcome-ledger.sh: a hook writes the next byte of its JSON line.
HookAppend ==
    /\ tailLen < MaxTail
    /\ tailLen' = tailLen + 1
    /\ newlines' \in {newlines, newlines \cup {tailLen + 1}}
    /\ UNCHANGED <<durable, synced, offsetFile, intent, ghost, pc, batch, written, foreign, faults>>

\* Appends straight to the durable ledger take no .append.lock.
ForeignAppend ==
    /\ foreign < MaxForeign
    /\ foreign' = foreign + 1
    /\ durable' = Append(durable, 0)
    /\ UNCHANGED <<tailLen, newlines, synced, offsetFile, intent, ghost, pc, batch, written, faults>>

-------------------------------------------------------------------------------
(* flush().                                                                *)

\* Mutant: a chunk without a newline is left for a later flush.
BatchEndInChunk(e) ==
    LET inChunk(p) == offsetFile < p /\ p <= offsetFile + Chunk
    IN  e \in newlines /\ inChunk(e) /\ \A p \in newlines : inChunk(p) => p <= e

\* The end of the batch a fresh flush takes: the last newline of the chunk,
\* or, when the chunk holds none, the first newline after it (getline).
BatchEnd(e) ==
    LET size == tailLen - offsetFile
        count == IF size < Chunk THEN size ELSE Chunk
        inChunk(p) == offsetFile < p /\ p <= offsetFile + count
    IN  /\ e \in newlines
        /\ e > offsetFile
        /\ IF \E p \in newlines : inChunk(p)
             THEN inChunk(e) /\ \A p \in newlines : inChunk(p) => p <= e
             ELSE \A p \in newlines : p > offsetFile + count => e <= p

\* Mutant: recovery waits for bytes beyond its batch.
IntentBelowTail == tailLen > intent.offset + intent.length

IntentInTail == tailLen >= intent.offset + intent.length

\* An intent file means an append may have been cut short: its batch, and
\* nothing newer, is what this flush works on.
FlushRecover ==
    /\ pc = "idle"
    /\ intent.length > 0
    /\ IntentInTail
    /\ pc' = "recover"
    /\ batch' = [offset |-> intent.offset, length |-> intent.length]
    /\ written' = 0
    /\ UNCHANGED <<tailLen, newlines, foreign, faults, files>>

FlushRead ==
    /\ pc = "idle"
    /\ intent.length = 0
    /\ tailLen > offsetFile
    /\ \E e \in newlines :
         /\ BatchEnd(e)
         /\ batch' = [offset |-> offsetFile, length |-> e - offsetFile]
    /\ written' = 0
    /\ pc' = "lock"
    /\ UNCHANGED <<tailLen, newlines, foreign, faults, files>>

\* Mutant: the append starts without an intent on disk.
NoNewIntent == NoIntent

NewIntent == [offset |-> batch.offset, length |-> batch.length, destination |-> Len(durable)]

\* A fresh batch: the intent names where the append will start.
PublishIntent ==
    /\ pc = "lock"
    /\ intent' = NewIntent
    /\ ghost' = NoIntent
    /\ pc' = "write"
    /\ UNCHANGED <<tailLen, newlines, durable, synced, offsetFile, batch, written, foreign, faults>>

\* Mutant: recovery appends the whole batch again.
AlreadyIgnored == 0

\* How much of the batch the durable ledger already holds at the destination.
Already ==
    LET room == Len(durable) - intent.destination
    IN  IF batch.length < room THEN batch.length ELSE room

Matches ==
    /\ Len(durable) >= intent.destination
    /\ \A i \in 1 .. Already : durable[intent.destination + i] = batch.offset + i

RecoverAppend ==
    /\ pc = "recover"
    /\ Matches
    /\ written' = Already
    /\ pc' = "write"
    /\ UNCHANGED <<tailLen, newlines, batch, foreign, faults, files>>

\* "recovery conflict; tail retained", or "destination truncated": flush()
\* throws and the intent stays.
RecoverConflict ==
    /\ pc = "recover"
    /\ ~Matches
    /\ pc' = "idle"
    /\ batch' = NoBatch
    /\ written' = 0
    /\ UNCHANGED <<tailLen, newlines, foreign, faults, files>>

\* write_all: write() may take any part of the data, one byte here, and other
\* appends may land between two of its calls.
WriteByte ==
    /\ pc = "write"
    /\ written < batch.length
    /\ durable' = Append(durable, batch.offset + written + 1)
    /\ written' = written + 1
    /\ UNCHANGED <<tailLen, newlines, synced, offsetFile, intent, ghost, pc, batch, foreign, faults>>

\* Mutant: no fsync before the offset is published.
NothingSynced == synced

FsyncedTo == Len(durable)

Fsync ==
    /\ pc = "write"
    /\ written = batch.length
    /\ synced' = FsyncedTo
    /\ pc' = "offset"
    /\ UNCHANGED <<tailLen, newlines, durable, offsetFile, intent, ghost, batch, written, foreign, faults>>

\* Mutant: the offset published is the size of the tail.
TailSize == tailLen

BatchOffset == batch.offset + batch.length

PublishOffset ==
    /\ pc = "offset"
    /\ offsetFile' = BatchOffset
    /\ pc' = "remove"
    /\ UNCHANGED <<tailLen, newlines, durable, synced, intent, ghost, batch, written, foreign, faults>>

RemoveIntent ==
    /\ pc = "remove"
    /\ ghost' = intent
    /\ intent' = NoIntent
    /\ pc' = "idle"
    /\ batch' = NoBatch
    /\ written' = 0
    /\ UNCHANGED <<tailLen, newlines, durable, synced, offsetFile, foreign, faults>>

-------------------------------------------------------------------------------
(* What goes wrong.                                                        *)

\* Any system call of flush() may fail: it throws, the thread logs the error
\* and flushes again.  A daemon killed at this point restarts the same way,
\* and so does a flush that finds the append lock taken by another node.
FlushThrows ==
    /\ pc # "idle"
    /\ faults < MaxFaults
    /\ faults' = faults + 1
    /\ pc' = "idle"
    /\ batch' = NoBatch
    /\ written' = 0
    /\ UNCHANGED <<tailLen, newlines, foreign, files>>

HostCrash ==
    /\ faults < MaxFaults
    /\ faults' = faults + 1
    /\ pc' = "idle"
    /\ batch' = NoBatch
    /\ written' = 0
    /\ \E n \in synced .. Len(durable) :
         durable' = SubSeq(durable, 1, n)
    /\ intent' \in {intent, IF ghost.length > 0 THEN ghost ELSE intent}
    /\ ghost' = NoIntent
    /\ UNCHANGED <<tailLen, newlines, synced, offsetFile, foreign>>

Next ==
    \/ HookAppend \/ ForeignAppend
    \/ FlushRecover \/ FlushRead \/ PublishIntent \/ RecoverAppend \/ RecoverConflict
    \/ WriteByte \/ Fsync \/ PublishOffset \/ RemoveIntent
    \/ FlushThrows \/ HostCrash

Spec == Init /\ [][Next]_vars

\* The ledger thread calls flush() every 50 ms for as long as the daemon runs,
\* and nobody else takes the append lock.
FlushStep ==
    \/ FlushRecover \/ FlushRead \/ PublishIntent \/ RecoverAppend
    \/ WriteByte \/ Fsync \/ PublishOffset \/ RemoveIntent

FairSpec == Spec /\ WF_vars(FlushStep)

-------------------------------------------------------------------------------
(* Properties.                                                             *)

Holds(v, n) == \E j \in 1 .. n : durable[j] = v

\* The durable ledger holds the tail's bytes in order, each once and without
\* a gap, however appends, exceptions, crashes and recoveries interleave: the
\* intent closes "the crash gap between durable append and local offset
\* publication".
ExactlyOnce ==
    /\ \A i, j \in DOMAIN durable :
         i < j /\ durable[i] > 0 /\ durable[j] > 0 => durable[i] < durable[j]
    /\ \A j \in DOMAIN durable : \A v \in 1 .. durable[j] : Holds(v, Len(durable))

\* The published offset only covers bytes that are fsynced in the durable
\* ledger: no crash after publish(offset) can lose a byte that flush() will
\* not read again.
AcknowledgedIsDurable ==
    \A v \in 1 .. offsetFile : Holds(v, synced)

\* A record cut in the middle is only ever on the durable ledger while an
\* intent still promises the rest of it, and the offset never splits one.
TornOnlyUnderIntent ==
    /\ offsetFile \in newlines \cup {0}
    /\ intent.length = 0 =>
         \A j \in DOMAIN durable :
            durable[j] > 0 => \E e \in newlines : durable[j] <= e /\ Holds(e, Len(durable))

\* The ledger with its files, locks and crashes is an implementation of the
\* outbox: nothing sent twice, nothing acknowledged ever withdrawn.
Sent == CHOOSE n \in 0 .. tailLen :
            /\ \A v \in 1 .. n : Holds(v, Len(durable))
            /\ \A j \in DOMAIN durable : durable[j] <= n

OutboxSpec == INSTANCE Outbox WITH produced <- tailLen, sent <- Sent, acked <- offsetFile

ImplementsOutbox == OutboxSpec!Spec

\* Only bytes of another writer inside a torn batch stop the flusher
\* ("recovery conflict; tail retained"), and then for good.
Conflict ==
    /\ foreign > 0
    /\ intent.length > 0
    /\ \/ Len(durable) < intent.destination
       \/ \E j \in DOMAIN durable : j > intent.destination /\ durable[j] = 0

\* With finitely many faults every complete record, however large, is shipped
\* and acknowledged, unless another writer's bytes block the flusher for ever.
EveryRecordShipped ==
    \A p \in 1 .. MaxTail : p \in newlines ~> (offsetFile >= p \/ []Conflict)
===============================================================================
