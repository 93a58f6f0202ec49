-------------------------------- MODULE Capsule --------------------------------
(***************************************************************************)
(* Handoff capsules (field_task_ledger.cpp, hook_ledger_policy.hpp): the   *)
(* checkpoints agents leave for whoever continues their work.  A session's *)
(* ledger row holds at most one capsule; the capsules of a key - a stream, *)
(* or the session itself when it has none - share one revision counter,    *)
(* which is the largest revision found among the rows.                     *)
(*                                                                         *)
(* Two kinds of writer compare and set that revision.  A client reads a    *)
(* capsule and calls capsule_save.  The Stop hook asks the daemon to       *)
(* prepare a write (hook_handoff_prepare) and queues it; the queue lane    *)
(* applies it later, and again after a crash that lost its checkpoint.     *)
(*                                                                         *)
(* A handler runs under stream_mutex and capsule_mutex, and appends one    *)
(* WAL batch before it publishes the row.  capsule_save and capsule_get    *)
(* are answered after a store sync; the operations is_read lists are not.  *)
(***************************************************************************)
EXTENDS Integers, Sequences

CONSTANTS
    Sessions, Streams,
    CodeStates,   \* code_head and dirty_paths, as far as equality tells
    SaveStates,   \* the states that callers of capsule_save give
    MaxSaves,     \* bound: accepted calls of capsule_save and unversioned writers
    MaxStops,     \* bound: prepared Stop writes
    MaxCrashes    \* bound: host crashes

ASSUME CapsuleAssumption ==
    /\ Sessions \cap Streams = {}
    /\ SaveStates \subseteq {"complete", "in_progress", "missing", "invalidated"}
    /\ MaxSaves \in Nat /\ MaxStops \in Nat /\ MaxCrashes \in Nat

Keys == Sessions \cup Streams
NoKey == "none"
States == {"complete", "in_progress", "missing", "invalidated"}

\* `id' tells one written capsule from every other, as its contents do.
NoCapsule == [version |-> 0, key |-> NoKey, revision |-> 0, state |-> "missing",
              code |-> NoKey, id |-> 0]
Legacy == [NoCapsule EXCEPT !.version = 1]
Capsules == [version : {2}, key : Keys, revision : Nat \ {0}, state : States,
             code : CodeStates, id : Nat \ {0}]

VARIABLES
    phase,      \* "replay" (load_task_ledger) or "serving"
    rows,       \* thread_sessions: the handoff of each session's metadata
    wal,        \* the batches that write capsules, oldest first
    loaded,     \* how many of them `rows' reflects
    synced,     \* how many of them a host crash cannot take back
    pending,    \* by session: the capsule an answer on its way will report
    view,       \* by session: the capsule its client last read or saved
    acked,      \* ids reported in an answer that followed a successful sync
    queue,      \* prepared Stop writes, as queue_write appended them
    taken,      \* how many of them the lane has processed
    offset,     \* how many its checkpoint file covers
    retracted,  \* ids of capsules that a crash took back
    saves, crashes

vars == <<phase, rows, wal, loaded, synced, pending, view, acked, queue, taken,
          offset, retracted, saves, crashes>>

Batches == [session : Sessions, cap : Capsules \cup {Legacy}, base : Nat]
Prepared == [session : Sessions, cap : Capsules, base : Nat, expected : Nat]

TypeOK ==
    /\ phase \in {"replay", "serving"}
    /\ rows \in [Sessions -> Capsules \cup {NoCapsule, Legacy}]
    /\ wal \in Seq(Batches)
    /\ loaded \in 0 .. Len(wal) /\ synced \in 0 .. Len(wal)
    /\ pending \in [Sessions -> Capsules \cup {NoCapsule}]
    /\ view \in [Sessions -> Capsules \cup {NoCapsule}]
    /\ acked \subseteq Nat /\ retracted \subseteq Nat
    /\ queue \in Seq(Prepared)
    /\ taken \in 0 .. Len(queue) /\ offset \in 0 .. taken
    /\ saves \in Nat /\ crashes \in Nat

Init ==
    /\ phase = "serving"
    /\ rows = [s \in Sessions |-> NoCapsule]
    /\ wal = <<>> /\ loaded = 0 /\ synced = 0
    /\ pending = [s \in Sessions |-> NoCapsule]
    /\ view = [s \in Sessions |-> NoCapsule]
    /\ acked = {} /\ retracted = {}
    /\ queue = <<>> /\ taken = 0 /\ offset = 0
    /\ saves = 0 /\ crashes = 0

-------------------------------------------------------------------------------
(* latest_by_key and the two checks every version 2 writer passes.         *)

KeyRows(k) == {s \in Sessions : rows[s].version = 2 /\ rows[s].key = k}

IsLatest(s, k) == \A t \in KeyRows(k) : rows[t].revision <= rows[s].revision

Latest(k) ==
    IF KeyRows(k) = {} THEN NoCapsule
    ELSE rows[CHOOSE s \in KeyRows(k) : IsLatest(s, k)]

\* Mutant: a session may move on to another key.
AnyKey(s, k) == TRUE

\* "capsule session key is immutable"
KeyKept(s, k) == rows[s].version = 2 => rows[s].key = k

\* Mutant: the revision a writer expects is not compared.
Unchecked(k, expected) == TRUE

\* "capsule revision mismatch"
RevisionMatches(k, expected) == expected = Latest(k).revision

\* Fresh identities: saves take the odd numbers, Stop writes the even ones.
SaveId == 2 * saves + 1
StopId == 2 * Len(queue) + 2

\* The WAL batch is appended, then the row published; a failed append throws
\* before the row is touched.
Write(s, cap, base) ==
    /\ wal' = Append(wal, [session |-> s, cap |-> cap, base |-> base])
    /\ rows' = [rows EXCEPT ![s] = cap]
    /\ loaded' = loaded + 1

-------------------------------------------------------------------------------
(* Clients: read, save, and the answers.                                   *)

Idle(s) == phase = "serving" /\ pending[s] = NoCapsule

\* hook_handoff_context shows the revision in its card.
Look(s, k) ==
    /\ Idle(s)
    /\ k \in Streams \cup {s}
    /\ Latest(k) # NoCapsule
    /\ view' = [view EXCEPT ![s] = Latest(k)]
    /\ UNCHANGED <<phase, rows, wal, loaded, pending, queue, taken, offset, retracted,
                   saves, crashes>>

\* It is one of the operations is_read lists: no sync.
Context(s, k) == Look(s, k) /\ UNCHANGED <<synced, acked>>

\* capsule_get is dispatched like a write: it is answered after a sync.  A crash
\* in between is as if it had not been called; a failed sync makes it a Context.
Get(s, k) ==
    /\ Look(s, k)
    /\ synced' = Len(wal)
    /\ acked' = acked \cup {Latest(k).id}

\* A client passes the revision it has seen of the key, or 0.
Seen(s, k) == IF view[s].key = k THEN view[s] ELSE NoCapsule

NextRevision(s, k) == Latest(k).revision + 1

Save(s, k, st, c) ==
    /\ Idle(s) /\ saves < MaxSaves
    /\ k \in Streams \cup {s}
    /\ KeyKept(s, k)
    /\ RevisionMatches(k, Seen(s, k).revision)
    /\ LET cap == [version |-> 2, key |-> k, revision |-> NextRevision(s, k),
                   state |-> st, code |-> c, id |-> SaveId]
       IN  /\ Write(s, cap, Seen(s, k).id)
           /\ pending' = [pending EXCEPT ![s] = cap]
    /\ saves' = saves + 1
    /\ UNCHANGED <<phase, synced, view, acked, queue, taken, offset, retracted, crashes>>

\* A session_bind with an unversioned handoff may not replace a version 2 one.
BindLegacy(s) ==
    /\ Idle(s) /\ saves < MaxSaves
    /\ rows[s].version # 2
    /\ Write(s, Legacy, 0)
    /\ saves' = saves + 1
    /\ UNCHANGED <<phase, synced, pending, view, acked, queue, taken, offset, retracted,
                   crashes>>

Deliver(s) ==
    /\ view' = [view EXCEPT ![s] = pending[s]]
    /\ pending' = [pending EXCEPT ![s] = NoCapsule]

\* Mutant: the answer leaves before the sync.
AnswerFirst(s) == synced

SyncForAnswer(s) == Len(wal)

\* handle_tools_call: the store is synced off the rpc lock, then the answer leaves.
Answer(s) ==
    /\ phase = "serving" /\ pending[s] # NoCapsule
    /\ Deliver(s)
    /\ synced' = SyncForAnswer(s)
    /\ acked' = acked \cup {pending[s].id}
    /\ UNCHANGED <<phase, rows, wal, loaded, queue, taken, offset, retracted, saves, crashes>>

\* The status of the sync is discarded: the same answer leaves when it failed.
AnswerUnsynced(s) ==
    /\ phase = "serving" /\ pending[s] # NoCapsule
    /\ Deliver(s)
    /\ UNCHANGED <<phase, rows, wal, loaded, synced, acked, queue, taken, offset,
                   retracted, saves, crashes>>

-------------------------------------------------------------------------------
(* The Stop hook and the queue lane.                                       *)

\* Mutant: a Stop without a next action always invalidates.
PrepareInvalid(old, c, next) == IF next THEN "in_progress" ELSE "invalidated"

\* "A Stop cannot erase an explicit completed milestone at the same code state."
PreparedState(old, c, next) ==
    IF next THEN "in_progress"
    ELSE IF old.state = "complete" /\ old.code = c THEN "complete"
    ELSE "invalidated"

\* prepare_capsule, answered without a sync; the hook appends the result to
\* the queue.  `next' says whether a next action was found.
Stop(s, k, c, next) ==
    /\ phase = "serving" /\ Len(queue) < MaxStops
    /\ k \in Streams \cup {s}
    /\ LET old == Latest(k)
           cap == [version |-> 2, key |-> k, revision |-> old.revision + 1,
                   state |-> PreparedState(old, c, next), code |-> c, id |-> StopId]
       IN  queue' = Append(queue, [session |-> s, cap |-> cap, base |-> old.id,
                                   expected |-> old.revision])
    /\ UNCHANGED <<phase, rows, wal, loaded, synced, pending, view, acked, taken, offset,
                   retracted, saves, crashes>>

\* Mutant: the queued writer takes whatever revision is current.
AdmitLate(w) == KeyKept(w.session, w.cap.key)

\* session_bind with a version 2 handoff.
Admitted(w) ==
    /\ KeyKept(w.session, w.cap.key)
    /\ RevisionMatches(w.cap.key, w.expected)
    /\ w.cap.revision = Latest(w.cap.key).revision + 1

Apply ==
    /\ phase = "serving" /\ taken < Len(queue)
    /\ LET w == queue[taken + 1]
       IN  Admitted(w) /\ Write(w.session, w.cap, w.base)
    /\ taken' = taken + 1
    /\ UNCHANGED <<phase, synced, pending, view, acked, queue, offset, retracted, saves,
                   crashes>>

\* The handler's error makes the lane file the operation as failed and go on.
\* A failed WAL append is an error too.
Refuse ==
    /\ phase = "serving" /\ taken < Len(queue)
    /\ taken' = taken + 1
    /\ UNCHANGED <<phase, rows, wal, loaded, synced, pending, view, acked, queue, offset,
                   retracted, saves, crashes>>

\* The lane syncs the store and checkpoints.  It discards the status of the sync, so
\* the watermark also passes lines whose writes a crash can still take back.
Checkpoint ==
    /\ phase = "serving" /\ offset < taken
    /\ synced' \in {synced, Len(wal)}
    /\ offset' = taken
    /\ UNCHANGED <<phase, rows, wal, loaded, pending, view, acked, queue, taken, retracted,
                   saves, crashes>>

-------------------------------------------------------------------------------
(* Crashes.                                                                *)

\* The batches that number a capsule.
Versioned == {i \in DOMAIN wal : wal[i].cap.version = 2}

\* The host stops: batches that were not synced may be gone.  The next daemon
\* starts with empty tables.
Crash ==
    /\ crashes < MaxCrashes
    /\ crashes' = crashes + 1
    /\ phase' = "replay"
    /\ \E n \in synced .. Len(wal) :
         /\ wal' = SubSeq(wal, 1, n)
         /\ retracted' = retracted \cup {wal[i].cap.id : i \in Versioned \ (1 .. n)}
    /\ loaded' = 0
    /\ rows' = [s \in Sessions |-> NoCapsule]
    /\ pending' = [s \in Sessions |-> NoCapsule]
    /\ taken' = offset
    /\ UNCHANGED <<synced, view, acked, queue, offset, saves>>

\* load_task_ledger: one batch after the other, before the handler is published.
Replay ==
    /\ phase = "replay" /\ loaded < Len(wal)
    /\ rows' = [rows EXCEPT ![wal[loaded + 1].session] = wal[loaded + 1].cap]
    /\ loaded' = loaded + 1
    /\ UNCHANGED <<phase, wal, synced, pending, view, acked, queue, taken, offset, retracted,
                   saves, crashes>>

Publish ==
    /\ phase = "replay" /\ loaded = Len(wal)
    /\ phase' = "serving"
    /\ UNCHANGED <<rows, wal, loaded, synced, pending, view, acked, queue, taken, offset,
                   retracted, saves, crashes>>

Next ==
    \/ \E s \in Sessions, k \in Keys :
         \/ Get(s, k) \/ Context(s, k)
         \/ \E st \in SaveStates, c \in CodeStates : Save(s, k, st, c)
         \/ \E c \in CodeStates, next \in BOOLEAN : Stop(s, k, c, next)
    \/ \E s \in Sessions : BindLegacy(s) \/ Answer(s) \/ AnswerUnsynced(s)
    \/ Apply \/ Refuse \/ Checkpoint
    \/ Crash \/ Replay \/ Publish

Spec == Init /\ [][Next]_vars

-------------------------------------------------------------------------------
(* Properties.                                                             *)

SameKey(i, j) ==
    wal[i].cap.version = 2 /\ wal[j].cap.version = 2 /\ wal[i].cap.key = wal[j].cap.key

\* Batch j replaced batch i as the latest capsule of a key.
Replaced(i, j) == i < j /\ SameKey(i, j) /\ wal[j].cap.revision = wal[i].cap.revision + 1

FromStop(i) == wal[i].cap.version = 2 /\ wal[i].cap.id % 2 = 0

\* "Revisions are monotonic per canonical repository plus stream": the counter
\* is recomputed from whatever rows there are, yet no two writes of a key ever
\* get the same revision.  It takes the immutable key and the refusal of
\* unversioned writers to keep the row with the largest revision in place.
RevisionsIncrease ==
    \A i, j \in DOMAIN wal : i < j /\ SameKey(i, j) => wal[i].cap.revision < wal[j].cap.revision

\* The queue lane processes an operation again when a crash cost it its
\* checkpoint; a Stop write takes effect at most once all the same.
AppliedOnce ==
    \A i, j \in DOMAIN wal :
        i # j /\ wal[i].cap.version = 2 => wal[i].cap.id # wal[j].cap.id

\* A writer replaces the very capsule it read, however long its write was
\* delayed in the queue, unless a crash took that capsule back before it was
\* synced and its revision was given out again.
ReplacesWhatWasRead ==
    \A i, j \in DOMAIN wal :
        Replaced(i, j) => wal[j].base = wal[i].cap.id \/ wal[j].base \in retracted

\* "A Stop cannot erase an explicit completed milestone at the same code state",
\* although it decides when it is prepared and writes when the queue gets to it.
StopKeepsMilestone ==
    \A i, j \in DOMAIN wal :
        /\ Replaced(i, j) /\ FromStop(j)
        /\ wal[i].cap.state = "complete" /\ wal[i].cap.code = wal[j].cap.code
        /\ wal[j].base \notin retracted
        => wal[j].cap.state # "invalidated"

\* The promise behind the rows, the log and the queue: for each key the daemon implements a
\* register with compare and set, whose newest, unacknowledged versions a crash may
\* take back.
Versions ==
    {[key |-> wal[i].cap.key, revision |-> wal[i].cap.revision, id |-> wal[i].cap.id,
      base |-> wal[i].base] : i \in Versioned}

RevisionsSpec == INSTANCE Revisions WITH versions <- Versions, lost <- retracted

ImplementsRevisions == RevisionsSpec!Spec

\* A capsule named in an answer that followed a successful sync, to a save or to
\* a capsule_get, is never taken back; the latest of its key is at least as new.
AckedStays ==
    /\ \A a \in acked : \E i \in DOMAIN wal : wal[i].cap.id = a
    /\ phase = "serving" =>
         \A s \in Sessions : view[s].id \in acked =>
             view[s].revision <= Latest(view[s].key).revision
===============================================================================
