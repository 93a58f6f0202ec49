---------------------------- MODULE QueueProcessor ----------------------------
(***************************************************************************)
(* QueueProcessor (queue_processor.cpp): the daemon's two lanes over JSONL *)
(* queue files.  Hooks append to the fast queue; the fast lane applies     *)
(* each item to the store and hands distill_trigger items to the slow      *)
(* queue; the slow lane runs them through an LLM.  Each lane claims its    *)
(* queue file by renaming it to .processing, keeps a .ckpt watermark and   *)
(* an .applied-acks ledger beside it, and re-queues what a dead daemon     *)
(* left in .processing when the next one starts.                           *)
(*                                                                         *)
(* A queue line is an item; an item is a plain write, a ledger_save of one *)
(* session and project, or a distill_trigger.  The store is the sequence   *)
(* of applied items (an item here stands for everything its handler        *)
(* writes), durable up to `synced'.  A daemon crash keeps the files, and   *)
(* any prefix of the store that contains the synced one.                   *)
(***************************************************************************)
EXTENDS Integers, Sequences, FiniteSets, Functions

CONSTANTS
    Writes, Saves, Distills,  \* the items, by kind
    Register,      \* the transcript_register items (writes)
    Acked,         \* the items whose line carries an ack_id
    Bad,           \* items whose handler may throw
    Barren,        \* distills whose run may come to nothing
    CkptInterval,  \* kCkptInterval
    MaxAttempts,   \* kMaxDistillAttempts
    MaxRestarts,   \* bound: crashes and shutdowns
    MaxDown,       \* bound: failed endpoint probes
    HookSplit,     \* hooks open() the queue file before they write() to it
    IoCanFail      \* store syncs, and appends to the slow queue and the failed file, may fail

\* The tools of QueueToolDispatch, as far as the queue tells them apart: a save
\* is superseded by a later one of its key, a distill belongs to the slow lane,
\* and every other tool just writes to the store.
Items == Writes \cup Saves \cup Distills
Lanes == {"fast", "slow"}

ASSUME ItemsAssumption ==
    /\ Writes \cap Saves = {} /\ Writes \cap Distills = {} /\ Saves \cap Distills = {}
    /\ Register \subseteq Writes /\ Acked \subseteq Items /\ Bad \subseteq Items /\ Barren \subseteq Distills
    /\ CkptInterval \in Nat \ {0} /\ MaxAttempts \in Nat
    /\ MaxRestarts \in Nat /\ MaxDown \in Nat
    /\ HookSplit \in BOOLEAN /\ IoCanFail \in BOOLEAN

VARIABLES
    \* files, by lane
    queue,        \* the queue file
    processing,   \* the .processing file
    claimed,      \*   and whether it exists
    ckpt,         \* the .ckpt watermark (0 when missing)
    acks,         \* the .applied-acks ledger
    failed,       \* dead-lettered items
    attempts,     \* .slow.attempts
    \* the store
    log, synced,
    \* the daemon: its lanes and their locals
    running, pc, lines, idx, pending,
    \* the hooks: where each item's line is going
    hook,
    restarts, down,
    \* history: items accepted and superseded by a later save; distills without a
    \* transcript and distills that ran and came to nothing; items whose dead letter
    \* could not be written; crashes in each distill since its count was cleared,
    \* poison-pilled items, ids ever acknowledged, and which of the code's known gaps
    \* the run has met
    accepted, superseded, dropped, fruitless, unwritten, crashedIn, poisoned, everAcked, breach

fileVars == <<queue, processing, claimed, ckpt, acks, failed, attempts>>
storeVars == <<log, synced>>
laneVars == <<running, pc, lines, idx, pending>>
histVars == <<accepted, superseded, dropped, fruitless, unwritten, crashedIn, poisoned,
              everAcked, breach>>
vars == <<fileVars, storeVars, laneVars, hook, restarts, down, histVars>>

\* rm* and ck* remove files at the end of a batch, re* at the end of a recovery.
States == {"idle", "claimed", "item", "handSync", "handFlush", "ackSync", "ackWrite",
           "ckptSync", "ckptFlush", "ckptWrite", "endSync", "endFlush", "stopCkpt",
           "rmProc", "rmCkpt", "probe", "distill", "defer", "paused", "stopped",
           "recover", "reProc", "reCkpt"}

TypeOK ==
    /\ queue \in [Lanes -> Seq(Items)]
    /\ processing \in [Lanes -> Seq(Items)]
    /\ claimed \in [Lanes -> BOOLEAN]
    /\ ckpt \in [Lanes -> Nat]
    /\ acks \in [Lanes -> SUBSET Acked]
    /\ failed \subseteq Items
    /\ attempts \in [Distills -> Nat]
    /\ log \in Seq(Items)
    /\ synced \in 0 .. Len(log)
    /\ running \in BOOLEAN
    /\ pc \in [Lanes -> States]
    /\ lines \in [Lanes -> Seq(Items)]
    /\ idx \in [Lanes -> Nat]
    /\ pending \in Seq(Items)
    /\ hook \in [Items -> {"new", "queue", "proc", "gone", "sent"}]
    /\ restarts \in 0 .. MaxRestarts
    /\ down \in 0 .. MaxDown
    /\ accepted \subseteq Items
    /\ superseded \subseteq Saves
    /\ dropped \subseteq Distills
    /\ fruitless \subseteq Distills
    /\ unwritten \subseteq Items
    /\ crashedIn \in [Distills -> Nat]
    /\ poisoned \subseteq Distills
    /\ everAcked \subseteq Acked
    /\ breach \subseteq {"stale", "race", "sync", "twin"}

Init ==
    /\ queue = [l \in Lanes |-> <<>>]
    /\ processing = [l \in Lanes |-> <<>>]
    /\ claimed = [l \in Lanes |-> FALSE]
    /\ ckpt = [l \in Lanes |-> 0]
    /\ acks = [l \in Lanes |-> {}]
    /\ failed = {}
    /\ attempts = [i \in Distills |-> 0]
    /\ log = <<>> /\ synced = 0
    /\ running = TRUE
    /\ pc = [l \in Lanes |-> "recover"]
    /\ lines = [l \in Lanes |-> <<>>]
    /\ idx = [l \in Lanes |-> 0]
    /\ pending = <<>>
    /\ hook = [i \in Items |-> "new"]
    /\ restarts = 0 /\ down = 0
    /\ accepted = {}
    /\ superseded = {} /\ dropped = {} /\ fruitless = {} /\ unwritten = {}
    /\ poisoned = {} /\ everAcked = {}
    /\ crashedIn = [i \in Distills |-> 0]
    /\ breach = {}

Goto(l, s) == pc' = [pc EXCEPT ![l] = s]
Cur(l) == lines[l][idx[l] + 1]
MoreLines(l) == idx[l] < Len(lines[l])

-------------------------------------------------------------------------------
(* The hooks.                                                              *)

\* append_line_atomic opens the queue file ...
HookOpen(i) ==
    /\ HookSplit
    /\ hook[i] = "new"
    /\ hook' = [hook EXCEPT ![i] = "queue"]
    /\ UNCHANGED <<fileVars, storeVars, laneVars, restarts, down, histVars>>

\* The lines of the file have been read, or the file is gone.
TooLate(i) == hook[i] = "gone" \/ (hook[i] = "proc" /\ pc["fast"] \notin {"claimed", "recover"})

\* ... and writes the line to the file it opened, wherever that is by now.
HookWrite(i) ==
    /\ hook[i] \in (IF HookSplit THEN {"queue", "proc", "gone"} ELSE {"new"})
    /\ queue' = IF hook[i] \in {"new", "queue"}
                  THEN [queue EXCEPT !["fast"] = Append(@, i)] ELSE queue
    /\ processing' = IF hook[i] = "proc"
                       THEN [processing EXCEPT !["fast"] = Append(@, i)] ELSE processing
    /\ hook' = [hook EXCEPT ![i] = "sent"]
    /\ accepted' = accepted \cup {i}
    /\ breach' = breach \cup {b \in {"race"} : TooLate(i)}
    /\ UNCHANGED <<claimed, ckpt, acks, failed, attempts, storeVars, laneVars, restarts,
                   down, superseded, dropped, fruitless, unwritten, crashedIn, poisoned,
                   everAcked>>

\* What the hooks hold open follows the file when it is renamed or removed.
Follow(l, from, to) ==
    hook' = [i \in Items |-> IF l = "fast" /\ hook[i] = from THEN to ELSE hook[i]]

-------------------------------------------------------------------------------
(* Both lanes: claiming a batch and finishing it.                          *)

Booted == \A l \in Lanes : pc[l] \notin {"recover", "reProc", "reCkpt"}

QueueExists(l) == queue[l] # <<>> \/ (l = "fast" /\ \E i \in Items : hook[i] = "queue")

Claim(l) ==
    /\ pc[l] = "idle" /\ running /\ Booted
    /\ QueueExists(l)
    /\ processing' = [processing EXCEPT ![l] = queue[l]]
    /\ claimed' = [claimed EXCEPT ![l] = TRUE]
    /\ queue' = [queue EXCEPT ![l] = <<>>]
    /\ Follow(l, "queue", "proc")
    /\ Goto(l, "claimed")
    /\ UNCHANGED <<ckpt, acks, failed, attempts, storeVars, running, lines, idx, pending,
                   restarts, down, histVars>>

\* Read the lines and rotate the ack ledger to the ids of this batch.
ReadLines(l) ==
    /\ pc[l] = "claimed"
    /\ IF processing[l] = <<>>
         THEN /\ claimed' = [claimed EXCEPT ![l] = FALSE]
              /\ Follow(l, "proc", "gone")
              /\ Goto(l, "idle")
              /\ UNCHANGED <<acks, lines, idx>>
         ELSE /\ lines' = [lines EXCEPT ![l] = processing[l]]
              /\ idx' = [idx EXCEPT ![l] = 0]
              /\ acks' = [acks EXCEPT ![l] = @ \cap Range(processing[l])]
              /\ Goto(l, "item")
              /\ UNCHANGED <<claimed, hook>>
    /\ UNCHANGED <<queue, processing, ckpt, failed, attempts, storeVars, running, pending,
                   restarts, down, histVars>>

RemoveProcessing(l) ==
    /\ pc[l] \in {"rmProc", "reProc"}
    /\ claimed' = [claimed EXCEPT ![l] = FALSE]
    /\ processing' = [processing EXCEPT ![l] = <<>>]
    /\ Follow(l, "proc", "gone")
    /\ Goto(l, IF pc[l] = "rmProc" THEN "rmCkpt" ELSE "reCkpt")
    /\ UNCHANGED <<queue, ckpt, acks, failed, attempts, storeVars, running, lines, idx,
                   pending, restarts, down, histVars>>

RemoveCkpt(l) ==
    /\ pc[l] \in {"rmCkpt", "reCkpt"}
    /\ ckpt' = [ckpt EXCEPT ![l] = 0]
    /\ Goto(l, "idle")
    /\ UNCHANGED <<queue, processing, claimed, acks, failed, attempts, storeVars, running,
                   lines, idx, pending, hook, restarts, down, histVars>>

WriteCkpt(l) ==
    /\ pc[l] \in {"ckptWrite", "stopCkpt"}
    /\ ckpt' = [ckpt EXCEPT ![l] = idx[l]]
    /\ Goto(l, IF pc[l] = "ckptWrite" THEN "item" ELSE "stopped")
    /\ UNCHANGED <<queue, processing, claimed, acks, failed, attempts, storeVars, running,
                   lines, idx, pending, hook, restarts, down, histVars>>

\* Where a lane goes once the store is synced.
AfterSync(l) ==
    CASE pc[l] = "handSync" -> "handFlush"
      [] pc[l] = "ackSync"  -> "ackWrite"
      [] pc[l] = "ckptSync" -> IF l = "fast" THEN "ckptFlush" ELSE "ckptWrite"
      [] pc[l] = "endSync"  -> "endFlush"

SyncStore(l) ==
    /\ pc[l] \in {"handSync", "ackSync", "ckptSync", "endSync"}
    /\ synced' = Len(log)
    /\ Goto(l, AfterSync(l))
    /\ UNCHANGED <<fileVars, log, running, lines, idx, pending, hook, restarts, down, histVars>>

\* Mutant: an ack does not look at the status of its sync.
OnSyncFailureIgnored(l) == AfterSync(l)

\* cf_sync before an ack or a handoff raises QueueAckError and the lane stops
\* with its .processing file; FieldStore::sync() discards the status.
OnSyncFailure(l) == IF pc[l] \in {"handSync", "ackSync"} THEN "paused" ELSE AfterSync(l)

SyncFails(l) ==
    /\ IoCanFail
    /\ pc[l] \in {"handSync", "ackSync", "ckptSync", "endSync"}
    /\ Goto(l, OnSyncFailure(l))
    /\ breach' = breach \cup {b \in {"sync"} : pc[l] \in {"ckptSync", "endSync"}}
    /\ UNCHANGED <<fileVars, storeVars, running, lines, idx, pending, hook, restarts, down, accepted,
                   superseded, dropped, fruitless, unwritten, crashedIn, poisoned, everAcked>>

NeedsAck(i) == i \in Acked

\* AppliedAcks::record, after its sync.  A superseded save skips the
\* checkpoint cadence; the slow lane checkpoints after every item.
Done(l, n) ==
    /\ idx' = [idx EXCEPT ![l] = n]
    /\ Goto(l, IF l = "slow" \/ n % CkptInterval = 0 THEN "ckptSync" ELSE "item")

Superseded(k) ==
    /\ lines["fast"][k] \in Saves
    /\ \E m \in (k + 1) .. Len(lines["fast"]) : lines["fast"][m] \in Saves

RecordAck(l) ==
    /\ pc[l] = "ackWrite"
    /\ acks' = [acks EXCEPT ![l] = @ \cup {Cur(l)}]
    /\ everAcked' = everAcked \cup {Cur(l)}
    /\ IF l = "fast" /\ Superseded(idx[l] + 1)
         THEN idx' = [idx EXCEPT ![l] = @ + 1] /\ Goto(l, "item")
         ELSE Done(l, idx[l] + 1)
    /\ UNCHANGED <<queue, processing, claimed, ckpt, failed, attempts, storeVars, running,
                   lines, pending, hook, restarts, down, accepted, superseded, dropped,
                   fruitless, unwritten, crashedIn, poisoned, breach>>

\* A line whose id is in the ack ledger was applied before: skip it.
SkipAcked(l) ==
    /\ pc[l] = "item" /\ running /\ MoreLines(l)
    /\ Cur(l) \in acks[l]
    /\ idx' = [idx EXCEPT ![l] = @ + 1]
    /\ UNCHANGED <<fileVars, storeVars, running, pc, lines, pending, hook, restarts, down, histVars>>

-------------------------------------------------------------------------------
(* The fast lane.                                                          *)

\* Mutant: the line's id is not looked up in the ack ledger.
FastItemUnfiltered(i) ==
    /\ pc["fast"] = "item" /\ running /\ MoreLines("fast")
    /\ i = Cur("fast")

FastItem(i) ==
    /\ pc["fast"] = "item" /\ running /\ MoreLines("fast")
    /\ i = Cur("fast")
    /\ i \notin acks["fast"]

\* The later saves are copies of the same line, which recovery has queued twice.
Twin(k) ==
    \A m \in (k + 1) .. Len(lines["fast"]) :
        lines["fast"][m] \in Saves => lines["fast"][m] = lines["fast"][k]

\* ledger-coalesce: only the last save of a batch is applied.
Coalesce(i) ==
    /\ FastItem(i)
    /\ Superseded(idx["fast"] + 1)
    /\ superseded' = superseded \cup {i}
    /\ breach' = breach \cup {b \in {"twin"} : Twin(idx["fast"] + 1)}
    /\ IF NeedsAck(i)
         THEN Goto("fast", "ackSync") /\ UNCHANGED idx
         ELSE idx' = [idx EXCEPT !["fast"] = @ + 1] /\ UNCHANGED pc
    /\ UNCHANGED <<fileVars, storeVars, running, lines, pending, hook, restarts, down, accepted,
                   dropped, fruitless, unwritten, crashedIn, poisoned, everAcked>>

\* What a tool handler writes to the store counts as one application of the item.
Stored(i) == log' = Append(log, i)

\* dispatch(): the handler's writes reach the store, unsynced.
Apply(i) ==
    /\ FastItem(i)
    /\ i \in Writes \cup Saves
    /\ ~Superseded(idx["fast"] + 1)
    /\ Stored(i)
    /\ IF NeedsAck(i) THEN Goto("fast", "ackSync") /\ UNCHANGED idx ELSE Done("fast", idx["fast"] + 1)
    /\ UNCHANGED <<fileVars, synced, running, lines, pending, hook, restarts, down, histVars>>

\* write_failed_item, for either lane: an append that fails is only logged, and the
\* caller goes on as if it had not.
WriteFailedItem(i) ==
    \/ failed' = failed \cup {i} /\ UNCHANGED unwritten
    \/ IoCanFail /\ unwritten' = unwritten \cup {i} /\ UNCHANGED failed

\* The handler throws: the line is dead-lettered and not acknowledged.
DeadLetter(i) ==
    /\ FastItem(i)
    /\ i \in Bad \ Distills
    /\ ~Superseded(idx["fast"] + 1)
    /\ WriteFailedItem(i)
    /\ Done("fast", idx["fast"] + 1)
    /\ UNCHANGED <<queue, processing, claimed, ckpt, acks, attempts, storeVars, running, lines,
                   pending, hook, restarts, down, accepted, superseded, dropped, fruitless,
                   crashedIn, poisoned, everAcked, breach>>

\* distill_trigger is only buffered here.
Reroute(i) ==
    /\ FastItem(i)
    /\ i \in Distills
    /\ pending' = Append(pending, i)
    /\ IF NeedsAck(i) THEN Goto("fast", "handSync") /\ UNCHANGED idx ELSE Done("fast", idx["fast"] + 1)
    /\ UNCHANGED <<fileVars, storeVars, running, lines, hook, restarts, down, histVars>>

\* Mutant: a shutdown in mid-batch falls through to the removal of the file.
BatchDoneAlways == "rmProc"

\* A batch cut short by a shutdown keeps its file and leaves a watermark.
BatchDone == IF MoreLines("fast") THEN "stopCkpt" ELSE "rmProc"

\* flush_slow, under slow_mu_.
FlushSlow ==
    /\ pc["fast"] \in {"handFlush", "ckptFlush", "endFlush"}
    /\ queue' = [queue EXCEPT !["slow"] = @ \o pending]
    /\ pending' = <<>>
    /\ Goto("fast", CASE pc["fast"] = "handFlush" -> "ackSync"
                      [] pc["fast"] = "ckptFlush" -> "ckptWrite"
                      [] pc["fast"] = "endFlush"  -> BatchDone)
    /\ UNCHANGED <<processing, claimed, ckpt, acks, failed, attempts, storeVars, running, lines,
                   idx, hook, restarts, down, histVars>>

FlushFails ==
    /\ IoCanFail
    /\ pc["fast"] \in {"handFlush", "ckptFlush", "endFlush"}
    /\ pending # <<>>
    /\ Goto("fast", "paused")
    /\ UNCHANGED <<fileVars, storeVars, running, lines, idx, pending, hook, restarts, down, histVars>>

FastBatchEnd ==
    /\ pc["fast"] = "item"
    /\ ~MoreLines("fast") \/ ~running
    /\ Goto("fast", "endSync")
    /\ UNCHANGED <<fileVars, storeVars, running, lines, idx, pending, hook, restarts, down, histVars>>
-------------------------------------------------------------------------------
(* The slow lane.                                                          *)

SlowItem(i) ==
    /\ pc["slow"] = "item" /\ running /\ MoreLines("slow")
    /\ i = Cur("slow")
    /\ i \notin acks["slow"]

\* Mutant: the attempt is counted in memory only.
BumpedInMemory(i) == attempts

Bumped(i) == [attempts EXCEPT ![i] = @ + 1]

\* clear_distill_attempt
Cleared(i) == [attempts EXCEPT ![i] = 0]

\* Mutant: the first attempt is already one too many.
TooManyIncluded(i) == attempts[i] + 1 >= MaxAttempts

TooManyAttempts(i) == attempts[i] >= MaxAttempts

\* The attempt is counted on disk before anything can crash.
BumpAttempt(i) ==
    /\ SlowItem(i)
    /\ ~TooManyAttempts(i)
    /\ attempts' = Bumped(i)
    /\ Goto("slow", "probe")
    /\ UNCHANGED <<queue, processing, claimed, ckpt, acks, failed, storeVars, running, lines, idx,
                   pending, hook, restarts, down, histVars>>

\* Too many attempts: dead-letter the line, forget the count, checkpoint.
PoisonPill(i) ==
    /\ SlowItem(i)
    /\ TooManyAttempts(i)
    /\ WriteFailedItem(i)
    /\ poisoned' = poisoned \cup {i}
    /\ attempts' = Cleared(i)
    /\ crashedIn' = [crashedIn EXCEPT ![i] = 0]
    /\ Done("slow", idx["slow"] + 1)
    /\ UNCHANGED <<queue, processing, claimed, ckpt, acks, storeVars, running, lines, pending, hook,
                   restarts, down, accepted, superseded, dropped, fruitless, everAcked, breach>>

\* discover_gpu_endpoint
EndpointUp ==
    /\ pc["slow"] = "probe"
    /\ Goto("slow", "distill")
    /\ UNCHANGED <<fileVars, storeVars, running, lines, idx, pending, hook, restarts, down, histVars>>

EndpointDown ==
    /\ pc["slow"] = "probe"
    /\ down < MaxDown
    /\ down' = down + 1
    /\ Goto("slow", "defer")
    /\ UNCHANGED <<fileVars, storeVars, running, lines, idx, pending, hook, restarts, histVars>>

Registered == Register \subseteq Range(log)

\* What process_distill comes to: an application of the item; a run_distillation
\* that returns false, after a failure of the LLM or of its answer or a cancel by
\* the shutdown, which is only logged; or, without a registered transcript, nothing.
DistillOutcome(i) ==
    \/ Registered /\ Stored(i) /\ UNCHANGED <<dropped, fruitless>>
    \/ Registered /\ i \in Barren /\ fruitless' = fruitless \cup {i} /\ UNCHANGED <<log, dropped>>
    \/ ~Registered /\ dropped' = dropped \cup {i} /\ UNCHANGED <<log, fruitless>>

\* Whatever it came to, it did not crash: the attempts are forgotten and the line
\* is acknowledged and done.
Distill(i) ==
    /\ pc["slow"] = "distill"
    /\ i = Cur("slow")
    /\ DistillOutcome(i)
    /\ attempts' = Cleared(i)
    /\ crashedIn' = [crashedIn EXCEPT ![i] = 0]
    /\ IF NeedsAck(i) THEN Goto("slow", "ackSync") /\ UNCHANGED idx ELSE Done("slow", idx["slow"] + 1)
    /\ UNCHANGED <<queue, processing, claimed, ckpt, acks, failed, synced, running, lines, pending,
                   hook, restarts, down, accepted, superseded, unwritten, poisoned, everAcked, breach>>

DistillFails(i) ==
    /\ pc["slow"] = "distill"
    /\ i = Cur("slow") /\ i \in Bad
    /\ WriteFailedItem(i)
    /\ Done("slow", idx["slow"] + 1)
    /\ UNCHANGED <<queue, processing, claimed, ckpt, acks, attempts, storeVars, running, lines, pending,
                   hook, restarts, down, accepted, superseded, dropped, fruitless, crashedIn,
                   poisoned, everAcked, breach>>

Remainder == SubSeq(lines["slow"], idx["slow"] + 1, Len(lines["slow"]))

\* Endpoint down: the rest of the batch goes back to the slow queue.
Defer ==
    /\ pc["slow"] = "defer"
    /\ queue' = [queue EXCEPT !["slow"] = @ \o Remainder]
    /\ Goto("slow", "rmProc")
    /\ UNCHANGED <<processing, claimed, ckpt, acks, failed, attempts, storeVars, running, lines, idx,
                   pending, hook, restarts, down, histVars>>

SlowBatchEnd ==
    /\ pc["slow"] = "item"
    /\ ~MoreLines("slow") \/ ~running
    /\ Goto("slow", IF MoreLines("slow") THEN "stopCkpt" ELSE "rmProc")
    /\ UNCHANGED <<fileVars, storeVars, running, lines, idx, pending, hook, restarts, down, histVars>>

-------------------------------------------------------------------------------
(* Restarts.                                                               *)

Shutdown ==
    /\ running /\ Booted /\ restarts < MaxRestarts
    /\ running' = FALSE
    /\ restarts' = restarts + 1
    /\ UNCHANGED <<fileVars, storeVars, pc, lines, idx, pending, hook, down, histVars>>

LaneStops(l) ==
    /\ ~running /\ pc[l] = "idle"
    /\ Goto(l, "stopped")
    /\ UNCHANGED <<fileVars, storeVars, running, lines, idx, pending, hook, restarts, down, histVars>>

\* The next daemon on the same files; `n' is how much of the store survived.
Reboot(n) ==
    /\ log' = SubSeq(log, 1, n)
    /\ synced' = n
    /\ running' = TRUE
    /\ pc' = [l \in Lanes |-> "recover"]
    /\ lines' = [l \in Lanes |-> <<>>]
    /\ idx' = [l \in Lanes |-> 0]
    /\ pending' = <<>>
    /\ breach' = breach \cup {b \in {"stale"} : \E l \in Lanes : ~claimed[l] /\ ckpt[l] > 0}

Restart ==
    /\ ~running /\ \A l \in Lanes : pc[l] \in {"stopped", "paused"}
    /\ Reboot(Len(log))
    /\ UNCHANGED <<fileVars, hook, restarts, down, accepted, superseded, dropped,
                   fruitless, unwritten, crashedIn, poisoned, everAcked>>

Crash ==
    /\ restarts < MaxRestarts
    /\ restarts' = restarts + 1
    /\ \E n \in synced .. Len(log) : Reboot(n)
    /\ crashedIn' = [i \in Distills |->
          IF pc["slow"] = "distill" /\ i = Cur("slow") THEN crashedIn[i] + 1 ELSE crashedIn[i]]
    /\ UNCHANGED <<fileVars, hook, down, accepted, superseded, dropped, fruitless,
                   unwritten, poisoned, everAcked>>

\* recover_processing: the lines after the watermark that are not acknowledged.
Remaining(l) == {k \in (ckpt[l] + 1) .. Len(processing[l]) : processing[l][k] \notin acks[l]}

\* The m-th smallest element of K.
Nth(K, m) == CHOOSE k \in K : Cardinality({j \in K : j <= k}) = m

\* Mutant: what a dead daemon left behind is not re-queued.
UnprocessedForgotten(l) == <<>>

Unprocessed(l) ==
    [m \in 1 .. Cardinality(Remaining(l)) |-> processing[l][Nth(Remaining(l), m)]]

\* They are appended behind whatever the hooks have queued in the meantime.
Recover(l) ==
    /\ pc[l] = "recover"
    /\ l = "slow" => pc["fast"] = "idle"
    /\ IF claimed[l]
         THEN queue' = [queue EXCEPT ![l] = @ \o Unprocessed(l)] /\ Goto(l, "reProc")
         ELSE Goto(l, "idle") /\ UNCHANGED queue
    /\ UNCHANGED <<processing, claimed, ckpt, acks, failed, attempts, storeVars, running, lines, idx,
                   pending, hook, restarts, down, histVars>>

-------------------------------------------------------------------------------
LaneStep(l) ==
    \/ Claim(l) \/ ReadLines(l) \/ RemoveProcessing(l) \/ RemoveCkpt(l) \/ WriteCkpt(l)
    \/ SyncStore(l) \/ RecordAck(l) \/ SkipAcked(l) \/ LaneStops(l) \/ Recover(l)

FastStep ==
    \/ LaneStep("fast")
    \/ \E i \in Items : Coalesce(i) \/ Apply(i) \/ DeadLetter(i) \/ Reroute(i)
    \/ FlushSlow \/ FastBatchEnd

SlowStep ==
    \/ LaneStep("slow")
    \/ \E i \in Distills : BumpAttempt(i) \/ PoisonPill(i) \/ Distill(i) \/ DistillFails(i)
    \/ EndpointUp \/ Defer \/ SlowBatchEnd

Faults ==
    \/ \E l \in Lanes : SyncFails(l)
    \/ FlushFails \/ EndpointDown \/ Shutdown \/ Crash

Next ==
    \/ \E i \in Items : HookOpen(i) \/ HookWrite(i)
    \/ FastStep \/ SlowStep \/ Restart \/ Faults

Spec == Init /\ [][Next]_vars

\* Each lane is a thread that keeps being scheduled, and the service manager
\* restarts a daemon that has stopped.
FairSpec == Spec /\ WF_vars(FastStep) /\ WF_vars(SlowStep) /\ WF_vars(Restart)

-------------------------------------------------------------------------------
(* Properties.                                                             *)

Durable == {log[k] : k \in 1 .. synced}

\* What the next daemon would find if this one died now.
Recoverable ==
    Durable \cup failed \cup superseded
      \cup (UNION {Range(queue[l]) : l \in Lanes})
      \cup (UNION {Range(Unprocessed(l)) : l \in {m \in Lanes : claimed[m]}})

\* What a lane itself has given up, with a line in the daemon's log and nothing on
\* disk: a distill without a transcript, a distill that ran and returned false, a
\* line whose dead letter could not be written.
Unstored == dropped \cup fruitless
GivenUp == Unstored \cup unwritten

\* No accepted item is ever out of reach of recovery: at every step of either
\* lane it is still queued, left to re-queue, or durably dealt with; unless a lane
\* has had it in hand and has given it up.
\* "The watermark only advances past durably synced work, so recovery never
\* skips an unsynced write."
NoLoss == accepted \ GivenUp \subseteq Recoverable

\* The same, as long as no watermark has outlived the batch it counted, no
\* hook has written to a queue file after the lane had read it, no store sync has
\* failed unnoticed, and no save has been superseded by a second copy of itself:
\* these four, and the three of GivenUp, are the only ways to lose an item, and
\* those three lose no other item than the one in hand.
NoLossUnlessBreached == breach = {} => NoLoss

\* An id in an ack ledger stands for work no crash can undo: the item is
\* durable in the store, was superseded by a later save of its batch (which the
\* breach "twin" allows to be its own copy), or, for a distill in the fast lane's
\* ledger, was handed over to the slow lane.  The slow lane's ledger promises less:
\* its distill is durable, or ran to its end and left nothing to make durable, be it
\* for want of a transcript or because run_distillation returned false.
\* "Never publish a durable ack for a failed WAL sync."
AckedIsDurable ==
    /\ acks["fast"] \ Distills \subseteq Durable \cup superseded
    /\ acks["slow"] \subseteq Durable \cup Unstored

\* An acknowledged write is never applied a second time, whatever re-queues it.
Applications(i, s) == Cardinality({k \in DOMAIN s : s[k] = i})

AckedAppliedOnce ==
    [][\A i \in everAcked \ Distills : Applications(i, log') <= Applications(i, log)]_vars

\* The promise behind the files: whatever is queued, renamed, re-queued and replayed, the
\* lanes implement a queue that answers for durable writes only, and applies none of
\* those again.  Distills may be: the fast lane answers for their handover.
AckedQueueSpec ==
    INSTANCE AckedQueue WITH
        Lines <- Items, Once <- Items \ Distills,
        replaced <- superseded, answered <- everAcked,
        twins <- "twin" \in breach

ImplementsAckedQueue == AckedQueueSpec!Spec

\* The attempt counter on disk never falls behind the crashes a distill has caused
\* since it last ran through, so "a session that crashes the daemon repeatedly is
\* dead-lettered".
CrashesAreCounted == \A i \in Distills : crashedIn[i] <= attempts[i]

\* Every accepted item is dealt with in the end, and stays dealt with: it is applied,
\* dead-lettered or superseded, or a distill that came to nothing.
EveryItemSettles ==
    \A i \in Items : hook[i] = "sent" ~> [](i \in Range(log) \cup failed \cup Unstored \cup superseded)

\* "A session that has already crashed the daemon kMaxDistillAttempts times is
\* dead-lettered": no session is given up without as many restarts, or outages of
\* the endpoint, which the counter takes for crashes; or failures of its own, which
\* dead-letter it and leave the counter as it is.
PoisonedForCause == poisoned \ Bad # {} => restarts + down >= MaxAttempts
===============================================================================
