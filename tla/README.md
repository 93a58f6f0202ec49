# Chitta: TLA+ models and proofs

Chitta is a memory daemon for coding agents.  Short-lived hook processes and
agent sessions talk to one long-running daemon per user, through a socket and
through files; the daemon keeps everything in a store with a write-ahead log
(`chitta-field`, a Rust library in a git submodule).  What is hard in this
program is not the data but the protocols around it: files handed from hooks to
threads by `rename`, watermarks and acknowledgement ledgers that must survive a
crash at any instruction, batches half appended to a shared file system, leases
on work streams renewed by heartbeats, capsules saved by compare-and-set through
a queue that repeats itself, daemons that replace each other on one socket.  This
directory models those protocols, checks them with TLC and proves the most
important results with TLAPS.

Paths below are relative to the repository's `chitta/`, but for `docs/`, `hooks/` and
`chitta-mcp/`; `PROJECT.json` maps every definition to the lines it models.

## 1. Inventory

### Components, their state and their operations

| Component | State | Operations | Talks to |
|---|---|---|---|
| **Runtime ledger** (`include/chitta/queue_path.hpp`) | `outcome_ledger.tail`, its `.offset` and `.intent`, the durable `outcome_ledger.jsonl`, the append lock | `flush()`: recover or read a batch, publish the intent, append, fsync, publish the offset, remove the intent | hooks append to the tail; hooks without `CHITTA_RUNTIME_LOCAL` and other nodes append to the durable file |
| **Queue processor** (`src/queue_processor.cpp`) | for each lane: queue file, `.processing`, `.ckpt`, `.applied-acks`; `.failed.jsonl`, `.slow.attempts`; in memory `pending_slow` | claim by rename, apply, coalesce, dead-letter, acknowledge, checkpoint, hand distills to the slow lane, defer, recover | hooks append lines; the store is applied to and synced; the slow lane probes an LLM endpoint |
| **Task ledger: streams** (`task_ledger.hpp`, `field_task_ledger.cpp`) | `thread_leases`, `thread_sessions` with their metadata, the WAL behind them | `stream_claim`, `session_touch`, `session_bind`, `stream_handoff`, `stream_release`, `session_close` | sessions, through the dispatcher; the WAL |
| **Task ledger: capsules** (`field_task_ledger.cpp`, `hook_ledger_policy.hpp`) | one handoff capsule in the row of each session, revisions recomputed from the rows | `capsule_save`, `capsule_get`, `hook_handoff_prepare`, `hook_handoff_context`, queued `session_bind` | sessions, the queue lane that applies Stop writes, the WAL |
| **Embedding queue** (`embed_queue.hpp`) | two lanes of jobs, the in-flight map, an LRU cache | `query`, `write`, `enqueue_write`, the workers, the destructor | recall and write handlers |
| **Daemon lifecycle** (`daemon_lifecycle.cpp`, `loading_responder.hpp`, `simple_cli.cpp`) | pid file, lock file, socket path, the store's instance lock | clean up after a predecessor, lock, bind, open the store, serve, shut down | service manager, other daemons, clients |
| **Socket server, thread pool, clients** (`socket_server.cpp`, `rpc/thread_pool.hpp`, `simple_cli.cpp`, `socket_client.cpp`, `rpc_server.cpp`) | connections and descriptors, three bounded queues, the waiting room of writes, in-flight marks, pending answers | accept, read, admit, refuse, run, answer, time out, retry, stop | every handler; clients |
| **Sadhana manager** (`src/sadhana/sadhana_manager.cpp`) | the agents' persisted payloads, the running map, failure counters | create, start, pause, stop, resume, checkpoint, setters, `tick`, `run_cycle`, reload | the store, providers, the maintenance thread |
| **Dispatcher and locks** (`rpc/field_handler.hpp`, `field_task_ledger.cpp`, `hook_session_policy.hpp`) | `rpc_mutex_`, `stream_mutex`, `capsule_mutex`, the asynchronous calls of a hook | choose the lock, run the handler, re-enter `tool_ledger_op`, fork, join | every handler, the queue lanes |
| LLM endpoint router (`llm_http.hpp`) | endpoint health, load, reservations | probe, choose, acquire, release | distillation, sadhana |
| Inbox, artifacts, recall, write gate, distillation, subconscious, code intelligence, long tasks, UI | the store | scoring, admission, LLM calls, parsing, subprocesses | the store and external programs |

### What is hard, and what makes each component correct

* *Runtime ledger.*  A crash can fall inside `write_all`, between the durable
  append and the offset, or between the offset and the removal of the intent; a
  host crash can undo whatever was not fsynced, the removal included; other
  writers take no lock.  Correct means: every record arrives, in order, once,
  and is not acknowledged before it is durable.
* *Queue processor.*  Four files per lane are updated one after the other, a
  crash can separate any two of them, hooks write without a lock, two lanes hand
  items over, and handlers, distills, syncs and appends fail.  Correct means: an
  accepted item is applied, superseded, or dead-lettered in the end, or known to have
  been given up; what is acknowledged is durable and not repeated; a session is given
  up only for a cause.
* *Streams.*  An operation is several transactions; a crash or a failed WAL
  append may end it after any of them, its clients learn of it only by the
  reply, and time passes throughout.  Correct means: a holder that keeps
  heartbeating is not dispossessed before the time it was promised, and a closed
  session holds nothing.
* *Capsules.*  A Stop write is prepared from a read, queued, and applied after
  other saves of the same key, or twice after a lost checkpoint; a crash takes
  unsynced capsules back and their revisions are issued again.  Correct means: a
  writer replaces the capsule it read, a queued write takes effect at most once,
  and what was acknowledged stays.
* *Embedding queue.*  Callers share a job by its text while workers take,
  promote, skip or fail it.  Correct means: a shared job is alive, every caller
  gets an answer, the destructor loses no accepted job, the cache's iterators
  stay valid.
* *Daemon lifecycle.*  A starting daemon cleans up after another one before it
  takes the lock, and a stopping one gives the lock up before its threads are
  done.  Correct means: two daemons' threads never run together, a serving daemon
  is reachable and recorded, a live one is not killed, and every start and stop
  ends.
* *Socket server.*  Handlers outlive timeouts and connections; descriptors are
  reused; queues fill; a shutdown cuts connections whose calls have run.  Correct
  means: no answer crosses to another waiting call, refusals leave no trace, a
  retry does not repeat an effect without a shutdown, every call returns.
* *Sadhana.*  A cycle runs for minutes on a copy of an agent's payload, with raw
  pointers into a map that tools change.  Correct means: record and schedule
  agree, cycles are counted, a stopped agent stays stopped, failing agents rest.
* *Locks.*  One dispatcher lock, two recursive mutexes, re-entrant operations and
  threads that a lock holder waits for.  Correct means: writers run alone, and no
  request waits for ever.

`PROJECT.json` lists each hazard at its line, with the properties that cover it.

## 2. Modules

| Module | Role |
|---|---|
| `RuntimeLedger` | the runtime ledger with its files, exceptions and crashes |
| `Outbox` | what the runtime ledger promises: an abstract specification it refines |
| `RuntimeLedgerProofs` | theorems about `RuntimeLedger`, and that it implements `Outbox` |
| `QueueProcessor` | the two lanes, the hooks and the daemon's restarts |
| `AckedQueue` | what the queue promises: an abstract specification it refines |
| `QueueProcessorProofs` | theorems about `QueueProcessor`, and that it implements `AckedQueue` |
| `StreamLease`, `StreamLeaseProofs` | stream ownership in the task ledger, and theorems about it |
| `Capsule` | handoff capsules, direct and queued |
| `Revisions` | a register written by compare and set: an abstract specification `Capsule` refines |
| `CapsuleProofs` | theorems about `Capsule`, and that it implements `Revisions` |
| `EmbedQueue`, `EmbedQueueProofs` | the embedding queue in both modes, and theorems about it |
| `DaemonLifecycle` | daemons that start, stop, crash and kill each other |
| `SadhanaManager`, `SadhanaManagerProofs` | autonomous agents: tools against the tick, and theorems about them |
| `RpcServer` | clients, connections, pools and shutdown |
| `RemoteCalls` | what a client may count on for its call: an abstract specification `RpcServer` refines |
| `RpcServerProofs` | theorems about `RpcServer`, and that it implements `RemoteCalls` |
| `RequestLocks` | the threads, their remaining steps and the locks, and what must hold of them at every moment |
| `Dispatcher` | the requests on that state: locks, re-entries and joins |
| `DaemonProofs` | theorems about a daemon's process (`DaemonLifecycle`) and the requests in it (`Dispatcher`) |
| `MC...` | the instances TLC checks |

Definitions marked `Mutant:` in a comment are broken variants of the definition
that follows them.  No specification uses them: each is put in the place of its
original to see that a property notices.

### RuntimeLedger

A byte of the tail is its position; `durable` is the sequence of tail positions
the durable file holds, 0 for a byte somebody else wrote.  So duplication,
reordering and loss show in `durable` itself, and the comparison recovery makes
with the bytes at `intent.destination` is a comparison of positions.  Bytes of
other writers never equal tail bytes in the model; in the code they could by
coincidence, and recovery would then take them for its own.

`FlushRecover`/`FlushRead` ... `RemoveIntent` are the steps of one `flush()`, cut
at every system call that other processes or a crash can observe.  `BatchEnd` is
the choice of the last newline in the chunk, with `getline` beyond it when the
chunk has none.  `publish()` is write, fsync, rename, fsync of the directory,
and so one step; the unlink of the intent is not fsynced, so `ghost` remembers
what a host crash may bring back until the next publish fsyncs the directory.
`FlushThrows` is any exception, and also a killed daemon: `flush()` keeps no state
of its own.  `HostCrash` also loses any unsynced suffix of `durable`.  A tail on
tmpfs, lost with the host, is not modelled.

### QueueProcessor

An item is a queue line: a plain write, a `ledger_save` (all of one key, so that
a later one supersedes an earlier one of the batch) or a `distill_trigger`.  The
store is the sequence `log` of applied items, durable up to `synced`; a crash
keeps the files and any prefix of `log` that contains the synced one.  `pc[l]` is
where lane `l` is between two file operations, `idx` its `processed` counter,
`pending` the fast lane's `pending_slow`.

Each action is one step between two points a crash or another actor can
separate: `Claim` (rename), `ReadLines` (with the rotation of the ack ledger),
`Apply`/`Coalesce`/`DeadLetter`/`Reroute` for a line, `SyncStore`, `RecordAck`,
`FlushSlow`, `WriteCkpt`, `RemoveProcessing`, `RemoveCkpt`, and for the slow lane
`BumpAttempt`, `PoisonPill`, the endpoint probe, `Distill`, `Defer`.  The error paths
are outcomes of these steps.  A dead letter may fail to be written (`WriteFailedItem`),
and then only the daemon's log knows, since the caller counts the line as done.  A
distill may come to nothing (`DistillOutcome`), because no transcript is registered or
because `run_distillation` returned false, after a failure of the LLM or of its answer
or a cancel by the shutdown; `run_slow` forgets its attempts and acknowledges it all the
same.  Which distills `run_distillation` may fail is the constant `Barren`.  `Recover` is
`recover_processing`, which both lanes go through before either starts.  A failed
sync before an acknowledgement or a handoff pauses the lane; before a checkpoint
its status is discarded, as in the code.

Hooks append with `open` and `write` (`HookSplit`): between the two the file may be
renamed (`"proc"`) or removed (`"gone"`).

The history variable `breach` records which of four gaps of the code a
behaviour has been through: `stale`, a daemon started with a watermark and no
`.processing` to go with it; `race`, a hook wrote to a file after the lane had
read it; `sync`, a failed sync went unnoticed before a checkpoint; `twin`, a save was
taken for superseded by a second copy of itself (section 3).
What a lane gives up by itself is on record separately, item by item: `dropped` and
`fruitless`, the distills that came to nothing (for want of a transcript, or by
`run_distillation`), and `unwritten`, the lines whose dead letter was not written.
`NoLossUnlessBreached` says that without a breach these items, and no others, are beyond
the reach of recovery.  `AckedIsDurable` says what an acknowledgement is worth: the
fast lane's that the work is durable; the slow lane's that it is, or that the
distill came to nothing.  `crashedIn` counts the crashes in an item's distillation since
its attempt count was last cleared, which `PoisonPill` and a finished `Distill` do,
whatever it came to (`:1170`: "Reached here without crashing").

`AckedQueue` is the promise without the files: lines accepted from hooks, the store with
its durable part, the saves that were replaced, the answers.  Only what was accepted is
applied; an answered write is durable or was replaced, and is not applied again; a crash
takes back no more than the unsynced end of the store.  The mapping takes the store,
`superseded` and `everAcked` as they are; the queue files, watermarks, ledgers and
attempt counts are what the implementation adds.

Abstractions.  Whatever a tool handler writes is one application of the item,
and a handler that throws has written nothing.  `dispatch()` returns true for an
`observe` whose confidence is out of range, but confidence is clamped just before
the call, so that path is unreachable.  Distillation is enabled; the transcript spans
that `process_distill` ingests before the LLM call are not counted as its work.
Appends of the deferred remainder are assumed to succeed.  Sessions without an id,
which skip the attempt count, and the back-off sleeps are left out.

### StreamLease

The tables are `holder` and `expires` by stream, `status`, `metaStream` and
`metaTtl` by session.  Every transaction adds the tables before it to
`unsynced`; `Crash` keeps the tables or returns to one of these, which stands
for a WAL cut after any unsynced transaction.  An operation holds `stream_mutex`
from its first transaction to `Idle`; its answer then waits in `replies` until
the dispatcher has synced the store (`Reply`).  `promised` and `beat` are what the
clients know: until when a stream was promised, and when the heartbeat behind
their last answer was taken.  They are lowered when a client gives a stream up
or lets its heartbeats lapse, and raised only by an answer.

Abstractions.  A session waits for its answer before its next request.  The sync
before an answer is assumed to succeed (`Capsule` models the discarded status).
Closing and binding send no answer that matters.  Not modelled: `lease_claim` with
`force`, and the plain `lease_claim` RPC; the generation counter, which nobody
compares; the status argument of `session_bind`, which the model takes as active.
`resume_selector.py` issues bind and claim as separate RPCs.  Those claims would
be actions without the reopening of the session that `ClosedSessionsHoldNothing`
rests on, so that property speaks of the stream operations only.

### Capsule

`rows` are the capsules in `thread_sessions`; the latest one of a key, and so the
next revision, is recomputed from them every time (`Latest`), as `latest_by_key`
does.  `wal` is the log of capsule batches, `loaded` the part of it that the rows
reflect (all of it but during replay), `synced` the part a host crash cannot
take.  The handlers run under both mutexes and are one action each; what comes
after them is not: the sync and the answer (`Answer`, or `AnswerUnsynced` when the
discarded status was a failure), the queue between `Stop` (`hook_handoff_prepare`,
with the choice of the state that keeps a completed milestone) and `Apply`, and
the lane's `Checkpoint`, which also discards the status of its sync, so that the
watermark may pass writes a crash takes back.  After a crash the lane starts again at
`offset`.

`capsule_get` is dispatched like a write, so it syncs; `hook_handoff_prepare` and
`hook_handoff_context` are listed as reads and do not, so what they return may
still be taken back by a crash.  `retracted` remembers the capsules this happened
to: their revisions are issued again, and a compare-and-set cannot see it.  `id`
stands for the contents of a capsule; `base` is the capsule the writer had seen.

`Revisions` is the promise without rows and log: for each key a register that is written
by compare and set.  A version is a batch of the log that numbers a capsule (`Versions`).
Every write follows the newest version of its key and replaces the one its writer had
read, or one that a crash took back; a crash takes back the newest versions of a key, and
none that was acknowledged.  Replay, the queue and the answers stutter.

Abstractions.  A queued write that is replayed after it had taken effect fails
its revision check and is filed as failed; the model calls this `Refuse`, as it
does any other error.  `import` writes rows directly, past these checks, and is
not modelled.

### EmbedQueue

A job's future is `waiters` and `done`; `inflight` is the map by which callers
share a job; `lru` keeps for every node whether the map's iterator points to it,
so that a duplicate or dangling node is visible.  The two modes of the code,
chosen by `CHITTA_EMBED_WRITE_WORKERS`, are the two values of `mode`, because
they differ in when an in-flight entry is registered and erased, in who serves
which lane, and in whether `cache_put` removes an older node.  A wait on a
condition variable with its predicate under the mutex is a guard; a timed wait
is a guard and an action that gives up.

### DaemonLifecycle

One process is one run of `main`: clean up after a predecessor (`ReadPid` ...
`CleanPid`), take the `fcntl` lock, bind, open the store, serve, and the steps of
the shutdown in the order of the code: close and unlink the socket, remove the
pid file, release the lock, join the threads or be ended by the alarm, close the
store, and unlink the socket path once more in `~SocketServer`.  The store's
instance lock belongs to the Rust store and is modelled from `docs/HOOKS.md`
(`CHITTA_STORE_LOCK_WAIT_S`) and the calls around it.

`connect()` on a unix socket succeeds as long as the owner listens, so
`socket_responds` is a question about the listener: a daemon whose threads hang
with the socket open is never taken for hung, and the kill of
`cleanup_stale_daemon` reaches only daemons that are shutting down or whose
path was unlinked.  `gaps` records by which of three races the files of a live
daemon were removed.  Left out: reuse of a pid by an unrelated process, a state
directory on a shared file system, and everything a request does.

### SadhanaManager

An agent is a record in the store (`task`, read and written back whole) and, while
it runs, an entry of `running_`; the tools (thread `rpc`) and the maintenance
loop (thread `tick`) change both in several steps with nothing held in
between, except that the global write lock serialises the tools.  A cycle lasts up
to ten minutes between the payload it read and the payload it writes.  `gaps`
records by agent the races it went through: `staleWrite` (a payload written over
a newer one), `overlap` and `crowded` (another thread in the middle of the same
agent, or past the limit check), `interrupted` (a restart in the middle of an
operation), `torn` (an entry erased under the pointers `run_cycle` holds; the
effect of the dangling write is nondeterministic), `revived`, and `threw`.

The last is an error path, not a race.  Between `think` and the store, `run_cycle` may
throw: a status or summary in the agent's last JSON that is no string (`:1154-1156`),
or an `output_tail` or `error` cut within a UTF-8 character, which `payload.dump()`
refuses (`:1188`).  `tick` has no handler; that of the maintenance loop
(`simple_cli.cpp:544-548`) comes after the whole tick, so the rest of the batch is
skipped too.  `CycleThrows` is this exit: neither iteration nor failure is counted and
`next_run_at` stays, so the agent is due again in the next tick.  An agent in `Brittle`
may do so in any cycle, and for ever.  So `CyclesAreCounted` says that the count never
passes the cycles or the limit, and equals the cycles for an agent none of whose
cycles threw; `FailingIsPaused` that the breaker stops an agent whose failures all
reached it; `LimitHolds` that the limit does not suffer.  What remains for an agent
that always throws is `max_runtime_hours`.

Left out: `max_iterations_per_hour`, which is never read; the null result of
`create_brain`, which does not exist; the prompts and what a provider does.

### RpcServer

Clients, the poll loop and the pools of one daemon, from `connect` to the answer.
A connection is an identity, a descriptor is a place in `conns`, and the answer of
a call goes to whoever holds the descriptor when it is ready (`Buffered`), as in
the code.  `Poll`, `Dispatch`, `Drain`, `Admit` and `Expire` are the parts of one
turn of the main loop; `Take`, `Work` and `Release` a worker's; `Stop` closes the
connections, then lets the pools run any part of what is queued before the alarm.
The request ids are the code's: the command line client and the bridge use 1
for every call.  `abandoned` and `cut` record which calls their client gave up,
and which a shutdown cut off; `Overtaken` are the calls that were given another
call's answer.  What several connections or descriptors contribute in one turn (the
connections accepted, the responses moved to write buffers) is ordered by `Rank`
and `Nth`, positions in a finite set of numbers, without recursion.

`RemoteCalls` is the promise without connections, queues and workers: calls, how often
each was executed, and the answers taken.  A call is executed once, and not after somebody
has its answer; an answer is taken by one call, while that call is open, and tells whether
the call it belongs to was executed ("refused" means it was not).  Two exceptions are part
of it.  A shutdown makes clients repeat the calls it cuts off, which may execute them a
second time, also when a refusal was on its way.  And once a call was given up, its answer
may be taken for that of another, whose own may be taken for that of a third.  The mapping
takes `calls`, `runs`, `got`, `abandoned` and `cut` as they are.

Abstractions.  The first call of a connection is made with `connect`.  A client
leaves only while calls remain, since nobody would see the descriptor reused
after that.  `learn` stands for the exclusive kinds with one key.  Left out: the
growth of the pools, the 16 MB limit on a request, the loading responder's
answers, streamed answers (`sadhana_watch`), the watchdog, and the Python client,
whose ids increase.

### Dispatcher

A thread is the sequence of steps it has still to make, built by `Guarded`, `Run`,
`OnCapsules` and so on the way the handlers call each other: the rpc lock by the
class of the tool, then `stream_mutex` and `capsule_mutex` (recursive), re-entries
into `tool_ledger_op`, and the asynchronous calls that a hook joins.
`transaction_mutex_` is only taken by `run()`, whose caller holds
`capsule_mutex`, so it is part of that step.  `Throw` is an exception in a handler:
the guards between it and the outermost `tool_ledger_op` release what they hold.
Both values of `CHITTA_GLOBAL_LOCK` and both preferences of a reader/writer lock
are explored.  `WaitsFor` is the relation of waiting and `Rank` how many kinds of
waiting can still lie behind a thread; `WaitsDescend` says that waiting leads from
higher ranks to lower.  The state and these definitions are in `RequestLocks`, apart from
the requests, so that the proofs can state them next to those of the process.

Left out: the pause for recalls, the maintenance thread's try-lock, budgets, and the
answer while the index loads.

## 3. Runs

| Run | Question | Instance |
|---|---|---|
| `ledger` | exactly once, durable before acknowledged, no torn record without an intent, refinement of `Outbox`, every record shipped | 4 bytes of tail, chunk of 2, 2 foreign bytes, 2 faults |
| `queue_fast` | nothing lost but through the named gaps, no acknowledged write applied twice, refinement of `AckedQueue` | 1 write that may fail, 2 saves, failing syncs and dead letters, split hooks, 2 restarts |
| `queue_lanes` | acknowledgements are durable, crashes are counted, a session is given up for a cause | 1 write, 1 distill that may come to nothing, failing syncs and appends, limit of 2 attempts, 2 restarts, 1 outage |
| `queue_live` | every item settles | 1 write, 1 distill that may throw or come to nothing, 1 restart, 1 outage |
| `lease` | a heartbeating holder keeps its streams, a closed session holds none | 2 sessions, 2 streams, heartbeat 2, ttl 3, 4 operations, 1 fault |
| `capsule` | revisions never repeat, a queued write takes effect on what it read, milestones and acknowledged capsules stay, refinement of `Revisions` | 2 sessions, 1 stream, 2 code states, 2 saves of completed work, 1 Stop, 1 crash |
| `embed` | shared jobs are alive, the cache's iterators are valid, calls return, the destructor drains | both modes, 3 texts, 2 callers, 1 write worker, lanes of 1, cache of 2 |
| `lifecycle` | threads only with the store, reachable, recorded, not killed while reachable, every start settles | 3 daemons, 2 crashes |
| `sadhana` | record and schedule agree, cycles counted, stopped stays stopped, the limit, failing agents pause, agents rest | 3 agents (one a dream, one that may throw), 2 at a time, 1 iteration, 1 failure, 1 tool call, 1 restart |
| `rpc` | no crossed answers, each call executed once and answered truly (refinement of `RemoteCalls`), marks match tasks, calls return | 3 connections on 2 descriptors, queues of 1, 2 calls, 1 shutdown |
| `dispatch` | writers run alone, no circle of waits, every request returns | 2 threads with 4 asynchronous lanes each, 3 requests of 13 kinds |
| `rpc_stale` | the finding below | a bridge, 2 calls |

Why the bounds are enough.  In `ledger` a chunk of 2 and a tail of 4 give records
shorter than, equal to and longer than the chunk, and a second batch after the
first; two faults let a recovery be interrupted itself.  In `queue_fast` two saves
and a write, with a checkpoint every two items, give batches with and without a
watermark, and two restarts let a recovery crash; the second restart is what
exposes state inherited from the first, and which makes a twin of a save: one crash while
recovery puts its lines back, and the next recovery puts them back again.  In
`queue_lanes` the poison pill takes two crashes, or a crash and an outage, with a recovery
after each; a larger instance, where two distills let one be deferred behind the other
(limit of 1, 1 restart, 7.2 million states), agrees.  In `lease` the promise outlives the
heartbeat, two streams separate the one in the metadata from the other, and four
operations allow claim, claim, heartbeat and a rival's claim, with a crash
anywhere.  In `capsule` two saves and a Stop let a queued write meet a newer
capsule of its key, and the crash lets it be applied again or find its base
retracted; saves are of completed work, since only a completed milestone is protected, and
the Stop makes the other states.  Saves in progress too (three minutes instead of one)
change nothing.  In `embed` three texts overflow a cache of two, and lanes of one slot
are full while a job runs.  Three daemons are a leaving one, its successor and a
third that cleans up; two crashes let the files of two dead ones remain.  In
`sadhana` three agents compete for two places, so that the start of an agent by a tool
and the spawn of one by the dream can pass the limit together; each kind of `gaps` occurs.
A larger safety-only instance, 2 agents for one place with two tool calls, two iterations
and two failures (16.2 million states), agrees.  In `rpc` three
connections on two descriptors make one be reused while its call runs.  In
`dispatch` a cycle of waits through one reader/writer lock and two mutexes needs
two holders, a join adds the lanes of each; three threads (2.7 million states,
safety only) agree.  `Symmetric` and `Symmetry` permute names that no definition
tells apart, and no run with them checks liveness.

Deadlock checking is off: with all bounds used up, with idle hooks, clients and
daemons, each system may stop.  Where a deadlock is a hazard a liveness
property looks for it (`EveryRequestReturns`, `EveryCallReturns`,
`EveryItemSettles`).

### Fairness

Crashes, failures, timeouts of clients and new requests are never fair; all are
bounded.

* `ledger`: weak fairness of `FlushStep`.  The ledger thread calls `flush()` every
  50 ms until the daemon stops, and retries after an exception.  It also assumes
  that the append lock is eventually free: no other node holds it for ever.
* `queue_live`: weak fairness of each lane's steps and of `Restart`.  The lanes are
  threads with no lock held across a wait but `slow_mu_`, held only for appends; the
  service manager restarts a daemon that stops.  I/O failures are off in this run:
  a lane that meets a `QueueAckError` pauses until the daemon restarts, and nothing
  in the code restarts it, so settlement is not promised then.
* `embed`: weak fairness of each worker and of each caller past its cache lookup.
  The condition variables are notified on every change and the model's run time is
  finite.  A query's own time limit is not assumed to expire.
* `lifecycle`: weak fairness of each process.  The wait for the store and the joins
  have time limits in the code, and their actions are always enabled.
* `sadhana`: weak fairness of the tick thread's and the tool thread's steps and of
  time, which ends an interval: a call of a provider has a time limit, and the loop
  runs until the daemon stops.  Strong fairness of `AutoPause` for the agents in
  `Brittle`: an agent that the tick reaches again and again is at last found older than
  `max_runtime_hours` (168, `sadhana_manager.cpp:504-505`), since its age only grows.
  All other agents come to rest by their own limits, without it.
* `rpc`: weak fairness of the main loop, of each pool, and of a waiting client's
  reading, resending and failing.  Handlers return; `dispatch` is where this is
  examined.
* `dispatch`: weak fairness of each request, not of each lock: whoever can move in
  a request does, and the operating system may choose any waiter for a lock.

### Finding

`rpc_stale` expects a violation.  `socket_client.cpp` says it skips "any frame
whose id doesn't match expected_id (stale/out-of-order response)", but every tool
call has the id 1.  After a response timeout the connection stays in use, and
the late answer of the abandoned call is taken as the answer of the next one.
`OwnAnswerUnlessAbandoned`, in `rpc`, says that this is the only way an answer goes
to the wrong call: what a call takes is its own answer, or that of a call given up
before, or that of a call that was itself overtaken, and none is overtaken before
some call was given up.  From the first call given up on, every later one of that
connection may be off by one.

### Gaps that passing properties name, and others seen on the way

The passing properties hold of the code as it is, so where the code has a gap the
property names it.  Read together they are a list of what a change could close.

* Queue: `.processing` is removed before its `.ckpt`, so a crash in between leaves a
  watermark that the next batch may inherit (`stale`); a hook may write to a renamed or
  unlinked file (`race`); a failed sync goes unnoticed before a checkpoint (`sync`).
  Recovery appends the remaining lines to the queue (`queue_processor.cpp:225`) before
  it removes `.processing` (`:228`), so a crash in between queues a save twice (`twin`).
  Coalescing (`:859`, `:889-893`) then takes the first copy as superseded by the second,
  its own twin, and acknowledges it; the second is skipped because its id is in the
  ledger: a save that was acknowledged and never applied. The comment at `:838-841` says
  "Keep the LAST occurrence per key in this batch, skip the rest".  The gap came to
  light when the proof that the queue implements `AckedQueue` asked what a superseded
  save was superseded by.  The attempt count is raised before the endpoint probe, so
  outages count as attempts (`PoisonedForCause` names outages among the causes).
  A distill whose `run_distillation` returns false (`:1097-1099`), a shutdown's cancel
  included, is acknowledged (`:1173`) and not tried again (`fruitless`), and
  a line whose dead letter cannot be written is counted as done (`:312`, `unwritten`).
  Recovery re-queues an older save behind a newer one.
* Streams: a heartbeat gives every lease of the session 900 s and restores the
  longer time only of the stream last claimed, although
  `docs/DECISION-2026-09-17-multi-agent.md:47` says the ttl is preserved;
  `HeartbeatingHolderKeeps` therefore speaks of the heartbeat or the promise.
* Capsules: an unsynced capsule can be read, taken back and its revision issued
  again, so a Stop prepared from it may replace a capsule it never saw
  (`retracted`).
* Embedding queue: in legacy mode duplicate nodes let the list grow past
  `kCacheSize`; a `write()` that shares a query's job gets no vector when that query
  expires.
* Lifecycle: the second unlink in `~SocketServer` takes a successor's socket
  (`lateUnlink`); a cleanup that read the pid file before a daemon started removes
  that daemon's files (`racingCleanup`, `pidRemoved`), and one that lost both is
  neither reachable nor found, while it turns every later start away.
* Sadhana: a cycle in flight overwrites a stop, and the agent is revived by the next
  restart; setters are lost the same way (`staleWrite`); pointers into an erased
  entry are used after it (`torn`).  A cycle that throws on its own result is never
  counted and is repeated in every tick, past the circuit breaker (`threw`).
* RPC: an answer goes to whoever holds the descriptor; only the id, and the rule
  above, keep it from being taken.
* Locks: the comment at `field_task_ledger.cpp:25` names `hook_pre_compact` for the
  fan-out of `hook_compact_policy.hpp:343`, which is in `hook_compact_restore`.  That
  operation joins its threads with `stream_mutex` held, harmlessly, since
  `smart_context` never enters `tool_ledger_op`.

Not covered by a property: the append of a deferred remainder that fails, a lane
that stays paused after a `QueueAckError`, a tail lost with a tmpfs, generations
that start again after a lease row is deleted.

## 4. Proofs

The theorems hold for every value of the constants that satisfies the named
assumptions of the modules.  They ask for natural bounds, positive capacities and
intervals (`BoundsAssumption`, `ItemsAssumption`, `LeaseAssumption`,
`LifecycleAssumption`, `CapsuleAssumption`, `EmbedAssumption`, `SadhanaAssumption`,
`RpcAssumption`, `DispatchAssumption`), that kinds of items and names of sessions and
streams do not overlap, and that the words for "none" are not names
(`NamesAssumption`, `NobodyAssumption`).  The sets of sessions, streams, daemons,
callers, texts, clients and threads are arbitrary, not even finite; the workers of the
embedding queue are finitely many.  The bounds may be any numbers.

Each proof has the same layout: the inductive invariant as a conjunction of named
parts, one lemma for each action (or each part under it), and the theorems at the
end.  TLC had agreed with every property on the instance of its run before it was
proved.

**RuntimeLedgerProofs.**  `TypeCorrect`, `ShippedExactlyOnce`, `OffsetIsDurable`,
`TornRecordsAreCovered`.  None of the last three is inductive: they do not say
what an intent means.  `IInv` adds it.  `FilesInv` says that the batch of an
intent, or of a removed intent that may come back, ends a record, that the
published offset is at one of its two ends, that nothing beyond it has been written
and nothing of it below its destination, and that without an intent nothing beyond
the offset is on the durable file.  `FlushInv` ties the locals of a running flush
to the files at each step.  `Ordered` and `Gapless` are exactly-once in the form
that survives an append.  The cases that carry the argument are `RecoverAppend`
(the matching bytes are the batch's own prefix, so appending the rest continues it)
and `HostCrash` (what remains after a cut is still a prefix, and a returning intent
is of a batch that is already complete and fsynced).

`Refinement` is `ImplementsOutbox`: every step is a step of `Outbox` or none.  What the
abstract specification calls sent is the set of tail positions on the durable file;
`SentIs` shows that with `Ordered` and `Gapless` this is a prefix of the tail, so that
an append extends it by the bytes it writes, a host crash shortens it to no less
than the published offset, and all the work on intents, temporary files and offsets
stutters but for the one publish that moves the offset.

**QueueProcessorProofs.**  From `ItemsAssumption` alone (the three kinds of items are
disjoint, a positive checkpoint interval, natural bounds): `TypeCorrect`,
`AckDurable`, `CrashesCounted`, `PoisonHasCause`, `NothingLost`, the action property
`AcknowledgedOnce` and `Refinement`, for any set of items and any number of restarts and
outages.  All follow from `Inductive`, whose `IInv` has a part for each question:

* `AckLane`: a lane between an item and its acknowledgement has that item in hand, and
  the acknowledgement has a ground, in the log before the sync and durable after it;
* `CountInv`: an attempt is on disk before it can crash, and every earlier attempt on a
  good item ended in a restart or an outage;
* `OnceInv`: an acknowledged write is not in the queue, and in `.processing` only with
  its id in the ledger (`NeverAgain`); this needs that a line is in one place at a time
  (`OnePlace`) and nowhere before its hook has written it (`Unsent`);
* `LossInv`, of behaviours without a breach: an item is safe once it is durable,
  dead-lettered, superseded or given up (`Settled`), a watermark belongs to the `.processing`
  beside it (`Watermark`), recovery skips only what is safe (`Skipped`), the lines gone
  through are safe, applied or buffered according to how far the lane has got with
  making them durable (`GoneThrough`, `HandSafe`), and a file is removed only when
  its lines are safe or queued again (`RemovalSafe`).  For the fast lane an item the
  slow lane holds is safe, so every slow step must keep what it holds.

`Refinement` is `ImplementsAckedQueue`: every step is a step of `AckedQueue` or none.  Its
guards ask where a line comes from and what an answer rests on.  The first needs one more
invariant, `Written`: every line in a queue, a `.processing` or a lane's memory was
accepted from a hook (`InHandWritten`).  For the second, `AckLane` gives the ground of an
answer and `NeverAgain` keeps an answered write from being applied again.  A step that
supersedes a save either sees another accepted save or is a breach `twin`.

The invariant was first checked with TLC on the larger instance of `queue_lanes`.  `Ranks` and
`UnprocessedRange` establish what recovery's re-queueing computes: `Unprocessed` lists
the remaining lines by rank, without recursion, so that its range can be proved.

**StreamLeaseProofs.**  `TypeCorrect`, `ClosedHoldNothing`, `HeartbeatingHolderSafe`.
The first two rest on `IInv`: in the steps that write a lease the session is
open (`Bound`), and the same is true of every state a crash may return to
(`SnapshotsSound`).  The third needs `HInv`.  Its core is `Held`: while a promise is
current, the lease is the session's and lasts until the promise *or* until the
heartbeat lapses.  The "or" is what a touch leaves behind before the renewal, and
what a crash there leaves for good.  `Held` must be true of the tables
(`TablesKeep`), of every state a crash may return to (`SnapshotsKeep`), and of
every answer still under way (`RepliesKeep`), together with the fact that a
renewal through the metadata never cuts a promise short (`RenewsPromises`).
`ClaimKeeps`, `HandoffKeeps` and `RenewalKeeps` carry it through the middle of an
operation, and `ClientsWait` says that a client has one answer under way.  The
proof has one lemma per action.

**DaemonProofs**, the process.  `TypeCorrect`, `LockHolds`, `LanesHoldTheStore`,
`Reachable`, `Recorded` and the action property `KilledUnreachable`.  The
invariant says between which two steps a daemon owns what: the lock from before
the bind to after the removal of the pid file (`LockExclusive`), the store from
`OpenStore` to `CloseStore` (`StoreHeld`), and that a process has threads only while
it serves or stops (`LanesRun`).  Every unlink but two is made by the holder of the
lock, which is why no other can take a listening daemon's path.

**DaemonProofs**, the requests.  `WritersAlone`, `NoCircleOfWaits`, `NothingLeftLocked`,
`LockTypes`, for any number of threads and requests.  The first two are the properties of
the run `dispatch`, stated on the state of `RequestLocks`, on which `Dispatcher` is
instantiated (`D`).  The state of a thread is the code
it has still to run, so the invariants speak of what such a sequence may look like.

* `RequestsInv`: what is left of a request is `WellFormed` (its lock first, its release
  last, a join right behind whatever launches threads); rpc_mutex_ is held exactly by
  the requests that are `Inside`, between the two (`HoldersMatch`); a launched
  thread that is not done has a parent at its join, inside its lock (`LanesJoined`); and
  what follows an exclusive lock launches nothing (`Alone`).  `FreshRequests` shows that
  the requests of the table have this form, and `Unwound` keeps it when a handler throws.
  `WritersAlone` follows.
* `LocksInv` adds the recursive mutexes.  `Nested(s, m, d)` says that the steps `s`,
  begun with `m` held `d` times, end with it free, and that only certain steps come
  while it is held (`Within`): under capsule_mutex neither stream_mutex nor a join.
  `MutexInv` says so of what is left of every thread, so a thread about to wait shows
  what it holds.  `BalancedRequests` proves it of each request from the way its
  parts are composed.  `LanesHarmless` is the one exception to the rule that a
  joining thread holds no mutex: hook_compact_restore holds stream_mutex, and its lane
  takes none.
* `Descend` then compares ranks, one case for each kind of waiting: reader on writer,
  writer on reader, join on lanes, stream_mutex, capsule_mutex.  `WaitsDescend` leaves no
  room for a circle; that threads which can run do run, and so every request returns,
  stays with TLC (`EveryRequestReturns`).

**CapsuleProofs.**  `TypeCorrect`, `RevisionsNeverRepeat`, `StopAppliedOnce`,
`CompareAndSet`, `MilestoneKept`, `Durable`.  The counter is stored nowhere: it is
the maximum over rows that are overwritten.  So the invariant says that the rows
dominate the log they were loaded from (`RowsCover`), also half way through a
replay, which holds because a session that has written a capsule keeps to its key
(`SessionKeys`); that a key's rows have a maximum (`HasLatest`); and that handlers
run only when all is loaded (`Served`).  `LinkInv` ties identities to what writers
had read: a view, and the base of a queued write, is in the log or was taken back
(`ViewOrigin`, `QueueOrigin`), and an acknowledged capsule is below `synced`
(`AckedSynced`).  Equal revisions and no retraction then mean the same capsule.

`Refinement` is `ImplementsRevisions`.  `VersionFacts` describes the versions by the
batches of the log.  A write follows the newest version of its key because the row it
compares with is the largest of the log's (`RowsCover`, and `LatestCoversLog`), and its id
is new (`StopAppliedOnce`); a crash removes a suffix of the log, which for every key is its
newest versions, since revisions increase along the log, and leaves what is below `synced`,
where everything acknowledged is (`AckedSynced`).

**EmbedQueueProofs.**  `TypeCorrect`, `SharedAreAlive`, `PointersAreLive`, for both modes,
any texts, callers and workers and any capacities.  `JobInv` says that a job is in one
place, in a queue once or with one worker (`OnePlace`), that the slots in use are those
of such jobs (`InUse`), and that the in-flight table points to live jobs of the right
text.  It holds for a different reason in each mode: in legacy mode the entry of a key
is erased when any job of that key is taken, and only queued reads are ever shared; in
bounded mode it stays past the answer until the worker releases the job, also when a
query moves the job it shares to the read lane (`PromoteFacts`).  That a free slot
exists for a new job is counting (`SomeSlotIsFree`).
`CacheInv` needs that in bounded mode the list has no duplicates (`NoDuplicates`); in
legacy mode it may have, and the iterators are valid all the same.

**SadhanaManagerProofs.**  `TypeCorrect`, `RecordKept`, `CyclesCounted`, `StoppedStays`,
`LimitKept`, `FailingPaused`.  Tools and tick read a record, leave the mutex and write a
copy back, so the properties hold only between such halves.  `IInv` is `Shape` (types,
and what a thread in a procedure has read, `Working`) with `Rest`: while a change is
half made the other half is known (`HalfWay`), a copy about to be written has passed
the checks made of it (`CheckedStart`, `CheckedCycle`), a start that has passed the check
of the limit still has its room (`RoomKept`), and an entry's counter never lags behind
the failures in a row (`Counting`), as far as the failures reached it (`Counted`).
The gaps named in section 3 are the only exceptions.  `ThrowRest` is the step of a
cycle that throws: it leaves store and table alone, so only the claims about counting
can suffer.

**RpcServerProofs.**  `TypeCorrect`, `MarkMatches`, `OwnAnswer`, `EffectsMatch`, `Refinement`,
for any clients, connections, descriptors, pool sizes, queue depths, calls and shutdowns,
in two layers.

* `DeskInv`: requests are queued where their kind belongs (`Sorted`), and the mark of an
  exclusive kind stands for exactly one task, queued or running (`Marked`).
* `IInv`: a call under way is a token in exactly one place: on its connection, in the
  batch, the waiting room, a queue or on a worker, in the response queue, a write
  buffer, or on the way down (`Once`: at one position of one stage, and `StagesApart`).
  Wherever it is, the holder of the descriptor it will be answered on is its own
  client's connection, or nobody waits for it (`Good`); its handler has not run yet,
  unless the shutdown that cut it off let it run and its client sent it again
  (`Unrepeated`); nobody has its answer (`Untaken`); and an answer under way says truly
  whether its call was executed (`Tells`).  `ClientEnds` and `ServerEnds` say that a
  connection has one client, one descriptor and one call waited for.

The hard steps have lemmas of their own: `PollSafe` (connections closed and accepted,
descriptors reused, requests read, all in one turn), `WorkSafe`, `ReceiveSafe`,
`ResendSafe` and `StopSafe` (any part of what is queued runs, and every connection is
gone).  Liveness of calls is not part of it.

`Refinement` is `ImplementsRemoteCalls`.  A request on a worker or in a queue may be
executed because it is `Untaken` and `Unrepeated` (`HandlerRun`, `StopShutsDown`).  A frame
that a client takes is `Untaken` and `Tells`, and it belongs to the client's own call or to
one nobody waits for, since a call that is waited for is `Good` only on its own client's
connection (`AnswerTaken`).  A call a client waits for is open (`WaitedOpen`).  Everything
between the request and the answer stutters.

**Only model-checked.**  Everything temporal: liveness under fairness (`EveryRecordShipped`,
`EveryItemSettles`, `EveryCallReturns`, `DestructorDrains`, `ProcessesSettle`,
`EveryAgentRests`, `EveryRequestReturns`), which is out of the prover's reach.  Every
safety invariant and action property of the passing runs is proved.
`EveryRequestReturns` has its safety half in `NoCircleOfWaits`.

## 5. Not modelled

* *The Rust store* is not in the tree.  The modules use its log through the calls
  the daemon makes (`cf_sync`, append, replay, the instance lock).
* *Recall, embedding models, code intelligence and navigation, visualisation* are
  most of the source by volume: scoring, inference, parsing and rendering over
  data that no protocol state depends on.  The largest single file is a vendored
  HTTP library (`httplib.h`, 20 000 lines), which the daemon uses as a client.  The
  models cover the protocol code, which is why the mapped share of all lines is
  small.
* *The LLM endpoint router* (`llm_http.hpp:416`) has state worth a model: load
  reservations against endpoints that are erased meanwhile, the freshness of a
  forced probe, waits for a whole batch of probes.  `QueueProcessor` reduces it to
  up or down.  It is the next candidate.
* *Distillation, enrichment, the write gate, the subconscious* are LLM calls and
  thresholds; what they need of the locks is a request of `Dispatcher`.
* *Sessions and messages* append one event and then enter the task ledger;
  *inbox and artifacts* are single-row transactions.
* *Long tasks and REPL sessions* supervise subprocesses; a candidate for later.
* Parts left out of a modelled component are named in its section above.

## 6. Plan

Done, in this order: `RuntimeLedger` with `Outbox`, `QueueProcessor`, `StreamLease`,
`EmbedQueue`, `DaemonLifecycle`, `SadhanaManager`, `Capsule`, `RpcServer`, `Dispatcher`; the
proofs of the ledger, the leases, the lifecycle, the capsules and the queue, then
the refinement of `Outbox` and the proofs of the embedding queue, the agents, the
server and the requests' locks, and the refinements of `AckedQueue`, `Revisions` and
`RemoteCalls`.

Next modules, most important first:

1. `EndpointRouter`: reservations against endpoints that are erased, forced probes, and
   the waits for a batch of probes.
2. `StreamLease`: forced claims, generations, and bind and claim as separate RPCs.
3. `RpcServer`: the loading responder and streamed answers.

Next theorem: an abstract mutual exclusion with hand-over that `DaemonLifecycle`
implements.

## 7. Running

    tlc -workers 2 -config MCRuntimeLedger.cfg MCRuntimeLedger
    tlc -workers 2 -config MCQueueProcessor_lanes.cfg MCQueueProcessor
    tlapm CapsuleProofs.tla
    tlapm QueueProcessorProofs.tla
    tlapm RpcServerProofs.tla

With two workers `embed` takes two minutes, `capsule`, `rpc` and `dispatch` one to one and
a half, `queue_lanes` and `sadhana` less than one, the others seconds.  Each module of proofs
takes a few minutes; `RpcServerProofs` (4900 obligations), the longest, takes about five.
