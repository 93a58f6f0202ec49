------------------------------ MODULE EmbedQueue ------------------------------
(***************************************************************************)
(* The embedding queue (embed_queue.hpp): callers ask for the vector of a  *)
(* text, share a job that is already under way, or submit one; worker      *)
(* threads compute, fill an LRU cache and answer.                          *)
(*                                                                         *)
(* Two modes, chosen at start-up.  Legacy, the default: one worker serves  *)
(* reads before writes and forgets a job's in-flight entry when it takes   *)
(* the job.  Bounded (CHITTA_EMBED_WRITE_WORKERS > 0): write workers of    *)
(* their own, and the entry stays until the answer is out.                 *)
(*                                                                         *)
(* Both condition variables are waited on with a predicate that is tested  *)
(* under mu_, so a wait is a guard.  The queue is destroyed at the end of  *)
(* main, when no call is running: the tests of stop_ in write and          *)
(* enqueue_write are never true.                                           *)
(***************************************************************************)
EXTENDS Integers, Sequences, FiniteSets

CONSTANTS
    Keys,           \* hashes of the texts
    Callers,        \* threads that call the queue
    Workers,        \* the write workers of bounded mode
    Modes,          \* the modes the daemon may be started in
    ReadCap,        \* kReadQueueCap
    WriteCap,       \* write_cap_
    CacheSize,      \* kCacheSize
    MaxCalls        \* bound: calls made, by mode

ASSUME EmbedAssumption ==
    /\ Modes \subseteq {"legacy", "bounded"}
    /\ ReadCap \in Nat \ {0} /\ WriteCap \in Nat \ {0} /\ CacheSize \in Nat \ {0}
    /\ MaxCalls \in [Modes -> Nat]
    /\ IsFiniteSet(Workers)

Reader == "reader"      \* worker_, which serves the read lane
NoKey == "nokey"
Nobody == "nobody"
None == 0

\* These are not names of a text or a caller.
ASSUME NamesAssumption == NoKey \notin Keys /\ Nobody \notin Callers

VARIABLES
    mode,
    calls,          \* number of calls made
    pc,             \* where a caller is: it missed the cache, or waits
    kind, want,     \* its call: query, write or warm (enqueue_write), and the key
    jobs,           \* the jobs that are queued or held by a worker
    readQ, writeQ,  \* read_q_, write_q_
    inflight,       \* inflight_: the job to share, by key
    cached,         \* the keys of cache_map_
    lru,            \* cache_lru_, most recent first: a key, and whether the
                    \* iterator cache_map_ keeps for it is this node
    wpc, wjob,      \* where a worker is, and its job
    stop

cache == <<cached, lru>>
queues == <<readQ, writeQ, inflight>>
callers == <<calls, pc, kind, want>>
workers == <<wpc, wjob>>
vars == <<mode, callers, jobs, queues, cache, workers, stop>>

Bounded == mode = "bounded"
AllWorkers == Workers \cup {Reader}
Slots == 1 .. (ReadCap + WriteCap + Cardinality(AllWorkers))
NoJob == [key |-> NoKey, write |-> FALSE, by |-> Nobody, waiters |-> {},
          expired |-> FALSE, done |-> FALSE]
Elements(q) == {q[n] : n \in 1 .. Len(q)}

\* The node an iterator points to is taken out of its list.
Without(q, x) ==
    IF x \notin Elements(q) THEN q
    ELSE LET n == CHOOSE m \in 1 .. Len(q) : q[m] = x
         IN  SubSeq(q, 1, n - 1) \o SubSeq(q, n + 1, Len(q))

Init ==
    /\ mode \in Modes
    /\ calls = 0
    /\ pc = [c \in Callers |-> "idle"]
    /\ kind = [c \in Callers |-> "none"] /\ want = [c \in Callers |-> NoKey]
    /\ jobs = [j \in Slots |-> NoJob]
    /\ readQ = <<>> /\ writeQ = <<>>
    /\ inflight = [k \in Keys |-> None]
    /\ cached = {} /\ lru = <<>>
    /\ wpc = [w \in AllWorkers |-> "idle"] /\ wjob = [w \in AllWorkers |-> None]
    /\ stop = FALSE

-------------------------------------------------------------------------------
(* Calls.                                                                  *)

\* In legacy mode write() is a query with a longer wait.
Kinds == IF Bounded THEN {"query", "write", "warm"} ELSE {"query", "warm"}

CanCall(c) == pc[c] = "idle" /\ calls < MaxCalls[mode] /\ ~stop

Owns(k) == [key |-> k, own |-> TRUE]

\* cache_get returns at once and moves the entry to the front of the list.
CallHit(c, k) ==
    /\ CanCall(c) /\ k \in cached
    /\ calls' = calls + 1
    /\ lru' = <<Owns(k)>> \o Without(lru, Owns(k))
    /\ UNCHANGED <<mode, pc, kind, want, jobs, queues, cached, workers, stop>>

CallMiss(c, k, q) ==
    /\ CanCall(c) /\ k \notin cached
    /\ calls' = calls + 1
    /\ pc' = [pc EXCEPT ![c] = "missed"]
    /\ kind' = [kind EXCEPT ![c] = q]
    /\ want' = [want EXCEPT ![c] = k]
    /\ UNCHANGED <<mode, jobs, queues, cache, workers, stop>>

Missed(c, q) == pc[c] = "missed" /\ kind[c] = q
Shared(c) == inflight[want[c]]

ReturnAll(C) ==
    /\ pc' = [c \in Callers |-> IF c \in C THEN "idle" ELSE pc[c]]
    /\ kind' = [c \in Callers |-> IF c \in C THEN "none" ELSE kind[c]]
    /\ want' = [c \in Callers |-> IF c \in C THEN NoKey ELSE want[c]]
    /\ UNCHANGED calls

Return(c) == ReturnAll({c})

StartWaiting(c) ==
    /\ pc' = [pc EXCEPT ![c] = "wait"]
    /\ UNCHANGED <<calls, kind, want>>

\* Share the future of job j, which may be ready already.
Join(c, j) ==
    IF jobs[j].done
    THEN Return(c) /\ UNCHANGED jobs
    ELSE StartWaiting(c) /\ jobs' = [jobs EXCEPT ![j].waiters = @ \cup {c}]

FreeSlot == CHOOSE j \in Slots : jobs[j] = NoJob

NewJob(c, waiting) ==
    jobs' = [jobs EXCEPT ![FreeSlot] =
        [key |-> want[c], write |-> kind[c] # "query",
         by |-> IF kind[c] = "query" THEN c ELSE Nobody,
         waiters |-> IF waiting THEN {c} ELSE {}, expired |-> FALSE, done |-> FALSE]]

Register(c) == inflight' = [inflight EXCEPT ![want[c]] = FreeSlot]

\* A query moves the queued document job it shares to the front of the read lane.
Promote(j) ==
    IF Bounded /\ Len(readQ) < ReadCap /\ j \in Elements(writeQ)
    THEN readQ' = <<j>> \o readQ /\ writeQ' = Without(writeQ, j)
    ELSE UNCHANGED <<readQ, writeQ>>

QueryJoin(c) ==
    /\ Missed(c, "query") /\ Shared(c) # None
    /\ Join(c, Shared(c))
    /\ Promote(Shared(c))
    /\ UNCHANGED <<mode, inflight, cache, workers, stop>>

QuerySubmit(c) ==
    /\ Missed(c, "query") /\ Shared(c) = None
    /\ Len(readQ) < ReadCap
    /\ NewJob(c, TRUE) /\ Register(c) /\ StartWaiting(c)
    /\ readQ' = Append(readQ, FreeSlot)
    /\ UNCHANGED <<mode, writeQ, cache, workers, stop>>

\* The read lane is full: the caller gets no vector.
QueryFull(c) ==
    /\ Missed(c, "query") /\ Shared(c) = None
    /\ Len(readQ) >= ReadCap
    /\ Return(c)
    /\ UNCHANGED <<mode, jobs, queues, cache, workers, stop>>

\* enqueue_write: only bounded mode registers the job as in flight.
WarmSubmit(c) ==
    /\ Missed(c, "warm") /\ Shared(c) = None
    /\ Len(writeQ) < WriteCap
    /\ NewJob(c, FALSE) /\ Return(c)
    /\ IF Bounded THEN Register(c) ELSE UNCHANGED inflight
    /\ writeQ' = Append(writeQ, FreeSlot)
    /\ UNCHANGED <<mode, readQ, cache, workers, stop>>

WarmSkip(c) ==
    /\ Missed(c, "warm")
    /\ Shared(c) # None \/ Len(writeQ) >= WriteCap
    /\ Return(c)
    /\ UNCHANGED <<mode, jobs, queues, cache, workers, stop>>

WriteJoin(c) ==
    /\ Missed(c, "write") /\ Shared(c) # None
    /\ Join(c, Shared(c))
    /\ UNCHANGED <<mode, queues, cache, workers, stop>>

WriteSubmit(c) ==
    /\ Missed(c, "write") /\ Shared(c) = None
    /\ Len(writeQ) < WriteCap
    /\ NewJob(c, TRUE) /\ Register(c) /\ StartWaiting(c)
    /\ writeQ' = Append(writeQ, FreeSlot)
    /\ UNCHANGED <<mode, readQ, cache, workers, stop>>

\* The admission wait ends with no space and nothing to share: write() throws.
WriteRefused(c) ==
    /\ Missed(c, "write") /\ Shared(c) = None
    /\ Len(writeQ) >= WriteCap
    /\ Return(c)
    /\ UNCHANGED <<mode, jobs, queues, cache, workers, stop>>

\* Only a query gives up waiting.  The deadline of a read job it submitted itself
\* has passed by then (by names the caller until that happens).
GiveUp(c) ==
    /\ pc[c] = "wait" /\ kind[c] = "query"
    /\ \E j \in Slots :
        /\ c \in jobs[j].waiters
        /\ jobs[j].by # c
        /\ jobs' = [jobs EXCEPT ![j].waiters = @ \ {c}]
    /\ Return(c)
    /\ UNCHANGED <<mode, queues, cache, workers, stop>>

Expire(j) ==
    /\ jobs[j] # NoJob /\ ~jobs[j].write /\ ~jobs[j].expired /\ ~jobs[j].done
    /\ jobs' = [jobs EXCEPT ![j].expired = TRUE, ![j].by = Nobody]
    /\ UNCHANGED <<mode, callers, queues, cache, workers, stop>>

-------------------------------------------------------------------------------
(* Workers.                                                                *)

FromReads(w) == w = Reader /\ readQ # <<>>
FromWrites(w) == writeQ # <<>> /\ (w # Reader \/ (~Bounded /\ readQ = <<>>))

\* Mutant: legacy mode keeps the in-flight entry as well.
ForgetNever(j) == UNCHANGED inflight

\* Legacy mode forgets the in-flight entry when it takes the job.
ForgetOnTake(j) ==
    inflight' = IF Bounded THEN inflight ELSE [inflight EXCEPT ![jobs[j].key] = None]

Take(w) ==
    /\ wpc[w] = "idle"
    /\ \/ /\ FromReads(w)
          /\ wjob' = [wjob EXCEPT ![w] = Head(readQ)]
          /\ readQ' = Tail(readQ) /\ UNCHANGED writeQ
          /\ ForgetOnTake(Head(readQ))
       \/ /\ FromWrites(w)
          /\ wjob' = [wjob EXCEPT ![w] = Head(writeQ)]
          /\ writeQ' = Tail(writeQ) /\ UNCHANGED readQ
          /\ ForgetOnTake(Head(writeQ))
    /\ wpc' = [wpc EXCEPT ![w] = "got"]
    /\ UNCHANGED <<mode, callers, jobs, cache, stop>>

Job(w) == jobs[wjob[w]]
Stale(w) == ~Job(w).write /\ Job(w).expired

\* set_value: the waiters return.  In bounded mode the in-flight entry is
\* still to be erased, and callers may join the answered job until then.
Fulfil(w) ==
    /\ ReturnAll(Job(w).waiters)
    /\ jobs' = [jobs EXCEPT ![wjob[w]] =
                  IF Bounded THEN [@ EXCEPT !.done = TRUE, !.waiters = {}, !.by = Nobody] ELSE NoJob]
    /\ wpc' = [wpc EXCEPT ![w] = IF Bounded THEN "release" ELSE "idle"]
    /\ wjob' = [wjob EXCEPT ![w] = IF Bounded THEN @ ELSE None]
    /\ UNCHANGED <<mode, queues, cache, stop>>

\* Mutant: the promise of a skipped read is never set.
SkipUnanswered(w) ==
    /\ wpc[w] = "got" /\ Stale(w)
    /\ jobs' = [jobs EXCEPT ![wjob[w]] = IF Bounded THEN [@ EXCEPT !.done = TRUE] ELSE NoJob]
    /\ wpc' = [wpc EXCEPT ![w] = IF Bounded THEN "release" ELSE "idle"]
    /\ wjob' = [wjob EXCEPT ![w] = IF Bounded THEN @ ELSE None]
    /\ UNCHANGED <<mode, callers, queues, cache, stop>>

\* An expired read is answered with no vector.
Skip(w) == wpc[w] = "got" /\ Stale(w) /\ Fulfil(w)

\* Past the deadline check (and the recall-pressure pause) the model runs.
Start(w) ==
    /\ wpc[w] = "got" /\ ~Stale(w)
    /\ wpc' = [wpc EXCEPT ![w] = "run"]
    /\ UNCHANGED <<mode, callers, jobs, queues, cache, wjob, stop>>

\* The model failed: the answer has no vector.
TransformFails(w) == wpc[w] = "run" /\ Fulfil(w)

\* Erasing a key from cache_map_: its node, if one is left in the list, is no
\* longer the one a map entry points to.
Disown(list, k) ==
    [n \in 1 .. Len(list) |-> IF list[n].key = k THEN [list[n] EXCEPT !.own = FALSE] ELSE list[n]]

DropLast(list) == SubSeq(list, 1, Len(list) - 1)

\* Mutant: the map keeps the entry of an evicted node.
EvictNodeOnly(keys, list) == [keys |-> keys, list |-> DropLast(list)]

\* The key of the last node is erased from the map, and the node from the list.
Evict(keys, list) ==
    LET victim == list[Len(list)].key
    IN  [keys |-> keys \ {victim}, list |-> DropLast(Disown(list, victim))]

\* The model returned a vector.  cache_put: only bounded mode removes the node the key already has.
CachePut(w) ==
    LET k == Job(w).key
        known == Bounded /\ k \in cached
        keys == IF known THEN cached \ {k} ELSE cached
        list == IF known THEN Without(lru, Owns(k)) ELSE lru
        room == IF Cardinality(keys) >= CacheSize THEN Evict(keys, list)
                                                  ELSE [keys |-> keys, list |-> list]
    IN  /\ wpc[w] = "run"
        /\ cached' = room.keys \cup {k}
        /\ lru' = <<Owns(k)>> \o Disown(room.list, k)
        /\ wpc' = [wpc EXCEPT ![w] = "cached"]
        /\ UNCHANGED <<mode, callers, jobs, queues, wjob, stop>>

SetValue(w) == wpc[w] = "cached" /\ Fulfil(w)

Release(w) ==
    /\ wpc[w] = "release"
    /\ inflight' = [inflight EXCEPT ![Job(w).key] = None]
    /\ jobs' = [jobs EXCEPT ![wjob[w]] = NoJob]
    /\ wpc' = [wpc EXCEPT ![w] = "idle"]
    /\ wjob' = [wjob EXCEPT ![w] = None]
    /\ UNCHANGED <<mode, callers, readQ, writeQ, cache, stop>>

\* The destructor, and the workers that find their lane empty after it.
Stop ==
    /\ ~stop /\ \A c \in Callers : pc[c] = "idle"
    /\ stop' = TRUE
    /\ UNCHANGED <<mode, callers, jobs, queues, cache, workers>>

\* Mutant: a worker leaves without draining its lane.
MayLeave(w) == wpc[w] = "idle" /\ stop

Drained(w) == wpc[w] = "idle" /\ stop /\ ~FromReads(w) /\ ~FromWrites(w)

Exit(w) ==
    /\ Drained(w)
    /\ wpc' = [wpc EXCEPT ![w] = "exit"]
    /\ UNCHANGED <<mode, callers, jobs, queues, cache, wjob, stop>>

-------------------------------------------------------------------------------
CallStep(c) ==
    \/ QueryJoin(c) \/ QuerySubmit(c) \/ QueryFull(c)
    \/ WarmSubmit(c) \/ WarmSkip(c)
    \/ WriteJoin(c) \/ WriteSubmit(c) \/ WriteRefused(c)

WorkerStep(w) ==
    /\ w = Reader \/ Bounded
    /\ \/ Take(w) \/ Skip(w) \/ Start(w) \/ TransformFails(w) \/ CachePut(w)
       \/ SetValue(w) \/ Release(w) \/ Exit(w)

Next ==
    \/ \E c \in Callers :
        \/ \E k \in Keys : CallHit(c, k) \/ \E q \in Kinds : CallMiss(c, k, q)
        \/ CallStep(c) \/ GiveUp(c)
    \/ \E j \in Slots : Expire(j)
    \/ \E w \in AllWorkers : WorkerStep(w)
    \/ Stop

Spec == Init /\ [][Next]_vars

\* Threads that can run do run, and an admission wait has a time limit.
FairSpec ==
    /\ Spec
    /\ \A c \in Callers : WF_vars(CallStep(c))
    /\ \A w \in AllWorkers : WF_vars(WorkerStep(w))

-------------------------------------------------------------------------------
Queued == Elements(readQ) \cup Elements(writeQ)
Held == {wjob[w] : w \in AllWorkers} \ {None}

\* A caller that shares a job by its in-flight entry shares one that is queued or
\* held by a worker, for its own text, so its future will be set.  In legacy mode
\* the entry is erased by key when any job of the key is taken, and warming jobs
\* have no entry at all: only queued reads are ever shared, because the one worker
\* takes a write when no read is queued.  In bounded mode every job has its entry
\* until its promise is set, so a text is never queued or computed twice at the same
\* time ("identical texts share one future").
SharedJobsAreAlive ==
    /\ \A k \in Keys : inflight[k] # None =>
           /\ jobs[inflight[k]].key = k
           /\ inflight[k] \in (IF Bounded THEN Queued \cup Held ELSE Elements(readQ))
    /\ Bounded => \A i \in Queued \cup Held : inflight[jobs[i].key] = i

\* The iterator that cache_map_ keeps for a key is a live node of cache_lru_:
\* neither the duplicate nodes legacy mode creates nor evictions leave a dangling
\* one for cache_get to splice.  In bounded mode there are no duplicates, so the
\* eviction by the length of the list keeps the cache at its size.
CachePointersLive ==
    /\ \A k \in cached : Owns(k) \in Elements(lru)
    /\ Bounded => Len(lru) = Cardinality(cached) /\ Len(lru) <= CacheSize

\* Every call returns, a write() that waits without a time limit included.
EveryCallReturns == \A c \in Callers : (pc[c] # "idle") ~> (pc[c] = "idle")

\* The destructor ends: the workers drain their lanes and leave, so every job that
\* was accepted is run or answered first, warming jobs included.
DestructorDrains ==
    stop ~> /\ \A j \in Slots : jobs[j] = NoJob
            /\ wpc[Reader] = "exit" /\ (Bounded => \A w \in Workers : wpc[w] = "exit")
===============================================================================
