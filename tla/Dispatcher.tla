------------------------------ MODULE Dispatcher ------------------------------
(*****************************************************************************)
(* The locks a request takes on its way through the daemon: rpc_mutex_,      *)
(* shared or exclusive or not at all (FieldRpcHandler::handle, the queue     *)
(* lane, the commit of a distillation), then stream_mutex and capsule_mutex  *)
(* in tool_ledger_op, which calls itself through the handlers it invokes.    *)
(* hook_session_start and hook_compact_restore run handlers in std::async    *)
(* threads and wait for them.                                                *)
(*                                                                           *)
(* A thread is the sequence of steps it has still to make.  A handler's work *)
(* on the store is one step.  transaction_mutex_ is taken only by run(), by  *)
(* the thread that holds capsule_mutex, and released before it: nobody waits *)
(* for it, so it is part of that step.                                       *)
(*****************************************************************************)
EXTENDS RequestLocks, SequencesExt

CONSTANT MaxCalls    \* requests in a behaviour

ASSUME DispatchAssumption == MaxCalls \in Nat

VARIABLE calls       \* requests so far

locks == <<readers, writer, owner, depth>>
config == <<globalLock, preferWriters>>
vars == <<config, code, locks, calls>>

-------------------------------------------------------------------------------
(* What each request does, in the order of its steps.                        *)

Handler == <<"handler">>

\* The lock handle() chooses by the class of the tool.
Shared(body) == <<"shared">> \o body \o <<"release">>
Exclusive(body) == <<"exclusive">> \o body \o <<"release">>

\* run(): one or more transactions of the ledger.
Run == <<Lock.capsule>> \o Handler \o <<Unlock.capsule>>

\* Mutant: the dispatching operations hold stream_mutex as well.
GuardAlways(op, body) == <<Lock.stream>> \o body \o <<Unlock.stream>>

\* tool_ledger_op under stream_mutex, which two operations do not take.
Guarded(op, body) ==
    IF op \in {"hook_session_start", "hook_pre_compact"}
    THEN body
    ELSE <<Lock.stream>> \o body \o <<Unlock.stream>>

\* The operations that hold capsule_mutex from the lookup to the write.
OnCapsules(op) == Guarded(op, <<Lock.capsule>> \o Run \o <<Unlock.capsule>>)

\* session_register, session_heartbeat and session_deregister emit an event and
\* then enter tool_ledger_op again.
Session(op) == Handler \o Guarded(op, Run)

\* The asynchronous calls of hook_session_start: handlers called directly.
Async ==
    [ recall |-> Handler,
      ledger |-> Guarded("hook_session_context", Handler),
      tasks |-> Guarded("hook_task_context", Run),
      handoff |-> OnCapsules("hook_handoff_context") ]

\* The commit of a distillation takes the lock after the long call of the model.
Distillation == Handler \o Exclusive(Handler)

\* Several transactions, and the calls of session_register and session_heartbeat.
StreamClaim ==
    Guarded("stream_claim", Run \o Session("session_bind") \o Session("session_touch"))

StreamHandoff ==
    Guarded("stream_handoff", Run \o Handler \o Guarded("session_touch", Run) \o Run)

SessionStart ==
    Guarded("hook_session_start", Guarded("session_get", Run) \o <<"fork", "join">>)

CompactRestore ==
    Guarded("hook_compact_restore", Handler \o <<"restore", "join">>)

\* The tools and operations whose locks differ, each with the lock handle() or the
\* queue lane takes for it.
Requests ==
    [ recall |-> Handler,
      get |-> Shared(Handler),
      remember |-> Exclusive(Handler),
      distill_now |-> Distillation,
      session_get |-> Shared(Guarded("session_get", Run)),
      session_register |-> Exclusive(Session("session_bind")),
      hook_apply |-> Exclusive(Guarded("hook_apply", Handler)),
      stream_claim |-> Exclusive(StreamClaim),
      stream_handoff |-> Exclusive(StreamHandoff),
      capsule_save |-> Exclusive(OnCapsules("capsule_save")),
      hook_handoff_context |-> Shared(OnCapsules("hook_handoff_context")),
      hook_session_start |-> Shared(SessionStart),
      hook_compact_restore |-> Shared(CompactRestore) ]

-------------------------------------------------------------------------------
Init ==
    /\ globalLock \in BOOLEAN /\ preferWriters \in BOOLEAN
    /\ code = [p \in Procs |-> <<>>]
    /\ readers = {} /\ writer = None
    /\ owner = [m \in Mutexes |-> None] /\ depth = [m \in Mutexes |-> 0]
    /\ calls = 0

Advance(p) == code' = [code EXCEPT ![p] = Tail(@)]

\* A worker takes a request, or a lane a line.
Call(t, op) ==
    /\ Idle(Main(t)) /\ calls < MaxCalls
    /\ code' = [code EXCEPT ![Main(t)] = Requests[op]]
    /\ calls' = calls + 1
    /\ UNCHANGED <<config, locks>>

WriterWaits == \E p \in Procs : At(p, "exclusive")

\* acquire_shared_lock: nothing is taken when the global lock is switched off.
LockShared(p) ==
    /\ At(p, "shared")
    /\ globalLock => writer = None /\ ~(preferWriters /\ WriterWaits)
    /\ readers' = IF globalLock THEN readers \cup {p} ELSE readers
    /\ Advance(p)
    /\ UNCHANGED <<config, writer, owner, depth, calls>>

\* acquire_lock
LockExclusive(p) ==
    /\ At(p, "exclusive")
    /\ globalLock => writer = None /\ readers = {}
    /\ writer' = IF globalLock THEN p ELSE writer
    /\ Advance(p)
    /\ UNCHANGED <<config, readers, owner, depth, calls>>

Release(p) ==
    /\ At(p, "release")
    /\ readers' = readers \ {p}
    /\ writer' = IF writer = p THEN None ELSE writer
    /\ Advance(p)
    /\ UNCHANGED <<config, owner, depth, calls>>

\* A recursive mutex, owned by a thread.
LockMutex(p) ==
    \E m \in Mutexes :
        /\ At(p, Lock[m]) /\ owner[m] \in {None, p}
        /\ owner' = [owner EXCEPT ![m] = p]
        /\ depth' = [depth EXCEPT ![m] = @ + 1]
        /\ Advance(p)
        /\ UNCHANGED <<config, readers, writer, calls>>

UnlockMutex(p) ==
    \E m \in Mutexes :
        /\ At(p, Unlock[m])
        /\ depth' = [depth EXCEPT ![m] = @ - 1]
        /\ owner' = [owner EXCEPT ![m] = IF depth[m] = 1 THEN None ELSE p]
        /\ Advance(p)
        /\ UNCHANGED <<config, readers, writer, calls>>

\* The work of a handler.
Handle(p) ==
    /\ At(p, "handler")
    /\ Advance(p)
    /\ UNCHANGED <<config, locks, calls>>

\* What remains after an exception: the frames inside the rpc lock are left, and a
\* thread that has no rpc step before it ends.
Unwound(s) ==
    LET rpc == {i \in DOMAIN s : s[i] \in {"release", "exclusive"}}
    IN  IF rpc # {} /\ s[Min(rpc)] = "release"
        THEN SubSeq(s, Min(rpc), Len(s))
        ELSE <<>>

\* A handler fails: the guards on the way release what this thread holds, and the
\* outermost tool_ledger_op turns the exception into an error result.
Throw(p) ==
    /\ At(p, "handler")
    /\ code' = [code EXCEPT ![p] = Unwound(@)]
    /\ owner' = [m \in Mutexes |-> IF owner[m] = p THEN None ELSE owner[m]]
    /\ depth' = [m \in Mutexes |-> IF owner[m] = p THEN 0 ELSE depth[m]]
    /\ UNCHANGED <<config, readers, writer, calls>>

\* hook_session_start launches its lanes.
Fork(p) ==
    /\ At(p, "fork")
    /\ code' = [q \in Procs |-> IF q = p THEN Tail(code[p])
                                ELSE IF q \in Children(p) THEN Async[q[2]] ELSE code[q]]
    /\ UNCHANGED <<config, locks, calls>>

\* hook_compact_restore launches its smart_context queries, stream_mutex held.
ForkRestore(p) ==
    /\ At(p, "restore")
    /\ code' = [code EXCEPT ![p] = Tail(@), ![<<p[1], "recall">>] = Handler]
    /\ UNCHANGED <<config, locks, calls>>

\* Mutant: the first result is enough.
FirstDone(p) == \E q \in Children(p) : Idle(q)

AllDone(p) == \A q \in Children(p) : Idle(q)

\* get() of each future; when one of them throws, the destructors of the others wait
\* all the same.
Join(p) ==
    /\ At(p, "join") /\ AllDone(p)
    /\ Advance(p)
    /\ UNCHANGED <<config, locks, calls>>

Move(p) ==
    \/ LockShared(p) \/ LockExclusive(p) \/ Release(p)
    \/ LockMutex(p) \/ UnlockMutex(p)
    \/ Handle(p) \/ Throw(p)
    \/ Fork(p) \/ ForkRestore(p) \/ Join(p)

\* A request moves: the thread that serves it, or one it has started.
RequestStep(t) == \E p \in {t} \X (Lanes \cup {"main"}) : Move(p)

Next == \E t \in Threads : RequestStep(t) \/ \E op \in DOMAIN Requests : Call(t, op)

Spec == Init /\ [][Next]_vars

\* Threads that can run do run.
FairSpec == Spec /\ \A t \in Threads : WF_vars(RequestStep(t))

-------------------------------------------------------------------------------
TypeOK ==
    /\ globalLock \in BOOLEAN /\ preferWriters \in BOOLEAN
    /\ code \in [Procs -> Seq(ToSet(<<"handler", "shared", "exclusive", "release",
                                      "fork", "restore", "join">>) \cup Range(Lock) \cup Range(Unlock))]
    /\ readers \subseteq Procs /\ writer \in Procs \cup {None}
    /\ owner \in [Mutexes -> Procs \cup {None}] /\ depth \in [Mutexes -> Nat]
    /\ calls \in 0..MaxCalls

\* Every request returns.  A joining thread that held stream_mutex would wait for the
\* lanes that wait for it (the daemon was wedged by this twice, field_task_ledger.cpp:28);
\* lanes that took the rpc lock again would wait behind a writer that waits for
\* their parent.  hook_compact_restore does hold stream_mutex while it joins:
\* it is saved by smart_context, which never enters tool_ledger_op.
EveryRequestReturns == \A t \in Threads : ~Idle(Main(t)) ~> Idle(Main(t))
===============================================================================
