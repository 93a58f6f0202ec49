----------------------------- MODULE RequestLocks -----------------------------
(***************************************************************************)
(* The threads of the daemon, what each still has to do, and the locks     *)
(* they hold: the state that Dispatcher's requests change, and what must   *)
(* be true of it at every moment.                                          *)
(***************************************************************************)
EXTENDS Naturals, Sequences, FiniteSets

CONSTANT Threads    \* pool workers, queue lanes and the maintenance thread

VARIABLES
    globalLock,     \* CHITTA_GLOBAL_LOCK, read once
    preferWriters,  \* whether a waiting writer holds up new readers: the library's choice
    code,           \* the steps each thread has still to make
    readers,        \* the threads that hold rpc_mutex_ shared
    writer,         \* the thread that holds it exclusively
    owner,          \* the holder of each recursive mutex
    depth           \* how many times it holds it

None == <<"none", "none">>
Mutexes == {"stream", "capsule"}
Lanes == {"recall", "ledger", "tasks", "handoff"}
Main(t) == <<t, "main">>
Procs == Threads \X (Lanes \cup {"main"})
Children(p) == {<<p[1], l>> : l \in Lanes} \ {p}

\* The steps that take and give back a recursive mutex.
Lock == [stream |-> "lock stream", capsule |-> "lock capsule"]
Unlock == [stream |-> "unlock stream", capsule |-> "unlock capsule"]

Idle(p) == code[p] = <<>>
At(p, step) == ~Idle(p) /\ Head(code[p]) = step

-------------------------------------------------------------------------------
\* A handler under the exclusive lock runs alone: no handler under the shared lock,
\* and none of the threads such a handler has started, which hold no lock of their own
\* and are covered by their parent's, also when one of them has thrown.
WritersRunAlone ==
    writer # None =>
        /\ readers = {}
        /\ \A t \in Threads, l \in Lanes : Idle(<<t, l>>)

\* The threads that a thread waits for: those in the way of the lock it asks for, or the
\* lanes it joins.  A reader that gives way to a waiting writer waits for that writer.
WaitsFor(p) ==
    CASE At(p, "shared") ->
            IF globalLock
            THEN {q \in Procs : q = writer \/ (preferWriters /\ At(q, "exclusive"))}
            ELSE {}
      [] At(p, "exclusive") -> IF globalLock THEN {q \in Procs : q = writer \/ q \in readers} ELSE {}
      [] At(p, "join") -> {q \in Children(p) : ~Idle(q)}
      [] OTHER -> {q \in Procs \ {p} : \E m \in Mutexes : At(p, Lock[m]) /\ owner[m] = q}

\* How many kinds of waiting can still lie behind a thread, by the step it is at.  The
\* thread that joins with stream_mutex held waits for lanes that take no mutex, any
\* other joins lanes that may wait for stream_mutex.
Rank(p) ==
    CASE At(p, "shared") -> 5
      [] At(p, "exclusive") -> 4
      [] At(p, "join") -> IF owner["stream"] = p THEN 1 ELSE 3
      [] At(p, Lock.stream) /\ owner["stream"] # p -> 2
      [] At(p, Lock.capsule) /\ owner["capsule"] # p -> 1
      [] OTHER -> 0

\* No circle of waits: whoever is waited for is nearer to running.  So behind every
\* waiting thread there is one that waits for nobody, and no request is stuck for
\* good.
WaitsDescend == \A p \in Procs : \A q \in WaitsFor(p) : Rank(q) < Rank(p)
===============================================================================
