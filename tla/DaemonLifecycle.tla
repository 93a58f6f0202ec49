---------------------------- MODULE DaemonLifecycle ----------------------------
(***************************************************************************)
(* Starting, stopping and replacing the daemon of a mind directory:        *)
(* daemon_lifecycle.cpp, the socket of socket_server.cpp and the two ends  *)
(* of main and cmd_daemon in simple_cli.cpp.                               *)
(*                                                                         *)
(* Daemons share four things: the socket path, the pid file, an fcntl lock *)
(* and the store's own instance lock, which belongs to the Rust store      *)
(* (docs/HOOKS.md, CHITTA_STORE_LOCK_WAIT_S) and is external here.  The    *)
(* kernel frees both locks when a process dies; files stay.                *)
(*                                                                         *)
(* Each process runs once.  connect() on a unix socket succeeds as long as *)
(* its owner listens, whether or not it still serves, so socket_responds   *)
(* is a question about the listener.                                       *)
(***************************************************************************)
EXTENDS Integers, FiniteSets

CONSTANTS
    Daemons,      \* the processes that are started
    MaxCrashes    \* bound: daemons that die by themselves

ASSUME LifecycleAssumption == MaxCrashes \in Nat

NoOne == "nobody"
ASSUME NobodyAssumption == NoOne \notin Daemons

VARIABLES
    pc,         \* where each process is
    found,      \* the pid its cleanup_stale_daemon read
    sock,       \* the process that bound the file at the socket path
    pidFile,    \* the process named in the pid file
    lock,       \* the holder of the fcntl lock
    store,      \* the holder of the store's instance lock
    lanes,      \* processes whose worker threads run on the store
    gaps,       \* history: how the files of a live daemon were removed by others
    crashes

files == <<sock, pidFile>>
vars == <<pc, found, files, lock, store, lanes, gaps, crashes>>

\* Waiting to be started; cleaning up; with the fcntl lock; stopping; ended.
Starting == {"read", "probe", "cleanSock", "cleanPid", "lock"}
Listening == {"open", "write", "serve"}
Owning == {"bind", "fail", "closed", "unlock"} \cup Listening
Leaving == {"drain", "close", "unlink"}
Alive(p) == pc[p] \notin {"new", "gone"}

Responds == sock # NoOne /\ pc[sock] \in Listening

TypeOK ==
    /\ pc \in [Daemons -> {"new", "gone"} \cup Starting \cup Owning \cup Leaving]
    /\ found \in [Daemons -> Daemons \cup {NoOne}]
    /\ sock \in Daemons \cup {NoOne} /\ pidFile \in Daemons \cup {NoOne}
    /\ lock \in Daemons \cup {NoOne} /\ store \in Daemons \cup {NoOne}
    /\ lanes \subseteq Daemons
    /\ gaps \subseteq {"lateUnlink", "racingCleanup", "pidRemoved"}
    /\ crashes \in 0 .. MaxCrashes

Init ==
    /\ pc = [p \in Daemons |-> "new"]
    /\ found = [p \in Daemons |-> NoOne]
    /\ sock = NoOne /\ pidFile = NoOne /\ lock = NoOne /\ store = NoOne
    /\ lanes = {} /\ gaps = {} /\ crashes = 0

Goto(p, where) == pc' = [pc EXCEPT ![p] = where]

\* The kernel drops what a dead process held; its files stay.
Dies(p) ==
    /\ pc' = [pc EXCEPT ![p] = "gone"]
    /\ lock' = IF lock = p THEN NoOne ELSE lock
    /\ store' = IF store = p THEN NoOne ELSE store
    /\ lanes' = lanes \ {p}

\* unlink(socket_path), recording that it took a listening daemon's socket away.
UnlinkRecorded(gap) ==
    /\ sock' = NoOne
    /\ gaps' = IF Responds THEN gaps \cup {gap} ELSE gaps

-------------------------------------------------------------------------------
(* cleanup_stale_daemon, before the lock is taken.                         *)

Start(p) ==
    /\ pc[p] = "new"
    /\ Goto(p, "read")
    /\ UNCHANGED <<found, files, lock, store, lanes, gaps, crashes>>

ReadPid(p) ==
    /\ pc[p] = "read"
    /\ found' = [found EXCEPT ![p] = pidFile]
    /\ Goto(p, IF pidFile = NoOne THEN "lock" ELSE "probe")
    /\ UNCHANGED <<files, lock, store, lanes, gaps, crashes>>

ProbeDead(p) ==
    /\ pc[p] = "probe" /\ ~Alive(found[p])
    /\ Goto(p, "cleanSock")
    /\ UNCHANGED <<found, files, lock, store, lanes, gaps, crashes>>

\* Another daemon is running: this process exits.
ProbeRunning(p) ==
    /\ pc[p] = "probe" /\ Alive(found[p]) /\ Responds
    /\ Goto(p, "gone")
    /\ UNCHANGED <<found, files, lock, store, lanes, gaps, crashes>>

\* Mutant: the probe does not ask the socket.
KillAnyway(p) == Alive(found[p])

HungDaemon(p) == Alive(found[p]) /\ ~Responds

\* SIGKILL, and a wait until the process is gone.
KillHung(p) ==
    /\ pc[p] = "probe" /\ HungDaemon(p)
    /\ pc' = [pc EXCEPT ![found[p]] = "gone", ![p] = "cleanSock"]
    /\ lock' = IF lock = found[p] THEN NoOne ELSE lock
    /\ store' = IF store = found[p] THEN NoOne ELSE store
    /\ lanes' = lanes \ {found[p]}
    /\ UNCHANGED <<found, files, gaps, crashes>>

CleanSock(p) ==
    /\ pc[p] = "cleanSock"
    /\ UnlinkRecorded("racingCleanup")
    /\ Goto(p, "cleanPid")
    /\ UNCHANGED <<found, pidFile, lock, store, lanes, crashes>>

CleanPid(p) ==
    /\ pc[p] = "cleanPid"
    /\ pidFile' = NoOne
    /\ gaps' = IF pidFile # NoOne /\ Alive(pidFile) THEN gaps \cup {"pidRemoved"} ELSE gaps
    /\ Goto(p, "lock")
    /\ UNCHANGED <<found, sock, lock, store, lanes, crashes>>

-------------------------------------------------------------------------------
(* main: lock, bind, open the store, serve.                                *)

\* Mutant: the lock is not exclusive.
LockFree(p) == TRUE

CanLock(p) == lock = NoOne

AcquireLock(p) ==
    /\ pc[p] = "lock" /\ CanLock(p)
    /\ lock' = p
    /\ Goto(p, "bind")
    /\ UNCHANGED <<found, files, store, lanes, gaps, crashes>>

\* Mutant: a blocking lock (F_SETLKW), which waits for as long as the holder serves.
LockWaits(p) == FALSE /\ UNCHANGED vars

LockHeld(p) ==
    /\ pc[p] = "lock" /\ ~CanLock(p)
    /\ Goto(p, "gone")
    /\ UNCHANGED <<found, files, lock, store, lanes, gaps, crashes>>

\* create_socket unlinks what is at the path; the responder answers from now on.
Bind(p) ==
    /\ pc[p] = "bind"
    /\ sock' = p
    /\ Goto(p, "open")
    /\ UNCHANGED <<found, pidFile, lock, store, lanes, gaps, crashes>>

\* FieldStore waits for the instance lock of a live holder.
OpenStore(p) ==
    /\ pc[p] = "open" /\ store = NoOne
    /\ store' = p
    /\ Goto(p, "write")
    /\ UNCHANGED <<found, files, lock, lanes, gaps, crashes>>

\* The wait for the store ends, or the store does not open: main returns, and the
\* responder unlinks the socket.
OpenFails(p) ==
    /\ pc[p] = "open"
    /\ sock' = NoOne
    /\ Goto(p, "fail")
    /\ UNCHANGED <<found, pidFile, lock, store, lanes, gaps, crashes>>

\* ~SocketServer unlinks the path once more; the lock goes with the process.
FailExit(p) ==
    /\ pc[p] = "fail"
    /\ sock' = NoOne
    /\ Dies(p)
    /\ UNCHANGED <<found, pidFile, gaps, crashes>>

\* cmd_daemon writes the pid file and starts its threads.
Serve(p) ==
    /\ pc[p] = "write"
    /\ pidFile' = p
    /\ lanes' = lanes \cup {p}
    /\ Goto(p, "serve")
    /\ UNCHANGED <<found, sock, lock, store, gaps, crashes>>

-------------------------------------------------------------------------------
(* Shutdown.                                                               *)

\* A shutdown request or a signal: the responder closes and unlinks the socket.
Shutdown(p) ==
    /\ pc[p] = "serve"
    /\ sock' = NoOne
    /\ Goto(p, "closed")
    /\ UNCHANGED <<found, pidFile, lock, store, lanes, gaps, crashes>>

RemovePid(p) ==
    /\ pc[p] = "closed"
    /\ pidFile' = NoOne
    /\ Goto(p, "unlock")
    /\ UNCHANGED <<found, sock, lock, store, lanes, gaps, crashes>>

ReleaseLock(p) ==
    /\ pc[p] = "unlock"
    /\ lock' = NoOne
    /\ Goto(p, "drain")
    /\ UNCHANGED <<found, files, store, lanes, gaps, crashes>>

\* Mutant: the threads are not joined.
JoinNothing(p) ==
    /\ pc[p] = "drain"
    /\ Goto(p, "close")
    /\ UNCHANGED <<found, files, lock, store, lanes, gaps, crashes>>

\* The joins, or the alarm that ends the process when they take too long.
JoinThreads(p) ==
    /\ pc[p] = "drain"
    /\ lanes' = lanes \ {p}
    /\ Goto(p, "close")
    /\ UNCHANGED <<found, files, lock, store, gaps, crashes>>

Alarm(p) ==
    /\ pc[p] = "drain"
    /\ Dies(p)
    /\ UNCHANGED <<found, files, gaps, crashes>>

\* main returns: the store is closed first, SocketServer is destroyed last.
CloseStore(p) ==
    /\ pc[p] = "close"
    /\ store' = NoOne
    /\ Goto(p, "unlink")
    /\ UNCHANGED <<found, files, lock, lanes, gaps, crashes>>

\* Mutant: the destructor removes the pid file as well.
DestroyServerAndPid(p) ==
    /\ pc[p] = "unlink"
    /\ UnlinkRecorded("lateUnlink")
    /\ pidFile' = NoOne
    /\ Dies(p)
    /\ UNCHANGED <<found, crashes>>

DestroyServer(p) ==
    /\ pc[p] = "unlink"
    /\ UnlinkRecorded("lateUnlink")
    /\ Dies(p)
    /\ UNCHANGED <<found, pidFile, crashes>>

Crash(p) ==
    /\ Alive(p) /\ crashes < MaxCrashes
    /\ crashes' = crashes + 1
    /\ Dies(p)
    /\ UNCHANGED <<found, files, gaps>>

-------------------------------------------------------------------------------
Step(p) ==
    \/ ReadPid(p) \/ ProbeDead(p) \/ ProbeRunning(p) \/ KillHung(p)
    \/ CleanSock(p) \/ CleanPid(p)
    \/ AcquireLock(p) \/ LockHeld(p) \/ Bind(p) \/ OpenStore(p) \/ OpenFails(p)
    \/ FailExit(p) \/ Serve(p)
    \/ RemovePid(p) \/ ReleaseLock(p) \/ JoinThreads(p) \/ Alarm(p)
    \/ CloseStore(p) \/ DestroyServer(p)

Next == \E p \in Daemons : Start(p) \/ Step(p) \/ Shutdown(p) \/ Crash(p)

Spec == Init /\ [][Next]_vars

\* A process takes its next step: the wait for the store and the joins have time limits.
FairSpec == Spec /\ \A p \in Daemons : WF_vars(Step(p))

-------------------------------------------------------------------------------
\* The fcntl lock is held from before the bind until the pid file is removed.
LockExclusive == \A p \in Daemons : pc[p] \in Owning => lock = p

\* Worker threads run in the daemon that holds the store, and in no other, although
\* the fcntl lock is released before they are joined: a successor waits in OpenStore.
LanesOwnTheStore == \A p \in lanes : store = p

\* From the moment it binds until it is told to stop, a daemon is reachable at the
\* socket path.  Two steps are the only ones that can take the path from it: the
\* destructor of a predecessor that is still leaving, and the cleanup of a process
\* that read the pid file before it started.  No other unlink of the path can,
\* because all of them are made under the lock.
ReachableUnlessGap ==
    \A p \in Daemons : pc[p] \in Listening /\ gaps = {} => sock = p

\* A daemon that serves is named in the pid file, so that one that lost its socket
\* is found and replaced by the next start.  Only a racing cleanup can remove it; a
\* daemon that lost both keeps the lock and turns every later start away.
ServingIsRecorded ==
    \A p \in Daemons : pc[p] = "serve" /\ "pidRemoved" \notin gaps => pidFile = p

\* SIGKILL hits a daemon only when it has closed its socket itself to shut down, or
\* when its socket was unlinked under it.  A process that hangs with its listener
\* open is never killed.
KilledOnlyUnreachable ==
    [][\A p, q \in Daemons :
        KillHung(p) /\ q = found[p] /\ pc[q] \in Listening => gaps # {}]_vars

\* A starting process ends up serving or gone, a stopping one gone.
ProcessesSettle ==
    \A p \in Daemons : Alive(p) ~> pc[p] \in {"serve", "gone"}
===============================================================================
