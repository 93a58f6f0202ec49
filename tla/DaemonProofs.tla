----------------------------- MODULE DaemonProofs -----------------------------
(***************************************************************************)
(* The daemon as a process and the requests inside it.  For any number of  *)
(* daemons and crashes: who holds the lock and the store, who can be       *)
(* reached, who is recorded and who may be killed.  For any number of      *)
(* threads and requests: a writer runs alone, and no request waits in a    *)
(* circle of locks and joins.                                              *)
(***************************************************************************)
EXTENDS DaemonLifecycle, RequestLocks, SequenceTheorems, TLAPS

-------------------------------------------------------------------------------
(* The lifecycle of the process (DaemonLifecycle).                           *)

\* Where a process is between opening the store and closing it.
Opened == {"write", "serve", "closed", "unlock", "drain", "close"}

StoreHeld == \A p \in Daemons : pc[p] \in Opened => store = p

LanesRun == \A p \in lanes : pc[p] \in {"serve", "closed", "unlock", "drain"}

\* The inductive invariant.  Two processes are never both between AcquireLock and
\* ReleaseLock, so the writes of socket path and pid file made there cannot hit
\* another daemon; the store's lock reaches further, to CloseStore.
IInv ==
    /\ TypeOK
    /\ LockExclusive
    /\ StoreHeld
    /\ LanesRun
    /\ ReachableUnlessGap
    /\ ServingIsRecorded

\* Nobody runs yet.
LEMMA InitIInv == Init => IInv
  BY LifecycleAssumption, NobodyAssumption
  DEF Init, IInv, TypeOK, LockExclusive, StoreHeld, LanesRun, ReachableUnlessGap,
      ServingIsRecorded, Starting, Listening, Owning, Leaving, Opened, NoOne

\* A process that dies leaves no obligation behind: it drops the locks and its
\* threads, and it is in none of the places the invariant speaks of.
LEMMA DeathKeeps ==
  ASSUME IInv, NEW p \in Daemons, Dies(p), UNCHANGED <<files, gaps>>
  PROVE  LockExclusive' /\ StoreHeld' /\ LanesRun' /\ ReachableUnlessGap' /\ ServingIsRecorded'
  BY NobodyAssumption
  DEF Dies, files, IInv, TypeOK, LockExclusive, StoreHeld, LanesRun, ReachableUnlessGap,
      ServingIsRecorded, Starting, Listening, Owning, Leaving, Opened, NoOne

\* Every action keeps the types of the variables.
LEMMA TypeStep == ASSUME IInv, [Next]_vars PROVE TypeOK'
<1> USE LifecycleAssumption, NobodyAssumption
    DEF IInv, TypeOK, Starting, Listening, Owning, Leaving, Goto, UnlinkRecorded, Dies, files
<1>1. CASE UNCHANGED vars
  BY <1>1 DEF vars
<1>2. ASSUME NEW p \in Daemons, Start(p) \/ Step(p) \/ Shutdown(p) \/ Crash(p)
      PROVE  TypeOK'
  <2>1. CASE Start(p) \/ Shutdown(p)
    BY <2>1 DEF Start, Shutdown
  <2>2. CASE ReadPid(p)
    BY <2>2 DEF ReadPid
  <2>9. CASE ProbeDead(p) \/ ProbeRunning(p) \/ LockHeld(p)
    BY <2>9 DEF ProbeDead, ProbeRunning, LockHeld
  <2>3. CASE KillHung(p)
    BY <2>3 DEF KillHung
  <2>4. CASE CleanSock(p) \/ CleanPid(p)
    BY <2>4 DEF CleanSock, CleanPid
  <2>5. CASE AcquireLock(p) \/ OpenStore(p) \/ OpenFails(p)
    BY <2>5 DEF AcquireLock, OpenStore, OpenFails
  <2>10. CASE Bind(p) \/ Serve(p)
    BY <2>10 DEF Bind, Serve
  <2>6. CASE RemovePid(p) \/ ReleaseLock(p) \/ JoinThreads(p) \/ CloseStore(p)
    BY <2>6 DEF RemovePid, ReleaseLock, JoinThreads, CloseStore
  <2>7. CASE FailExit(p) \/ Alarm(p) \/ DestroyServer(p)
    BY <2>7 DEF FailExit, Alarm, DestroyServer
  <2>8. CASE Crash(p)
    BY <2>8 DEF Crash
  <2> QED
    BY <1>2, <2>1, <2>2, <2>3, <2>4, <2>5, <2>6, <2>7, <2>8, <2>9, <2>10
    DEF Step
<1> QED
  BY <1>1, <1>2 DEF Next

\* Every action keeps the rest of the invariant.
LEMMA IInvStep == ASSUME IInv, [Next]_vars PROVE IInv'
<1>0. TypeOK'
  BY TypeStep
<1> DEFINE Kept == LockExclusive' /\ StoreHeld' /\ LanesRun' /\ ReachableUnlessGap' /\ ServingIsRecorded'
<1> SUFFICES Kept
  BY <1>0 DEF IInv
<1> USE NobodyAssumption
    DEF IInv, TypeOK, LockExclusive, StoreHeld, LanesRun, ReachableUnlessGap, ServingIsRecorded,
        Starting, Listening, Owning, Leaving, Opened, NoOne, Goto, files
<1>1. CASE UNCHANGED vars
  BY <1>1 DEF vars
<1>2. ASSUME NEW p \in Daemons, Start(p) \/ Step(p) \/ Shutdown(p) \/ Crash(p)
      PROVE  Kept
  <2>1. CASE Start(p) \/ ReadPid(p) \/ ProbeDead(p)
    BY <2>1 DEF Start, ReadPid, ProbeDead
  <2>2. CASE ProbeRunning(p) \/ LockHeld(p)
    BY <2>2 DEF ProbeRunning, LockHeld
  <2>3. CASE KillHung(p)
    BY <2>3 DEF KillHung
  <2>4. CASE CleanSock(p)
    BY <2>4 DEF CleanSock, UnlinkRecorded, Responds
  <2>5. CASE CleanPid(p)
    BY <2>5 DEF CleanPid, Alive
  <2>6. CASE AcquireLock(p)
    BY <2>6 DEF AcquireLock, CanLock
  <2>7. CASE Bind(p)
    BY <2>7 DEF Bind
  <2>8. CASE OpenStore(p)
    BY <2>8 DEF OpenStore
  <2>9. CASE OpenFails(p) \/ Shutdown(p)
    BY <2>9 DEF OpenFails, Shutdown
  <2>10. CASE FailExit(p)
    BY <2>10 DEF FailExit, Dies
  <2>11. CASE Serve(p)
    BY <2>11 DEF Serve
  <2>12. CASE RemovePid(p)
    BY <2>12 DEF RemovePid
  <2>13. CASE ReleaseLock(p)
    BY <2>13 DEF ReleaseLock
  <2>14. CASE JoinThreads(p)
    BY <2>14 DEF JoinThreads
  <2>15. CASE CloseStore(p)
    BY <2>15 DEF CloseStore
  <2>16. CASE DestroyServer(p)
    BY <2>16 DEF DestroyServer, UnlinkRecorded, Responds, Dies
  <2>17. CASE Alarm(p) \/ Crash(p)
    BY <2>17, DeathKeeps DEF Alarm, Crash
  <2> QED
    BY <1>2, <2>1, <2>2, <2>3, <2>4, <2>5, <2>6, <2>7, <2>8, <2>9, <2>10, <2>11, <2>12,
       <2>13, <2>14, <2>15, <2>16, <2>17 DEF Step
<1> QED
  BY <1>1, <1>2 DEF Next

\* The conjuncts support each other through every step of a daemon: who reached the
\* lock, who opened the store, whose threads run, which socket and pid file name it.
THEOREM IInvInvariant == Spec => []IInv
  BY InitIInv, IInvStep, PTL DEF Spec

\* The variables keep their types through every start, stop, kill and crash.
THEOREM TypeCorrect == Spec => []TypeOK
<1>1. IInv => TypeOK
  BY DEF IInv
<1> QED
  BY <1>1, IInvInvariant, PTL

\* Between acquire_lock and release_lock no two processes overlap.
THEOREM LockHolds == Spec => []LockExclusive
<1>1. IInv => LockExclusive
  BY DEF IInv
<1> QED
  BY <1>1, IInvInvariant, PTL

\* Worker threads run only in the process that holds the store's own lock, although
\* the lock file is released before they are joined.
THEOREM LanesHoldTheStore == Spec => []LanesOwnTheStore
<1>1. IInv => LanesOwnTheStore
  BY DEF IInv, TypeOK, StoreHeld, LanesRun, Opened, LanesOwnTheStore
<1> QED
  BY <1>1, IInvInvariant, PTL

\* A listening daemon keeps the socket path, but for the two unlinks made outside
\* the lock.
THEOREM Reachable == Spec => []ReachableUnlessGap
<1>1. IInv => ReachableUnlessGap
  BY DEF IInv
<1> QED
  BY <1>1, IInvInvariant, PTL

\* A serving daemon stays in the pid file, but for a cleanup that raced its start.
THEOREM Recorded == Spec => []ServingIsRecorded
<1>1. IInv => ServingIsRecorded
  BY DEF IInv
<1> QED
  BY <1>1, IInvInvariant, PTL

\* cleanup_stale_daemon kills a daemon that still listens only after an unlink
\* outside the lock took its socket away.
THEOREM KilledUnreachable == Spec => KilledOnlyUnreachable
<1>1. IInv /\ [Next]_vars =>
        [\A p, q \in Daemons :
            KillHung(p) /\ q = found[p] /\ pc[q] \in Listening => gaps # {}]_vars
  <2> SUFFICES ASSUME IInv, NEW p \in Daemons, NEW q \in Daemons,
                      KillHung(p), q = found[p], pc[q] \in Listening, gaps = {}
               PROVE  FALSE
    OBVIOUS
  <2>1. sock = q
    BY DEF IInv, ReachableUnlessGap
  <2> QED
    BY <2>1, NobodyAssumption DEF KillHung, HungDaemon, Responds
<1> QED
  BY <1>1, IInvInvariant, PTL DEF Spec, KilledOnlyUnreachable

-------------------------------------------------------------------------------
(* The locks of a request (Dispatcher).                                      *)

CONSTANT MaxCalls    \* requests in a behaviour

VARIABLE calls

D == INSTANCE Dispatcher

\* What must be true of the locks is the same statement beside the requests that take
\* them as it is here.
LEMMA SameStatements ==
    /\ D!WritersRunAlone <=> WritersRunAlone
    /\ D!WaitsDescend <=> WaitsDescend
<1>1. /\ D!None = None /\ D!Mutexes = Mutexes /\ D!Lanes = Lanes /\ D!Procs = Procs
      /\ \A p : D!Children(p) = Children(p) /\ (D!Idle(p) <=> Idle(p))
      /\ \A p, step : D!At(p, step) <=> At(p, step)
      /\ D!Lock = Lock
  BY DEF D!None, None, D!Mutexes, Mutexes, D!Lanes, Lanes, D!Procs, Procs, D!Children, Children,
         D!Idle, Idle, D!At, At, D!Lock, Lock
<1>2. \A p : D!WaitsFor(p) = WaitsFor(p) /\ D!Rank(p) = Rank(p)
  BY <1>1 DEF D!WaitsFor, WaitsFor, D!Rank, Rank
<1> QED
  BY <1>1, <1>2 DEF D!WritersRunAlone, WritersRunAlone, D!WaitsDescend, WaitsDescend

CalmSteps == {"handler", "lock stream", "lock capsule", "unlock stream", "unlock capsule"}
Calm == Seq(CalmSteps)

\* Steps that take no rpc lock and start no thread, and the bodies made of them.
LEMMA CalmConcat == ASSUME NEW a \in Calm, NEW b \in Calm PROVE a \o b \in Calm
  BY DEF Calm

LEMMA CalmHandler == D!Handler \in Calm
  BY DEF D!Handler, Calm, CalmSteps

\* The mutexes are named; a step over one is calm.
LEMMA MutexSteps == \A m \in D!Mutexes : D!Lock[m] \in CalmSteps /\ D!Unlock[m] \in CalmSteps
<1>1. /\ D!Lock["stream"] \in CalmSteps /\ D!Lock["capsule"] \in CalmSteps
      /\ D!Unlock["stream"] \in CalmSteps /\ D!Unlock["capsule"] \in CalmSteps
  BY DEF D!Lock, D!Unlock, CalmSteps
<1> QED
  BY <1>1 DEF D!Mutexes

LEMMA CalmLocks == \A m \in D!Mutexes : <<D!Lock[m]>> \in Calm /\ <<D!Unlock[m]>> \in Calm
<1>2. \A x \in CalmSteps : <<x>> \in Calm
  BY DEF Calm
<1> QED
  BY <1>2, MutexSteps

LEMMA CalmGuarded == ASSUME NEW body \in Calm, NEW op PROVE D!Guarded(op, body) \in Calm
  BY CalmLocks, CalmConcat DEF D!Guarded, D!Mutexes

LEMMA CalmRun == D!Run \in Calm
  BY CalmLocks, CalmConcat, CalmHandler DEF D!Run, D!Mutexes

LEMMA CalmOps == ASSUME NEW op PROVE D!OnCapsules(op) \in Calm /\ D!Session(op) \in Calm
  BY CalmLocks, CalmConcat, CalmHandler, CalmRun, CalmGuarded DEF D!OnCapsules, D!Session, D!Mutexes
LEMMA CalmStream == D!StreamClaim \in Calm /\ D!StreamHandoff \in Calm
  BY CalmConcat, CalmHandler, CalmRun, CalmGuarded, CalmOps DEF D!StreamClaim, D!StreamHandoff
\* What hook_session_start launches takes no rpc lock of its own.
LEMMA CalmAsync == \A l \in D!Lanes : D!Async[l] \in Calm
  BY CalmHandler, CalmRun, CalmGuarded, CalmOps DEF D!Async, D!Lanes

Launch == {"fork", "restore"}
Joining == CalmSteps \cup Launch \cup {"join"}
Steps == Joining \cup {"shared", "exclusive", "release"}

\* Threads are launched and then joined at once.
Joined(s) == \A i \in DOMAIN s : s[i] \in Launch => i + 1 \in DOMAIN s /\ s[i + 1] = "join"

WellFormed(s) ==
    /\ s \in Seq(Steps) /\ Joined(s)
    /\ \A i \in DOMAIN s :
        /\ s[i] = "shared" => i = 1
        /\ s[i] = "release" => i = Len(s)
        /\ s[i] \notin CalmSteps => s[Len(s)] = "release"
        /\ s[i] = "exclusive" => \A j \in DOMAIN s : i = j \/ s[j] \in CalmSteps \cup {"release"}

\* A thread in the middle of a locked request: its release is still to come and no
\* lock is to be taken before it.
Inside(s) ==
    /\ s # <<>> /\ s[Len(s)] = "release"
    /\ \A i \in DOMAIN s : s[i] # "shared" /\ s[i] # "exclusive"

\* What follows an exclusive lock launches nothing.
Alone(s) == \A i \in DOMAIN s : s[i] \in CalmSteps \cup {"release"}

\* A request that has not begun.
Fresh(s) == WellFormed(s) /\ ~Inside(s)

\* The kinds of step do not overlap.
LEMMA StepKinds ==
    /\ CalmSteps \subseteq Joining /\ Joining \subseteq Steps /\ Launch \subseteq Joining
    /\ Launch \cap CalmSteps = {} /\ "join" \notin Launch /\ "join" \notin CalmSteps /\ "join" \in Joining
    /\ \A x \in {"shared", "exclusive", "release"} : x \in Steps /\ x \notin Joining
  BY DEF CalmSteps, Launch, Joining, Steps

LEMMA SeqWider ==
    ASSUME NEW S, NEW T, S \subseteq T, NEW s \in Seq(S)
    PROVE  s \in Seq(T)
OBVIOUS

\* A sequence with one element before and one behind it.
LEMMA Between ==
    ASSUME NEW S, NEW x \in S, NEW y \in S, NEW b \in Seq(S)
    PROVE  LET s == <<x>> \o b \o <<y>>
           IN  /\ s \in Seq(S) /\ Len(s) = Len(b) + 2 /\ s[1] = x /\ s[Len(b) + 2] = y
               /\ \A i \in 2 .. Len(b) + 1 : s[i] = b[i - 1]
OBVIOUS

\* The elements of a concatenation.
LEMMA Parts ==
    ASSUME NEW S, NEW a \in Seq(S), NEW b \in Seq(S)
    PROVE  /\ a \o b \in Seq(S) /\ Len(a \o b) = Len(a) + Len(b)
           /\ \A i \in 1 .. Len(a) : (a \o b)[i] = a[i]
           /\ \A i \in Len(a) + 1 .. Len(a) + Len(b) : (a \o b)[i] = b[i - Len(a)]
OBVIOUS

LEMMA StepParts ==
    ASSUME NEW a \in Seq(Steps), NEW b \in Seq(Steps)
    PROVE  /\ a \o b \in Seq(Steps) /\ Len(a \o b) = Len(a) + Len(b)
           /\ \A i \in 1 .. Len(a) : (a \o b)[i] = a[i]
           /\ \A i \in Len(a) + 1 .. Len(a) + Len(b) : (a \o b)[i] = b[i - Len(a)]
  BY Parts

\* A request that takes no rpc lock.
LEMMA FreshCalm == ASSUME NEW a \in Calm PROVE Fresh(a)
<1>1. a \in Seq(Steps) /\ \A i \in DOMAIN a : a[i] \in CalmSteps
  BY StepKinds DEF Calm
<1>2. \A i \in DOMAIN a : a[i] # "shared" /\ a[i] # "exclusive" /\ a[i] # "release" /\ a[i] \notin Launch
  BY <1>1, StepKinds
<1>3. a # <<>> => Len(a) \in DOMAIN a
  BY <1>1
<1> QED
  BY <1>1, <1>2, <1>3 DEF Fresh, Inside, WellFormed, Joined

\* A request under acquire_lock, possibly after work outside it (a distillation).
LEMMA FreshExclusive ==
    ASSUME NEW a \in Calm, NEW b \in Calm PROVE Fresh(a \o D!Exclusive(b))
<1> DEFINE s == a \o D!Exclusive(b)
<1>1. /\ s \in Seq(Steps) /\ Len(s) = Len(a) + Len(b) + 2
      /\ \A i \in 1 .. Len(a) : s[i] \in CalmSteps
      /\ s[Len(a) + 1] = "exclusive"
      /\ \A i \in Len(a) + 2 .. Len(a) + Len(b) + 1 : s[i] \in CalmSteps
      /\ s[Len(s)] = "release"
  <2> DEFINE e == D!Exclusive(b)
  <2>0. a \in Seq(Steps) /\ b \in Seq(Steps) /\ Len(a) \in Nat /\ Len(b) \in Nat
        /\ (\A i \in 1 .. Len(a) : a[i] \in CalmSteps) /\ (\A i \in 1 .. Len(b) : b[i] \in CalmSteps)
    BY StepKinds DEF Calm
  <2>1. /\ e \in Seq(Steps) /\ Len(e) = Len(b) + 2 /\ e[1] = "exclusive" /\ e[Len(b) + 2] = "release"
        /\ \A i \in 2 .. Len(b) + 1 : e[i] = b[i - 1]
    BY <2>0, Between, StepKinds DEF D!Exclusive
  <2> HIDE DEF e
  <2>2. /\ a \o e \in Seq(Steps) /\ Len(a \o e) = Len(a) + Len(e)
        /\ \A i \in 1 .. Len(a) : (a \o e)[i] = a[i]
        /\ \A i \in Len(a) + 1 .. Len(a) + Len(e) : (a \o e)[i] = e[i - Len(a)]
    BY <2>0, <2>1, StepParts
  <2>3. \A i \in Len(a) + 2 .. Len(a) + Len(b) + 1 : (a \o e)[i] \in CalmSteps
    <3> SUFFICES ASSUME NEW i \in Len(a) + 2 .. Len(a) + Len(b) + 1 PROVE (a \o e)[i] \in CalmSteps
      OBVIOUS
    <3>1. i - Len(a) \in 2 .. Len(b) + 1 /\ i \in Len(a) + 1 .. Len(a) + Len(e)
      BY <2>0, <2>1
    <3>2. (a \o e)[i] = e[i - Len(a)]
      BY <3>1, <2>2
    <3>3. e[i - Len(a)] = b[i - Len(a) - 1]
      BY <3>1, <2>1
    <3>4. i - Len(a) - 1 \in 1 .. Len(b)
      BY <3>1, <2>0
    <3> QED
      BY <3>2, <3>3, <3>4, <2>0
  <2>4. (a \o e)[Len(a) + 1] = "exclusive" /\ (a \o e)[Len(a \o e)] = "release"
    BY <2>0, <2>1, <2>2
  <2> QED
    BY <2>0, <2>1, <2>2, <2>3, <2>4 DEF e
<1>2. \A i \in DOMAIN s : s[i] \in CalmSteps \/ i = Len(a) + 1 \/ i = Len(s)
  <2> HIDE DEF s
  <2>1. Len(a) \in Nat /\ Len(b) \in Nat /\ DOMAIN s = 1 .. Len(s)
    BY <1>1 DEF Calm
  <2> QED
    BY <1>1, <2>1
<1>3. "exclusive" \notin CalmSteps /\ "release" \notin CalmSteps /\ "shared" \notin CalmSteps
      /\ Launch \cap CalmSteps = {} /\ "exclusive" \notin Launch /\ "release" \notin Launch
  BY StepKinds DEF Launch
<1> HIDE DEF s
<1>4. WellFormed(s)
  BY <1>1, <1>2, <1>3 DEF WellFormed, Joined
<1>5. Len(a) + 1 \in DOMAIN s
  BY <1>1 DEF Calm
<1> QED
  BY <1>1, <1>4, <1>5 DEF s, Fresh, Inside

\* A request under acquire_shared_lock, which may launch threads if it joins them.
LEMMA FreshShared ==
    ASSUME NEW b \in Seq(Joining), Joined(b) PROVE Fresh(D!Shared(b))
<1> DEFINE s == D!Shared(b)
<1>1. /\ s \in Seq(Steps) /\ Len(s) = Len(b) + 2 /\ Len(b) \in Nat
      /\ s[1] = "shared" /\ s[Len(b) + 2] = "release"
      /\ \A i \in 2 .. Len(b) + 1 : s[i] = b[i - 1] /\ b[i - 1] \in Joining
  <2>1. b \in Seq(Steps) /\ Len(b) \in Nat /\ \A i \in 2 .. Len(b) + 1 : b[i - 1] \in Joining
    BY StepKinds
  <2> QED
    BY <2>1, Between, StepKinds DEF D!Shared
<1>3. "exclusive" \notin Joining /\ "release" \notin Joining /\ "shared" \notin Joining
      /\ "shared" \notin Launch /\ "release" \notin Launch
  BY StepKinds
<1> HIDE DEF s
<1>4. Joined(s)
  <2> SUFFICES ASSUME NEW i \in DOMAIN s, s[i] \in Launch
               PROVE  i + 1 \in DOMAIN s /\ s[i + 1] = "join"
    BY DEF Joined
  <2>1. i \in 2 .. Len(b) + 1 /\ i - 1 \in DOMAIN b /\ b[i - 1] \in Launch
    BY <1>1, <1>3
  <2>2. i \in DOMAIN b /\ b[i] = "join"
    BY <2>1 DEF Joined
  <2>3. i + 1 \in 2 .. Len(b) + 1 /\ s[i + 1] = b[i]
    BY <1>1, <2>2
  <2> QED
    BY <1>1, <2>2, <2>3
<1>5. WellFormed(s)
  BY <1>1, <1>3, <1>4 DEF WellFormed
<1>6. 1 \in DOMAIN s
  BY <1>1
<1> QED
  BY <1>1, <1>5, <1>6 DEF s, Fresh, Inside

\* Threads launched after an undisturbed stretch, and the guard around both.
LEMMA JoinedBodies ==
    ASSUME NEW a \in Calm, NEW b \in Calm, NEW x \in Launch
    PROVE  a \o (<<x, "join">> \o b) \in Seq(Joining) /\ Joined(a \o (<<x, "join">> \o b))
<1> DEFINE s == a \o (<<x, "join">> \o b)
<1>1. /\ s \in Seq(Joining) /\ Len(s) = Len(a) + Len(b) + 2
      /\ \A i \in 1 .. Len(a) : s[i] \in CalmSteps
      /\ s[Len(a) + 1] = x /\ s[Len(a) + 2] = "join"
      /\ \A i \in Len(a) + 3 .. Len(s) : s[i] \in CalmSteps
  <2> DEFINE e == <<x, "join">> \o b
  <2>0. a \in Seq(Joining) /\ b \in Seq(Joining) /\ Len(a) \in Nat /\ Len(b) \in Nat
        /\ (\A i \in 1 .. Len(a) : a[i] \in CalmSteps) /\ (\A i \in 1 .. Len(b) : b[i] \in CalmSteps)
    BY StepKinds DEF Calm
  <2>1. <<x, "join">> \in Seq(Joining) /\ Len(<<x, "join">>) = 2
    BY StepKinds
  <2>2. /\ e \in Seq(Joining) /\ Len(e) = Len(b) + 2 /\ e[1] = x /\ e[2] = "join"
        /\ \A i \in 3 .. Len(b) + 2 : e[i] = b[i - 2]
    BY <2>0, <2>1, Parts
  <2> HIDE DEF e
  <2>3. /\ a \o e \in Seq(Joining) /\ Len(a \o e) = Len(a) + Len(e)
        /\ \A i \in 1 .. Len(a) : (a \o e)[i] = a[i]
        /\ \A i \in Len(a) + 1 .. Len(a) + Len(e) : (a \o e)[i] = e[i - Len(a)]
    BY <2>0, <2>2, Parts
  <2>4. \A i \in Len(a) + 3 .. Len(a) + Len(e) : (a \o e)[i] \in CalmSteps
    <3> SUFFICES ASSUME NEW i \in Len(a) + 3 .. Len(a) + Len(e) PROVE (a \o e)[i] \in CalmSteps
      OBVIOUS
    <3>1. i - Len(a) \in 3 .. Len(b) + 2 /\ i \in Len(a) + 1 .. Len(a) + Len(e)
      BY <2>0, <2>2
    <3>2. (a \o e)[i] = e[i - Len(a)]
      BY <3>1, <2>3
    <3>3. e[i - Len(a)] = b[i - Len(a) - 2]
      BY <3>1, <2>2
    <3>4. i - Len(a) - 2 \in 1 .. Len(b)
      BY <3>1, <2>0
    <3> QED
      BY <3>2, <3>3, <3>4, <2>0
  <2>5. (a \o e)[Len(a) + 1] = x /\ (a \o e)[Len(a) + 2] = "join"
    BY <2>0, <2>2, <2>3
  <2>6. s = a \o e /\ Len(s) = Len(a) + Len(b) + 2
    BY <2>0, <2>2, <2>3 DEF e
  <2> HIDE DEF s
  <2>7. \A i \in Len(a) + 3 .. Len(s) : s[i] \in CalmSteps
    BY <2>0, <2>2, <2>4, <2>6
  <2>8. \A i \in 1 .. Len(a) : s[i] \in CalmSteps
    BY <2>0, <2>3, <2>6
  <2> QED
    BY <2>3, <2>5, <2>6, <2>7, <2>8
<1>2. "join" \notin Launch /\ Launch \cap CalmSteps = {}
  BY DEF Launch, CalmSteps
<1>3. Len(a) \in Nat /\ Len(b) \in Nat
  BY DEF Calm
<1> HIDE DEF s
<1>4. Joined(s)
  BY <1>1, <1>2, <1>3 DEF Joined
<1> QED
  BY <1>1, <1>4 DEF s

LEMMA CalmJoined == ASSUME NEW a \in Calm PROVE a \in Seq(Joining) /\ Joined(a)
  BY StepKinds DEF Calm, Joined

\* What the requests of the table have in common.
LEMMA FreshRequests == \A op \in DOMAIN D!Requests : Fresh(D!Requests[op])
<1>1. <<>> \in Calm /\ (\A b : <<>> \o D!Exclusive(b) = D!Exclusive(b))
  BY DEF Calm, D!Exclusive
<1>2. \A b \in Calm : Fresh(D!Exclusive(b)) /\ Fresh(D!Shared(b)) /\ Fresh(b)
  BY <1>1, FreshExclusive, FreshShared, CalmJoined, FreshCalm
<1>3. Fresh(D!Distillation)
  BY CalmHandler, FreshExclusive DEF D!Distillation
<1>4. Fresh(D!Shared(D!SessionStart))
  <2>1. D!SessionStart = D!Guarded("session_get", D!Run) \o (<<"fork", "join">> \o <<>>)
    BY DEF D!SessionStart, D!Guarded
  <2> QED
    BY <1>1, <2>1, CalmGuarded, CalmRun, JoinedBodies, FreshShared DEF Launch
<1>5. Fresh(D!Shared(D!CompactRestore))
  <2> DEFINE a == <<D!Lock.stream>> \o D!Handler
             b == <<D!Unlock.stream>>
  <2>1. a \in Calm /\ b \in Calm
    BY CalmLocks, CalmHandler, CalmConcat DEF D!Mutexes
  <2>2. D!CompactRestore = a \o (<<"restore", "join">> \o b)
    BY CalmLocks, CalmHandler DEF D!CompactRestore, D!Guarded, D!Handler, D!Mutexes
  <2> HIDE DEF a, b
  <2> QED
    BY <2>1, <2>2, JoinedBodies, FreshShared DEF Launch
<1>6. /\ Fresh(D!Requests["distill_now"]) /\ Fresh(D!Requests["hook_session_start"])
      /\ Fresh(D!Requests["hook_compact_restore"])
  BY <1>3, <1>4, <1>5 DEF D!Requests
<1>7. /\ Fresh(D!Requests["recall"]) /\ Fresh(D!Requests["get"]) /\ Fresh(D!Requests["remember"])
  BY <1>2, CalmHandler DEF D!Requests
<1>8. /\ Fresh(D!Requests["session_get"]) /\ Fresh(D!Requests["session_register"])
      /\ Fresh(D!Requests["hook_apply"])
  BY <1>2, CalmHandler, CalmRun, CalmGuarded, CalmOps DEF D!Requests
<1>9. /\ Fresh(D!Requests["stream_claim"]) /\ Fresh(D!Requests["stream_handoff"])
  BY <1>2, CalmStream DEF D!Requests
<1>10. /\ Fresh(D!Requests["capsule_save"]) /\ Fresh(D!Requests["hook_handoff_context"])
  BY <1>2, CalmOps DEF D!Requests
<1>11. DOMAIN D!Requests =
        {"recall", "get", "remember", "distill_now", "session_get", "session_register", "hook_apply",
         "stream_claim", "stream_handoff", "capsule_save", "hook_handoff_context",
         "hook_session_start", "hook_compact_restore"}
  BY DEF D!Requests
<1> QED
  BY <1>6, <1>7, <1>8, <1>9, <1>10, <1>11

\* What is left of a request is well formed, and what is left of a launched thread is
\* calm.
CodeShape ==
    /\ code \in [D!Procs -> Seq(Steps)]
    /\ \A t \in Threads : WellFormed(code[D!Main(t)])
    /\ \A t \in Threads, l \in D!Lanes : code[<<t, l>>] \in Calm

\* The threads that hold rpc_mutex_.
Holders == readers \cup ({writer} \ {D!None})

\* rpc_mutex_ is held by the serving threads inside a locked request, by no others, and
\* by none when the global lock is switched off; by one alone if exclusively.
HoldersMatch ==
    /\ readers \subseteq {D!Main(t) : t \in Threads}
    /\ writer \in {D!Main(t) : t \in Threads} \cup {D!None}
    /\ \A t \in Threads : D!Main(t) \in Holders <=> globalLock /\ Inside(code[D!Main(t)])
    /\ writer # D!None => readers = {} /\ Alone(code[writer])

\* A launched thread that is not done has a parent that waits for it, its lock held.
LanesJoined ==
    \A t \in Threads, l \in D!Lanes :
        ~D!Idle(<<t, l>>) => Inside(code[D!Main(t)]) /\ D!At(D!Main(t), "join")

\* The inductive invariant of rpc_mutex_ and the launched threads.
RequestsInv == globalLock \in BOOLEAN /\ CodeShape /\ HoldersMatch /\ LanesJoined

\* Serving threads and the threads they launch.
LEMMA ProcFacts ==
    /\ "main" \notin D!Lanes
    /\ \A t \in Threads : D!Main(t) \in D!Procs /\ D!Main(t) # D!None
    /\ \A t \in Threads, l \in D!Lanes : <<t, l>> \in D!Procs /\ \A u \in Threads : <<t, l>> # D!Main(u)
    /\ \A p \in D!Procs : \E t \in Threads : p = D!Main(t) \/ \E l \in D!Lanes : p = <<t, l>>
    /\ \A t, u \in Threads : D!Main(t) = D!Main(u) => t = u
  BY DEF D!Lanes, D!Main, D!Procs, D!None

\* One step on, what is left of a request is well formed.
LEMMA WellFormedTail ==
    ASSUME NEW s, WellFormed(s), s # <<>>
    PROVE  /\ WellFormed(Tail(s))
           /\ \A i \in DOMAIN Tail(s) : i + 1 \in DOMAIN s /\ Tail(s)[i] = s[i + 1]
           /\ Tail(s) # <<>> => Tail(s)[Len(Tail(s))] = s[Len(s)]
           /\ Tail(s) = <<>> <=> Len(s) = 1
<1>1. s \in Seq(Steps) /\ Len(s) \in Nat \ {0} /\ DOMAIN s = 1 .. Len(s)
  BY DEF WellFormed
<1>2. /\ Tail(s) \in Seq(Steps) /\ Len(Tail(s)) = Len(s) - 1 /\ DOMAIN Tail(s) = 1 .. Len(s) - 1
      /\ \A i \in DOMAIN Tail(s) : i + 1 \in DOMAIN s /\ Tail(s)[i] = s[i + 1]
  BY <1>1
<1>3. Tail(s) # <<>> => Tail(s)[Len(Tail(s))] = s[Len(s)]
  BY <1>1, <1>2
<1>4. Tail(s) = <<>> <=> Len(s) = 1
  BY <1>1, <1>2
<1> DEFINE r == Tail(s)
<1>5. r \in Seq(Steps) /\ Len(r) = Len(s) - 1 /\ DOMAIN r = 1 .. Len(s) - 1
      /\ (\A i \in DOMAIN r : i + 1 \in DOMAIN s /\ r[i] = s[i + 1])
      /\ (r # <<>> => r[Len(r)] = s[Len(s)])
  BY <1>1, <1>2, <1>3
<1> HIDE DEF r
<1>6. Joined(r)
  BY <1>1, <1>5 DEF WellFormed, Joined
<1>7. ASSUME NEW i \in DOMAIN r
      PROVE  /\ r[i] = "shared" => i = 1
             /\ r[i] = "release" => i = Len(r)
             /\ r[i] \notin CalmSteps => r[Len(r)] = "release"
             /\ r[i] = "exclusive" => \A j \in DOMAIN r : i = j \/ r[j] \in CalmSteps \cup {"release"}
  <2>1. i + 1 \in DOMAIN s /\ r[i] = s[i + 1] /\ i + 1 # 1 /\ r # <<>>
    BY <1>1, <1>5
  <2>2. r[i] # "shared" /\ (r[i] = "release" => i = Len(r))
    BY <1>1, <1>5, <2>1 DEF WellFormed
  <2>3. r[i] \notin CalmSteps => r[Len(r)] = "release"
    BY <1>5, <2>1 DEF WellFormed
  <2>4. ASSUME r[i] = "exclusive", NEW j \in DOMAIN r PROVE i = j \/ r[j] \in CalmSteps \cup {"release"}
    <3>1. j + 1 \in DOMAIN s /\ r[j] = s[j + 1]
      BY <1>5
    <3>2. i + 1 = j + 1 \/ s[j + 1] \in CalmSteps \cup {"release"}
      BY <2>1, <2>4, <3>1 DEF WellFormed
    <3> QED
      BY <1>5, <3>1, <3>2
  <2> QED
    BY <2>2, <2>3, <2>4
<1>8. WellFormed(r)
  BY <1>5, <1>6, <1>7 DEF WellFormed
<1> QED
  BY <1>2, <1>3, <1>4, <1>8 DEF r

\* Past its lock a request is inside it, and stays there until the release.
LEMMA InsideTail ==
    ASSUME NEW s, WellFormed(s), s # <<>>
    PROVE  /\ s[1] \in {"shared", "exclusive"} => Inside(Tail(s))
           /\ s[1] = "exclusive" => Alone(Tail(s))
           /\ s[1] = "release" => Tail(s) = <<>> /\ Inside(s)
           /\ s[1] \notin {"shared", "exclusive", "release"} => (Inside(Tail(s)) <=> Inside(s))
           /\ Alone(s) => Alone(Tail(s))
           /\ s[1] \in {"shared", "exclusive"} => ~Inside(s)
           /\ s[1] \in Launch => Inside(s) /\ Tail(s) # <<>> /\ Tail(s)[1] = "join"
<1>1. s \in Seq(Steps) /\ Len(s) \in Nat \ {0} /\ DOMAIN s = 1 .. Len(s) /\ 1 \in DOMAIN s
  BY DEF WellFormed
<1> DEFINE r == Tail(s)
<1>2. /\ r \in Seq(Steps) /\ Len(r) = Len(s) - 1 /\ DOMAIN r = 1 .. Len(s) - 1
      /\ \A i \in DOMAIN r : i + 1 \in DOMAIN s /\ r[i] = s[i + 1]
      /\ r # <<>> => r[Len(r)] = s[Len(s)]
      /\ r = <<>> <=> Len(s) = 1
  <2>1. r \in Seq(Steps) /\ Len(r) = Len(s) - 1 /\ DOMAIN r = 1 .. Len(s) - 1
    BY <1>1
  <2> QED
    BY <2>1, WellFormedTail
<1> HIDE DEF r
<1>3. \A i \in DOMAIN s : i = 1 \/ (i - 1 \in DOMAIN r /\ r[i - 1] = s[i])
  BY <1>1, <1>2
<1>4. s[1] \in {"shared", "exclusive", "fork", "restore"} => s[Len(s)] = "release" /\ r # <<>>
  BY <1>1, <1>2, StepKinds DEF WellFormed, CalmSteps
<1>5. s[1] \in {"shared", "exclusive"} => Inside(r)
  <2> SUFFICES ASSUME s[1] \in {"shared", "exclusive"}, NEW i \in DOMAIN r
               PROVE  r[i] # "shared" /\ r[i] # "exclusive"
    BY <1>2, <1>4 DEF Inside
  <2> i + 1 \in DOMAIN s /\ i + 1 # 1 /\ r[i] = s[i + 1]
    BY <1>1, <1>2
  <2> QED
    BY <1>1, StepKinds DEF WellFormed, CalmSteps
<1>6. s[1] = "exclusive" => Alone(r)
  <2> SUFFICES ASSUME s[1] = "exclusive", NEW i \in DOMAIN r PROVE r[i] \in CalmSteps \cup {"release"}
    BY DEF Alone
  <2> i + 1 \in DOMAIN s /\ i + 1 # 1 /\ r[i] = s[i + 1]
    BY <1>1, <1>2
  <2> QED
    BY <1>1 DEF WellFormed
<1>7. s[1] = "release" => r = <<>> /\ Inside(s)
  BY <1>1, <1>2 DEF WellFormed, Inside
<1>8. s[1] \notin {"shared", "exclusive", "release"} => (Inside(r) <=> Inside(s))
  <2> HAVE s[1] \notin {"shared", "exclusive", "release"}
  <2>1. Inside(r) => Inside(s)
    BY <1>1, <1>2, <1>3 DEF Inside
  <2>2. Inside(s) => Inside(r)
    BY <1>1, <1>2 DEF Inside
  <2> QED
    BY <2>1, <2>2
<1>9. Alone(s) => Alone(r)
  BY <1>2 DEF Alone
<1>10. s[1] \in Launch => Inside(s) /\ r # <<>> /\ r[1] = "join"
  <2> HAVE s[1] \in Launch
  <2>1. s[Len(s)] = "release" /\ 2 \in DOMAIN s /\ s[2] = "join"
    BY <1>1, StepKinds DEF WellFormed, Joined
  <2>2. \A i \in DOMAIN s : s[i] # "shared" /\ s[i] # "exclusive"
    <3> SUFFICES ASSUME NEW i \in DOMAIN s PROVE s[i] # "shared" /\ s[i] # "exclusive"
      OBVIOUS
    <3>1. s[1] \notin CalmSteps /\ s[1] # "release" /\ s[1] # "shared" /\ s[1] # "exclusive"
      BY DEF Launch, CalmSteps
    <3>2. s[i] = "shared" => FALSE
      BY <1>1, <3>1 DEF WellFormed
    <3>3. s[i] = "exclusive" => FALSE
      BY <1>1, <3>1 DEF WellFormed
    <3> QED
      BY <3>2, <3>3
  <2> QED
    BY <1>1, <1>2, <2>1, <2>2 DEF Inside
<1>11. s[1] \in {"shared", "exclusive"} => ~Inside(s)
  BY <1>1 DEF Inside
<1> QED
  BY <1>5, <1>6, <1>7, <1>8, <1>9, <1>10, <1>11 DEF r

LEMMA Single == ASSUME NEW S, NEW r \in Seq(S), Len(r) = 1 PROVE r = <<r[1]>>
<1>0. 1 \in 1 .. Len(r) /\ r[1] \in S
  <2>1. 1 \in 1 .. Len(r)
    OBVIOUS
  <2> QED
    BY <2>1, ElementOfSeq
<1>1. <<r[1]>> \in Seq(S) /\ Len(<<r[1]>>) = 1 /\ <<r[1]>>[1] = r[1]
  BY <1>0
<1>2. \A i \in 1 .. 1 : r[i] = <<r[1]>>[i]
  BY <1>1
<1> QED
  BY <1>1, <1>2, SeqEqual

\* An exception leaves the release of a lock that is held, and nothing else.
LEMMA UnwoundFacts ==
    ASSUME NEW s, WellFormed(s), s # <<>>, s[1] = "handler"
    PROVE  D!Unwound(s) = IF Inside(s) THEN <<"release">> ELSE <<>>
<1> DEFINE rpc == {i \in DOMAIN s : s[i] \in {"release", "exclusive"}}
<1>1. s \in Seq(Steps) /\ Len(s) \in Nat \ {0} /\ DOMAIN s = 1 .. Len(s) /\ 1 \in DOMAIN s
  BY DEF WellFormed
<1>2. CASE Inside(s)
  <2>1. rpc = {Len(s)}
    BY <1>1, <1>2 DEF Inside, WellFormed
  <2>2. D!Min(rpc) = Len(s)
    BY <1>1, <2>1 DEF D!Min
  <2>3. D!Unwound(s) = SubSeq(s, Len(s), Len(s))
    BY <1>1, <1>2, <2>1, <2>2 DEF D!Unwound, Inside
  <2>4. SubSeq(s, Len(s), Len(s)) = <<"release">>
    <3>1. /\ SubSeq(s, Len(s), Len(s)) \in Seq(Steps) /\ Len(SubSeq(s, Len(s), Len(s))) = 1
          /\ SubSeq(s, Len(s), Len(s))[1] = s[Len(s)]
      <4>1. Len(s) \in Int /\ \A i \in Len(s) .. Len(s) : s[i] \in Steps
        BY <1>1
      <4>2. 1 \in 1 .. Len(s) - Len(s) + 1 /\ Len(s) + 1 - 1 = Len(s) /\ Len(s) - Len(s) + 1 = 1 /\ Len(s) <= Len(s)
        BY <1>1
      <4> DEFINE n == Len(s)
      <4> HIDE DEF n
      <4>3. n \in Int /\ (\A i \in n .. n : s[i] \in Steps) /\ n <= n /\ n - n + 1 = 1 /\ n + 1 - 1 = n /\ 1 \in 1 .. n - n + 1
        BY <4>1, <4>2 DEF n
      <4>4. /\ SubSeq(s, n, n) \in Seq(Steps) /\ Len(SubSeq(s, n, n)) = IF n <= n THEN n - n + 1 ELSE 0
            /\ \A i \in 1 .. n - n + 1 : SubSeq(s, n, n)[i] = s[n + i - 1]
        BY <4>3, SubSeqProperties
      <4>5. SubSeq(s, n, n) \in Seq(Steps) /\ Len(SubSeq(s, n, n)) = 1 /\ SubSeq(s, n, n)[1] = s[n]
        BY <4>3, <4>4
      <4> QED
        BY <4>5 DEF n
    <3> QED
      BY <3>1, <1>2, Single DEF Inside
  <2> QED
    BY <1>2, <2>3, <2>4
<1>3. CASE ~Inside(s)
  <2>1. CASE rpc = {}
    BY <1>3, <2>1 DEF D!Unwound
  <2>2. CASE rpc # {}
    <3>1. PICK e \in DOMAIN s : s[e] = "exclusive"
      BY <1>1, <1>3, <2>2 DEF Inside, WellFormed, CalmSteps
    <3>2. s[Len(s)] = "release" /\ e < Len(s)
      <4>1. "exclusive" \notin CalmSteps
        BY StepKinds
      <4>2. s[Len(s)] = "release"
        BY <3>1, <4>1 DEF WellFormed
      <4> QED
        BY <1>1, <3>1, <4>2
    <3>4. \A i \in DOMAIN s : s[i] = "exclusive" => i = e
      BY <3>1, StepKinds DEF WellFormed
    <3>5. \A i \in DOMAIN s : s[i] = "release" => i = Len(s)
      BY DEF WellFormed
    <3>6. rpc = {e, Len(s)}
      BY <1>1, <3>1, <3>2, <3>4, <3>5
    <3>3. D!Min(rpc) = e
      BY <1>1, <3>1, <3>2, <3>6 DEF D!Min
    <3> QED
      BY <1>3, <3>1, <3>3 DEF D!Unwound
  <2> QED
    BY <2>1, <2>2
<1> QED
  BY <1>2, <1>3

\* What an exception can leave.
LEMMA Remnants ==
    /\ WellFormed(<<"release">>) /\ Inside(<<"release">>) /\ Alone(<<"release">>)
    /\ WellFormed(<<>>) /\ ~Inside(<<>>) /\ Alone(<<>>)
<1> DEFINE s == <<"release">>
<1>1. s \in Seq(Steps) /\ Len(s) = 1 /\ s[1] = "release" /\ DOMAIN s = {1} /\ s # <<>>
  BY DEF Steps
<1>2. "release" \notin Launch
  BY DEF Launch
<1> HIDE DEF s
<1>3. WellFormed(s) /\ Inside(s) /\ Alone(s)
  BY <1>1, <1>2 DEF WellFormed, Joined, Inside, Alone
<1>4. <<>> \in Seq(Steps) /\ DOMAIN <<>> = {}
  OBVIOUS
<1>5. WellFormed(<<>>) /\ ~Inside(<<>>) /\ Alone(<<>>)
  BY <1>4 DEF WellFormed, Joined, Inside, Alone
<1> QED
  BY <1>3, <1>5 DEF s

\* A launched thread ends when it throws.
LEMMA UnwoundCalm == ASSUME NEW s \in Calm PROVE D!Unwound(s) = <<>>
<1>1. {i \in DOMAIN s : s[i] \in {"release", "exclusive"}} = {}
  BY StepKinds DEF Calm
<1> QED
  BY <1>1 DEF D!Unwound

\* The next step is the first of those left.
LEMMA CodeFacts ==
    ASSUME CodeShape, NEW p \in D!Procs, ~D!Idle(p)
    PROVE  /\ code[p] \in Seq(Steps) /\ code[p] # <<>> /\ Head(code[p]) = code[p][1]
           /\ \A x : D!At(p, x) => code[p][1] = x
  BY DEF CodeShape, D!Idle, D!At

\* Advance moves one thread only.
LEMMA Advanced ==
    ASSUME CodeShape, NEW p \in D!Procs, ~D!Idle(p), D!Advance(p)
    PROVE  /\ code' \in [D!Procs -> Seq(Steps)] /\ code'[p] = Tail(code[p])
           /\ \A q \in D!Procs : q # p => code'[q] = code[q]
  BY CodeFacts DEF CodeShape, D!Advance

\* One thread moves on.
LEMMA ShapeAdvance ==
    ASSUME CodeShape, NEW p \in D!Procs, ~D!Idle(p), D!Advance(p) PROVE CodeShape'
<1>1. /\ code' \in [D!Procs -> Seq(Steps)] /\ code'[p] = Tail(code[p])
      /\ \A q \in D!Procs : q # p => code'[q] = code[q]
  BY Advanced
<1>2. ASSUME NEW t \in Threads PROVE WellFormed(code'[D!Main(t)])
  BY <1>1, ProcFacts, CodeFacts, WellFormedTail DEF CodeShape
<1>3. ASSUME NEW t \in Threads, NEW l \in D!Lanes PROVE code'[<<t, l>>] \in Calm
  <2>1. CASE p = <<t, l>>
    <3>1. code[p] \in Seq(CalmSteps) /\ code[p] # <<>>
      BY <2>1, CodeFacts DEF CodeShape, Calm
    <3>2. Tail(code[p]) \in Seq(CalmSteps)
      BY <3>1
    <3> QED
      BY <1>1, <2>1, <3>2 DEF Calm
  <2>2. CASE p # <<t, l>>
    BY <1>1, <2>2, ProcFacts DEF CodeShape
  <2> QED
    BY <2>1, <2>2
<1> QED
  BY <1>1, <1>2, <1>3 DEF CodeShape

\* A launched thread is at a calm step.
LEMMA LaneKinds ==
    ASSUME CodeShape, NEW t \in Threads, NEW l \in D!Lanes, NEW x, D!At(<<t, l>>, x)
    PROVE  x \in CalmSteps
  BY ProcFacts, CodeFacts DEF CodeShape, D!At, Calm

\* A step that leaves the locks of rpc_mutex_ alone and is none of theirs, by a thread
\* that is not waiting for its lanes.
LEMMA QuietStep ==
    ASSUME RequestsInv, NEW p \in D!Procs, NEW x, D!At(p, x), D!Advance(p),
           x \in CalmSteps, UNCHANGED <<globalLock, readers, writer>>
    PROVE  RequestsInv'
<1>1. ~D!Idle(p) /\ CodeShape
  BY DEF D!At, RequestsInv
<1>2. CodeShape'
  BY <1>1, ShapeAdvance
<1>3. /\ code'[p] = Tail(code[p]) /\ code[p] # <<>> /\ code[p][1] = x
      /\ \A q \in D!Procs : q # p => code'[q] = code[q]
  BY <1>1, Advanced, CodeFacts
<1>4. \A t \in Threads : Inside(code'[D!Main(t)]) <=> Inside(code[D!Main(t)])
  <2> SUFFICES ASSUME NEW t \in Threads, p = D!Main(t) PROVE Inside(Tail(code[p])) <=> Inside(code[p])
    BY <1>3, ProcFacts
  <2> QED
    BY <1>1, <1>3, InsideTail, StepKinds DEF CodeShape
<1>5. HoldersMatch'
  <2>1. writer # D!None => Alone(code'[writer])
    <3> HAVE writer # D!None
    <3>1. PICK t \in Threads : writer = D!Main(t)
      BY DEF RequestsInv, HoldersMatch
    <3>2. CASE writer = p
      BY <1>1, <1>3, <3>1, <3>2, InsideTail DEF RequestsInv, HoldersMatch, CodeShape
    <3>3. CASE writer # p
      BY <1>3, <3>1, <3>3, ProcFacts DEF RequestsInv, HoldersMatch
    <3> QED
      BY <3>2, <3>3
  <2> QED
    BY <1>4, <2>1 DEF RequestsInv, HoldersMatch, Holders, D!Main, D!None, Inside, Alone, CalmSteps
<1>6. LanesJoined'
  <2> SUFFICES ASSUME NEW t \in Threads, NEW l \in D!Lanes, code'[<<t, l>>] # <<>>
               PROVE  Inside(code'[D!Main(t)]) /\ code'[D!Main(t)] # <<>> /\ Head(code'[D!Main(t)]) = "join"
    BY DEF LanesJoined, D!Idle, D!At, D!Main, D!Lanes, Inside
  <2>1. code[<<t, l>>] # <<>>
    BY <1>3, ProcFacts
  <2>2. Inside(code[D!Main(t)]) /\ D!At(D!Main(t), "join")
    BY <2>1 DEF RequestsInv, LanesJoined, D!Idle
  <2>3. p # D!Main(t)
    BY <2>2, StepKinds DEF D!At
  <2> QED
    BY <1>3, <2>2, <2>3, ProcFacts DEF D!At, D!Idle
<1> QED
  BY <1>2, <1>5, <1>6 DEF RequestsInv

\* Only the thread that serves a request takes rpc_mutex_, launches or joins.
LEMMA MainKinds ==
    ASSUME CodeShape, NEW p \in D!Procs, NEW x, D!At(p, x), x \notin CalmSteps
    PROVE  \E t \in Threads : p = D!Main(t)
  BY ProcFacts, LaneKinds

\* A thread whose lanes are done moves on alone.
LEMMA LanesKept ==
    ASSUME RequestsInv, NEW t \in Threads, \A l \in D!Lanes : D!Idle(<<t, l>>),
           \A q \in D!Procs : q # D!Main(t) => code'[q] = code[q]
    PROVE  LanesJoined'
<1> SUFFICES ASSUME NEW u \in Threads, NEW l \in D!Lanes, code'[<<u, l>>] # <<>>
             PROVE  Inside(code'[D!Main(u)]) /\ code'[D!Main(u)] # <<>> /\ Head(code'[D!Main(u)]) = "join"
  BY DEF LanesJoined, D!Idle, D!At, D!Main, D!Lanes, Inside
<1>1. code[<<u, l>>] # <<>>
  BY ProcFacts
<1>2. Inside(code[D!Main(u)]) /\ D!At(D!Main(u), "join") /\ u # t
  BY <1>1 DEF RequestsInv, LanesJoined, D!Idle
<1>3. code'[D!Main(u)] = code[D!Main(u)]
  BY <1>2, ProcFacts
<1> QED
  BY <1>2, <1>3 DEF D!At, D!Idle

\* A thread that is not joining has nothing running beside it.
LEMMA LanesIdle ==
    ASSUME RequestsInv, NEW t \in Threads, D!Idle(D!Main(t)) \/ \E x : x # "join" /\ D!At(D!Main(t), x)
    PROVE  \A l \in D!Lanes : D!Idle(<<t, l>>)
  BY DEF RequestsInv, LanesJoined, D!At

\* What the lock invariant asks of the next state, for a step of one serving thread.
LEMMA LocksKept ==
    ASSUME RequestsInv, NEW t \in Threads, globalLock' = globalLock,
           \A q \in D!Procs : q # D!Main(t) => code'[q] = code[q],
           readers' \subseteq readers \cup {D!Main(t)}, writer' \in {writer, D!Main(t), D!None},
           \A u \in Threads : u # t => (D!Main(u) \in Holders' <=> D!Main(u) \in Holders),
           D!Main(t) \in Holders' <=> globalLock /\ Inside(code'[D!Main(t)]),
           writer' # D!None => readers' = {},
           writer' = D!Main(t) => Alone(code'[D!Main(t)])
    PROVE  HoldersMatch'
<1>1. \A u \in Threads : D!Main(u) \in D!Procs /\ (u # t => D!Main(u) # D!Main(t))
  BY ProcFacts
<1>2. \A u \in Threads : u # t => code'[D!Main(u)] = code[D!Main(u)]
  BY <1>1
<1>3. writer' # D!None => Alone(code'[writer'])
  <2> HAVE writer' # D!None
  <2>1. CASE writer' = D!Main(t)
    BY <2>1
  <2>2. CASE writer' # D!Main(t)
    BY <1>2, <2>2 DEF RequestsInv, HoldersMatch
  <2> QED
    BY <2>1, <2>2
<1>4. \A u \in Threads : D!Main(u) \in Holders' <=> globalLock' /\ Inside(code'[D!Main(u)])
  BY <1>2 DEF RequestsInv, HoldersMatch
<1>5. readers' \subseteq {D!Main(u) : u \in Threads} /\ writer' \in {D!Main(u) : u \in Threads} \cup {D!None}
  BY DEF RequestsInv, HoldersMatch
<1> QED
  BY <1>3, <1>4, <1>5 DEF HoldersMatch, Holders, D!Main, D!None, Inside, Alone, CalmSteps

\* acquire_shared_lock.
LEMMA LockSharedSafe ==
    ASSUME RequestsInv, NEW p \in D!Procs, D!LockShared(p)
    PROVE  RequestsInv'
<1>1. D!At(p, "shared") /\ D!Advance(p) /\ UNCHANGED <<globalLock, writer>>
  BY DEF D!LockShared, D!config
<1>2. PICK t \in Threads : p = D!Main(t)
  BY <1>1, MainKinds, StepKinds DEF RequestsInv
<1>3. CodeShape /\ CodeShape' /\ ~D!Idle(p)
  BY <1>1, ShapeAdvance DEF RequestsInv, D!At
<1>4. /\ code'[p] = Tail(code[p]) /\ code[p] # <<>> /\ code[p][1] = "shared"
      /\ \A q \in D!Procs : q # p => code'[q] = code[q]
  BY <1>1, <1>3, Advanced, CodeFacts
<1>5. Inside(code'[p]) /\ ~Inside(code[p])
  BY <1>2, <1>3, <1>4, InsideTail DEF CodeShape
<1>6. p \notin Holders
  BY <1>2, <1>5 DEF RequestsInv, HoldersMatch
<1>7. \A u \in Threads : u # t => D!Main(u) # p
  BY <1>2, ProcFacts
<1>8. HoldersMatch'
  <2>1. CASE globalLock
    <3>1. readers' = readers \cup {p} /\ writer = D!None
      BY <2>1 DEF D!LockShared
    <3> QED
      BY <1>1, <1>2, <1>4, <1>5, <1>7, <2>1, <3>1, LocksKept, ProcFacts DEF Holders
  <2>2. CASE ~globalLock
    <3>1. readers' = readers
      BY <2>2 DEF D!LockShared
    <3> QED
      BY <1>1, <1>2, <1>4, <1>6, <2>2, <3>1, LocksKept, ProcFacts DEF Holders, RequestsInv, HoldersMatch
  <2> QED
    BY <2>1, <2>2
<1>9. LanesJoined'
  BY <1>1, <1>2, <1>4, LanesIdle, LanesKept
<1> QED
  BY <1>1, <1>3, <1>8, <1>9 DEF RequestsInv

\* acquire_lock.
LEMMA LockExclusiveSafe ==
    ASSUME RequestsInv, NEW p \in D!Procs, D!LockExclusive(p)
    PROVE  RequestsInv'
<1>1. D!At(p, "exclusive") /\ D!Advance(p) /\ UNCHANGED <<globalLock, readers>>
  BY DEF D!LockExclusive, D!config
<1>2. PICK t \in Threads : p = D!Main(t)
  BY <1>1, MainKinds, StepKinds DEF RequestsInv
<1>3. CodeShape /\ CodeShape' /\ ~D!Idle(p)
  BY <1>1, ShapeAdvance DEF RequestsInv, D!At
<1>4. /\ code'[p] = Tail(code[p]) /\ code[p] # <<>> /\ code[p][1] = "exclusive"
      /\ \A q \in D!Procs : q # p => code'[q] = code[q]
  BY <1>1, <1>3, Advanced, CodeFacts
<1>5. Inside(code'[p]) /\ Alone(code'[p]) /\ ~Inside(code[p])
  BY <1>2, <1>3, <1>4, InsideTail DEF CodeShape
<1>6. p \notin Holders
  BY <1>2, <1>5 DEF RequestsInv, HoldersMatch
<1>7. \A u \in Threads : u # t => D!Main(u) # p
  BY <1>2, ProcFacts
<1>8. HoldersMatch'
  <2>1. CASE globalLock
    <3>1. writer' = p /\ writer = D!None /\ readers = {}
      BY <2>1 DEF D!LockExclusive
    <3> QED
      BY <1>1, <1>2, <1>4, <1>5, <1>7, <2>1, <3>1, LocksKept, ProcFacts DEF Holders
  <2>2. CASE ~globalLock
    <3>1. writer' = writer /\ writer # p
      BY <1>6, <1>2, <2>2, ProcFacts DEF D!LockExclusive, Holders
    <3> QED
      BY <1>1, <1>2, <1>4, <1>6, <2>2, <3>1, LocksKept, ProcFacts DEF Holders, RequestsInv, HoldersMatch
  <2> QED
    BY <2>1, <2>2
<1>9. LanesJoined'
  BY <1>1, <1>2, <1>4, LanesIdle, LanesKept
<1> QED
  BY <1>1, <1>3, <1>8, <1>9 DEF RequestsInv

\* The lock's guard is destroyed.
LEMMA ReleaseSafe ==
    ASSUME RequestsInv, NEW p \in D!Procs, D!Release(p)
    PROVE  RequestsInv'
<1>1. D!At(p, "release") /\ D!Advance(p) /\ UNCHANGED globalLock
  BY DEF D!Release, D!config
<1>2. PICK t \in Threads : p = D!Main(t)
  BY <1>1, MainKinds, StepKinds DEF RequestsInv
<1>3. CodeShape /\ CodeShape' /\ ~D!Idle(p)
  BY <1>1, ShapeAdvance DEF RequestsInv, D!At
<1>4. /\ code'[p] = Tail(code[p]) /\ code[p] # <<>> /\ code[p][1] = "release"
      /\ \A q \in D!Procs : q # p => code'[q] = code[q]
  BY <1>1, <1>3, Advanced, CodeFacts
<1>5. ~Inside(code'[p])
  BY <1>2, <1>3, <1>4, InsideTail DEF CodeShape, Inside
<1>6. readers' = readers \ {p} /\ writer' = IF writer = p THEN D!None ELSE writer
  BY DEF D!Release
<1>7. \A u \in Threads : u # t => D!Main(u) # p
  BY <1>2, ProcFacts
<1>8. HoldersMatch'
  <2>1. p \notin Holders' /\ p # D!None
    BY <1>2, <1>6, ProcFacts DEF Holders
  <2>2. \A u \in Threads : u # t => (D!Main(u) \in Holders' <=> D!Main(u) \in Holders)
    BY <1>6, <1>7, ProcFacts DEF Holders
  <2>3. writer' # D!None => readers' = {} /\ writer' # p
    BY <1>6 DEF RequestsInv, HoldersMatch
  <2> QED
    BY <1>1, <1>2, <1>4, <1>5, <1>6, <2>1, <2>2, <2>3, LocksKept
<1>9. LanesJoined'
  BY <1>1, <1>2, <1>4, LanesIdle, LanesKept
<1> QED
  BY <1>1, <1>3, <1>8, <1>9 DEF RequestsInv

\* get() of the futures.
LEMMA JoinSafe == ASSUME RequestsInv, NEW p \in D!Procs, D!Join(p) PROVE RequestsInv'
<1>1. D!At(p, "join") /\ D!Advance(p) /\ D!AllDone(p) /\ UNCHANGED <<globalLock, readers, writer>>
  BY DEF D!Join, D!config, D!locks
<1>2. PICK t \in Threads : p = D!Main(t)
  BY <1>1, MainKinds, StepKinds DEF RequestsInv
<1>3. CodeShape /\ CodeShape' /\ ~D!Idle(p)
  BY <1>1, ShapeAdvance DEF RequestsInv, D!At
<1>4. /\ code'[p] = Tail(code[p]) /\ code[p] # <<>> /\ code[p][1] = "join"
      /\ \A q \in D!Procs : q # p => code'[q] = code[q]
  BY <1>1, <1>3, Advanced, CodeFacts
<1>5. Inside(code'[p]) <=> Inside(code[p])
  BY <1>2, <1>3, <1>4, InsideTail DEF CodeShape
<1>6. Alone(code[p]) => Alone(code'[p])
  BY <1>2, <1>3, <1>4, InsideTail DEF CodeShape
<1>7. \A l \in D!Lanes : D!Idle(<<t, l>>)
  BY <1>1, <1>2, ProcFacts DEF D!AllDone, D!Children, D!Main
<1>8. HoldersMatch'
  <2>1. Holders' = Holders /\ (p \in Holders' <=> globalLock /\ Inside(code'[p]))
    BY <1>1, <1>2, <1>5 DEF RequestsInv, HoldersMatch, Holders
  <2>2. (writer' # D!None => readers' = {}) /\ (writer' = p => Alone(code'[p]))
    BY <1>1, <1>2, <1>6, ProcFacts DEF RequestsInv, HoldersMatch
  <2> QED
    BY <1>1, <1>2, <1>4, <2>1, <2>2, LocksKept
<1>9. LanesJoined'
  BY <1>2, <1>4, <1>7, LanesKept
<1> QED
  BY <1>1, <1>3, <1>8, <1>9 DEF RequestsInv

\* The thread goes on to its join, and the lanes it launches are its own.
LEMMA LaunchSafe ==
    ASSUME RequestsInv, NEW t \in Threads, NEW x \in Launch, D!At(D!Main(t), x),
           UNCHANGED <<globalLock, readers, writer>>,
           code' \in [D!Procs -> Seq(Steps)], code'[D!Main(t)] = Tail(code[D!Main(t)]),
           \A l \in D!Lanes : code'[<<t, l>>] \in Calm,
           \A u \in Threads \ {t} : /\ code'[D!Main(u)] = code[D!Main(u)]
                                    /\ \A l \in D!Lanes : code'[<<u, l>>] = code[<<u, l>>]
    PROVE  RequestsInv'
<1> DEFINE p == D!Main(t)
           s == code[p]
<1>1. CodeShape /\ ~D!Idle(p) /\ p \in D!Procs
  BY ProcFacts DEF RequestsInv, D!At
<1>2. s # <<>> /\ s[1] = x /\ WellFormed(s)
  BY <1>1, CodeFacts DEF CodeShape
<1>3. Inside(s) /\ WellFormed(Tail(s)) /\ Inside(Tail(s)) /\ Tail(s) # <<>> /\ Tail(s)[1] = "join"
  BY <1>2, InsideTail, WellFormedTail, StepKinds DEF Launch
<1>4. CodeShape'
  <2>1. \A u \in Threads : WellFormed(code'[D!Main(u)])
    BY <1>1, <1>3 DEF CodeShape
  <2>2. \A u \in Threads, l \in D!Lanes : code'[<<u, l>>] \in Calm
    BY <1>1 DEF CodeShape
  <2> QED
    BY <2>1, <2>2 DEF CodeShape
<1>5. x \notin CalmSteps \cup {"release"} /\ ~Alone(s)
  <2>1. 1 \in DOMAIN s
    BY <1>2 DEF WellFormed
  <2>2. x \notin CalmSteps \cup {"release"}
    BY DEF Launch, CalmSteps
  <2> QED
    BY <1>2, <2>1, <2>2 DEF Alone
<1>6. writer # p
  BY <1>5, ProcFacts DEF RequestsInv, HoldersMatch
<1>7. \A u \in Threads : Inside(code'[D!Main(u)]) <=> Inside(code[D!Main(u)])
  BY <1>3
<1>8. writer # D!None => Alone(code'[writer])
  BY <1>6 DEF RequestsInv, HoldersMatch
<1>9. HoldersMatch'
  BY <1>7, <1>8 DEF RequestsInv, HoldersMatch, Holders, D!Main, D!None, Inside, Alone, CalmSteps
<1>10. LanesJoined'
  <2> SUFFICES ASSUME NEW u \in Threads, NEW l \in D!Lanes, code'[<<u, l>>] # <<>>
               PROVE  Inside(code'[D!Main(u)]) /\ code'[D!Main(u)] # <<>> /\ Head(code'[D!Main(u)]) = "join"
    BY DEF LanesJoined, D!Idle, D!At, D!Main, D!Lanes, Inside
  <2>1. CASE u = t
    <3>1. Tail(s) \in Seq(Steps) /\ \A r \in Seq(Steps) : r # <<>> => Head(r) = r[1]
      BY <1>3 DEF WellFormed
    <3>2. Head(Tail(s)) = "join"
      BY <1>3, <3>1
    <3> QED
      BY <1>3, <2>1, <3>2
  <2>2. CASE u # t
    BY <2>2 DEF RequestsInv, LanesJoined, D!Idle, D!At
  <2> QED
    BY <2>1, <2>2
<1> QED
  BY <1>4, <1>9, <1>10 DEF RequestsInv

\* hook_session_start launches its lanes, its request locked and nothing else running.
LEMMA ForkSafe == ASSUME RequestsInv, NEW p \in D!Procs, D!Fork(p) PROVE RequestsInv'
<1>1. /\ D!At(p, "fork") /\ UNCHANGED <<globalLock, readers, writer>>
      /\ code' = [q \in D!Procs |-> IF q = p THEN Tail(code[p])
                                    ELSE IF q \in D!Children(p) THEN D!Async[q[2]] ELSE code[q]]
  BY DEF D!Fork, D!config, D!locks
<1>2. PICK t \in Threads : p = D!Main(t)
  BY <1>1, MainKinds DEF RequestsInv, CalmSteps
<1>3. D!Children(p) = {<<t, l>> : l \in D!Lanes}
  BY <1>2, ProcFacts DEF D!Children, D!Main
<1>4. \A l \in D!Lanes : code'[<<t, l>>] = D!Async[l]
  BY <1>1, <1>2, <1>3, ProcFacts
<1>5. ASSUME NEW u \in Threads \ {t}
      PROVE  code'[D!Main(u)] = code[D!Main(u)] /\ \A l \in D!Lanes : code'[<<u, l>>] = code[<<u, l>>]
  <2>1. D!Main(u) \notin D!Children(p) /\ D!Main(u) # p
    BY <1>2, <1>3, ProcFacts
  <2>2. \A l \in D!Lanes : <<u, l>> \notin D!Children(p) /\ <<u, l>> # p
    BY <1>2, <1>3, ProcFacts
  <2> QED
    BY <1>1, <2>1, <2>2, ProcFacts
<1>6. code' \in [D!Procs -> Seq(Steps)] /\ code'[p] = Tail(code[p])
  <2>1. Tail(code[p]) \in Seq(Steps)
    BY <1>1, CodeFacts DEF RequestsInv, D!At
  <2>2. \A l \in D!Lanes : D!Async[l] \in Seq(Steps)
    BY CalmAsync, StepKinds DEF Calm
  <2>3. \A q \in D!Children(p) : D!Async[q[2]] \in Seq(Steps)
    BY <1>3, <2>2
  <2> QED
    BY <1>1, <2>1, <2>3 DEF RequestsInv, CodeShape
<1> QED
  BY <1>1, <1>2, <1>4, <1>5, <1>6, CalmAsync, LaunchSafe DEF Launch

\* hook_compact_restore launches its query.
LEMMA ForkRestoreSafe ==
    ASSUME RequestsInv, NEW p \in D!Procs, D!ForkRestore(p)
    PROVE  RequestsInv'
<1>1. /\ D!At(p, "restore") /\ UNCHANGED <<globalLock, readers, writer>>
      /\ code' = [code EXCEPT ![p] = Tail(@), ![<<p[1], "recall">>] = D!Handler]
  BY DEF D!ForkRestore, D!config, D!locks
<1>2. PICK t \in Threads : p = D!Main(t)
  BY <1>1, MainKinds DEF RequestsInv, CalmSteps
<1>3. "recall" \in D!Lanes /\ p[1] = t
  BY <1>2 DEF D!Lanes, D!Main
<1>4. <<t, "recall">> \in D!Procs /\ <<t, "recall">> # p
  BY <1>2, <1>3, ProcFacts
<1>5. code' \in [D!Procs -> Seq(Steps)] /\ code'[p] = Tail(code[p]) /\ code'[<<t, "recall">>] = D!Handler
      /\ \A q \in D!Procs : q # p /\ q # <<t, "recall">> => code'[q] = code[q]
  <2>1. Tail(code[p]) \in Seq(Steps)
    BY <1>1, CodeFacts DEF RequestsInv, D!At
  <2>2. D!Handler \in Seq(Steps)
    BY CalmHandler, StepKinds DEF Calm
  <2> QED
    BY <1>1, <1>3, <1>4, <2>1, <2>2 DEF RequestsInv, CodeShape
<1>6. \A l \in D!Lanes : code'[<<t, l>>] \in Calm
  <2> SUFFICES ASSUME NEW l \in D!Lanes PROVE code'[<<t, l>>] \in Calm
    OBVIOUS
  <2>1. CASE l = "recall"
    BY <1>5, <2>1, CalmHandler
  <2>2. CASE l # "recall"
    <3>1. <<t, l>> # <<t, "recall">> /\ <<t, l>> # p /\ <<t, l>> \in D!Procs
      BY <1>2, <2>2, ProcFacts
    <3> QED
      BY <1>5, <3>1 DEF RequestsInv, CodeShape
  <2> QED
    BY <2>1, <2>2
<1>7. \A u \in Threads \ {t} : /\ code'[D!Main(u)] = code[D!Main(u)]
                               /\ \A l \in D!Lanes : code'[<<u, l>>] = code[<<u, l>>]
  BY <1>2, <1>3, <1>5, ProcFacts
<1> QED
  BY <1>1, <1>2, <1>5, <1>6, <1>7, LaunchSafe DEF Launch

\* An exception leaves the frames inside the lock: a request then is at its release, a
\* request without one or a launched thread is done.
LEMMA ThrowSafe == ASSUME RequestsInv, NEW p \in D!Procs, D!Throw(p) PROVE RequestsInv'
<1>1. /\ D!At(p, "handler") /\ UNCHANGED <<globalLock, readers, writer>>
      /\ code' = [code EXCEPT ![p] = D!Unwound(@)]
  BY DEF D!Throw, D!config
<1>2. /\ CodeShape /\ ~D!Idle(p) /\ code[p] \in Seq(Steps) /\ code[p] # <<>> /\ code[p][1] = "handler"
  BY <1>1, CodeFacts DEF RequestsInv, D!At
<1>3. CASE \E t \in Threads : p = D!Main(t)
  <2>1. PICK t \in Threads : p = D!Main(t)
    BY <1>3
  <2>2. WellFormed(code[p])
    BY <1>2, <2>1 DEF CodeShape
  <2>3. D!Unwound(code[p]) = IF Inside(code[p]) THEN <<"release">> ELSE <<>>
    BY <1>2, <2>2, UnwoundFacts
  <2>4. /\ WellFormed(<<"release">>) /\ WellFormed(<<>>) /\ Inside(<<"release">>) /\ ~Inside(<<>>)
        /\ Alone(<<"release">>) /\ Alone(<<>>) /\ <<"release">> \in Seq(Steps) /\ <<>> \in Seq(Steps)
    BY Remnants DEF WellFormed
  <2>5. /\ code' \in [D!Procs -> Seq(Steps)] /\ code'[p] = D!Unwound(code[p])
        /\ \A q \in D!Procs : q # p => code'[q] = code[q]
    BY <1>1, <1>2, <2>3, <2>4 DEF CodeShape
  <2>6. WellFormed(code'[p]) /\ Alone(code'[p]) /\ (Inside(code'[p]) <=> Inside(code[p]))
    BY <2>3, <2>4, <2>5
  <2>7. CodeShape'
    <3>1. \A u \in Threads : WellFormed(code'[D!Main(u)])
      BY <1>2, <2>5, <2>6, ProcFacts DEF CodeShape
    <3>2. \A u \in Threads, l \in D!Lanes : code'[<<u, l>>] \in Calm
      <4> SUFFICES ASSUME NEW u \in Threads, NEW l \in D!Lanes PROVE code'[<<u, l>>] \in Calm
        OBVIOUS
      <4>1. <<u, l>> \in D!Procs /\ <<u, l>> # p
        BY <2>1, ProcFacts
      <4> QED
        BY <1>2, <2>5, <4>1 DEF CodeShape
    <3> QED
      BY <2>5, <3>1, <3>2 DEF CodeShape
  <2>8. HoldersMatch'
    <3>1. Holders' = Holders /\ (p \in Holders' <=> globalLock /\ Inside(code'[p]))
      BY <1>1, <2>1, <2>6 DEF RequestsInv, HoldersMatch, Holders
    <3>2. writer' # D!None => readers' = {}
      BY <1>1 DEF RequestsInv, HoldersMatch
    <3> QED
      BY <1>1, <2>1, <2>5, <2>6, <3>1, <3>2, LocksKept
  <2>9. LanesJoined'
    BY <1>1, <2>1, <2>5, LanesIdle, LanesKept
  <2> QED
    BY <1>1, <2>7, <2>8, <2>9 DEF RequestsInv
<1>4. CASE \A t \in Threads : p # D!Main(t)
  <2>1. PICK t \in Threads, l \in D!Lanes : p = <<t, l>>
    BY <1>4, ProcFacts
  <2>2. D!Unwound(code[p]) = <<>>
    BY <1>2, <2>1, UnwoundCalm DEF CodeShape
  <2>3. <<>> \in Calm /\ <<>> \in Seq(Steps)
    BY DEF Calm
  <2>4. /\ code' \in [D!Procs -> Seq(Steps)] /\ code'[p] = <<>>
        /\ \A q \in D!Procs : q # p => code'[q] = code[q]
    BY <1>1, <1>2, <2>2, <2>3 DEF CodeShape
  <2>5. \A u \in Threads : code'[D!Main(u)] = code[D!Main(u)]
    BY <1>4, <2>4, ProcFacts
  <2>6. CodeShape'
    <3>1. \A u \in Threads : WellFormed(code'[D!Main(u)])
      BY <1>2, <2>5 DEF CodeShape
    <3>2. \A u \in Threads, k \in D!Lanes : code'[<<u, k>>] \in Calm
      BY <1>2, <2>3, <2>4, ProcFacts DEF CodeShape
    <3> QED
      BY <2>4, <3>1, <3>2 DEF CodeShape
  <2>7. HoldersMatch'
    <3>1. writer # D!None => Alone(code'[writer])
      <4> HAVE writer # D!None
      <4>1. PICK u \in Threads : writer = D!Main(u)
        BY DEF RequestsInv, HoldersMatch
      <4> QED
        BY <2>5, <4>1 DEF RequestsInv, HoldersMatch
    <3>2. \A u \in Threads : D!Main(u) \in Holders' <=> globalLock' /\ Inside(code'[D!Main(u)])
      BY <1>1, <2>5 DEF RequestsInv, HoldersMatch, Holders
    <3>3. /\ readers' \subseteq {D!Main(u) : u \in Threads} /\ writer' \in {D!Main(u) : u \in Threads} \cup {D!None}
          /\ writer' # D!None => readers' = {} /\ Alone(code'[writer'])
      BY <1>1, <3>1 DEF RequestsInv, HoldersMatch
    <3> QED
      BY <3>2, <3>3 DEF HoldersMatch, Holders, D!Main, D!None, Inside, Alone, CalmSteps
  <2>8. LanesJoined'
    <3> SUFFICES ASSUME NEW u \in Threads, NEW k \in D!Lanes, code'[<<u, k>>] # <<>>
                 PROVE  Inside(code'[D!Main(u)]) /\ code'[D!Main(u)] # <<>> /\ Head(code'[D!Main(u)]) = "join"
      BY DEF LanesJoined, D!Idle, D!At, D!Main, D!Lanes, Inside
    <3>1. code[<<u, k>>] # <<>>
      BY <2>4, ProcFacts
    <3> QED
      BY <2>5, <3>1 DEF RequestsInv, LanesJoined, D!Idle, D!At
  <2> QED
    BY <1>1, <2>6, <2>7, <2>8 DEF RequestsInv
<1> QED
  BY <1>3, <1>4

\* A request begins outside its lock.
LEMMA CallSafe ==
    ASSUME RequestsInv, NEW t \in Threads, NEW op \in DOMAIN D!Requests, D!Call(t, op)
    PROVE  RequestsInv'
<1> DEFINE p == D!Main(t)
<1>1. D!Idle(p) /\ UNCHANGED <<globalLock, readers, writer>> /\ code' = [code EXCEPT ![p] = D!Requests[op]]
  BY DEF D!Call, D!config, D!locks
<1>2. WellFormed(D!Requests[op]) /\ ~Inside(D!Requests[op]) /\ p \in D!Procs /\ CodeShape
  BY FreshRequests, ProcFacts DEF RequestsInv, Fresh
<1>3. /\ code' \in [D!Procs -> Seq(Steps)] /\ code'[p] = D!Requests[op]
      /\ \A q \in D!Procs : q # p => code'[q] = code[q]
  BY <1>1, <1>2 DEF CodeShape, WellFormed
<1>4. ~Inside(code[p]) /\ ~Inside(code'[p]) /\ p \notin Holders
  BY <1>1, <1>2, <1>3 DEF D!Idle, Inside, RequestsInv, HoldersMatch
<1>5. CodeShape'
  <2>1. \A u \in Threads : WellFormed(code'[D!Main(u)])
    BY <1>2, <1>3, ProcFacts DEF CodeShape
  <2>2. \A u \in Threads, l \in D!Lanes : code'[<<u, l>>] \in Calm
    <3> SUFFICES ASSUME NEW u \in Threads, NEW l \in D!Lanes PROVE code'[<<u, l>>] \in Calm
      OBVIOUS
    <3>1. <<u, l>> \in D!Procs /\ <<u, l>> # p
      BY ProcFacts
    <3> QED
      BY <1>2, <1>3, <3>1 DEF CodeShape
  <2> QED
    BY <1>3, <2>1, <2>2 DEF CodeShape
<1>6. HoldersMatch'
  <2>1. Holders' = Holders /\ writer' # p /\ p # D!None
    BY <1>1, <1>4, ProcFacts DEF Holders
  <2>2. writer' # D!None => readers' = {}
    BY <1>1 DEF RequestsInv, HoldersMatch
  <2> QED
    BY <1>1, <1>3, <1>4, <2>1, <2>2, LocksKept
<1>7. LanesJoined'
  BY <1>1, <1>3, LanesIdle, LanesKept
<1> QED
  BY <1>1, <1>5, <1>6, <1>7 DEF RequestsInv

LEMMA InitSafe == D!Init => RequestsInv
<1> SUFFICES ASSUME D!Init PROVE RequestsInv
  OBVIOUS
<1>1. /\ code = [p \in D!Procs |-> <<>>] /\ <<>> \in Seq(Steps) /\ <<>> \in Calm
      /\ readers = {} /\ writer = D!None /\ globalLock \in BOOLEAN
  BY DEF D!Init, Calm
<1>2. CodeShape
  BY <1>1, Remnants, ProcFacts DEF CodeShape
<1>3. HoldersMatch
  BY <1>1, Remnants, ProcFacts DEF HoldersMatch, Holders
<1>4. LanesJoined
  BY <1>1, ProcFacts DEF LanesJoined, D!Idle
<1> QED
  BY <1>1, <1>2, <1>3, <1>4 DEF RequestsInv

\* Every step keeps it.
LEMMA NextSafe == ASSUME RequestsInv, [D!Next]_(D!vars) PROVE RequestsInv'
<1>1. CASE UNCHANGED D!vars
  <2>1. UNCHANGED <<globalLock, code, readers, writer>>
    BY <1>1 DEF D!vars, D!config, D!locks
  <2>2. CodeShape'
    BY <2>1 DEF RequestsInv, CodeShape
  <2>3. HoldersMatch'
    BY <2>1 DEF RequestsInv, HoldersMatch, Holders, D!Main, D!None, Inside, Alone, CalmSteps
  <2>4. LanesJoined'
    BY <2>1 DEF RequestsInv, LanesJoined, D!Idle, D!At, D!Main, D!Lanes, Inside
  <2> QED
    BY <2>1, <2>2, <2>3, <2>4 DEF RequestsInv
<1>2. CASE \E t \in Threads, op \in DOMAIN D!Requests : D!Call(t, op)
  BY <1>2, CallSafe
<1>3. ASSUME NEW p \in D!Procs, D!Move(p) PROVE RequestsInv'
  <2>1. CASE D!LockShared(p) \/ D!LockExclusive(p) \/ D!Release(p)
    BY <2>1, LockSharedSafe, LockExclusiveSafe, ReleaseSafe
  <2>2. CASE D!LockMutex(p) \/ D!UnlockMutex(p)
    <3>1. PICK m \in D!Mutexes : D!At(p, D!Lock[m]) \/ D!At(p, D!Unlock[m])
      BY <2>2 DEF D!LockMutex, D!UnlockMutex
    <3>2. D!Advance(p) /\ UNCHANGED <<globalLock, readers, writer>>
      BY <2>2 DEF D!LockMutex, D!UnlockMutex, D!config
    <3>3. D!Lock[m] \in CalmSteps /\ D!Unlock[m] \in CalmSteps
      BY MutexSteps
    <3> QED
      BY <3>1, <3>2, <3>3, QuietStep
  <2>3. CASE D!Handle(p)
    BY <2>3, QuietStep DEF D!Handle, D!config, D!locks, CalmSteps
  <2>4. CASE D!Throw(p)
    BY <2>4, ThrowSafe
  <2>5. CASE D!Fork(p) \/ D!ForkRestore(p) \/ D!Join(p)
    BY <2>5, ForkSafe, ForkRestoreSafe, JoinSafe
  <2> QED
    BY <1>3, <2>1, <2>2, <2>3, <2>4, <2>5 DEF D!Move
<1> QED
  BY <1>1, <1>2, <1>3 DEF D!Next, D!RequestStep, D!Procs

\* A lock is held exactly by the requests between taking and releasing it, and a launched
\* thread never outlives the request that launched it, whatever throws.
THEOREM RequestsInvHolds == D!Spec => []RequestsInv
  BY InitSafe, NextSafe, PTL DEF D!Spec

\* While FieldRpcHandler::handle or the queue lane holds rpc_mutex_ exclusively, no reader
\* holds it and no std::async thread of any hook runs: what holds it launches nothing.
THEOREM WritersAlone == D!Spec => []WritersRunAlone
<1>1. RequestsInv => D!WritersRunAlone
  <2> SUFFICES ASSUME RequestsInv, writer # D!None, NEW t \in Threads, NEW l \in D!Lanes, ~D!Idle(<<t, l>>)
               PROVE  FALSE
    BY DEF D!WritersRunAlone, RequestsInv, HoldersMatch
  <2>1. Inside(code[D!Main(t)]) /\ D!At(D!Main(t), "join")
    BY DEF RequestsInv, LanesJoined
  <2>2. globalLock
    BY DEF RequestsInv, HoldersMatch, Holders
  <2>3. writer = D!Main(t)
    BY <2>1, <2>2, ProcFacts DEF RequestsInv, HoldersMatch, Holders
  <2>4. Alone(code[D!Main(t)]) /\ code[D!Main(t)][1] = "join" /\ 1 \in DOMAIN code[D!Main(t)]
    BY <2>1, <2>3, ProcFacts, CodeFacts DEF RequestsInv, HoldersMatch, CodeShape, D!At
  <2> QED
    BY <2>4, StepKinds DEF Alone
<1> QED
  BY <1>1, SameStatements, RequestsInvHolds, PTL

-------------------------------------------------------------------------------
(* The recursive mutexes: what is left of a request says how deep it holds   *)
(* each of them, so a thread about to wait shows what it holds.              *)

\* What may come while a mutex is held: under capsule_mutex neither stream_mutex nor a
\* join, under stream_mutex no rpc lock.
Within == [ stream |-> CalmSteps \cup {"restore", "join"},
            capsule |-> {"handler", "lock capsule", "unlock capsule"} ]

\* How deep a mutex is held, from d before the first step to 0 after the last.
Heights(s, m, d, h) ==
    /\ h \in [0 .. Len(s) -> Nat] /\ h[0] = d /\ h[Len(s)] = 0
    /\ \A i \in 1 .. Len(s) :
        /\ s[i] = D!Lock[m] => h[i] = h[i - 1] + 1
        /\ s[i] = D!Unlock[m] => h[i] = h[i - 1] - 1
        /\ s[i] \notin {D!Lock[m], D!Unlock[m]} => h[i] = h[i - 1]
        /\ h[i - 1] > 0 => s[i] \in Within[m]

\* A sequence that, begun with the mutex held d times, ends with it free.
Nested(s, m, d) == \E h : Heights(s, m, d, h)
Balanced(s) == \A m \in D!Mutexes : Nested(s, m, 0)

\* The steps over one mutex are not those over the other.
LEMMA MutexNames ==
    /\ D!Lock["stream"] = "lock stream" /\ D!Lock["capsule"] = "lock capsule"
    /\ D!Unlock["stream"] = "unlock stream" /\ D!Unlock["capsule"] = "unlock capsule"
    /\ Within["stream"] = CalmSteps \cup {"restore", "join"}
    /\ Within["capsule"] = {"handler", "lock capsule", "unlock capsule"}
    /\ \A m \in D!Mutexes :
        /\ D!Lock[m] \in Within[m] /\ D!Unlock[m] \in Within[m] /\ D!Lock[m] # D!Unlock[m]
        /\ \A n \in D!Mutexes :
             n # m => D!Lock[m] \notin {D!Lock[n], D!Unlock[n]} /\ D!Unlock[m] \notin {D!Lock[n], D!Unlock[n]}
        /\ \A x \in {"handler", "shared", "exclusive", "release", "fork", "restore", "join"} :
             x \notin {D!Lock[m], D!Unlock[m]}
<1>1. /\ D!Lock["stream"] = "lock stream" /\ D!Lock["capsule"] = "lock capsule"
      /\ D!Unlock["stream"] = "unlock stream" /\ D!Unlock["capsule"] = "unlock capsule"
  BY DEF D!Lock, D!Unlock
<1>2. /\ Within["stream"] = CalmSteps \cup {"restore", "join"}
      /\ Within["capsule"] = {"handler", "lock capsule", "unlock capsule"}
  BY DEF Within
<1> QED
  BY <1>1, <1>2 DEF D!Mutexes, CalmSteps

LEMMA NestedEmpty ==
    ASSUME NEW m
    PROVE  Nested(<<>>, m, 0) /\ \A d : Nested(<<>>, m, d) => d = 0
<1>1. Heights(<<>>, m, 0, [i \in 0 .. 0 |-> 0])
  BY DEF Heights
<1>2. ASSUME NEW d, NEW h, Heights(<<>>, m, d, h) PROVE d = 0
  BY <1>2 DEF Heights
<1> QED
  BY <1>1, <1>2 DEF Nested

LEMMA NestedOne ==
    ASSUME NEW m, NEW x, x \notin {D!Lock[m], D!Unlock[m]} PROVE Nested(<<x>>, m, 0)
<1> DEFINE h == [i \in 0 .. 1 |-> 0]
<1>1. Len(<<x>>) = 1 /\ <<x>>[1] = x
  OBVIOUS
<1>2. h \in [0 .. 1 -> Nat] /\ h[0] = 0 /\ h[1] = 0
  OBVIOUS
<1> HIDE DEF h
<1>3. Heights(<<x>>, m, 0, h)
  BY <1>1, <1>2 DEF Heights
<1> QED
  BY <1>3 DEF Nested

\* After the first step the rest is nested at the depth that step leaves.
LEMMA NestedTail ==
    ASSUME NEW s \in Seq(Steps), s # <<>>, NEW m, NEW d, Nested(s, m, d)
    PROVE  /\ d \in Nat /\ (d > 0 => s[1] \in Within[m])
           /\ \E e \in Nat :
                /\ Nested(Tail(s), m, e)
                /\ s[1] = D!Lock[m] => e = d + 1
                /\ s[1] = D!Unlock[m] => e = d - 1
                /\ s[1] \notin {D!Lock[m], D!Unlock[m]} => e = d
<1>1. PICK h : Heights(s, m, d, h)
  BY DEF Nested
<1> DEFINE r == Tail(s)
           g == [i \in 0 .. Len(r) |-> h[i + 1]]
<1>2. /\ Len(s) \in Nat \ {0} /\ Len(r) = Len(s) - 1 /\ \A i \in 1 .. Len(r) : r[i] = s[i + 1]
  OBVIOUS
<1>3. 1 \in 1 .. Len(s) /\ 0 \in 0 .. Len(s) /\ d \in Nat /\ h[1] \in Nat /\ h[1 - 1] = d
  BY <1>1, <1>2 DEF Heights
<1>4. /\ d > 0 => s[1] \in Within[m]
      /\ s[1] = D!Lock[m] => h[1] = d + 1
      /\ s[1] = D!Unlock[m] => h[1] = d - 1
      /\ s[1] \notin {D!Lock[m], D!Unlock[m]} => h[1] = d
  BY <1>1, <1>3 DEF Heights
<1>5. g \in [0 .. Len(r) -> Nat] /\ g[0] = h[1] /\ g[Len(r)] = 0 /\ \A i \in 0 .. Len(r) : g[i] = h[i + 1]
  BY <1>1, <1>2 DEF Heights
<1> HIDE DEF r, g
<1>6. ASSUME NEW i \in 1 .. Len(r)
      PROVE  /\ r[i] = D!Lock[m] => g[i] = g[i - 1] + 1
             /\ r[i] = D!Unlock[m] => g[i] = g[i - 1] - 1
             /\ r[i] \notin {D!Lock[m], D!Unlock[m]} => g[i] = g[i - 1]
             /\ g[i - 1] > 0 => r[i] \in Within[m]
  <2>1. i + 1 \in 1 .. Len(s) /\ (i + 1) - 1 = i /\ r[i] = s[i + 1] /\ g[i] = h[i + 1] /\ g[i - 1] = h[i]
    <3>1. i - 1 \in 0 .. Len(r) /\ (i - 1) + 1 = i /\ i \in 0 .. Len(r)
      BY <1>2
    <3>2. g[i - 1] = h[i] /\ g[i] = h[i + 1]
      BY <1>5, <3>1
    <3> QED
      BY <1>2, <3>2
  <2>2. /\ s[i + 1] = D!Lock[m] => h[i + 1] = h[i] + 1
        /\ s[i + 1] = D!Unlock[m] => h[i + 1] = h[i] - 1
        /\ s[i + 1] \notin {D!Lock[m], D!Unlock[m]} => h[i + 1] = h[i]
        /\ h[i] > 0 => s[i + 1] \in Within[m]
    BY <1>1, <2>1 DEF Heights
  <2> QED
    BY <2>1, <2>2
<1>7. Heights(r, m, h[1], g)
  BY <1>5, <1>6 DEF Heights
<1>8. Nested(r, m, h[1])
  BY <1>7 DEF Nested
<1> QED
  BY <1>3, <1>4, <1>8 DEF r

\* One after the other.
LEMMA NestedConcat ==
    ASSUME NEW a \in Seq(Steps), NEW b \in Seq(Steps), NEW m, NEW d, Nested(a, m, d), Nested(b, m, 0)
    PROVE  Nested(a \o b, m, d)
<1>1. PICK f : Heights(a, m, d, f)
  BY DEF Nested
<1>2. PICK g : Heights(b, m, 0, g)
  BY DEF Nested
<1> DEFINE s == a \o b
           k == Len(a)
           h == [i \in 0 .. Len(s) |-> IF i <= k THEN f[i] ELSE g[i - k]]
<1>3. /\ k \in Nat /\ Len(b) \in Nat /\ Len(s) = k + Len(b)
      /\ \A i \in 1 .. k : s[i] = a[i]
      /\ \A i \in k + 1 .. k + Len(b) : s[i] = b[i - k]
  BY Parts
<1>4. /\ f \in [0 .. k -> Nat] /\ f[0] = d /\ f[k] = 0
      /\ g \in [0 .. Len(b) -> Nat] /\ g[0] = 0 /\ g[Len(b)] = 0
  BY <1>1, <1>2 DEF Heights
<1>5. /\ \A i \in 0 .. k : h[i] = f[i]
      /\ \A i \in k + 1 .. k + Len(b) : h[i] = g[i - k]
      /\ h \in [0 .. Len(s) -> Nat]
  BY <1>3, <1>4
<1> HIDE DEF s, k, h
<1>6. \A i \in k .. k + Len(b) : h[i] = g[i - k]
  <2> TAKE i \in k .. k + Len(b)
  <2>1. CASE i = k
    <3>1. k \in 0 .. k /\ k - k = 0
      BY <1>3
    <3> QED
      BY <1>4, <1>5, <2>1, <3>1
  <2>2. CASE i # k
    BY <1>3, <1>5, <2>2
  <2> QED
    BY <2>1, <2>2
<1>7. ASSUME NEW i \in 1 .. Len(s)
      PROVE  /\ s[i] = D!Lock[m] => h[i] = h[i - 1] + 1
             /\ s[i] = D!Unlock[m] => h[i] = h[i - 1] - 1
             /\ s[i] \notin {D!Lock[m], D!Unlock[m]} => h[i] = h[i - 1]
             /\ h[i - 1] > 0 => s[i] \in Within[m]
  <2>1. CASE i <= k
    <3>1. i \in 1 .. k /\ i \in 0 .. k /\ i - 1 \in 0 .. k
      BY <1>3, <2>1
    <3>2. s[i] = a[i] /\ h[i] = f[i] /\ h[i - 1] = f[i - 1]
      BY <1>3, <1>5, <3>1
    <3> QED
      BY <1>1, <3>1, <3>2 DEF Heights, k
  <2>2. CASE ~(i <= k)
    <3>1. i \in k + 1 .. k + Len(b) /\ i - k \in 1 .. Len(b) /\ i \in k .. k + Len(b)
          /\ i - 1 \in k .. k + Len(b) /\ (i - 1) - k = (i - k) - 1
      BY <1>3, <2>2
    <3>2. s[i] = b[i - k] /\ h[i] = g[i - k] /\ h[i - 1] = g[(i - k) - 1]
      BY <1>3, <1>6, <3>1
    <3> QED
      BY <1>2, <3>1, <3>2 DEF Heights
  <2> QED
    BY <2>1, <2>2
<1>8. h[0] = d /\ h[Len(s)] = 0
  <2>1. 0 \in 0 .. k /\ k + Len(b) \in k .. k + Len(b) /\ (k + Len(b)) - k = Len(b)
    BY <1>3
  <2> QED
    BY <1>3, <1>4, <1>5, <1>6, <2>1
<1>9. Heights(s, m, d, h)
  BY <1>5, <1>7, <1>8 DEF Heights
<1> QED
  BY <1>9 DEF Nested, s

\* A stretch that leaves the mutex as it found it can be put between a lock and its
\* unlock, if it makes only steps that are made under it.
LEMMA NestedWrap ==
    ASSUME NEW m \in D!Mutexes, NEW b \in Seq(Steps), Nested(b, m, 0),
           \A i \in 1 .. Len(b) : b[i] \in Within[m]
    PROVE  Nested(<<D!Lock[m]>> \o b \o <<D!Unlock[m]>>, m, 0)
<1>1. PICK g : Heights(b, m, 0, g)
  BY DEF Nested
<1> DEFINE s == <<D!Lock[m]>> \o b \o <<D!Unlock[m]>>
           k == Len(b)
           h == [i \in 0 .. Len(s) |-> IF i = 0 \/ i = k + 2 THEN 0 ELSE g[i - 1] + 1]
<1>2. D!Lock[m] \in Steps /\ D!Unlock[m] \in Steps
  BY MutexSteps, StepKinds
<1>8. D!Lock[m] \in Within[m] /\ D!Unlock[m] \in Within[m] /\ D!Lock[m] # D!Unlock[m]
  BY MutexNames
<1>3. /\ s \in Seq(Steps) /\ k \in Nat /\ Len(s) = k + 2 /\ s[1] = D!Lock[m] /\ s[k + 2] = D!Unlock[m]
      /\ \A i \in 2 .. k + 1 : s[i] = b[i - 1]
  BY <1>2, Between
<1>4. g \in [0 .. k -> Nat] /\ g[0] = 0 /\ g[k] = 0
  BY <1>1 DEF Heights
<1>5. /\ h \in [0 .. Len(s) -> Nat] /\ h[0] = 0 /\ h[k + 2] = 0
      /\ \A i \in 1 .. k + 1 : h[i] = g[i - 1] + 1
  <2>1. \A i \in 0 .. k + 2 : i = 0 \/ i = k + 2 \/ i - 1 \in 0 .. k
    BY <1>3
  <2> QED
    BY <1>3, <1>4, <2>1
<1> HIDE DEF s, k, h
<1>6. ASSUME NEW i \in 1 .. Len(s)
      PROVE  /\ s[i] = D!Lock[m] => h[i] = h[i - 1] + 1
             /\ s[i] = D!Unlock[m] => h[i] = h[i - 1] - 1
             /\ s[i] \notin {D!Lock[m], D!Unlock[m]} => h[i] = h[i - 1]
             /\ h[i - 1] > 0 => s[i] \in Within[m]
  <2>1. CASE i = 1
    <3>1. h[i] = 1 /\ h[i - 1] = 0
      BY <1>3, <1>4, <1>5, <2>1
    <3> QED
      BY <1>3, <2>1, <3>1, <1>8
  <2>2. CASE i = k + 2
    <3>1. h[i] = 0 /\ h[i - 1] = 1
      BY <1>3, <1>4, <1>5, <2>2
    <3> QED
      BY <1>3, <2>2, <3>1, <1>8
  <2>3. CASE i \in 2 .. k + 1
    <3>1. i - 1 \in 1 .. k /\ i \in 1 .. k + 1 /\ i - 1 \in 1 .. k + 1
      BY <1>3, <2>3
    <3>2. s[i] = b[i - 1] /\ h[i] = g[i - 1] + 1 /\ h[i - 1] = g[(i - 1) - 1] + 1
      BY <1>3, <1>5, <2>3, <3>1
    <3>3. g[i - 1] \in Nat /\ g[(i - 1) - 1] \in Nat
      BY <1>3, <1>4, <3>1
    <3>4. /\ b[i - 1] = D!Lock[m] => g[i - 1] = g[(i - 1) - 1] + 1
          /\ b[i - 1] = D!Unlock[m] => g[i - 1] = g[(i - 1) - 1] - 1
          /\ b[i - 1] \notin {D!Lock[m], D!Unlock[m]} => g[i - 1] = g[(i - 1) - 1]
          /\ b[i - 1] \in Within[m]
      BY <1>1, <3>1 DEF Heights, k
    <3> QED
      BY SMTT(30), <3>2, <3>3, <3>4
  <2> QED
    BY <1>3, <2>1, <2>2, <2>3
<1>7. Heights(s, m, 0, h)
  BY <1>3, <1>5, <1>6 DEF Heights
<1> QED
  BY <1>7 DEF Nested, s

LEMMA OneStep == ASSUME NEW S, NEW x \in S PROVE <<x>> \in Seq(S)
OBVIOUS

LEMMA TwoSteps ==
    ASSUME NEW S, NEW x \in S, NEW y \in S
    PROVE  <<x, y>> = <<x>> \o <<y>> /\ <<x, y>> \in Seq(S)
<1>1. <<x, y>> \in Seq(S) /\ Len(<<x, y>>) = 2 /\ <<x, y>>[1] = x /\ <<x, y>>[2] = y
  OBVIOUS
<1> DEFINE r == <<x>> \o <<y>>
<1>2. r \in Seq(S) /\ Len(r) = 2 /\ r[1] = x /\ r[2] = y
  <2>1. <<x>> \in Seq(S) /\ <<y>> \in Seq(S) /\ Len(<<x>>) = 1 /\ Len(<<y>>) = 1 /\ <<x>>[1] = x /\ <<y>>[1] = y
    OBVIOUS
  <2> QED
    BY <2>1, Parts
<1> HIDE DEF r
<1>3. \A i \in 1 .. 2 : r[i] = <<x, y>>[i]
  BY <1>1, <1>2
<1>4. r = <<x, y>>
  BY <1>1, <1>2, <1>3, SeqEqual
<1> QED
  BY <1>1, <1>4 DEF r

LEMMA WithinSteps ==
    /\ \A m \in D!Mutexes : Within[m] \subseteq Steps
    /\ CalmSteps \subseteq Within["stream"] /\ Within["capsule"] \subseteq CalmSteps
    /\ "restore" \in Within["stream"] /\ "join" \in Within["stream"] /\ "handler" \in Within["capsule"]
<1>1. {"restore", "join"} \subseteq Steps /\ CalmSteps \subseteq Steps
  BY StepKinds DEF Launch
<1>2. Within["capsule"] \subseteq CalmSteps
  BY MutexNames DEF CalmSteps
<1> QED
  BY <1>1, <1>2, MutexNames DEF D!Mutexes

LEMMA BalancedConcat ==
    ASSUME NEW a \in Seq(Steps), NEW b \in Seq(Steps), Balanced(a), Balanced(b)
    PROVE  a \o b \in Seq(Steps) /\ Balanced(a \o b)
  BY NestedConcat, Parts DEF Balanced

LEMMA BalancedOne ==
    ASSUME NEW x \in {"handler", "shared", "exclusive", "release", "fork", "restore", "join"}
    PROVE  <<x>> \in Seq(Steps) /\ Balanced(<<x>>)
<1>1. x \in Steps
  BY StepKinds DEF Launch, CalmSteps
<1>2. \A m \in D!Mutexes : x \notin {D!Lock[m], D!Unlock[m]}
  BY MutexNames
<1> QED
  BY <1>1, <1>2, NestedOne DEF Balanced

\* A guard around a body that may run under its mutex.
LEMMA BalancedWrap ==
    ASSUME NEW m \in D!Mutexes, NEW b \in Seq(Within[m]), Balanced(b)
    PROVE  Balanced(<<D!Lock[m]>> \o b \o <<D!Unlock[m]>>)
<1>1. b \in Seq(Steps) /\ (\A i \in 1 .. Len(b) : b[i] \in Within[m])
  BY WithinSteps
<1>2. <<D!Lock[m]>> \in Seq(Steps) /\ <<D!Unlock[m]>> \in Seq(Steps)
  <2>1. D!Lock[m] \in Steps /\ D!Unlock[m] \in Steps
    BY MutexSteps, StepKinds
  <2> QED
    BY <2>1
<1>3. <<D!Lock[m]>> \o b \in Seq(Steps)
  BY <1>1, <1>2, Parts
<1>4. ASSUME NEW n \in D!Mutexes, n # m PROVE Nested(<<D!Lock[m]>> \o b \o <<D!Unlock[m]>>, n, 0)
  <2>1. D!Lock[m] \notin {D!Lock[n], D!Unlock[n]} /\ D!Unlock[m] \notin {D!Lock[n], D!Unlock[n]}
    BY <1>4, MutexNames
  <2>2. Nested(<<D!Lock[m]>>, n, 0) /\ Nested(<<D!Unlock[m]>>, n, 0) /\ Nested(b, n, 0)
    BY <2>1, NestedOne DEF Balanced
  <2>3. Nested(<<D!Lock[m]>> \o b, n, 0)
    BY <1>1, <1>2, <2>2, NestedConcat
  <2> QED
    BY <1>2, <1>3, <2>2, <2>3, NestedConcat
<1>5. Nested(<<D!Lock[m]>> \o b \o <<D!Unlock[m]>>, m, 0)
  BY <1>1, NestedWrap DEF Balanced
<1> QED
  BY <1>4, <1>5 DEF Balanced

LEMMA CalmIsWithin == Calm \subseteq Seq(Steps) /\ Calm \subseteq Seq(Within["stream"])
  BY StepKinds, WithinSteps DEF Calm

LEMMA BalancedHandler == Balanced(D!Handler) /\ D!Handler \in Seq(Within["capsule"])
<1>1. "handler" \in Within["capsule"]
  BY WithinSteps
<1>2. Balanced(<<"handler">>)
  BY BalancedOne
<1>3. <<"handler">> \in Seq(Within["capsule"])
  BY <1>1, OneStep
<1> QED
  BY <1>2, <1>3 DEF D!Handler

\* run() may be called with capsule_mutex held, which is recursive.
LEMMA BalancedRun == Balanced(D!Run) /\ D!Run \in Seq(Within["capsule"])
<1>1. "capsule" \in D!Mutexes
  BY DEF D!Mutexes
<1>2. D!Lock["capsule"] \in Within["capsule"] /\ D!Unlock["capsule"] \in Within["capsule"]
  BY <1>1, MutexNames
<1>3. D!Run = <<D!Lock["capsule"]>> \o D!Handler \o <<D!Unlock["capsule"]>>
  BY DEF D!Run
<1> QED
  BY <1>1, <1>2, <1>3, BalancedHandler, BalancedWrap, Between

\* tool_ledger_op, re-entered or not.
LEMMA BalancedGuarded ==
    ASSUME NEW op, NEW b \in Seq(Within["stream"]), Balanced(b) PROVE Balanced(D!Guarded(op, b))
<1>1. "stream" \in D!Mutexes
  BY DEF D!Mutexes
<1>2. D!Guarded(op, b) \in {b, <<D!Lock["stream"]>> \o b \o <<D!Unlock["stream"]>>}
  BY DEF D!Guarded
<1> QED
  BY <1>1, <1>2, BalancedWrap

LEMMA BalancedOps ==
    ASSUME NEW op
    PROVE  Balanced(D!OnCapsules(op)) /\ Balanced(D!Session(op))
<1>1. "capsule" \in D!Mutexes
  BY DEF D!Mutexes
<1> DEFINE b == <<D!Lock["capsule"]>> \o D!Run \o <<D!Unlock["capsule"]>>
<1>2. Balanced(b)
  BY <1>1, BalancedRun, BalancedWrap
<1>3. b \in Calm
  BY <1>1, CalmLocks, CalmRun, CalmConcat
<1>4. D!OnCapsules(op) = D!Guarded(op, b)
  BY DEF D!OnCapsules
<1> HIDE DEF b
<1>5. Balanced(D!OnCapsules(op))
  BY <1>2, <1>3, <1>4, BalancedGuarded, CalmIsWithin
<1>6. Balanced(D!Guarded(op, D!Run))
  BY BalancedRun, CalmRun, BalancedGuarded, CalmIsWithin
<1>7. Balanced(D!Session(op))
  BY <1>6, BalancedHandler, CalmHandler, CalmRun, CalmGuarded, CalmIsWithin, BalancedConcat DEF D!Session
<1> QED
  BY <1>5, <1>7

LEMMA BalancedCalm ==
    ASSUME NEW a \in Calm, NEW b \in Calm, Balanced(a), Balanced(b) PROVE a \o b \in Calm /\ Balanced(a \o b)
  BY CalmConcat, CalmIsWithin, BalancedConcat

LEMMA BalancedStream == Balanced(D!StreamClaim) /\ Balanced(D!StreamHandoff)
<1>1. \A op : /\ D!Guarded(op, D!Run) \in Calm /\ Balanced(D!Guarded(op, D!Run))
              /\ D!Session(op) \in Calm /\ Balanced(D!Session(op))
  BY CalmRun, CalmGuarded, CalmOps, BalancedOps, BalancedRun, BalancedGuarded, CalmIsWithin
<1>2. \A b \in Calm : Balanced(b) => \A op : Balanced(D!Guarded(op, b))
  BY BalancedGuarded, CalmIsWithin
<1>3. D!Run \in Calm /\ D!Handler \in Calm /\ Balanced(D!Run) /\ Balanced(D!Handler)
  BY CalmRun, CalmHandler, BalancedRun, BalancedHandler
<1>4. LET b == D!Run \o D!Session("session_bind") \o D!Session("session_touch") IN b \in Calm /\ Balanced(b)
  BY <1>1, <1>3, BalancedCalm
<1>5. LET b == D!Run \o D!Handler \o D!Guarded("session_touch", D!Run) \o D!Run IN b \in Calm /\ Balanced(b)
  BY <1>1, <1>3, BalancedCalm
<1> QED
  BY <1>2, <1>4, <1>5 DEF D!StreamClaim, D!StreamHandoff

LEMMA BalancedAsync == \A l \in D!Lanes : Balanced(D!Async[l])
<1>1. \A op : Balanced(D!Guarded(op, D!Run)) /\ Balanced(D!Guarded(op, D!Handler))
  BY CalmRun, CalmHandler, BalancedRun, BalancedHandler, BalancedGuarded, CalmIsWithin
<1> QED
  BY <1>1, BalancedHandler, BalancedOps DEF D!Async, D!Lanes

LEMMA BalancedLocked ==
    ASSUME NEW b \in Seq(Steps), Balanced(b) PROVE Balanced(D!Shared(b)) /\ Balanced(D!Exclusive(b))
<1>1. \A x \in {"shared", "exclusive", "release"} : <<x>> \in Seq(Steps) /\ Balanced(<<x>>)
  BY BalancedOne
<1>2. \A x \in {"shared", "exclusive"} : <<x>> \o b \in Seq(Steps) /\ Balanced(<<x>> \o b)
  BY <1>1, BalancedConcat
<1> QED
  BY <1>1, <1>2, BalancedConcat DEF D!Shared, D!Exclusive

\* Every request releases every mutex it takes, in this order of nesting.
LEMMA BalancedRequests == \A op \in DOMAIN D!Requests : Balanced(D!Requests[op])
<1>1. \A b \in Calm : Balanced(b) => Balanced(D!Shared(b)) /\ Balanced(D!Exclusive(b))
  BY BalancedLocked, CalmIsWithin
<1>2. \A op : /\ D!Guarded(op, D!Run) \in Calm /\ Balanced(D!Guarded(op, D!Run))
              /\ D!Guarded(op, D!Handler) \in Calm /\ Balanced(D!Guarded(op, D!Handler))
              /\ D!Session(op) \in Calm /\ Balanced(D!Session(op))
              /\ D!OnCapsules(op) \in Calm /\ Balanced(D!OnCapsules(op))
  BY CalmRun, CalmHandler, CalmGuarded, CalmOps, BalancedOps, BalancedRun, BalancedHandler, BalancedGuarded, CalmIsWithin
<1>3. D!Handler \in Calm /\ Balanced(D!Handler) /\ Balanced(D!Distillation)
  <2>1. D!Exclusive(D!Handler) \in Seq(Steps)
    BY CalmHandler, CalmIsWithin, Between, StepKinds DEF D!Exclusive
  <2> QED
    BY <1>1, <2>1, CalmHandler, BalancedHandler, CalmIsWithin, BalancedConcat DEF D!Distillation
<1>4. Balanced(D!Shared(D!SessionStart))
  <2>1. D!SessionStart = D!Guarded("session_get", D!Run) \o (<<"fork">> \o <<"join">>)
    BY DEF D!SessionStart, D!Guarded
  <2>2. <<"fork">> \o <<"join">> \in Seq(Steps) /\ Balanced(<<"fork">> \o <<"join">>)
    BY BalancedOne, BalancedConcat
  <2>3. D!SessionStart \in Seq(Steps) /\ Balanced(D!SessionStart)
    BY <1>2, <2>1, <2>2, CalmIsWithin, BalancedConcat
  <2> QED
    BY <2>3, BalancedLocked
<1>5. Balanced(D!Shared(D!CompactRestore))
  <2> DEFINE b == D!Handler \o (<<"restore">> \o <<"join">>)
  <2>0. <<"restore", "join">> = <<"restore">> \o <<"join">> /\ <<"restore", "join">> \in Seq(Within["stream"])
    BY WithinSteps, TwoSteps
  <2>1. D!CompactRestore = D!Guarded("hook_compact_restore", b)
    BY <2>0 DEF D!CompactRestore
  <2>2. <<"restore">> \o <<"join">> \in Seq(Steps) /\ Balanced(<<"restore">> \o <<"join">>)
    BY BalancedOne, BalancedConcat
  <2>3. b \in Seq(Steps) /\ Balanced(b)
    BY <1>3, <2>2, CalmIsWithin, BalancedConcat
  <2>4. b \in Seq(Within["stream"])
    <3>1. D!Handler \in Seq(Within["stream"])
      BY CalmHandler, CalmIsWithin
    <3>2. <<"restore">> \o <<"join">> \in Seq(Within["stream"])
      BY <2>0
    <3> QED
      BY <3>1, <3>2, Parts
  <2> HIDE DEF b
  <2>5. Balanced(D!CompactRestore)
    BY <2>1, <2>3, <2>4, BalancedGuarded
  <2>6. D!CompactRestore \in Seq(Steps)
    <3>1. D!CompactRestore = <<D!Lock["stream"]>> \o b \o <<D!Unlock["stream"]>>
      BY <2>1 DEF D!Guarded
    <3> QED
      BY <2>3, <3>1, Between, MutexSteps, StepKinds DEF D!Mutexes
  <2> QED
    BY <2>5, <2>6, BalancedLocked
<1>6. /\ Balanced(D!Requests["distill_now"]) /\ Balanced(D!Requests["hook_session_start"])
      /\ Balanced(D!Requests["hook_compact_restore"])
  BY <1>3, <1>4, <1>5 DEF D!Requests
<1>7. /\ Balanced(D!Requests["recall"]) /\ Balanced(D!Requests["get"]) /\ Balanced(D!Requests["remember"])
  BY <1>1, <1>3 DEF D!Requests
<1>8. /\ Balanced(D!Requests["session_get"]) /\ Balanced(D!Requests["session_register"])
      /\ Balanced(D!Requests["hook_apply"])
  BY <1>1, <1>2 DEF D!Requests
<1>9. /\ Balanced(D!Requests["stream_claim"]) /\ Balanced(D!Requests["stream_handoff"])
  BY <1>1, CalmStream, BalancedStream DEF D!Requests
<1>10. /\ Balanced(D!Requests["capsule_save"]) /\ Balanced(D!Requests["hook_handoff_context"])
  BY <1>1, <1>2 DEF D!Requests
<1>11. DOMAIN D!Requests =
        {"recall", "get", "remember", "distill_now", "session_get", "session_register", "hook_apply",
         "stream_claim", "stream_handoff", "capsule_save", "hook_handoff_context",
         "hook_session_start", "hook_compact_restore"}
  BY DEF D!Requests
<1> QED
  BY <1>6, <1>7, <1>8, <1>9, <1>10, <1>11

-------------------------------------------------------------------------------
\* How many times a thread holds a mutex.
DepthOf(p, m) == IF owner[m] = p THEN depth[m] ELSE 0

\* A thread holds a mutex exactly as often as it has still to unlock it.
MutexInv ==
    /\ owner \in [D!Mutexes -> D!Procs \cup {D!None}] /\ depth \in [D!Mutexes -> Nat]
    /\ \A m \in D!Mutexes : owner[m] = D!None <=> depth[m] = 0
    /\ \A p \in D!Procs, m \in D!Mutexes : Nested(code[p], m, DepthOf(p, m))

\* The lanes of a thread that holds stream_mutex take no mutex.
LanesHarmless ==
    \A t \in Threads, l \in D!Lanes :
        owner["stream"] = D!Main(t) => code[<<t, l>>] = <<>> \/ code[<<t, l>>] = D!Handler

LocksInv == RequestsInv /\ MutexInv /\ LanesHarmless

LEMMA NoneIsNoProc == D!None \notin D!Procs
  BY DEF D!None, D!Procs, D!Lanes

\* What is left for a thread that is done releases nothing: it holds nothing.
LEMMA IdleOwnsNothing ==
    ASSUME MutexInv, NEW p \in D!Procs, D!Idle(p), NEW m \in D!Mutexes
    PROVE  owner[m] # p /\ DepthOf(p, m) = 0
<1>1. Nested(<<>>, m, DepthOf(p, m))
  BY DEF MutexInv, D!Idle
<1>2. DepthOf(p, m) = 0
  BY <1>1, NestedEmpty
<1>3. owner[m] # p
  BY <1>2, NoneIsNoProc DEF DepthOf, MutexInv
<1> QED
  BY <1>2, <1>3

\* The mutexes at one step of a thread.
LEMMA HeadNested ==
    ASSUME MutexInv, CodeShape, NEW p \in D!Procs, NEW x, D!At(p, x), NEW m \in D!Mutexes
    PROVE  /\ DepthOf(p, m) \in Nat /\ (DepthOf(p, m) > 0 => x \in Within[m])
           /\ x = D!Lock[m] => Nested(Tail(code[p]), m, DepthOf(p, m) + 1)
           /\ x = D!Unlock[m] => DepthOf(p, m) > 0 /\ Nested(Tail(code[p]), m, DepthOf(p, m) - 1)
           /\ x \notin {D!Lock[m], D!Unlock[m]} => Nested(Tail(code[p]), m, DepthOf(p, m))
<1> DEFINE d == DepthOf(p, m)
           s == code[p]
<1>1. s \in Seq(Steps) /\ s # <<>> /\ s[1] = x /\ Nested(s, m, d)
  BY CodeFacts DEF MutexInv, D!At
<1> HIDE DEF d, s
<1>2. d \in Nat /\ (d > 0 => x \in Within[m])
  BY <1>1, NestedTail
<1>3. PICK e \in Nat :
        /\ Nested(Tail(s), m, e)
        /\ x = D!Lock[m] => e = d + 1
        /\ x = D!Unlock[m] => e = d - 1
        /\ x \notin {D!Lock[m], D!Unlock[m]} => e = d
  BY <1>1, NestedTail
<1>4. x = D!Unlock[m] => d > 0
  BY <1>2, <1>3
<1> QED
  BY <1>2, <1>3, <1>4 DEF d, s

LEMMA MutexAdvance ==
    ASSUME MutexInv, CodeShape, NEW p \in D!Procs, NEW x, D!At(p, x), D!Advance(p),
           \A m \in D!Mutexes : x \notin {D!Lock[m], D!Unlock[m]}, UNCHANGED <<owner, depth>>
    PROVE  MutexInv'
<1>1. /\ code'[p] = Tail(code[p]) /\ \A q \in D!Procs : q # p => code'[q] = code[q]
  BY Advanced DEF D!At
<1>2. ASSUME NEW q \in D!Procs, NEW m \in D!Mutexes PROVE Nested(code'[q], m, DepthOf(q, m))
  <2>1. CASE q = p
    BY <1>1, <2>1, HeadNested
  <2>2. CASE q # p
    BY <1>1, <2>2 DEF MutexInv
  <2> QED
    BY <2>1, <2>2
<1>3. \A q, m : DepthOf(q, m)' = DepthOf(q, m)
  BY DEF DepthOf
<1> QED
  BY <1>2, <1>3 DEF MutexInv

LEMMA LockMutexKeeps ==
    ASSUME MutexInv, CodeShape, NEW p \in D!Procs, D!LockMutex(p)
    PROVE  MutexInv'
<1>1. PICK n \in D!Mutexes :
        /\ D!At(p, D!Lock[n]) /\ owner[n] \in {D!None, p} /\ D!Advance(p)
        /\ owner' = [owner EXCEPT ![n] = p] /\ depth' = [depth EXCEPT ![n] = @ + 1]
  BY DEF D!LockMutex
<1>2. /\ code'[p] = Tail(code[p]) /\ \A q \in D!Procs : q # p => code'[q] = code[q]
  BY <1>1, Advanced DEF D!At
<1>3. /\ owner' \in [D!Mutexes -> D!Procs \cup {D!None}] /\ depth' \in [D!Mutexes -> Nat]
      /\ owner'[n] = p /\ depth'[n] = depth[n] + 1 /\ depth[n] \in Nat
      /\ \A m \in D!Mutexes : m # n => owner'[m] = owner[m] /\ depth'[m] = depth[m]
  BY <1>1 DEF MutexInv
<1>4. depth[n] = DepthOf(p, n) /\ p # D!None
  BY <1>1, NoneIsNoProc DEF MutexInv, DepthOf
<1>5. \A m \in D!Mutexes : owner'[m] = D!None <=> depth'[m] = 0
  BY <1>3, <1>4 DEF MutexInv
<1>6. ASSUME NEW q \in D!Procs, NEW m \in D!Mutexes PROVE Nested(code'[q], m, DepthOf(q, m)')
  <2>1. CASE q # p
    <3>1. DepthOf(q, m)' = DepthOf(q, m)
      BY <1>1, <1>3, <1>4, <2>1, NoneIsNoProc DEF DepthOf
    <3> QED
      BY <1>2, <2>1, <3>1 DEF MutexInv
  <2>2. CASE q = p /\ m = n
    <3>1. DepthOf(p, n)' = DepthOf(p, n) + 1
      BY <1>3, <1>4 DEF DepthOf
    <3> QED
      BY <1>1, <1>2, <2>2, <3>1, HeadNested
  <2>3. CASE q = p /\ m # n
    <3>1. DepthOf(p, m)' = DepthOf(p, m)
      BY <1>3, <2>3 DEF DepthOf
    <3>2. D!Lock[n] \notin {D!Lock[m], D!Unlock[m]}
      BY <2>3, MutexNames
    <3> QED
      BY <1>1, <1>2, <2>3, <3>1, <3>2, HeadNested
  <2> QED
    BY <2>1, <2>2, <2>3
<1> QED
  BY <1>3, <1>5, <1>6 DEF MutexInv

LEMMA UnlockMutexKeeps ==
    ASSUME MutexInv, CodeShape, NEW p \in D!Procs, D!UnlockMutex(p)
    PROVE  MutexInv'
<1>1. PICK n \in D!Mutexes :
        /\ D!At(p, D!Unlock[n]) /\ D!Advance(p)
        /\ depth' = [depth EXCEPT ![n] = @ - 1]
        /\ owner' = [owner EXCEPT ![n] = IF depth[n] = 1 THEN D!None ELSE p]
  BY DEF D!UnlockMutex
<1>2. /\ code'[p] = Tail(code[p]) /\ \A q \in D!Procs : q # p => code'[q] = code[q]
  BY <1>1, Advanced DEF D!At
<1>4. owner[n] = p /\ depth[n] = DepthOf(p, n) /\ depth[n] \in Nat \ {0} /\ p # D!None
  <2>1. DepthOf(p, n) > 0 /\ DepthOf(p, n) \in Nat
    BY <1>1, HeadNested
  <2> QED
    BY <2>1, NoneIsNoProc DEF DepthOf
<1>3. /\ owner' \in [D!Mutexes -> D!Procs \cup {D!None}] /\ depth' \in [D!Mutexes -> Nat]
      /\ owner'[n] = (IF depth[n] = 1 THEN D!None ELSE p) /\ depth'[n] = depth[n] - 1
      /\ \A m \in D!Mutexes : m # n => owner'[m] = owner[m] /\ depth'[m] = depth[m]
  BY <1>1, <1>4 DEF MutexInv
<1>5. \A m \in D!Mutexes : owner'[m] = D!None <=> depth'[m] = 0
  BY <1>3, <1>4 DEF MutexInv
<1>6. ASSUME NEW q \in D!Procs, NEW m \in D!Mutexes PROVE Nested(code'[q], m, DepthOf(q, m)')
  <2>1. CASE q # p
    <3>1. DepthOf(q, m)' = DepthOf(q, m)
      BY <1>3, <1>4, <2>1, NoneIsNoProc DEF DepthOf
    <3> QED
      BY <1>2, <2>1, <3>1 DEF MutexInv
  <2>2. CASE q = p /\ m = n
    <3>1. DepthOf(p, n)' = DepthOf(p, n) - 1
      BY <1>3, <1>4 DEF DepthOf
    <3> QED
      BY <1>1, <1>2, <2>2, <3>1, HeadNested
  <2>3. CASE q = p /\ m # n
    <3>1. DepthOf(p, m)' = DepthOf(p, m)
      BY <1>3, <2>3 DEF DepthOf
    <3>2. D!Unlock[n] \notin {D!Lock[m], D!Unlock[m]}
      BY <2>3, MutexNames
    <3> QED
      BY <1>1, <1>2, <2>3, <3>1, <3>2, HeadNested
  <2> QED
    BY <2>1, <2>2, <2>3
<1> QED
  BY <1>3, <1>5, <1>6 DEF MutexInv

\* An exception unlocks whatever the thread holds.
LEMMA ThrowKeeps ==
    ASSUME MutexInv, CodeShape, NEW p \in D!Procs, D!Throw(p)
    PROVE  MutexInv'
<1>1. /\ D!At(p, "handler") /\ code' = [code EXCEPT ![p] = D!Unwound(@)]
      /\ owner' = [m \in D!Mutexes |-> IF owner[m] = p THEN D!None ELSE owner[m]]
      /\ depth' = [m \in D!Mutexes |-> IF owner[m] = p THEN 0 ELSE depth[m]]
  BY DEF D!Throw
<1>2. code[p] # <<>> /\ code[p][1] = "handler"
  BY <1>1, CodeFacts DEF D!At
<1>3. D!Unwound(code[p]) \in {<<>>, <<"release">>}
  <2>1. CASE \E t \in Threads : p = D!Main(t)
    BY <1>2, <2>1, UnwoundFacts DEF CodeShape
  <2>2. CASE \E t \in Threads, l \in D!Lanes : p = <<t, l>>
    BY <2>2, UnwoundCalm DEF CodeShape
  <2> QED
    BY <2>1, <2>2, ProcFacts
<1>4. \A m \in D!Mutexes : Nested(<<>>, m, 0) /\ Nested(<<"release">>, m, 0)
  BY NestedEmpty, BalancedOne DEF Balanced
<1>5. code'[p] = D!Unwound(code[p]) /\ \A q \in D!Procs : q # p => code'[q] = code[q]
  BY <1>1 DEF CodeShape
<1>6. /\ owner' \in [D!Mutexes -> D!Procs \cup {D!None}] /\ depth' \in [D!Mutexes -> Nat]
      /\ \A m \in D!Mutexes : owner'[m] = D!None <=> depth'[m] = 0
  BY <1>1 DEF MutexInv
<1>7. ASSUME NEW q \in D!Procs, NEW m \in D!Mutexes PROVE Nested(code'[q], m, DepthOf(q, m)')
  <2>1. CASE q = p
    <3>1. DepthOf(p, m)' = 0
      BY <1>1, NoneIsNoProc DEF DepthOf
    <3> QED
      BY <1>3, <1>4, <1>5, <2>1, <3>1
  <2>2. CASE q # p
    <3>1. DepthOf(q, m)' = DepthOf(q, m)
      BY <1>1, <2>2, NoneIsNoProc DEF DepthOf
    <3> QED
      BY <1>5, <2>2, <3>1 DEF MutexInv
  <2> QED
    BY <2>1, <2>2
<1> QED
  BY <1>6, <1>7 DEF MutexInv

\* Code given to threads that had none.
LEMMA StartedKeeps ==
    ASSUME MutexInv, NEW S \in SUBSET D!Procs, \A p \in S : D!Idle(p),
           \A p \in S : Balanced(code'[p]), UNCHANGED <<owner, depth>>,
           \A p \in D!Procs \ S : \A m \in D!Mutexes : Nested(code'[p], m, DepthOf(p, m))
    PROVE  MutexInv'
<1>1. \A p, m : DepthOf(p, m)' = DepthOf(p, m)
  BY DEF DepthOf
<1>2. ASSUME NEW p \in D!Procs, NEW m \in D!Mutexes PROVE Nested(code'[p], m, DepthOf(p, m))
  <2>1. CASE p \in S
    BY <2>1, IdleOwnsNothing DEF Balanced
  <2> QED
    BY <2>1
<1> QED
  BY <1>1, <1>2 DEF MutexInv

\* A step of one thread: a lane that takes no mutex ends, and who takes stream_mutex has
\* no lanes.
LEMMA HarmlessStep ==
    ASSUME LocksInv, NEW p \in D!Procs, ~D!Idle(p),
           \A q \in D!Procs : q # p => code'[q] = code[q],
           code[p] = D!Handler => code'[p] = <<>>,
           \A t \in Threads : owner'["stream"] = D!Main(t) =>
              owner["stream"] = D!Main(t) \/ (p = D!Main(t) /\ \A l \in D!Lanes : D!Idle(<<t, l>>))
    PROVE  LanesHarmless'
<1> SUFFICES ASSUME NEW t \in Threads, NEW l \in D!Lanes, owner'["stream"] = D!Main(t)
             PROVE  code'[<<t, l>>] = <<>> \/ code'[<<t, l>>] = D!Handler
  BY DEF LanesHarmless
<1>1. code[<<t, l>>] = <<>> \/ code[<<t, l>>] = D!Handler
  BY DEF LocksInv, LanesHarmless, D!Idle
<1>2. CASE p = <<t, l>>
  BY <1>1, <1>2 DEF D!Idle
<1>3. CASE p # <<t, l>>
  BY <1>1, <1>3, ProcFacts
<1> QED
  BY <1>2, <1>3

LEMMA TailOfHandler == D!Handler # <<>> /\ Tail(D!Handler) = <<>> /\ Head(D!Handler) = "handler"
  BY DEF D!Handler

\* A step that moves on and leaves the mutexes alone.
LEMMA AdvanceKeeps ==
    ASSUME LocksInv, NEW p \in D!Procs, NEW x, D!At(p, x), D!Advance(p),
           x \in {"handler", "shared", "exclusive", "release", "fork", "restore", "join"},
           UNCHANGED <<owner, depth>>
    PROVE  MutexInv' /\ LanesHarmless'
<1>1. CodeShape /\ ~D!Idle(p) /\ \A m \in D!Mutexes : x \notin {D!Lock[m], D!Unlock[m]}
  BY MutexNames DEF LocksInv, RequestsInv, D!At
<1>2. MutexInv'
  BY <1>1, MutexAdvance DEF LocksInv
<1>3. code'[p] = Tail(code[p]) /\ \A q \in D!Procs : q # p => code'[q] = code[q]
  BY <1>1, Advanced
<1>4. LanesHarmless'
  BY <1>1, <1>3, TailOfHandler, HarmlessStep
<1> QED
  BY <1>2, <1>4

LEMMA MutexStepsKeep ==
    ASSUME LocksInv, NEW p \in D!Procs, D!LockMutex(p) \/ D!UnlockMutex(p)
    PROVE  MutexInv' /\ LanesHarmless'
<1>1. CodeShape /\ MutexInv'
  BY LockMutexKeeps, UnlockMutexKeeps DEF LocksInv, RequestsInv
<1>2. PICK n \in D!Mutexes : D!At(p, D!Lock[n]) \/ D!At(p, D!Unlock[n])
  BY DEF D!LockMutex, D!UnlockMutex
<1>3. D!Advance(p) /\ ~D!Idle(p)
  BY DEF D!LockMutex, D!UnlockMutex, D!At
<1>4. code'[p] = Tail(code[p]) /\ \A q \in D!Procs : q # p => code'[q] = code[q]
  BY <1>1, <1>3, Advanced
<1>5. ASSUME NEW t \in Threads, owner'["stream"] = D!Main(t)
      PROVE  owner["stream"] = D!Main(t) \/ (p = D!Main(t) /\ \A l \in D!Lanes : D!Idle(<<t, l>>))
  <2>1. CASE p = D!Main(t)
    <3>1. D!Lock[n] # "join" /\ D!Unlock[n] # "join"
      BY MutexNames
    <3>2. \A l \in D!Lanes : D!Idle(<<t, l>>)
      BY <1>2, <2>1, <3>1, LanesIdle DEF LocksInv
    <3> QED
      BY <2>1, <3>2
  <2>2. CASE p # D!Main(t)
    <3>1. "stream" \in D!Mutexes /\ owner \in [D!Mutexes -> D!Procs \cup {D!None}]
      BY DEF D!Mutexes, LocksInv, MutexInv
    <3>2. owner["stream"] = owner'["stream"] \/ owner'["stream"] \in {p, D!None}
      <4>1. PICK k \in D!Mutexes, v \in {p, D!None} : owner' = [owner EXCEPT ![k] = v]
        BY DEF D!LockMutex, D!UnlockMutex
      <4> QED
        BY <3>1, <4>1
    <3> QED
      BY <1>5, <2>2, <3>2, ProcFacts
  <2> QED
    BY <2>1, <2>2
<1> QED
  BY <1>1, <1>3, <1>4, <1>5, TailOfHandler, HarmlessStep

LEMMA ThrowStep ==
    ASSUME LocksInv, NEW p \in D!Procs, D!Throw(p)
    PROVE  MutexInv' /\ LanesHarmless'
<1>1. CodeShape /\ MutexInv'
  BY ThrowKeeps DEF LocksInv, RequestsInv
<1>2. /\ D!At(p, "handler") /\ code' = [code EXCEPT ![p] = D!Unwound(@)]
      /\ owner' = [m \in D!Mutexes |-> IF owner[m] = p THEN D!None ELSE owner[m]]
  BY DEF D!Throw
<1>3. ~D!Idle(p) /\ \A q \in D!Procs : q # p => code'[q] = code[q]
  BY <1>1, <1>2 DEF D!At, CodeShape
<1>4. code[p] = D!Handler => code'[p] = <<>>
  BY <1>1, <1>2, UnwoundCalm, CalmHandler DEF CodeShape
<1>5. \A t \in Threads : owner'["stream"] = D!Main(t) => owner["stream"] = D!Main(t)
  <2>1. "stream" \in D!Mutexes
    BY DEF D!Mutexes
  <2> QED
    BY <1>2, <2>1, ProcFacts
<1> QED
  BY <1>1, <1>3, <1>4, <1>5, HarmlessStep

LEMMA CallKeeps ==
    ASSUME LocksInv, NEW t \in Threads, NEW op \in DOMAIN D!Requests, D!Call(t, op)
    PROVE  MutexInv' /\ LanesHarmless'
<1> DEFINE p == D!Main(t)
<1>1. D!Idle(p) /\ UNCHANGED <<owner, depth>> /\ code' = [code EXCEPT ![p] = D!Requests[op]]
  BY DEF D!Call, D!locks
<1>2. /\ p \in D!Procs /\ code'[p] = D!Requests[op] /\ \A q \in D!Procs : q # p => code'[q] = code[q]
  BY <1>1, ProcFacts DEF LocksInv, RequestsInv, CodeShape
<1>3. MutexInv'
  <2>1. {p} \in SUBSET D!Procs /\ \A q \in {p} : D!Idle(q) /\ Balanced(code'[q])
    BY <1>1, <1>2, BalancedRequests
  <2>2. \A q \in D!Procs \ {p} : \A m \in D!Mutexes : Nested(code'[q], m, DepthOf(q, m))
    BY <1>2 DEF LocksInv, MutexInv
  <2>3. MutexInv /\ UNCHANGED <<owner, depth>>
    BY <1>1 DEF LocksInv
  <2> HIDE DEF p
  <2> QED
    BY <2>1, <2>2, <2>3, StartedKeeps
<1>4. LanesHarmless'
  BY <1>1, <1>2, ProcFacts DEF LocksInv, LanesHarmless
<1> QED
  BY <1>3, <1>4

LEMMA ForkKeeps ==
    ASSUME LocksInv, NEW p \in D!Procs, D!Fork(p)
    PROVE  MutexInv' /\ LanesHarmless'
<1>1. /\ D!At(p, "fork") /\ UNCHANGED <<owner, depth>>
      /\ code' = [q \in D!Procs |-> IF q = p THEN Tail(code[p])
                                    ELSE IF q \in D!Children(p) THEN D!Async[q[2]] ELSE code[q]]
  BY DEF D!Fork, D!locks
<1>2. PICK t \in Threads : p = D!Main(t)
  BY <1>1, MainKinds DEF LocksInv, RequestsInv, CalmSteps
<1>3. D!Children(p) = {<<t, l>> : l \in D!Lanes} /\ D!Children(p) \in SUBSET D!Procs /\ p \notin D!Children(p)
  BY <1>2, ProcFacts DEF D!Children, D!Main
<1>4. \A q \in D!Children(p) : D!Idle(q) /\ Balanced(code'[q])
  <2>1. \A l \in D!Lanes : D!Idle(<<t, l>>)
    BY <1>1, <1>2, LanesIdle DEF LocksInv
  <2>2. \A l \in D!Lanes : code'[<<t, l>>] = D!Async[l]
    BY <1>1, <1>3
  <2> QED
    BY <1>3, <2>1, <2>2, BalancedAsync
<1>5. \A m \in D!Mutexes : /\ DepthOf(p, m) > 0 => "fork" \in Within[m]
                           /\ DepthOf(p, m) \in Nat /\ Nested(Tail(code[p]), m, DepthOf(p, m))
  BY <1>1, HeadNested, MutexNames DEF LocksInv, RequestsInv
<1>6. MutexInv'
  <2>1. \A q \in D!Procs \ D!Children(p) : \A m \in D!Mutexes : Nested(code'[q], m, DepthOf(q, m))
    BY <1>1, <1>5 DEF LocksInv, MutexInv
  <2> QED
    BY <1>1, <1>3, <1>4, <2>1, StartedKeeps DEF LocksInv
<1>7. owner["stream"] # p
  <2>1. "fork" \notin Within["stream"] /\ "stream" \in D!Mutexes
    BY MutexNames DEF CalmSteps, D!Mutexes
  <2>2. DepthOf(p, "stream") = 0
    BY <1>5, <2>1
  <2> QED
    BY <2>1, <2>2, NoneIsNoProc DEF DepthOf, LocksInv, MutexInv
<1>8. LanesHarmless'
  <2> SUFFICES ASSUME NEW u \in Threads, NEW l \in D!Lanes, owner["stream"] = D!Main(u)
               PROVE  code'[<<u, l>>] = code[<<u, l>>]
    BY <1>1 DEF LocksInv, LanesHarmless
  <2>1. u # t
    BY <1>2, <1>7
  <2>2. <<u, l>> \notin D!Children(p) /\ <<u, l>> # p /\ <<u, l>> \in D!Procs
    BY <1>2, <1>3, <2>1, ProcFacts
  <2> QED
    BY <1>1, <2>2
<1> QED
  BY <1>6, <1>8

LEMMA ForkRestoreKeeps ==
    ASSUME LocksInv, NEW p \in D!Procs, D!ForkRestore(p)
    PROVE  MutexInv' /\ LanesHarmless'
<1>1. /\ D!At(p, "restore") /\ UNCHANGED <<owner, depth>>
      /\ code' = [code EXCEPT ![p] = Tail(@), ![<<p[1], "recall">>] = D!Handler]
  BY DEF D!ForkRestore, D!locks
<1>2. PICK t \in Threads : p = D!Main(t)
  BY <1>1, MainKinds DEF LocksInv, RequestsInv, CalmSteps
<1> DEFINE r == <<t, "recall">>
<1>3. "recall" \in D!Lanes /\ p[1] = t
  BY <1>2 DEF D!Lanes, D!Main
<1>4. r \in D!Procs /\ r # p
  BY <1>2, <1>3, ProcFacts
<1>5. /\ code'[p] = Tail(code[p]) /\ code'[r] = D!Handler
      /\ \A q \in D!Procs : q # p /\ q # r => code'[q] = code[q]
  BY <1>1, <1>3, <1>4 DEF LocksInv, RequestsInv, CodeShape
<1>6. \A l \in D!Lanes : D!Idle(<<t, l>>)
  BY <1>1, <1>2, LanesIdle DEF LocksInv
<1>7. \A m \in D!Mutexes : Nested(Tail(code[p]), m, DepthOf(p, m))
  BY <1>1, HeadNested, MutexNames DEF LocksInv, RequestsInv
<1>8. MutexInv'
  <2>1. {r} \in SUBSET D!Procs /\ \A q \in {r} : D!Idle(q) /\ Balanced(code'[q])
    BY <1>3, <1>4, <1>5, <1>6, BalancedHandler
  <2>2. \A q \in D!Procs \ {r} : \A m \in D!Mutexes : Nested(code'[q], m, DepthOf(q, m))
    BY <1>5, <1>7 DEF LocksInv, MutexInv
  <2>3. MutexInv /\ UNCHANGED <<owner, depth>>
    BY <1>1 DEF LocksInv
  <2> HIDE DEF r
  <2> QED
    BY <2>1, <2>2, <2>3, StartedKeeps
<1>9. LanesHarmless'
  <2> SUFFICES ASSUME NEW u \in Threads, NEW l \in D!Lanes, owner["stream"] = D!Main(u)
               PROVE  code'[<<u, l>>] = <<>> \/ code'[<<u, l>>] = D!Handler
    BY <1>1 DEF LanesHarmless
  <2>1. <<u, l>> # p /\ <<u, l>> \in D!Procs
    BY <1>2, ProcFacts
  <2> QED
    BY <1>5, <2>1 DEF LocksInv, LanesHarmless
<1> QED
  BY <1>8, <1>9

LEMMA InitKeeps == D!Init => LocksInv
<1> SUFFICES ASSUME D!Init PROVE LocksInv
  OBVIOUS
<1>1. /\ code = [p \in D!Procs |-> <<>>]
      /\ owner = [m \in D!Mutexes |-> D!None] /\ depth = [m \in D!Mutexes |-> 0]
  BY DEF D!Init
<1>2. \A p \in D!Procs, m \in D!Mutexes : Nested(code[p], m, DepthOf(p, m))
  BY <1>1, NestedEmpty, NoneIsNoProc DEF DepthOf
<1>3. MutexInv
  BY <1>1, <1>2 DEF MutexInv
<1>4. LanesHarmless
  BY <1>1, ProcFacts DEF LanesHarmless
<1> QED
  BY <1>3, <1>4, InitSafe DEF LocksInv

\* Every step keeps the invariant of the mutexes as well.
LEMMA NextKeeps == ASSUME LocksInv, [D!Next]_(D!vars) PROVE LocksInv'
<1>0. RequestsInv'
  BY NextSafe DEF LocksInv
<1> SUFFICES MutexInv' /\ LanesHarmless'
  BY <1>0 DEF LocksInv
<1>1. CASE UNCHANGED D!vars
  <2>1. UNCHANGED <<code, owner, depth>>
    BY <1>1 DEF D!vars, D!config, D!locks
  <2> QED
    BY <2>1 DEF LocksInv, MutexInv, LanesHarmless, DepthOf
<1>2. CASE \E t \in Threads, op \in DOMAIN D!Requests : D!Call(t, op)
  BY <1>2, CallKeeps
<1>3. ASSUME NEW p \in D!Procs, D!Move(p) PROVE MutexInv' /\ LanesHarmless'
  <2>1. CASE D!LockShared(p)
    BY <2>1, AdvanceKeeps DEF D!LockShared
  <2>2. CASE D!LockExclusive(p)
    BY <2>2, AdvanceKeeps DEF D!LockExclusive
  <2>3. CASE D!Release(p)
    BY <2>3, AdvanceKeeps DEF D!Release
  <2>4. CASE D!LockMutex(p) \/ D!UnlockMutex(p)
    BY <2>4, MutexStepsKeep
  <2>5. CASE D!Handle(p)
    BY <2>5, AdvanceKeeps DEF D!Handle, D!locks
  <2>6. CASE D!Join(p)
    BY <2>6, AdvanceKeeps DEF D!Join, D!locks
  <2>7. CASE D!Throw(p) \/ D!Fork(p) \/ D!ForkRestore(p)
    BY <2>7, ThrowStep, ForkKeeps, ForkRestoreKeeps
  <2> QED
    BY <1>3, <2>1, <2>2, <2>3, <2>4, <2>5, <2>6, <2>7 DEF D!Move
<1> QED
  BY <1>1, <1>2, <1>3 DEF D!Next, D!RequestStep, D!Procs

\* What a thread has still to do releases what it holds of the recursive mutexes, holds
\* them in one order, and only a hook_compact_restore joins with stream_mutex held, for a
\* query that takes no mutex.
THEOREM LocksInvHolds == D!Spec => []LocksInv
  BY InitKeeps, NextKeeps, PTL DEF D!Spec

LEMMA OneHead == \A p, x, y : D!At(p, x) /\ D!At(p, y) => x = y
  BY DEF D!At

\* What a thread's rank is, and whom it waits for, by the step it is at.
LEMMA RankFacts ==
    ASSUME NEW p
    PROVE  /\ D!At(p, "shared") => D!Rank(p) = 5
           /\ D!At(p, "exclusive") => D!Rank(p) = 4
           /\ D!At(p, "join") => D!Rank(p) = IF owner["stream"] = p THEN 1 ELSE 3
           /\ D!At(p, "lock stream") => D!Rank(p) = IF owner["stream"] = p THEN 0 ELSE 2
           /\ D!At(p, "lock capsule") => D!Rank(p) = IF owner["capsule"] = p THEN 0 ELSE 1
           /\ (\A x \in {"shared", "exclusive", "join", "lock stream", "lock capsule"} : ~D!At(p, x)) =>
                D!Rank(p) = 0
<1>1. D!Lock.stream = "lock stream" /\ D!Lock.capsule = "lock capsule"
  BY DEF D!Lock
<1>2. CASE D!At(p, "shared")
  <2>1. \A y : y # "shared" => ~D!At(p, y)
    BY <1>2, OneHead
  <2> QED
    BY <1>1, <1>2, <2>1 DEF D!Rank
<1>3. CASE D!At(p, "exclusive")
  <2>1. \A y : y # "exclusive" => ~D!At(p, y)
    BY <1>3, OneHead
  <2> QED
    BY <1>1, <1>3, <2>1 DEF D!Rank
<1>4. CASE D!At(p, "join")
  <2>1. \A y : y # "join" => ~D!At(p, y)
    BY <1>4, OneHead
  <2> QED
    BY <1>1, <1>4, <2>1 DEF D!Rank
<1>5. CASE D!At(p, "lock stream")
  <2>1. \A y : y # "lock stream" => ~D!At(p, y)
    BY <1>5, OneHead
  <2> QED
    BY <1>1, <1>5, <2>1 DEF D!Rank
<1>6. CASE D!At(p, "lock capsule")
  <2>1. \A y : y # "lock capsule" => ~D!At(p, y)
    BY <1>6, OneHead
  <2> QED
    BY <1>1, <1>6, <2>1 DEF D!Rank
<1>7. CASE \A x \in {"shared", "exclusive", "join", "lock stream", "lock capsule"} : ~D!At(p, x)
  BY <1>1, <1>7 DEF D!Rank
<1> QED
  BY <1>2, <1>3, <1>4, <1>5, <1>6, <1>7

LEMMA WaitFacts ==
    ASSUME NEW p, NEW q \in D!WaitsFor(p)
    PROVE  /\ D!At(p, "shared") => q \in D!Procs /\ (q = writer \/ D!At(q, "exclusive"))
           /\ D!At(p, "exclusive") => q \in D!Procs /\ (q = writer \/ q \in readers)
           /\ D!At(p, "join") => q \in D!Children(p) /\ ~D!Idle(q)
           /\ (\A x \in {"shared", "exclusive", "join"} : ~D!At(p, x)) =>
                 /\ q \in D!Procs \ {p}
                 /\ \E m \in D!Mutexes : D!At(p, D!Lock[m]) /\ owner[m] = q
<1>1. CASE D!At(p, "shared")
  <2>1. \A y : y # "shared" => ~D!At(p, y)
    BY <1>1, OneHead
  <2>2. D!WaitsFor(p) = IF globalLock
                         THEN {r \in D!Procs : r = writer \/ (preferWriters /\ D!At(r, "exclusive"))}
                         ELSE {}
    BY <1>1, <2>1 DEF D!WaitsFor
  <2> QED
    BY <1>1, <2>1, <2>2
<1>2. CASE D!At(p, "exclusive")
  <2>1. \A y : y # "exclusive" => ~D!At(p, y)
    BY <1>2, OneHead
  <2>2. D!WaitsFor(p) = IF globalLock THEN {r \in D!Procs : r = writer \/ r \in readers} ELSE {}
    BY <1>2, <2>1 DEF D!WaitsFor
  <2> QED
    BY <1>2, <2>1, <2>2
<1>3. CASE D!At(p, "join")
  <2>1. \A y : y # "join" => ~D!At(p, y)
    BY <1>3, OneHead
  <2>2. D!WaitsFor(p) = {r \in D!Children(p) : ~D!Idle(r)}
    BY <1>3, <2>1 DEF D!WaitsFor
  <2> QED
    BY <1>3, <2>1, <2>2
<1>4. CASE \A x \in {"shared", "exclusive", "join"} : ~D!At(p, x)
  <2>1. D!WaitsFor(p) = {r \in D!Procs \ {p} : \E m \in D!Mutexes : D!At(p, D!Lock[m]) /\ owner[m] = r}
    BY <1>4 DEF D!WaitsFor
  <2> QED
    BY <1>4, <2>1
<1> QED
  BY <1>1, <1>2, <1>3, <1>4

\* The invariant gives the order of waits.
LEMMA Descend == LocksInv => D!WaitsDescend
<1> SUFFICES ASSUME LocksInv, NEW p \in D!Procs, NEW q \in D!WaitsFor(p) PROVE D!Rank(q) < D!Rank(p)
  BY DEF D!WaitsDescend
<1>1. CodeShape /\ MutexInv /\ HoldersMatch /\ LanesJoined /\ LanesHarmless
  BY DEF LocksInv, RequestsInv
<1>2. q \in D!Procs
  <2>1. D!Children(p) \subseteq D!Procs
    BY DEF D!Children, D!Procs
  <2> QED
    BY <2>1, WaitFacts
<1>3. D!Lock["stream"] = "lock stream" /\ D!Lock["capsule"] = "lock capsule"
  BY MutexNames
\* The holder of a mutex, and what it can be at.
<1>4. ASSUME NEW m \in D!Mutexes, owner[m] = q
      PROVE  ~D!Idle(q) /\ \A x : D!At(q, x) => x \in Within[m]
  <2>1. DepthOf(q, m) > 0
    BY <1>1, <1>2, <1>4, NoneIsNoProc DEF DepthOf, MutexInv
  <2> QED
    BY <1>1, <1>2, <1>4, <2>1, HeadNested, IdleOwnsNothing
<1>5. ASSUME owner["capsule"] = q PROVE D!Rank(q) = 0
  <2>1. "capsule" \in D!Mutexes
    BY DEF D!Mutexes
  <2>2. \A x \in {"shared", "exclusive", "join", "lock stream"} : ~D!At(q, x)
    BY <1>4, <1>5, <2>1, MutexNames
  <2> QED
    BY <1>5, <2>2, RankFacts
<1>6. ASSUME owner["stream"] = q PROVE D!Rank(q) \in {0, 1}
  <2>1. "stream" \in D!Mutexes
    BY DEF D!Mutexes
  <2>2. \A x \in {"shared", "exclusive"} : ~D!At(q, x)
    BY <1>4, <1>6, <2>1, MutexNames, StepKinds
  <2> QED
    BY <1>6, <2>2, RankFacts
<1>7. ASSUME q = writer \/ q \in readers PROVE D!Rank(q) \in {0, 1, 2, 3}
  <2>1. PICK t \in Threads : q = D!Main(t)
    BY <1>1, <1>2, <1>7, NoneIsNoProc DEF HoldersMatch
  <2>2. Inside(code[q])
    BY <1>1, <1>7, <2>1, ProcFacts DEF HoldersMatch, Holders
  <2>3. ~D!At(q, "shared") /\ ~D!At(q, "exclusive")
    BY <1>1, <1>2, <2>2, CodeFacts DEF Inside, D!At
  <2> QED
    BY <2>3, RankFacts
<1>8. CASE D!At(p, "shared")
  <2>1. D!Rank(p) = 5
    BY <1>8, RankFacts
  <2>2. q = writer \/ D!At(q, "exclusive")
    BY <1>8, WaitFacts
  <2>3. D!At(q, "exclusive") => D!Rank(q) = 4
    BY RankFacts
  <2> QED
    BY <1>7, <2>1, <2>2, <2>3
<1>9. CASE D!At(p, "exclusive")
  <2>1. D!Rank(p) = 4
    BY <1>9, RankFacts
  <2>2. q = writer \/ q \in readers
    BY <1>9, WaitFacts
  <2> QED
    BY <1>7, <2>1, <2>2
<1>10. CASE D!At(p, "join")
  <2>1. D!Rank(p) = IF owner["stream"] = p THEN 1 ELSE 3
    BY <1>10, RankFacts
  <2>2. PICK t \in Threads : p = D!Main(t)
    BY <1>1, <1>10, MainKinds, StepKinds
  <2>3. PICK l \in D!Lanes : q = <<t, l>> /\ ~D!Idle(q)
    BY <1>10, <2>2, ProcFacts, WaitFacts DEF D!Children, D!Main
  <2>4. \A x : D!At(q, x) => x \in CalmSteps
    BY <1>1, <2>3, LaneKinds
  <2>5. D!Rank(q) \in {0, 1, 2}
    BY <2>4, StepKinds, RankFacts
  <2>6. owner["stream"] = p => D!Rank(q) = 0
    <3> HAVE owner["stream"] = p
    <3>1. code[q] = D!Handler
      BY <1>1, <2>2, <2>3 DEF LanesHarmless, D!Idle
    <3>2. \A x : D!At(q, x) => x = "handler"
      BY <3>1, TailOfHandler DEF D!At
    <3> QED
      BY <3>2, RankFacts
  <2> QED
    BY <2>1, <2>5, <2>6
<1>11. CASE ~D!At(p, "shared") /\ ~D!At(p, "exclusive") /\ ~D!At(p, "join")
  <2>1. PICK m \in D!Mutexes : D!At(p, D!Lock[m]) /\ owner[m] = q /\ p # q
    BY <1>11, WaitFacts
  <2>2. CASE m = "stream"
    <3>1. D!Rank(p) = 2
      BY <1>3, <2>1, <2>2, RankFacts
    <3> QED
      BY <1>6, <2>1, <2>2, <3>1
  <2>3. CASE m = "capsule"
    <3>1. D!Rank(p) = 1
      BY <1>3, <2>1, <2>3, RankFacts
    <3> QED
      BY <1>5, <2>1, <2>3, <3>1
  <2> QED
    BY <2>2, <2>3 DEF D!Mutexes
<1> QED
  BY <1>8, <1>9, <1>10, <1>11

\* Whoever a thread waits for (the holder of rpc_mutex_ or of a recursive mutex of
\* tool_ledger_op, a writer queued before it, a thread it joins) is nearer to running than
\* it is, so no circle of requests waits for itself, with either preference of
\* std::shared_mutex.
THEOREM NoCircleOfWaits == D!Spec => []WaitsDescend
  BY Descend, SameStatements, LocksInvHolds, PTL

\* A thread that is done holds no mutex and no lock.
DoneHoldNothing ==
    \A p \in D!Procs : D!Idle(p) => p \notin readers /\ writer # p /\ \A m \in D!Mutexes : owner[m] # p

\* A thread whose request returned, or threw, holds no lock and no mutex.
THEOREM NothingLeftLocked == D!Spec => []DoneHoldNothing
<1>1. LocksInv => DoneHoldNothing
  <2> SUFFICES ASSUME LocksInv, NEW p \in D!Procs, D!Idle(p)
               PROVE  p \notin readers /\ writer # p /\ \A m \in D!Mutexes : owner[m] # p
    BY DEF DoneHoldNothing
  <2>1. \A m \in D!Mutexes : owner[m] # p
    BY IdleOwnsNothing DEF LocksInv
  <2>2. ASSUME p \in readers \/ writer = p PROVE FALSE
    <3>1. PICK t \in Threads : p = D!Main(t)
      BY <2>2, NoneIsNoProc DEF LocksInv, RequestsInv, HoldersMatch
    <3>2. Inside(code[p])
      BY <2>2, <3>1, ProcFacts DEF LocksInv, RequestsInv, HoldersMatch, Holders
    <3> QED
      BY <3>2 DEF Inside, D!Idle
  <2> QED
    BY <2>1, <2>2
<1> QED
  BY <1>1, LocksInvHolds, PTL

\* The variables keep their types: in particular only serving threads hold rpc_mutex_, and
\* a recursive mutex is never unlocked below zero.
THEOREM LockTypes == ASSUME D!DispatchAssumption PROVE D!Spec => []D!TypeOK
<1>1. D!ToSet(<<"handler", "shared", "exclusive", "release", "fork", "restore", "join">>)
         \cup D!Range(D!Lock) \cup D!Range(D!Unlock) = Steps
  <2>1. /\ D!Range(D!Lock) = {"lock stream", "lock capsule"}
        /\ D!Range(D!Unlock) = {"unlock stream", "unlock capsule"}
    <3>1. DOMAIN D!Lock = {"stream", "capsule"} /\ DOMAIN D!Unlock = {"stream", "capsule"}
      BY DEF D!Lock, D!Unlock
    <3>2. /\ D!Range(D!Lock) = {D!Lock[m] : m \in {"stream", "capsule"}}
          /\ D!Range(D!Unlock) = {D!Unlock[m] : m \in {"stream", "capsule"}}
      BY <3>1 DEF D!Range
    <3>3. /\ D!Range(D!Lock) = {D!Lock["stream"], D!Lock["capsule"]}
          /\ D!Range(D!Unlock) = {D!Unlock["stream"], D!Unlock["capsule"]}
      BY <3>2
    <3> QED
      BY <3>3, MutexNames
  <2>2. D!ToSet(<<"handler", "shared", "exclusive", "release", "fork", "restore", "join">>)
           = {"handler", "shared", "exclusive", "release", "fork", "restore", "join"}
    BY DEF D!ToSet
  <2> QED
    BY <2>1, <2>2 DEF Steps, Joining, Launch, CalmSteps
<1> DEFINE Rest == globalLock \in BOOLEAN /\ preferWriters \in BOOLEAN /\ calls \in 0 .. MaxCalls
<1>2. LocksInv /\ Rest => D!TypeOK
  <2>1. {D!Main(t) : t \in Threads} \subseteq D!Procs
    BY ProcFacts
  <2> QED
    BY <1>1, <2>1 DEF LocksInv, RequestsInv, CodeShape, HoldersMatch, MutexInv, D!TypeOK
<1>3. D!Init => Rest
  BY DEF D!Init, D!DispatchAssumption
<1>4. Rest /\ [D!Next]_(D!vars) => Rest'
  <2> SUFFICES ASSUME Rest, [D!Next]_(D!vars) PROVE Rest'
    OBVIOUS
  <2>1. UNCHANGED <<globalLock, preferWriters>> /\ (calls' = calls \/ (calls < MaxCalls /\ calls' = calls + 1))
    <3>1. CASE UNCHANGED D!vars
      BY <3>1 DEF D!vars, D!config
    <3>2. ASSUME NEW t \in Threads, NEW op \in DOMAIN D!Requests, D!Call(t, op)
          PROVE  UNCHANGED <<globalLock, preferWriters>> /\ calls < MaxCalls /\ calls' = calls + 1
      BY <3>2 DEF D!Call, D!config
    <3>3. ASSUME NEW p, D!Move(p) PROVE UNCHANGED <<globalLock, preferWriters, calls>>
      BY <3>3 DEF D!Move, D!config, D!LockShared, D!LockExclusive, D!Release, D!LockMutex, D!UnlockMutex,
             D!Handle, D!Throw, D!Fork, D!ForkRestore, D!Join
    <3> QED
      BY <3>1, <3>2, <3>3 DEF D!Next, D!RequestStep
  <2> QED
    BY <2>1 DEF D!DispatchAssumption
<1> QED
  BY <1>2, <1>3, <1>4, LocksInvHolds, PTL DEF D!Spec
===============================================================================
