--------------------------- MODULE StreamLeaseProofs ---------------------------
(***************************************************************************)
(* TLAPS proofs about StreamLease, for any sessions, streams, times-to-live *)
(* and bounds.  The inductive invariant adds to the type what the program   *)
(* counter says of the locals, and carries the lease property over to every *)
(* older state of the tables that a crash may bring back.                   *)
(***************************************************************************)
EXTENDS StreamLease, TLAPS

\* The locals an operation has bound by the step it is at.
Bound ==
    /\ op # "idle" => who \in Sessions
    /\ op \in {"claim", "handoff"} => what \in Streams
    /\ op = "idle" => step = "start"
    /\ step \in {"lease", "renew"} => status[who] = "open"
    /\ step = "renew" => metaStream[who] \in Streams

\* Whatever tables a crash may fall back to, their leases are of open sessions.
SnapshotsSound ==
    \A u \in unsynced, t \in Streams :
        u.holder[t] # NoOne => u.status[u.holder[t]] = "open"

IInv == TypeOK /\ Bound /\ ClosedSessionsHoldNothing /\ SnapshotsSound

USE LeaseAssumption, NamesAssumption

\* Initially there are no leases, no answers and no older tables.
LEMMA InitIInv == Init => IInv
BY DEF Init, IInv, TypeOK, Bound, ClosedSessionsHoldNothing, SnapshotsSound, Snapshots, Replies

\* A transaction adds the current tables, which are sound, to the older ones.
LEMMA PersistSound ==
    ASSUME IInv, Persist
    PROVE  unsynced' \subseteq Snapshots /\ SnapshotsSound'
<1> DEFINE u == [holder |-> holder, expires |-> expires, status |-> status,
                 stream |-> metaStream, ttl |-> metaTtl]
<1>1. u \in Snapshots
  BY DEF IInv, TypeOK, Snapshots
<1>2. unsynced' = unsynced \cup {u}
  BY DEF Persist
<1>3. \A t \in Streams : u.holder[t] # NoOne => u.status[u.holder[t]] = "open"
  BY DEF IInv, ClosedSessionsHoldNothing
<1> HIDE DEF u
<1> QED
  BY <1>1, <1>2, <1>3 DEF IInv, TypeOK, SnapshotsSound

\* The answer of an operation is well formed, and the locals are forgotten.
LEMMA AnswerSound ==
    ASSUME IInv, NEW t, NEW until \in Nat, NEW at \in Nat,
           t \in Streams \cup {NoStream}, op # "idle", Answer(t, until, at)
    PROVE  /\ op' = "idle" /\ step' = "start"
           /\ who' \in Sessions \cup {NoOne} /\ what' \in Streams \cup {NoStream}
           /\ ttl' \in Nat /\ granted' \in Nat /\ touchedAt' \in Nat
           /\ replies' \subseteq Replies
BY DEF IInv, TypeOK, Bound, Answer, Idle, Replies

\* A binding reopens a session and touches no lease.
LEMMA BindKeeps == ASSUME IInv, NEW s \in Sessions, Bind(s) PROVE IInv'
<1>1. TypeOK'
  BY PersistSound DEF Bind, IInv, TypeOK, Reopen, locals, clients
<1>2. Bound'
  BY DEF Bind, IInv, TypeOK, Bound, locals
<1>3. ClosedSessionsHoldNothing'
  BY DEF Bind, IInv, TypeOK, ClosedSessionsHoldNothing, Reopen
<1>4. SnapshotsSound'
  BY PersistSound DEF Bind
<1> QED
  BY <1>1, <1>2, <1>3, <1>4 DEF IInv

\* A claim first binds, and so reopens, its session.
LEMMA StartClaimKeeps ==
    ASSUME IInv, NEW s \in Sessions, NEW t \in Streams, NEW n \in Ttls, StartClaim(s, t, n)
    PROVE  IInv'
<1>1. TypeOK'
  BY PersistSound DEF StartClaim, IInv, TypeOK, Request, Reopen
<1>2. Bound'
  BY DEF StartClaim, IInv, TypeOK, Bound, Request, Reopen
<1>3. ClosedSessionsHoldNothing'
  BY DEF StartClaim, IInv, TypeOK, ClosedSessionsHoldNothing, Reopen
<1>4. SnapshotsSound'
  BY PersistSound DEF StartClaim
<1> QED
  BY <1>1, <1>2, <1>3, <1>4 DEF IInv

\* The lease goes to the session the claim has just reopened.
LEMMA ClaimLeaseKeeps == ASSUME IInv, ClaimLease PROVE IInv'
<1>1. TypeOK'
  BY PersistSound DEF ClaimLease, IInv, TypeOK, Bound, Reopen, PutLease, clients
<1>2. Bound'
  BY DEF ClaimLease, IInv, TypeOK, Bound
<1>3. ClosedSessionsHoldNothing'
  BY DEF ClaimLease, IInv, TypeOK, Bound, ClosedSessionsHoldNothing, Reopen, PutLease
<1>4. SnapshotsSound'
  BY PersistSound DEF ClaimLease
<1> QED
  BY <1>1, <1>2, <1>3, <1>4 DEF IInv

\* A denied claim leaves the tables alone.
LEMMA ClaimDeniedKeeps == ASSUME IInv, ClaimDenied PROVE IInv'
<1>1. TypeOK'
  BY DEF ClaimDenied, IInv, TypeOK, Idle, tables, clients
<1>2. Bound'
  BY DEF ClaimDenied, IInv, TypeOK, Bound, Idle, tables
<1>3. ClosedSessionsHoldNothing'
  BY DEF ClaimDenied, IInv, TypeOK, ClosedSessionsHoldNothing, tables
<1>4. SnapshotsSound'
  BY DEF ClaimDenied, IInv, SnapshotsSound
<1> QED
  BY <1>1, <1>2, <1>3, <1>4 DEF IInv

\* Recording the claim in the metadata touches no lease.
LEMMA ClaimBindKeeps == ASSUME IInv, ClaimBind PROVE IInv'
<1>1. TypeOK'
  BY PersistSound DEF ClaimBind, IInv, TypeOK, Bound, Reopen, locals, clients
<1>2. Bound'
  BY DEF ClaimBind, IInv, TypeOK, Bound, locals
<1>3. ClosedSessionsHoldNothing'
  BY DEF ClaimBind, IInv, TypeOK, Bound, ClosedSessionsHoldNothing, Reopen
<1>4. SnapshotsSound'
  BY PersistSound DEF ClaimBind
<1> QED
  BY <1>1, <1>2, <1>3, <1>4 DEF IInv

\* A heartbeat starts by reading.
LEMMA StartTouchKeeps == ASSUME IInv, NEW s \in Sessions, StartTouch(s) PROVE IInv'
<1>1. TypeOK'
  BY DEF StartTouch, IInv, TypeOK, Request, tables, clients
<1>2. Bound'
  BY DEF StartTouch, IInv, TypeOK, Bound, Request, tables
<1>3. ClosedSessionsHoldNothing'
  BY DEF StartTouch, IInv, TypeOK, ClosedSessionsHoldNothing, tables
<1>4. SnapshotsSound'
  BY DEF StartTouch, IInv, SnapshotsSound
<1> QED
  BY <1>1, <1>2, <1>3, <1>4 DEF IInv

\* A handoff starts by reading.
LEMMA StartHandoffKeeps ==
    ASSUME IInv, NEW s \in Sessions, NEW t \in Streams, StartHandoff(s, t)
    PROVE  IInv'
<1>1. TypeOK'
  BY DEF StartHandoff, IInv, TypeOK, Request, tables, clients
<1>2. Bound'
  BY DEF StartHandoff, IInv, TypeOK, Bound, Request, tables
<1>3. ClosedSessionsHoldNothing'
  BY DEF StartHandoff, IInv, TypeOK, ClosedSessionsHoldNothing, tables
<1>4. SnapshotsSound'
  BY DEF StartHandoff, IInv, SnapshotsSound
<1> QED
  BY <1>1, <1>2, <1>3, <1>4 DEF IInv

\* A release deletes one lease of the session that asks.
LEMMA StartReleaseKeeps ==
    ASSUME IInv, NEW s \in Sessions, NEW t \in Streams, StartRelease(s, t)
    PROVE  IInv'
<1>1. TypeOK'
  BY PersistSound DEF StartRelease, IInv, TypeOK, Request
<1>2. Bound'
  BY DEF StartRelease, IInv, TypeOK, Bound, Request
<1>3. ClosedSessionsHoldNothing'
  BY DEF StartRelease, IInv, TypeOK, ClosedSessionsHoldNothing
<1>4. SnapshotsSound'
  BY PersistSound DEF StartRelease
<1> QED
  BY <1>1, <1>2, <1>3, <1>4 DEF IInv

\* Closing deletes the leases of the session in the same transaction.
LEMMA CloseKeeps == ASSUME IInv, NEW s \in Sessions, Close(s) PROVE IInv'
<1>1. TypeOK'
  BY PersistSound DEF Close, IInv, TypeOK, Reopen, ClosedHolders, locals
<1>2. Bound'
  BY DEF Close, IInv, TypeOK, Bound, locals
<1>3. ClosedSessionsHoldNothing'
  BY DEF Close, IInv, TypeOK, ClosedSessionsHoldNothing, Reopen, ClosedHolders
<1>4. SnapshotsSound'
  BY PersistSound DEF Close
<1> QED
  BY <1>1, <1>2, <1>3, <1>4 DEF IInv

\* A failed append leaves the tables as the last transaction left them.
LEMMA AppendFailsKeeps == ASSUME IInv, AppendFails PROVE IInv'
<1>1. TypeOK'
  BY DEF AppendFails, IInv, TypeOK, Idle, tables, clients
<1>2. Bound'
  BY DEF AppendFails, IInv, TypeOK, Bound, Idle, tables
<1>3. ClosedSessionsHoldNothing'
  BY DEF AppendFails, IInv, TypeOK, ClosedSessionsHoldNothing, tables
<1>4. SnapshotsSound'
  BY DEF AppendFails, IInv, SnapshotsSound
<1> QED
  BY <1>1, <1>2, <1>3, <1>4 DEF IInv

\* Only the clock moves.
LEMMA TickKeeps == ASSUME IInv, Tick PROVE IInv'
<1>1. TypeOK'
  BY DEF Tick, IInv, TypeOK, tables, locals, clients
<1>2. Bound'
  BY DEF Tick, IInv, TypeOK, Bound, locals, tables
<1>3. ClosedSessionsHoldNothing'
  BY DEF Tick, IInv, TypeOK, ClosedSessionsHoldNothing, tables
<1>4. SnapshotsSound'
  BY DEF Tick, IInv, SnapshotsSound
<1> QED
  BY <1>1, <1>2, <1>3, <1>4 DEF IInv

\* What an operation reports when its session has been touched.
LEMMA FinishSound ==
    ASSUME IInv, op # "idle", NEW e \in [Streams -> Nat], NEW at \in Nat, Finish(e, at)
    PROVE  /\ op' = "idle" /\ step' = "start"
           /\ who' \in Sessions \cup {NoOne} /\ what' \in Streams \cup {NoStream}
           /\ ttl' \in Nat /\ granted' \in Nat /\ touchedAt' \in Nat
           /\ replies' \subseteq Replies
<1>1. CASE op = "claim"
  <2>1. Answer(what, granted, at) /\ what \in Streams /\ granted \in Nat
    BY <1>1 DEF Finish, IInv, TypeOK, Bound
  <2> QED
    BY <2>1, AnswerSound
<1>2. CASE op = "handoff"
  <2>1. Answer(what, e[what], at) /\ what \in Streams /\ e[what] \in Nat
    BY <1>2 DEF Finish, IInv, TypeOK, Bound
  <2> QED
    BY <2>1, AnswerSound
<1>3. CASE op \notin {"claim", "handoff"}
  <2>1. Answer(NoStream, 0, at)
    BY <1>3 DEF Finish
  <2> QED
    BY <2>1, AnswerSound
<1> QED
  BY <1>1, <1>2, <1>3

\* The touch reopens its session and gives its leases a new expiry time.
LEMMA TouchKeeps == ASSUME IInv, Touch PROVE IInv'
<1>1. op # "idle" /\ who \in Sessions
  BY DEF Touch, IInv, Bound
<1>2. expires' \in [Streams -> Nat] /\ status' \in [Sessions -> {"none", "open", "closed"}]
  BY <1>1 DEF Touch, Beaten, Reopen, IInv, TypeOK
<1>3. /\ op' \in {"idle", "claim", "touch", "handoff", "release"}
      /\ step' \in {"start", "lease", "bind", "touch", "renew"}
      /\ who' \in Sessions \cup {NoOne} /\ what' \in Streams \cup {NoStream}
      /\ ttl' \in Nat /\ granted' \in Nat /\ touchedAt' \in Nat
      /\ replies' \subseteq Replies
      /\ Bound'
  <2>1. CASE OwnsMetaStream(who)
    BY <2>1, <1>1 DEF Touch, OwnsMetaStream, Reopen, IInv, TypeOK, Bound
  <2>2. CASE ~OwnsMetaStream(who)
    <3>1. Finish(expires', now) /\ now \in Nat
      BY <2>2 DEF Touch, IInv, TypeOK
    <3> QED
      BY <3>1, <1>1, <1>2, FinishSound DEF Bound
  <2> QED
    BY <2>1, <2>2
<1>4. unsynced' \subseteq Snapshots /\ SnapshotsSound'
  BY PersistSound DEF Touch
<1>5. TypeOK'
  BY <1>2, <1>3, <1>4 DEF Touch, IInv, TypeOK, clients
<1>6. ClosedSessionsHoldNothing'
  BY <1>1 DEF Touch, Reopen, IInv, TypeOK, ClosedSessionsHoldNothing
<1> QED
  BY <1>3, <1>4, <1>5, <1>6 DEF IInv

\* The renewal claims a stream for the session the touch has reopened.
LEMMA RenewKeeps == ASSUME IInv, Renew PROVE IInv'
<1>1. op # "idle" /\ who \in Sessions /\ metaStream[who] \in Streams
  BY DEF Renew, IInv, Bound
<1>2. /\ holder' \in [Streams -> Sessions \cup {NoOne}] /\ expires' \in [Streams -> Nat]
      /\ status' \in [Sessions -> {"none", "open", "closed"}]
  BY <1>1 DEF Renew, PutLease, IInv, TypeOK
<1>3. /\ op' = "idle" /\ step' = "start"
      /\ who' \in Sessions \cup {NoOne} /\ what' \in Streams \cup {NoStream}
      /\ ttl' \in Nat /\ granted' \in Nat /\ touchedAt' \in Nat
      /\ replies' \subseteq Replies
  <2>1. Finish(expires', touchedAt) /\ touchedAt \in Nat
    BY DEF Renew, IInv, TypeOK
  <2> QED
    BY <2>1, <1>1, <1>2, FinishSound
<1>4. unsynced' \subseteq Snapshots /\ SnapshotsSound'
  BY PersistSound DEF Renew
<1>5. TypeOK'
  BY <1>2, <1>3, <1>4 DEF Renew, IInv, TypeOK, clients
<1>6. Bound'
  BY <1>3 DEF Bound
<1>7. ClosedSessionsHoldNothing'
  BY <1>1 DEF Renew, PutLease, IInv, TypeOK, Bound, ClosedSessionsHoldNothing
<1> QED
  BY <1>4, <1>5, <1>6, <1>7 DEF IInv

\* An answer changes what its client knows, and no table.
LEMMA ReplyKeeps == ASSUME IInv, NEW r \in replies, Reply(r) PROVE IInv'
<1>1. r \in Replies
  BY DEF IInv, TypeOK
<1>2. promised' \in [Sessions -> [Streams -> Nat]]
  <2>1. StillPromised(r.to, r.beat) \in [Streams -> Nat]
    BY <1>1 DEF StillPromised, Replies, IInv, TypeOK
  <2> QED
    BY <1>1, <2>1 DEF Reply, Replies, IInv, TypeOK
<1>3. TypeOK'
  BY <1>1, <1>2 DEF Reply, Replies, IInv, TypeOK, tables, locals
<1>4. Bound' /\ ClosedSessionsHoldNothing' /\ SnapshotsSound'
  BY DEF Reply, IInv, Bound, ClosedSessionsHoldNothing, SnapshotsSound, tables, locals
<1> QED
  BY <1>3, <1>4 DEF IInv

\* A crash brings back older tables, which are sound.
LEMMA CrashKeeps == ASSUME IInv, Crash PROVE IInv'
<1>1. /\ holder' \in [Streams -> Sessions \cup {NoOne}] /\ expires' \in [Streams -> Nat]
      /\ status' \in [Sessions -> {"none", "open", "closed"}]
      /\ metaStream' \in [Sessions -> Streams \cup {NoStream}]
      /\ metaTtl' \in [Sessions -> Nat]
      /\ ClosedSessionsHoldNothing'
  <2>1. CASE UNCHANGED tables
    BY <2>1 DEF IInv, TypeOK, ClosedSessionsHoldNothing, tables
  <2>2. CASE ~UNCHANGED tables
    <3>1. PICK old \in unsynced :
            /\ holder' = old.holder /\ expires' = old.expires /\ status' = old.status
            /\ metaStream' = old.stream /\ metaTtl' = old.ttl
      BY <2>2 DEF Crash
    <3>2. old \in Snapshots
      BY DEF IInv, TypeOK
    <3> QED
      BY <3>1, <3>2 DEF IInv, Snapshots, SnapshotsSound, ClosedSessionsHoldNothing
  <2> QED
    BY <2>1, <2>2
<1>2. TypeOK'
  BY <1>1 DEF Crash, Idle, IInv, TypeOK, clients
<1>3. Bound' /\ SnapshotsSound'
  BY DEF Crash, Idle, Bound, SnapshotsSound
<1> QED
  BY <1>1, <1>2, <1>3 DEF IInv

\* Every step keeps the inductive invariant.
LEMMA NextKeeps == IInv /\ [Next]_vars => IInv'
<1> SUFFICES ASSUME IInv, [Next]_vars PROVE IInv'
  OBVIOUS
<1>1. CASE UNCHANGED vars
  BY <1>1 DEF vars, tables, locals, clients, IInv, TypeOK, Bound, ClosedSessionsHoldNothing,
              SnapshotsSound
<1>2. CASE Next
  BY <1>2, TickKeeps, BindKeeps, StartClaimKeeps, StartHandoffKeeps, StartReleaseKeeps, StartTouchKeeps,
     CloseKeeps, ClaimLeaseKeeps, ClaimDeniedKeeps, ClaimBindKeeps, TouchKeeps, RenewKeeps,
     ReplyKeeps, AppendFailsKeeps, CrashKeeps DEF Next
<1> QED
  BY <1>1, <1>2

\* The tables, locals and replies of the task ledger keep their types whatever
\* the sessions do and wherever an operation is cut.
THEOREM TypeCorrect == Spec => []TypeOK
<1>1. IInv => TypeOK
  BY DEF IInv
<1> QED
  BY <1>1, InitIInv, NextKeeps, PTL DEF Spec

\* For every number of sessions and streams, no failed append and no crash,
\* whatever part of the log it takes back, leaves a closed session with a lease.
THEOREM ClosedHoldNothing == Spec => []ClosedSessionsHoldNothing
<1>1. IInv => ClosedSessionsHoldNothing
  BY DEF IInv
<1> QED
  BY <1>1, InitIInv, NextKeeps, PTL DEF Spec

-------------------------------------------------------------------------------
(* A heartbeating holder keeps its streams.                                *)

\* While a promise of t to s until `until' is current, for a heartbeat taken at
\* `at', the lease is held by s and outlives one of the two.
Held(h, e, s, t, until, at) ==
    now < until /\ now < at + BeatTtl =>
        h[t] = s /\ (e[t] >= until \/ e[t] >= at + BeatTtl)

\* The tables keep what the clients know of ...
KeepsPromises(h, e) ==
    \A s \in Sessions, t \in Streams : Held(h, e, s, t, promised[s][t], beat[s])

\* ... and a renewal through the metadata would not cut it short.
RenewsPromises(ms, mt) ==
    \A s \in Sessions, t \in Streams : ms[s] = t => promised[s][t] <= now + mt[s]

TablesKeep == KeepsPromises(holder, expires) /\ RenewsPromises(metaStream, metaTtl)

SnapshotsKeep ==
    \A u \in unsynced : KeepsPromises(u.holder, u.expires) /\ RenewsPromises(u.stream, u.ttl)

\* Clients only know of the past, and wait for one answer at a time.
ClientsWait ==
    /\ \A s \in Sessions : beat[s] <= now
    /\ \A r \in replies : r.beat <= now
    /\ \A r, q \in replies : r.to = q.to => r = q
    /\ op # "idle" => \A r \in replies : r.to # who

\* An answer under way is true of the tables, and stays so: of the stream it
\* reports, and of the others its heartbeat has renewed.
Truthful(r) ==
    \A t \in Streams :
        IF t = r.stream
          THEN /\ Held(holder, expires, r.to, t, r.until, r.beat)
               /\ metaStream[r.to] = t => r.until <= now + metaTtl[r.to]
          ELSE r.beat < beat[r.to] + BeatTtl =>
                   Held(holder, expires, r.to, t, promised[r.to][t], r.beat)

RepliesKeep == \A r \in replies : Truthful(r)

\* The claim in progress.
ClaimKeeps ==
    op = "claim" =>
        /\ promised[who][what] <= now + ttl
        /\ step \in {"bind", "touch", "renew"} => holder[what] = who /\ granted <= now + ttl
        /\ step \in {"touch", "renew"} => metaStream[who] = what /\ metaTtl[who] = ttl

HandoffKeeps == op = "handoff" => holder[what] = who

\* Between the touch and the renewal every lease of the session is a fresh one,
\* and none that was promised is missing.
RenewalKeeps ==
    step = "renew" =>
        /\ touchedAt <= now
        /\ holder[metaStream[who]] = who
        /\ \A t \in Streams : holder[t] = who => expires[t] >= touchedAt + BeatTtl
        /\ touchedAt < beat[who] + BeatTtl =>
             \A t \in Streams : now < promised[who][t] => holder[t] = who

HInv ==
    /\ TablesKeep /\ SnapshotsKeep /\ ClientsWait /\ RepliesKeep
    /\ ClaimKeeps /\ HandoffKeeps /\ RenewalKeeps

\* Tables that keep the promises keep smaller ones, and keep them later.
LEMMA PromisesShrink ==
    ASSUME IInv, now' \in Nat, now <= now', beat' = beat,
           promised' \in [Sessions -> [Streams -> Nat]],
           \A s \in Sessions, t \in Streams : promised'[s][t] <= promised[s][t],
           NEW u \in Snapshots,
           KeepsPromises(u.holder, u.expires), RenewsPromises(u.stream, u.ttl)
    PROVE  KeepsPromises(u.holder, u.expires)' /\ RenewsPromises(u.stream, u.ttl)'
<1>1. /\ now \in Nat /\ beat \in [Sessions -> Nat] /\ promised \in [Sessions -> [Streams -> Nat]]
      /\ u.expires \in [Streams -> Nat] /\ u.ttl \in [Sessions -> Nat]
  BY DEF IInv, TypeOK, Snapshots
<1>2. ASSUME NEW s \in Sessions, NEW t \in Streams
      PROVE  Held(u.holder, u.expires, s, t, promised[s][t], beat[s])'
  <2>1. Held(u.holder, u.expires, s, t, promised[s][t], beat[s])
    BY DEF KeepsPromises
  <2>2. promised'[s][t] <= promised[s][t] /\ promised'[s][t] \in Nat /\ promised[s][t] \in Nat
        /\ beat[s] \in Nat /\ u.expires[t] \in Nat
    BY <1>1
  <2> QED
    BY <1>1, <2>1, <2>2 DEF Held
<1>3. ASSUME NEW s \in Sessions, NEW t \in Streams, u.stream[s] = t
      PROVE  promised'[s][t] <= now' + u.ttl[s]
  <2>1. promised[s][t] <= now + u.ttl[s]
    BY <1>3 DEF RenewsPromises
  <2>2. promised'[s][t] <= promised[s][t] /\ promised'[s][t] \in Nat /\ promised[s][t] \in Nat
        /\ u.ttl[s] \in Nat
    BY <1>1
  <2> QED
    BY <1>1, <2>1, <2>2
<1> QED
  BY <1>2, <1>3 DEF KeepsPromises, RenewsPromises

\* A transaction adds the current tables, which keep the promises, to the older.
LEMMA PersistKeeps ==
    ASSUME IInv, HInv, Persist, now' = now, beat' = beat,
           promised' \in [Sessions -> [Streams -> Nat]],
           \A s \in Sessions, t \in Streams : promised'[s][t] <= promised[s][t]
    PROVE  SnapshotsKeep'
<1> DEFINE u == [holder |-> holder, expires |-> expires, status |-> status,
                 stream |-> metaStream, ttl |-> metaTtl]
<1>1. unsynced' = unsynced \cup {u}
  BY DEF Persist
<1>2. u.holder = holder /\ u.expires = expires /\ u.stream = metaStream /\ u.ttl = metaTtl
  OBVIOUS
<1>3. \A v \in unsynced \cup {u} : v \in Snapshots /\ KeepsPromises(v.holder, v.expires) /\ RenewsPromises(v.stream, v.ttl)
  BY <1>2 DEF IInv, TypeOK, Snapshots, HInv, TablesKeep, SnapshotsKeep
<1> HIDE DEF u
<1> SUFFICES ASSUME NEW v \in unsynced \cup {u}
             PROVE  KeepsPromises(v.holder, v.expires)' /\ RenewsPromises(v.stream, v.ttl)'
  BY <1>1 DEF SnapshotsKeep, KeepsPromises, RenewsPromises, Held
<1> QED
  BY <1>3, PromisesShrink DEF IInv, TypeOK

\* Only the clock moves.
LEMMA TickKeepsPromises == ASSUME IInv, HInv, Tick PROVE HInv'
<1>1. TablesKeep'
  BY DEF Tick, IInv, TypeOK, Bound, HInv, TablesKeep, KeepsPromises, RenewsPromises, Held, tables, locals, clients
<1>2. SnapshotsKeep'
  <2> SUFFICES ASSUME NEW u \in unsynced
               PROVE  KeepsPromises(u.holder, u.expires)' /\ RenewsPromises(u.stream, u.ttl)'
    BY DEF Tick, SnapshotsKeep
  <2>1. u \in Snapshots /\ KeepsPromises(u.holder, u.expires) /\ RenewsPromises(u.stream, u.ttl)
    BY DEF IInv, TypeOK, HInv, SnapshotsKeep
  <2>2. now' \in Nat /\ now <= now' /\ beat' = beat /\ promised' = promised
    BY DEF Tick, clients, IInv, TypeOK
  <2>3. /\ promised' \in [Sessions -> [Streams -> Nat]]
        /\ \A s \in Sessions, t \in Streams : promised'[s][t] <= promised[s][t]
    BY <2>2 DEF IInv, TypeOK
  <2> QED
    BY <2>1, <2>2, <2>3, PromisesShrink
<1>3. ClientsWait'
  BY DEF Tick, IInv, TypeOK, Bound, HInv, ClientsWait, Replies, tables, locals, clients
<1>4. RepliesKeep'
  BY DEF Tick, IInv, TypeOK, Bound, HInv, RepliesKeep, Truthful, ClientsWait, Replies, Held, tables, locals, clients
<1>5. ClaimKeeps' /\ HandoffKeeps' /\ RenewalKeeps'
  BY DEF Tick, IInv, TypeOK, Bound, HInv, ClaimKeeps, HandoffKeeps, RenewalKeeps, tables, locals, clients
<1> QED
  BY <1>1, <1>2, <1>3, <1>4, <1>5 DEF HInv

\* A binding reopens a session and touches no lease.
LEMMA BindKeepsPromises == ASSUME IInv, HInv, NEW s \in Sessions, Bind(s) PROVE HInv'
<1>1. TablesKeep'
  BY DEF Bind, IInv, TypeOK, Bound, HInv, TablesKeep, KeepsPromises, RenewsPromises, Held, locals, clients
<1>2. SnapshotsKeep'
  BY PersistKeeps DEF Bind, IInv, TypeOK, Bound, HInv, SnapshotsKeep, locals, clients
<1>3. ClientsWait'
  BY DEF Bind, IInv, TypeOK, Bound, HInv, ClientsWait, Replies, locals, clients
<1>4. RepliesKeep'
  BY DEF Bind, IInv, TypeOK, Bound, HInv, RepliesKeep, Truthful, ClientsWait, Replies, Held, locals, clients
<1>5. ClaimKeeps' /\ HandoffKeeps' /\ RenewalKeeps'
  BY DEF Bind, IInv, TypeOK, Bound, HInv, ClaimKeeps, HandoffKeeps, RenewalKeeps, locals, clients
<1> QED
  BY <1>1, <1>2, <1>3, <1>4, <1>5 DEF HInv

\* A claim first binds, and so reopens, its session.
LEMMA StartClaimKeepsPromises ==
    ASSUME IInv, HInv, NEW s \in Sessions, NEW t \in Streams, NEW n \in Ttls, StartClaim(s, t, n)
    PROVE  HInv'
<1>1. TablesKeep'
  BY DEF StartClaim, IInv, TypeOK, Bound, HInv, TablesKeep, KeepsPromises, RenewsPromises, Held, Request
<1>2. SnapshotsKeep'
  BY PersistKeeps DEF StartClaim, IInv, TypeOK, Bound, HInv, SnapshotsKeep, Request
<1>3. ClientsWait'
  BY DEF StartClaim, IInv, TypeOK, Bound, HInv, ClientsWait, Replies, Request
<1>4. RepliesKeep'
  BY DEF StartClaim, IInv, TypeOK, Bound, HInv, RepliesKeep, Truthful, ClientsWait, Replies, Held, Request
<1>5. ClaimKeeps' /\ HandoffKeeps' /\ RenewalKeeps'
  <2>1. promised'[s][t] <= now + n
    BY DEF StartClaim, IInv, TypeOK
  <2> QED
    BY <2>1 DEF StartClaim, ClaimKeeps, HandoffKeeps, RenewalKeeps, Request
<1> QED
  BY <1>1, <1>2, <1>3, <1>4, <1>5 DEF HInv

\* The lease goes to the session the claim has just reopened.
LEMMA ClaimLeaseKeepsPromises == ASSUME IInv, HInv, ClaimLease PROVE HInv'
<1>1. TablesKeep'
  BY DEF ClaimLease, IInv, TypeOK, Bound, HInv, TablesKeep, KeepsPromises, RenewsPromises, Held, ClaimKeeps, PutLease, clients, LiveOwner
<1>2. SnapshotsKeep'
  BY PersistKeeps DEF ClaimLease, IInv, TypeOK, Bound, HInv, SnapshotsKeep, PutLease, clients, LiveOwner
<1>3. ClientsWait'
  BY DEF ClaimLease, IInv, TypeOK, Bound, HInv, ClientsWait, Replies, PutLease, clients, LiveOwner
<1>4. RepliesKeep'
  BY DEF ClaimLease, IInv, TypeOK, Bound, HInv, RepliesKeep, Truthful, ClientsWait, Replies, Held, PutLease, clients, LiveOwner
<1>5. ClaimKeeps' /\ HandoffKeeps' /\ RenewalKeeps'
  BY DEF ClaimLease, IInv, TypeOK, Bound, HInv, ClaimKeeps, HandoffKeeps, RenewalKeeps, PutLease, clients, LiveOwner
<1> QED
  BY <1>1, <1>2, <1>3, <1>4, <1>5 DEF HInv

\* A denied claim leaves the tables alone.
LEMMA ClaimDeniedKeepsPromises == ASSUME IInv, HInv, ClaimDenied PROVE HInv'
<1>1. TablesKeep'
  BY DEF ClaimDenied, IInv, TypeOK, Bound, HInv, TablesKeep, KeepsPromises, RenewsPromises, Held, ClaimKeeps, Idle, tables, clients, LiveOwner
<1>2. SnapshotsKeep'
  BY DEF ClaimDenied, IInv, TypeOK, Bound, HInv, SnapshotsKeep, KeepsPromises, RenewsPromises, Held, Snapshots, Idle, tables, clients, LiveOwner
<1>3. ClientsWait'
  BY DEF ClaimDenied, IInv, TypeOK, Bound, HInv, ClientsWait, Replies, Idle, tables, clients, LiveOwner
<1>4. RepliesKeep'
  BY DEF ClaimDenied, IInv, TypeOK, Bound, HInv, RepliesKeep, Truthful, ClientsWait, Replies, Held, Idle, tables, clients, LiveOwner
<1>5. ClaimKeeps' /\ HandoffKeeps' /\ RenewalKeeps'
  BY DEF ClaimDenied, IInv, TypeOK, Bound, HInv, ClaimKeeps, HandoffKeeps, RenewalKeeps, Idle, tables, clients, LiveOwner
<1> QED
  BY <1>1, <1>2, <1>3, <1>4, <1>5 DEF HInv

\* Recording the claim in the metadata touches no lease.
LEMMA ClaimBindKeepsPromises == ASSUME IInv, HInv, ClaimBind PROVE HInv'
<1>1. TablesKeep'
  BY DEF ClaimBind, IInv, TypeOK, Bound, HInv, TablesKeep, KeepsPromises, RenewsPromises, Held, ClaimKeeps, locals, clients
<1>2. SnapshotsKeep'
  BY PersistKeeps DEF ClaimBind, IInv, TypeOK, Bound, HInv, SnapshotsKeep, locals, clients
<1>3. ClientsWait'
  BY DEF ClaimBind, IInv, TypeOK, Bound, HInv, ClientsWait, Replies, locals, clients
<1>4. RepliesKeep'
  BY DEF ClaimBind, IInv, TypeOK, Bound, HInv, RepliesKeep, Truthful, ClientsWait, Replies, Held, locals, clients
<1>5. ClaimKeeps' /\ HandoffKeeps' /\ RenewalKeeps'
  BY DEF ClaimBind, IInv, TypeOK, Bound, HInv, ClaimKeeps, HandoffKeeps, RenewalKeeps, locals, clients
<1> QED
  BY <1>1, <1>2, <1>3, <1>4, <1>5 DEF HInv

\* A heartbeat starts by reading.
LEMMA StartTouchKeepsPromises == ASSUME IInv, HInv, NEW s \in Sessions, StartTouch(s) PROVE HInv'
<1>1. TablesKeep'
  BY DEF StartTouch, IInv, TypeOK, Bound, HInv, TablesKeep, KeepsPromises, RenewsPromises, Held, Request, tables, clients
<1>2. SnapshotsKeep'
  BY DEF StartTouch, IInv, TypeOK, Bound, HInv, SnapshotsKeep, KeepsPromises, RenewsPromises, Held, Snapshots, Request, tables, clients
<1>3. ClientsWait'
  BY DEF StartTouch, IInv, TypeOK, Bound, HInv, ClientsWait, Replies, Request, tables, clients
<1>4. RepliesKeep'
  BY DEF StartTouch, IInv, TypeOK, Bound, HInv, RepliesKeep, Truthful, ClientsWait, Replies, Held, Request, tables, clients
<1>5. ClaimKeeps' /\ HandoffKeeps' /\ RenewalKeeps'
  BY DEF StartTouch, IInv, TypeOK, Bound, HInv, ClaimKeeps, HandoffKeeps, RenewalKeeps, Request, tables, clients
<1> QED
  BY <1>1, <1>2, <1>3, <1>4, <1>5 DEF HInv

\* A handoff starts by reading.
LEMMA StartHandoffKeepsPromises ==
    ASSUME IInv, HInv, NEW s \in Sessions, NEW t \in Streams, StartHandoff(s, t)
    PROVE  HInv'
<1>1. TablesKeep'
  BY DEF StartHandoff, IInv, TypeOK, Bound, HInv, TablesKeep, KeepsPromises, RenewsPromises, Held, Request, tables, clients
<1>2. SnapshotsKeep'
  BY DEF StartHandoff, IInv, TypeOK, Bound, HInv, SnapshotsKeep, KeepsPromises, RenewsPromises, Held, Snapshots, Request, tables, clients
<1>3. ClientsWait'
  BY DEF StartHandoff, IInv, TypeOK, Bound, HInv, ClientsWait, Replies, Request, tables, clients
<1>4. RepliesKeep'
  BY DEF StartHandoff, IInv, TypeOK, Bound, HInv, RepliesKeep, Truthful, ClientsWait, Replies, Held, Request, tables, clients
<1>5. ClaimKeeps' /\ HandoffKeeps' /\ RenewalKeeps'
  BY DEF StartHandoff, IInv, TypeOK, Bound, HInv, ClaimKeeps, HandoffKeeps, RenewalKeeps, Request, tables, clients
<1> QED
  BY <1>1, <1>2, <1>3, <1>4, <1>5 DEF HInv

\* A release deletes one lease of the session that asks.
LEMMA StartReleaseKeepsPromises ==
    ASSUME IInv, HInv, NEW s \in Sessions, NEW t \in Streams, StartRelease(s, t)
    PROVE  HInv'
<1>1. TablesKeep'
  BY DEF StartRelease, IInv, TypeOK, Bound, HInv, TablesKeep, KeepsPromises, RenewsPromises, Held, Request, Releasable
<1>2. SnapshotsKeep'
  BY PersistKeeps DEF StartRelease, IInv, TypeOK, Bound, HInv, SnapshotsKeep, Request, Releasable
<1>3. ClientsWait'
  BY DEF StartRelease, IInv, TypeOK, Bound, HInv, ClientsWait, Replies, Request, Releasable
<1>4. RepliesKeep'
  BY DEF StartRelease, IInv, TypeOK, Bound, HInv, RepliesKeep, Truthful, ClientsWait, Replies, Held, Request, Releasable
<1>5. ClaimKeeps' /\ HandoffKeeps' /\ RenewalKeeps'
  BY DEF StartRelease, IInv, TypeOK, Bound, HInv, ClaimKeeps, HandoffKeeps, RenewalKeeps, Request, Releasable
<1> QED
  BY <1>1, <1>2, <1>3, <1>4, <1>5 DEF HInv

\* Closing deletes the leases of the session in the same transaction.
LEMMA CloseKeepsPromises == ASSUME IInv, HInv, NEW s \in Sessions, Close(s) PROVE HInv'
<1>1. TablesKeep'
  BY DEF Close, IInv, TypeOK, Bound, HInv, TablesKeep, KeepsPromises, RenewsPromises, Held, ClosedHolders, locals
<1>2. SnapshotsKeep'
  BY PersistKeeps DEF Close, IInv, TypeOK, Bound, HInv, SnapshotsKeep, ClosedHolders, locals
<1>3. ClientsWait'
  BY DEF Close, IInv, TypeOK, Bound, HInv, ClientsWait, Replies, ClosedHolders, locals
<1>4. RepliesKeep'
  BY DEF Close, IInv, TypeOK, Bound, HInv, RepliesKeep, Truthful, ClientsWait, Replies, Held, ClosedHolders, locals
<1>5. ClaimKeeps' /\ HandoffKeeps' /\ RenewalKeeps'
  BY DEF Close, IInv, TypeOK, Bound, HInv, ClaimKeeps, HandoffKeeps, RenewalKeeps, ClosedHolders, locals
<1> QED
  BY <1>1, <1>2, <1>3, <1>4, <1>5 DEF HInv

\* A failed append leaves the tables as the last transaction left them.
LEMMA AppendFailsKeepsPromises == ASSUME IInv, HInv, AppendFails PROVE HInv'
<1>1. TablesKeep'
  BY DEF AppendFails, IInv, TypeOK, Bound, HInv, TablesKeep, KeepsPromises, RenewsPromises, Held, Idle, tables, clients
<1>2. SnapshotsKeep'
  BY DEF AppendFails, IInv, TypeOK, Bound, HInv, SnapshotsKeep, KeepsPromises, RenewsPromises, Held, Snapshots, Idle, tables, clients
<1>3. ClientsWait'
  BY DEF AppendFails, IInv, TypeOK, Bound, HInv, ClientsWait, Replies, Idle, tables, clients
<1>4. RepliesKeep'
  BY DEF AppendFails, IInv, TypeOK, Bound, HInv, RepliesKeep, Truthful, ClientsWait, Replies, Held, Idle, tables, clients
<1>5. ClaimKeeps' /\ HandoffKeeps' /\ RenewalKeeps'
  BY DEF AppendFails, IInv, TypeOK, Bound, HInv, ClaimKeeps, HandoffKeeps, RenewalKeeps, Idle, tables, clients
<1> QED
  BY <1>1, <1>2, <1>3, <1>4, <1>5 DEF HInv

\* An answer leaves with the tables as they are.
LEMMA NewReply ==
    ASSUME HInv, op # "idle", NEW q, q.to = who, q.beat <= now, now' = now, beat' = beat,
           op' = "idle", replies' = replies \cup {q},
           \A r \in replies : Truthful(r)', Truthful(q)'
    PROVE  ClientsWait' /\ RepliesKeep'
<1>1. \A r \in replies : r.to # q.to /\ r.beat <= now
  BY DEF HInv, ClientsWait
<1>2. \A r \in replies \cup {q} : r.beat <= now
  BY <1>1
<1>3. \A r, p \in replies \cup {q} : r.to = p.to => r = p
  BY <1>1 DEF HInv, ClientsWait
<1>4. ClientsWait'
  BY <1>2, <1>3 DEF HInv, ClientsWait
<1>5. RepliesKeep'
  BY DEF RepliesKeep
<1> QED
  BY <1>4, <1>5

\* The touch gives the session's leases a fresh expiry time and leaves the other
\* leases, and so the answers to other sessions, alone.
LEMMA TouchKeepsPromises == ASSUME IInv, HInv, Touch PROVE HInv'
<1>1. /\ op # "idle" /\ who \in Sessions /\ now \in Nat
      /\ now' = now /\ holder' = holder /\ metaStream' = metaStream /\ metaTtl' = metaTtl
      /\ promised' = promised /\ beat' = beat
  BY DEF Touch, clients, IInv, TypeOK, Bound
<1>2. /\ \A t \in Streams : expires'[t] = IF holder[t] = who THEN now + BeatTtl ELSE expires[t]
      /\ expires' \in [Streams -> Nat]
  BY <1>1 DEF Touch, Beaten, IInv, TypeOK
<1>3. TablesKeep'
  BY <1>1, <1>2 DEF IInv, TypeOK, HInv, TablesKeep, KeepsPromises, RenewsPromises, Held, ClientsWait
<1>4. SnapshotsKeep'
  BY <1>1, PersistKeeps DEF Touch, IInv, TypeOK
<1>5. ASSUME NEW r \in replies PROVE Truthful(r)'
  <2>1. r.to # who /\ r.to \in Sessions /\ Truthful(r)
    BY <1>1 DEF IInv, TypeOK, Replies, HInv, ClientsWait, RepliesKeep
  <2> QED
    BY <1>1, <1>2, <2>1 DEF Truthful, Held
<1>6. CASE OwnsMetaStream(who)
  <2>1. /\ step' = "renew" /\ touchedAt' = now /\ replies' = replies
        /\ op' = op /\ who' = who /\ what' = what /\ ttl' = ttl /\ granted' = granted
    BY <1>6 DEF Touch
  <2>2. ClientsWait' /\ RepliesKeep'
    BY <1>1, <1>5, <2>1 DEF HInv, ClientsWait, RepliesKeep
  <2>3. ClaimKeeps' /\ HandoffKeeps'
    BY <1>1, <2>1 DEF Touch, HInv, ClaimKeeps, HandoffKeeps
  <2>4. RenewalKeeps'
    <3>1. holder[metaStream[who]] = who
      BY <1>6 DEF OwnsMetaStream
    <3>2. \A t \in Streams : holder[t] = who => expires'[t] >= now + BeatTtl
      BY <1>1, <1>2
    <3>3. now < beat[who] + BeatTtl => \A t \in Streams : now < promised[who][t] => holder[t] = who
      BY <1>1 DEF HInv, TablesKeep, KeepsPromises, Held
    <3> QED
      BY <1>1, <2>1, <3>1, <3>2, <3>3 DEF RenewalKeeps
  <2> QED
    BY <1>3, <1>4, <2>2, <2>3, <2>4 DEF HInv
<1>7. CASE ~OwnsMetaStream(who)
  <2>1. op # "claim"
    BY <1>7 DEF Touch, OwnsMetaStream, IInv, Bound, HInv, ClaimKeeps
  <2>2. PICK t \in Streams \cup {NoStream}, until \in Nat :
          /\ Answer(t, until, now)
          /\ t # NoStream => t = what /\ holder[t] = who /\ until = expires'[t]
    <3>1. CASE op = "handoff"
      <4>1. what \in Streams /\ holder[what] = who /\ Answer(what, expires'[what], now)
        BY <3>1, <1>7 DEF Touch, Finish, IInv, Bound, HInv, HandoffKeeps
      <4> QED
        BY <4>1, <1>2
    <3>2. CASE op # "handoff"
      <4>1. Answer(NoStream, 0, now)
        BY <3>2, <2>1, <1>7 DEF Touch, Finish
      <4> QED
        BY <4>1
    <3> QED
      BY <3>1, <3>2
  <2>3. PICK q : q = [to |-> who, stream |-> t, until |-> until, beat |-> now]
    OBVIOUS
  <2>4. /\ q.to = who /\ q.stream = t /\ q.until = until /\ q.beat = now
        /\ op' = "idle" /\ step' = "start" /\ replies' = replies \cup {q}
    BY <2>2, <2>3 DEF Answer, Idle
  <2>5. Truthful(q)'
    <3> SUFFICES ASSUME NEW x \in Streams
                 PROVE  IF x = t
                          THEN /\ Held(holder', expires', who, x, until, now)
                               /\ metaStream[who] = x => until <= now + metaTtl[who]
                          ELSE now < beat[who] + BeatTtl =>
                                 Held(holder', expires', who, x, promised[who][x], now)
      BY <1>1, <2>4 DEF Truthful, Held
    <3>1. CASE x = t
      <4>1. holder[x] = who /\ until = expires'[x] /\ until \in Nat
        BY <2>2, <3>1
      <4>2. Held(holder', expires', who, x, until, now)
        BY <1>1, <4>1 DEF Held
      <4>3. metaStream[who] # x
        BY <1>7, <4>1 DEF OwnsMetaStream
      <4> QED
        BY <3>1, <4>2, <4>3
    <3>2. CASE x # t
      <4>1. now < promised[who][x] /\ now < beat[who] + BeatTtl => holder[x] = who
        BY <1>1 DEF HInv, TablesKeep, KeepsPromises, Held
      <4>2. holder[x] = who => expires'[x] = now + BeatTtl
        BY <1>2
      <4> QED
        BY <1>1, <3>2, <4>1, <4>2 DEF Held
    <3> QED
      BY <3>1, <3>2
  <2>6. ClientsWait' /\ RepliesKeep'
    BY <1>1, <1>5, <2>4, <2>5, NewReply DEF Touch
  <2>7. ClaimKeeps' /\ HandoffKeeps' /\ RenewalKeeps'
    BY <2>4 DEF ClaimKeeps, HandoffKeeps, RenewalKeeps
  <2> QED
    BY <1>3, <1>4, <2>6, <2>7 DEF HInv
<1> QED
  BY <1>6, <1>7

\* The renewal of the stream in the metadata never cuts a promise short.
LEMMA RenewKeepsPromises == ASSUME IInv, HInv, Renew PROVE HInv'
<1> DEFINE ms == metaStream[who]
<1>1. /\ op # "idle" /\ who \in Sessions /\ now \in Nat /\ touchedAt \in Nat /\ touchedAt <= now
      /\ ms \in Streams /\ holder[ms] = who /\ metaTtl[who] \in Nat
      /\ now' = now /\ metaStream' = metaStream /\ metaTtl' = metaTtl
      /\ promised' = promised /\ beat' = beat
  BY DEF Renew, clients, IInv, TypeOK, Bound, HInv, RenewalKeeps
<1>2. /\ \A t \in Streams : expires'[t] = IF t = ms THEN now + metaTtl[who] ELSE expires[t]
      /\ expires' \in [Streams -> Nat]
      /\ holder' = holder
  BY <1>1 DEF Renew, PutLease, IInv, TypeOK
<1>3. promised[who][ms] <= now + metaTtl[who]
  BY <1>1 DEF HInv, TablesKeep, RenewsPromises
<1> HIDE DEF ms
<1>4. TablesKeep'
  <2>1. RenewsPromises(metaStream, metaTtl)'
    BY <1>1 DEF HInv, TablesKeep, RenewsPromises
  <2>2. ASSUME NEW s \in Sessions, NEW t \in Streams
        PROVE  Held(holder', expires', s, t, promised[s][t], beat[s])
    <3>1. Held(holder, expires, s, t, promised[s][t], beat[s])
      BY DEF HInv, TablesKeep, KeepsPromises
    <3>2. CASE t = ms
      BY <1>1, <1>2, <1>3, <3>1, <3>2 DEF Held
    <3>3. CASE t # ms
      BY <1>1, <1>2, <3>1, <3>3 DEF Held
    <3> QED
      BY <3>2, <3>3
  <2> QED
    BY <1>1, <2>1, <2>2 DEF TablesKeep, KeepsPromises, Held
<1>5. SnapshotsKeep'
  BY <1>1, PersistKeeps DEF Renew, IInv, TypeOK
<1>6. ASSUME NEW r \in replies PROVE Truthful(r)'
  <2>1. r.to # who /\ r.to \in Sessions /\ Truthful(r)
    BY <1>1 DEF IInv, TypeOK, Replies, HInv, ClientsWait, RepliesKeep
  <2> QED
    BY <1>1, <1>2, <2>1 DEF Truthful, Held
<1>7. PICK t \in Streams \cup {NoStream}, until \in Nat :
        /\ Answer(t, until, touchedAt)
        /\ t # NoStream => /\ holder[t] = who /\ until <= expires'[t]
                           /\ ms = t => until <= now + metaTtl[who]
  <2>1. CASE op = "claim"
    <3>1. /\ what \in Streams /\ holder[what] = who /\ Answer(what, granted, touchedAt)
          /\ granted \in Nat /\ granted <= now + ttl /\ ms = what /\ metaTtl[who] = ttl
      BY <2>1 DEF ms, Renew, Finish, IInv, TypeOK, Bound, HInv, ClaimKeeps
    <3> QED
      BY <3>1, <1>1, <1>2
  <2>2. CASE op = "handoff"
    <3>1. what \in Streams /\ holder[what] = who /\ Answer(what, expires'[what], touchedAt)
      BY <2>2 DEF Renew, Finish, IInv, Bound, HInv, HandoffKeeps
    <3> QED
      BY <3>1, <1>1, <1>2
  <2>3. CASE op \notin {"claim", "handoff"}
    <3>1. Answer(NoStream, 0, touchedAt)
      BY <2>3 DEF Renew, Finish
    <3> QED
      BY <3>1
  <2> QED
    BY <2>1, <2>2, <2>3
<1>8. PICK q : q = [to |-> who, stream |-> t, until |-> until, beat |-> touchedAt]
  OBVIOUS
<1>9. /\ q.to = who /\ q.stream = t /\ q.until = until /\ q.beat = touchedAt
      /\ op' = "idle" /\ step' = "start" /\ replies' = replies \cup {q}
  BY <1>7, <1>8 DEF Answer, Idle
<1>10. Truthful(q)'
  <2> SUFFICES ASSUME NEW x \in Streams
               PROVE  IF x = t
                        THEN /\ Held(holder', expires', who, x, until, touchedAt)
                             /\ ms = x => until <= now + metaTtl[who]
                        ELSE touchedAt < beat[who] + BeatTtl =>
                               Held(holder', expires', who, x, promised[who][x], touchedAt)
    BY <1>1, <1>9 DEF Truthful, Held, ms
  <2>1. CASE x = t
    <3>1. holder[x] = who /\ until <= expires'[x] /\ (ms = x => until <= now + metaTtl[who])
      BY <1>7, <2>1
    <3>2. expires'[x] \in Nat
      BY <1>2
    <3> QED
      BY <1>1, <1>2, <2>1, <3>1, <3>2 DEF Held
  <2>2. CASE x # t
    <3> SUFFICES ASSUME touchedAt < beat[who] + BeatTtl, now < promised[who][x]
                 PROVE  /\ holder[x] = who
                        /\ expires'[x] >= promised[who][x] \/ expires'[x] >= touchedAt + BeatTtl
      BY <1>2, <2>2 DEF Held
    <3>1. holder[x] = who /\ expires[x] >= touchedAt + BeatTtl
      BY DEF Renew, HInv, RenewalKeeps
    <3>2. CASE x = ms
      BY <1>1, <1>2, <1>3, <3>1, <3>2 DEF IInv, TypeOK
    <3>3. CASE x # ms
      BY <1>2, <3>1, <3>3
    <3> QED
      BY <3>2, <3>3
  <2> QED
    BY <2>1, <2>2
<1>11. ClientsWait' /\ RepliesKeep'
  BY <1>1, <1>6, <1>9, <1>10, NewReply
<1>12. ClaimKeeps' /\ HandoffKeeps' /\ RenewalKeeps'
  BY <1>9 DEF ClaimKeeps, HandoffKeeps, RenewalKeeps
<1> QED
  BY <1>4, <1>5, <1>11, <1>12 DEF HInv

\* The client now knows what the answer said, and nothing is unsynced.
LEMMA ReplyKeepsPromises == ASSUME IInv, HInv, NEW r \in replies, Reply(r) PROVE HInv'
<1>1. /\ r.to \in Sessions /\ r.until \in Nat /\ r.beat \in Nat /\ r.beat <= now
      /\ now' = now /\ holder' = holder /\ expires' = expires
      /\ metaStream' = metaStream /\ metaTtl' = metaTtl
      /\ op' = op /\ step' = step /\ who' = who /\ what' = what /\ ttl' = ttl
      /\ granted' = granted /\ touchedAt' = touchedAt
  BY DEF Reply, tables, locals, IInv, TypeOK, Replies, HInv, ClientsWait
<1>2. /\ \A s \in Sessions : beat'[s] = IF s = r.to THEN r.beat ELSE beat[s]
      /\ \A s \in Sessions : s # r.to => promised'[s] = promised[s]
      /\ \A t \in Streams : promised'[r.to][t] =
            IF t = r.stream THEN r.until
            ELSE IF r.beat < beat[r.to] + BeatTtl THEN promised[r.to][t] ELSE 0
  BY <1>1 DEF Reply, StillPromised, IInv, TypeOK
<1>3. TablesKeep'
  <2>1. ASSUME NEW s \in Sessions, NEW t \in Streams
        PROVE  Held(holder, expires, s, t, promised'[s][t], beat'[s])
    <3>1. CASE s # r.to
      BY <1>2, <3>1 DEF HInv, TablesKeep, KeepsPromises
    <3>2. CASE s = r.to
      BY <1>1, <1>2, <3>2 DEF HInv, RepliesKeep, Truthful, Held, IInv, TypeOK
    <3> QED
      BY <3>1, <3>2
  <2>2. ASSUME NEW s \in Sessions, NEW t \in Streams, metaStream[s] = t
        PROVE  promised'[s][t] <= now + metaTtl[s]
    <3>1. promised[s][t] <= now + metaTtl[s]
      BY <2>2 DEF HInv, TablesKeep, RenewsPromises
    <3>2. CASE s # r.to
      BY <1>2, <3>1, <3>2
    <3>3. CASE s = r.to
      BY <1>1, <1>2, <2>2, <3>1, <3>3 DEF HInv, RepliesKeep, Truthful, IInv, TypeOK
    <3> QED
      BY <3>2, <3>3
  <2> QED
    BY <1>1, <2>1, <2>2 DEF TablesKeep, KeepsPromises, RenewsPromises, Held
<1>4. SnapshotsKeep'
  BY DEF Reply, SnapshotsKeep
<1>5. ClientsWait'
  BY <1>1, <1>2 DEF Reply, HInv, ClientsWait
<1>6. RepliesKeep'
  <2> SUFFICES ASSUME NEW q \in replies, q # r PROVE Truthful(q)'
    BY DEF Reply, RepliesKeep
  <2>1. q.to # r.to /\ q.to \in Sessions /\ Truthful(q)
    BY DEF IInv, TypeOK, Replies, HInv, ClientsWait, RepliesKeep
  <2> QED
    BY <1>1, <1>2, <2>1 DEF Truthful, Held
<1>7. op # "idle" => who \in Sessions /\ who # r.to
  BY DEF IInv, Bound, HInv, ClientsWait
<1>8. ClaimKeeps' /\ HandoffKeeps' /\ RenewalKeeps'
  BY <1>1, <1>2, <1>7 DEF HInv, ClaimKeeps, HandoffKeeps, RenewalKeeps, IInv, Bound
<1> QED
  BY <1>3, <1>4, <1>5, <1>6, <1>8 DEF HInv

\* Whatever part of the log survives keeps the promises made before.
LEMMA CrashKeepsPromises == ASSUME IInv, HInv, Crash PROVE HInv'
<1>1. now' = now /\ promised' = promised /\ beat' = beat
  BY DEF Crash, clients
<1>2. TablesKeep'
  <2>1. CASE UNCHANGED tables
    BY <1>1, <2>1 DEF tables, HInv, TablesKeep, KeepsPromises, RenewsPromises, Held
  <2>2. CASE ~UNCHANGED tables
    <3>1. PICK old \in unsynced :
            /\ holder' = old.holder /\ expires' = old.expires
            /\ metaStream' = old.stream /\ metaTtl' = old.ttl
      BY <2>2 DEF Crash
    <3> QED
      BY <1>1, <3>1 DEF HInv, SnapshotsKeep, TablesKeep, KeepsPromises, RenewsPromises, Held
  <2> QED
    BY <2>1, <2>2
<1>3. SnapshotsKeep' /\ RepliesKeep'
  BY DEF Crash, SnapshotsKeep, RepliesKeep
<1>4. ClientsWait'
  BY <1>1 DEF Crash, Idle, HInv, ClientsWait
<1>5. ClaimKeeps' /\ HandoffKeeps' /\ RenewalKeeps'
  BY DEF Crash, Idle, ClaimKeeps, HandoffKeeps, RenewalKeeps
<1> QED
  BY <1>2, <1>3, <1>4, <1>5 DEF HInv

\* The promises hold trivially before anything has been promised.
LEMMA InitHInv == Init => HInv
BY DEF Init, HInv, TablesKeep, SnapshotsKeep, ClientsWait, RepliesKeep, ClaimKeeps, HandoffKeeps,
       RenewalKeeps, KeepsPromises, RenewsPromises, Held

\* Every step keeps the promises.
LEMMA NextHInv == IInv /\ HInv /\ [Next]_vars => HInv'
<1> SUFFICES ASSUME IInv, HInv, [Next]_vars PROVE HInv'
  OBVIOUS
<1>1. CASE UNCHANGED vars
  BY <1>1 DEF vars, tables, locals, clients, HInv, TablesKeep, SnapshotsKeep, ClientsWait,
              RepliesKeep, Truthful, ClaimKeeps, HandoffKeeps, RenewalKeeps, KeepsPromises,
              RenewsPromises, Held
<1>2. CASE Next
  BY <1>2, TickKeepsPromises, BindKeepsPromises, StartClaimKeepsPromises, StartHandoffKeepsPromises, StartReleaseKeepsPromises,
     StartTouchKeepsPromises, CloseKeepsPromises, ClaimLeaseKeepsPromises, ClaimDeniedKeepsPromises, ClaimBindKeepsPromises, TouchKeepsPromises,
     RenewKeepsPromises, ReplyKeepsPromises, AppendFailsKeepsPromises, CrashKeepsPromises DEF Next
<1> QED
  BY <1>1, <1>2

\* For every number of sessions and streams, every ttl and any number of failures:
\* a session that was granted a stream and heartbeats at least every fifteen
\* minutes owns it, with a live lease, until the time it was promised.
THEOREM HeartbeatingHolderSafe == Spec => []HeartbeatingHolderKeeps
<1>1. IInv /\ HInv => HeartbeatingHolderKeeps
  BY DEF IInv, TypeOK, HInv, TablesKeep, KeepsPromises, Held, HeartbeatingHolderKeeps
<1>2. Init => IInv /\ HInv
  BY InitIInv, InitHInv
<1>3. IInv /\ HInv /\ [Next]_vars => IInv' /\ HInv'
  BY NextKeeps, NextHInv
<1> QED
  BY <1>1, <1>2, <1>3, PTL DEF Spec
===============================================================================
