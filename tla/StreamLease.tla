------------------------------ MODULE StreamLease ------------------------------
(***************************************************************************)
(* Stream ownership in the task ledger (task_ledger.hpp and the gateway    *)
(* tool_ledger_op in field_task_ledger.cpp): agent sessions claim, renew,  *)
(* hand off and release streams, each owned through one lease row.         *)
(*                                                                         *)
(* An operation runs under stream_mutex as a few ledger transactions; each *)
(* is one WAL batch, persisted before its rows are published.  The reply   *)
(* leaves after the mutex is released and the store is synced, so a crash  *)
(* may cut an operation after any transaction and may take back any        *)
(* transactions not yet synced.  Time passes between all of these.         *)
(***************************************************************************)
EXTENDS Integers

CONSTANTS
    Sessions, Streams,
    BeatTtl,      \* the 900 s a heartbeat gives every lease of its session
    Ttls,         \* the ttl arguments of stream_claim
    MaxTime,      \* bound: the clock
    MaxOps,       \* bound: operations started
    MaxFaults     \* bound: failed WAL appends and crashes

ASSUME LeaseAssumption ==
    /\ BeatTtl \in Nat \ {0}
    /\ Ttls \subseteq Nat \ {0}
    /\ MaxTime \in Nat /\ MaxOps \in Nat /\ MaxFaults \in Nat

NoOne == "nobody"
NoStream == "none"

ASSUME NamesAssumption == NoOne \notin Sessions /\ NoStream \notin Streams

VARIABLES
    now,
    \* the published tables
    holder, expires,      \* thread_leases: session_id and expires_at by stream
    status,               \* thread_sessions: no row, open, or closed (ended_at is set)
    metaStream, metaTtl,  \*   and the stream and ttl of its metadata_json
    \* older states of the tables that a crash may fall back to
    unsynced,
    \* the operation in progress, and its locals
    op,                   \* which one, or "idle"
    step,                 \* its next transaction
    who, what, ttl,       \* its session, stream and ttl arguments
    granted,              \* expires_at of the claim it will report
    touchedAt,            \* when it renewed the session's leases
    \* replies not yet delivered
    replies,
    \* what the clients know: until when each stream was promised to them, and
    \* when their last acknowledged heartbeat was taken
    promised, beat,
    ops, faults

tables == <<holder, expires, status, metaStream, metaTtl>>
locals == <<who, what, ttl, granted, touchedAt>>
clients == <<promised, beat>>
vars == <<now, tables, unsynced, op, step, locals, replies, clients, ops, faults>>

Snapshots == [holder : [Streams -> Sessions \cup {NoOne}],
              expires : [Streams -> Nat],
              status : [Sessions -> {"none", "open", "closed"}],
              stream : [Sessions -> Streams \cup {NoStream}],
              ttl : [Sessions -> Nat]]

Replies == [to : Sessions, stream : Streams \cup {NoStream}, until : Nat, beat : Nat]

TypeOK ==
    /\ now \in 0 .. MaxTime
    /\ holder \in [Streams -> Sessions \cup {NoOne}]
    /\ expires \in [Streams -> Nat]
    /\ status \in [Sessions -> {"none", "open", "closed"}]
    /\ metaStream \in [Sessions -> Streams \cup {NoStream}]
    /\ metaTtl \in [Sessions -> Nat]
    /\ unsynced \subseteq Snapshots
    /\ op \in {"idle", "claim", "touch", "handoff", "release"}
    /\ step \in {"start", "lease", "bind", "touch", "renew"}
    /\ who \in Sessions \cup {NoOne} /\ what \in Streams \cup {NoStream}
    /\ ttl \in Nat /\ granted \in Nat /\ touchedAt \in Nat
    /\ replies \subseteq Replies
    /\ promised \in [Sessions -> [Streams -> Nat]]
    /\ beat \in [Sessions -> Nat]
    /\ ops \in 0 .. MaxOps /\ faults \in 0 .. MaxFaults

Init ==
    /\ now = 0
    /\ holder = [t \in Streams |-> NoOne]
    /\ expires = [t \in Streams |-> 0]
    /\ status = [s \in Sessions |-> "none"]
    /\ metaStream = [s \in Sessions |-> NoStream]
    /\ metaTtl = [s \in Sessions |-> 0]
    /\ unsynced = {}
    /\ op = "idle" /\ step = "start"
    /\ who = NoOne /\ what = NoStream
    /\ ttl = 0 /\ granted = 0 /\ touchedAt = 0
    /\ replies = {}
    /\ promised = [s \in Sessions |-> [t \in Streams |-> 0]]
    /\ beat = [s \in Sessions |-> 0]
    /\ ops = 0 /\ faults = 0

Tick ==
    /\ now < MaxTime
    /\ now' = now + 1
    /\ UNCHANGED <<tables, unsynced, op, step, locals, replies, clients, ops, faults>>

-------------------------------------------------------------------------------
(* Transactions.  TaskLedger::run persists the batch, then publishes it;   *)
(* until the store is synced a crash may return to the tables before it.   *)

Persist ==
    unsynced' = unsynced \cup {[holder |-> holder, expires |-> expires, status |-> status,
                                stream |-> metaStream, ttl |-> metaTtl]}

\* lease_claim is refused while another session's lease is live.
LiveOwner(s, t) == holder[t] \notin {NoOne, s} /\ expires[t] > now

PutLease(s, t, n) ==
    /\ holder' = [holder EXCEPT ![t] = s]
    /\ expires' = [expires EXCEPT ![t] = now + n]

\* session_bind and session_touch clear ended_at.
Reopen(s) == status' = [status EXCEPT ![s] = "open"]

\* A new request waits for stream_mutex; a client waits for its last answer.
Request(o, s, t, n) ==
    /\ op = "idle" /\ ops < MaxOps
    /\ \A r \in replies : r.to # s
    /\ op' = o /\ who' = s /\ what' = t /\ ttl' = n
    /\ granted' = 0 /\ touchedAt' = 0
    /\ ops' = ops + 1

\* The mutex is released.
Idle ==
    /\ op' = "idle" /\ step' = "start"
    /\ who' = NoOne /\ what' = NoStream
    /\ ttl' = 0 /\ granted' = 0 /\ touchedAt' = 0

Answer(t, until, at) ==
    /\ Idle
    /\ replies' = replies \cup {[to |-> who, stream |-> t, until |-> until, beat |-> at]}

-------------------------------------------------------------------------------
(* session_register, or any other session_bind, on its own.                *)

Bind(s) ==
    /\ op = "idle" /\ ops < MaxOps
    /\ \A r \in replies : r.to # s
    /\ ops' = ops + 1
    /\ Reopen(s)
    /\ Persist
    /\ UNCHANGED <<now, holder, expires, metaStream, metaTtl, op, step, locals, replies, clients, faults>>

-------------------------------------------------------------------------------
(* stream_claim: bind the session, claim the lease, record the claim in    *)
(* the session's metadata, register and heartbeat.                         *)

\* A client that claims again with a shorter ttl expects no more than that.
StartClaim(s, t, n) ==
    /\ Request("claim", s, t, n)
    /\ step' = "lease"
    /\ Reopen(s)
    /\ Persist
    /\ promised' = [promised EXCEPT ![s][t] = IF @ < now + n THEN @ ELSE now + n]
    /\ UNCHANGED <<now, holder, expires, metaStream, metaTtl, replies, beat, faults>>

ClaimLease ==
    /\ op = "claim" /\ step = "lease"
    /\ ~LiveOwner(who, what)
    /\ PutLease(who, what, ttl)
    /\ granted' = now + ttl
    /\ step' = "bind"
    /\ Persist
    /\ UNCHANGED <<now, status, metaStream, metaTtl, op, who, what, ttl, touchedAt, replies, clients,
                   ops, faults>>

ClaimDenied ==
    /\ op = "claim" /\ step = "lease"
    /\ LiveOwner(who, what)
    /\ Idle
    /\ UNCHANGED <<now, tables, unsynced, replies, clients, ops, faults>>

ClaimBind ==
    /\ op = "claim" /\ step = "bind"
    /\ metaStream' = [metaStream EXCEPT ![who] = what]
    /\ metaTtl' = [metaTtl EXCEPT ![who] = ttl]
    /\ Reopen(who)
    /\ step' = "touch"
    /\ Persist
    /\ UNCHANGED <<now, holder, expires, op, locals, replies, clients, ops, faults>>

-------------------------------------------------------------------------------
(* session_touch, on its own (a session_heartbeat) and inside the others.  *)

StartTouch(s) ==
    /\ status[s] # "none"
    /\ Request("touch", s, NoStream, 0)
    /\ step' = "touch"
    /\ UNCHANGED <<now, tables, unsynced, replies, clients, faults>>

\* Every lease of the session gets the ordinary fifteen minutes ...
Beaten(s) == [t \in Streams |-> IF holder[t] = s THEN now + BeatTtl ELSE expires[t]]

\* ... and the stream of its metadata, if it holds that one, is claimed anew.
OwnsMetaStream(s) == metaStream[s] # NoStream /\ holder[metaStream[s]] = s

\* `e' are the expiry times the handoff reads back.
Finish(e, at) ==
    CASE op = "claim"   -> Answer(what, granted, at)
      [] op = "handoff" -> Answer(what, e[what], at)
      [] OTHER          -> Answer(NoStream, 0, at)

Touch ==
    /\ step = "touch"
    /\ expires' = Beaten(who)
    /\ Reopen(who)
    /\ Persist
    /\ IF OwnsMetaStream(who)
         THEN step' = "renew" /\ touchedAt' = now /\ UNCHANGED <<op, who, what, ttl, granted, replies>>
         ELSE Finish(expires', now)
    /\ UNCHANGED <<now, holder, metaStream, metaTtl, clients, ops, faults>>

Renew ==
    /\ step = "renew"
    /\ PutLease(who, metaStream[who], metaTtl[who])
    /\ Persist
    /\ Finish(expires', touchedAt)
    /\ UNCHANGED <<now, status, metaStream, metaTtl, clients, ops, faults>>

-------------------------------------------------------------------------------
(* stream_handoff, stream_release and session_close.                       *)

\* A live owned claim is required; the memory is saved and the session touched.
StartHandoff(s, t) ==
    /\ holder[t] = s /\ expires[t] > now
    /\ Request("handoff", s, t, 0)
    /\ step' = "touch"
    /\ UNCHANGED <<now, tables, unsynced, replies, clients, faults>>

\* Mutant: a release does not look at who holds the lease.
ReleasableByAnyone(s, t) == holder[t] # NoOne

Releasable(s, t) == holder[t] = s

\* A client that releases a stream has stopped working on it.
StartRelease(s, t) ==
    /\ Releasable(s, t)
    /\ Request("release", s, t, 0)
    /\ holder' = [holder EXCEPT ![t] = NoOne]
    /\ expires' = [expires EXCEPT ![t] = 0]
    /\ step' = "touch"
    /\ Persist
    /\ promised' = [promised EXCEPT ![s][t] = 0]
    /\ UNCHANGED <<now, status, metaStream, metaTtl, replies, beat, faults>>

\* Mutant: closing a session leaves its leases to expire.
KeptOnClose(s) == holder

ClosedHolders(s) == [t \in Streams |-> IF holder[t] = s THEN NoOne ELSE holder[t]]

\* One transaction ends the session and deletes its leases.
Close(s) ==
    /\ op = "idle" /\ ops < MaxOps
    /\ \A r \in replies : r.to # s
    /\ status[s] # "none"
    /\ ops' = ops + 1
    /\ holder' = ClosedHolders(s)
    /\ expires' = [t \in Streams |-> IF holder[t] = s THEN 0 ELSE expires[t]]
    /\ status' = [status EXCEPT ![s] = "closed"]
    /\ Persist
    /\ promised' = [promised EXCEPT ![s] = [t \in Streams |-> 0]]
    /\ UNCHANGED <<now, metaStream, metaTtl, op, step, locals, replies, beat, faults>>

-------------------------------------------------------------------------------
(* Replies, failures and crashes.                                          *)

\* A client whose heartbeats are fifteen minutes apart has let its leases lapse.
StillPromised(s, at) ==
    IF at < beat[s] + BeatTtl THEN promised[s] ELSE [t \in Streams |-> 0]

\* The dispatcher syncs the store and answers.
Reply(r) ==
    /\ unsynced' = {}
    /\ replies' = replies \ {r}
    /\ beat' = [beat EXCEPT ![r.to] = r.beat]
    /\ promised' = [promised EXCEPT ![r.to] =
                       [t \in Streams |-> IF t = r.stream THEN r.until
                                          ELSE StillPromised(r.to, r.beat)[t]]]
    /\ UNCHANGED <<now, tables, op, step, locals, ops, faults>>

\* "ledger WAL append failed": the operation ends after the transactions it
\* has already published, and its client gets an error.
AppendFails ==
    /\ op # "idle" /\ faults < MaxFaults
    /\ faults' = faults + 1
    /\ Idle
    /\ UNCHANGED <<now, tables, unsynced, replies, clients, ops>>

\* load_task_ledger replays what survived of the WAL.
Crash ==
    /\ faults < MaxFaults
    /\ faults' = faults + 1
    /\ \/ UNCHANGED tables
       \/ \E old \in unsynced :
            /\ holder' = old.holder
            /\ expires' = old.expires
            /\ status' = old.status
            /\ metaStream' = old.stream
            /\ metaTtl' = old.ttl
    /\ unsynced' = {}
    /\ Idle
    /\ replies' = {}
    /\ UNCHANGED <<now, clients, ops>>

Next ==
    \/ Tick
    \/ \E s \in Sessions :
         \/ \E t \in Streams, n \in Ttls : StartClaim(s, t, n)
         \/ \E t \in Streams : StartHandoff(s, t) \/ StartRelease(s, t)
         \/ Bind(s) \/ StartTouch(s) \/ Close(s)
    \/ ClaimLease \/ ClaimDenied \/ ClaimBind \/ Touch \/ Renew
    \/ \E r \in replies : Reply(r)
    \/ AppendFails \/ Crash

Spec == Init /\ [][Next]_vars

-------------------------------------------------------------------------------
(* Properties.                                                             *)

\* A session that was granted a stream and keeps heartbeating at least every
\* fifteen minutes owns it until the time it was promised, whatever the other
\* sessions claim, release or close, and wherever operations are cut short by
\* failed WAL appends and crashes: ownership is "atomic, WAL-backed".
HeartbeatingHolderKeeps ==
    \A s \in Sessions, t \in Streams :
        now < promised[s][t] /\ now < beat[s] + BeatTtl =>
            holder[t] = s /\ expires[t] > now

\* A closed session holds no stream, although lease_claim itself never looks at
\* ended_at: operations do not interleave, a claim or a renewal has reopened the
\* session in a transaction before it, and no failed append or crash leaves the
\* end of a session without its lease deletions.
ClosedSessionsHoldNothing ==
    \A t \in Streams : holder[t] # NoOne => status[holder[t]] = "open"
===============================================================================
