------------------------------- MODULE RpcServer -------------------------------
(***************************************************************************)
(* Remote calls: clients (socket_client.cpp, the bridge of rpc_server.cpp),*)
(* the socket server (socket_server.cpp), the daemon's main loop           *)
(* (simple_cli.cpp) and its thread pools (thread_pool.hpp).                *)
(*                                                                         *)
(* One thread polls, dispatches and writes; handlers run on pool workers,  *)
(* whose answers are addressed to a file descriptor.  Descriptors are      *)
(* reused, calls time out while their handler runs, and the C++ clients    *)
(* give every tool call the id 1.  A client that loses its connection      *)
(* sends its call once more.                                               *)
(***************************************************************************)
EXTENDS Naturals, Sequences, FiniteSets

CONSTANTS
    Kinds,       \* by client: the kinds of call it makes
    MaxLinks,    \* bound: connections that exist at a time, from either end
    Depth,       \* max_queue_depth, of each pool and of the waiting room
    Workers,     \* workers of the request pool and of the write pool
    MaxConns,    \* MAX_CONNECTIONS
    MaxCalls,    \* bound: calls made
    MaxStops     \* bound: shutdowns

ASSUME RpcAssumption ==
    /\ Kinds \in [DOMAIN Kinds -> SUBSET {"health", "read", "write", "learn", "compact"}]
    /\ Depth \in Nat \ {0} /\ Workers \in Nat \ {0} /\ MaxConns \in Nat \ {0}
    /\ MaxLinks \in Nat /\ MaxCalls \in Nat /\ MaxStops \in Nat

Clients == DOMAIN Kinds
Links == 1 .. MaxLinks
NoLink == 0
Fds == 1 .. MaxConns    \* the descriptors of accepted connections

VARIABLES
    calls,      \* the kinds of the calls made so far, in order
    link,       \* by client: its connection
    await,      \* by client: the call whose answer it reads for, or 0
    resent,     \* calls that were sent a second time
    backlog,    \* connections that wait to be accepted
    conns,      \* connections_: by descriptor
    up, wbuf, down, \* by connection: unread requests, write_buffer, unread frames
    io,         \* the I/O thread: "admit", "dispatch" or "down"
    batch,      \* the requests that poll() returned
    waiting,    \* waiting_writes
    queue,      \* tasks_, by pool
    running,    \* tasks on a worker; `done' once the answer is queued
    responses,  \* response_queue_
    inflight,   \* inflight_learn_codebase and compact_wal_inflight, by kind
    got,        \* by call: the answer its client took for it
    runs,       \* by call: how often its handler ran
    abandoned,  \* calls whose client stopped reading for them
    cut,        \* calls whose connection a shutdown closed
    stops

clientVars == <<calls, link, await, resent, got, abandoned>>
taskVars == <<queue, running, inflight, runs>>
vars == <<calls, link, await, resent, backlog, conns, up, wbuf, down, io, batch, waiting,
          queue, running, responses, inflight, got, runs, abandoned, cut, stops>>

Calls == 1 .. MaxCalls
Made == 1 .. Len(calls)
Pools == {"pool", "write", "compact"}
Requests == [fd : Fds, q : Calls]
Frames == [q : Calls, ans : {"result", "refused", "error"}]
NoAnswer == [q |-> 0, ans |-> "none"]

PoolOf(k) == CASE k = "write" -> "write" [] k = "compact" -> "compact" [] OTHER -> "pool"
PoolDepth(p) == IF p = "compact" THEN 1 ELSE Depth
PoolWorkers(p) == IF p = "compact" THEN 1 ELSE Workers

\* learn_codebase and compact_wal are refused while one is in flight.
Exclusive == {"learn", "compact"}

TypeOK ==
    /\ calls \in Seq(UNION {Kinds[c] : c \in Clients}) /\ Len(calls) <= MaxCalls
    /\ link \in [Clients -> Links \cup {NoLink}]
    /\ await \in [Clients -> 0 .. MaxCalls]
    /\ resent \subseteq Calls
    /\ backlog \in Seq(Links)
    /\ conns \in [Fds -> Links \cup {NoLink}]
    /\ up \in [Links -> Seq(Calls)]
    /\ wbuf \in [Links -> Seq(Frames)] /\ down \in [Links -> Seq(Frames)]
    /\ io \in {"admit", "dispatch", "down"}
    /\ batch \subseteq Requests
    /\ waiting \in Seq(Requests) /\ Len(waiting) <= Depth
    /\ queue \in [Pools -> Seq(Requests)]
    /\ \A p \in Pools : Len(queue[p]) <= PoolDepth(p)
    /\ running \in [Pools -> SUBSET [fd : Fds, q : Calls, done : BOOLEAN]]
    /\ \A p \in Pools : Cardinality(running[p]) <= PoolWorkers(p)
    /\ responses \in Seq([fd : Fds, frame : Frames])
    /\ inflight \subseteq Exclusive
    /\ got \in [Calls -> Frames \cup {NoAnswer}]
    /\ runs \in [Calls -> 0 .. 2]
    /\ abandoned \subseteq Calls /\ cut \subseteq Calls
    /\ stops \in 0 .. MaxStops

Init ==
    /\ calls = <<>>
    /\ link = [c \in Clients |-> NoLink] /\ await = [c \in Clients |-> 0]
    /\ resent = {} /\ backlog = <<>> /\ conns = [f \in Fds |-> NoLink]
    /\ up = [l \in Links |-> <<>>] /\ wbuf = [l \in Links |-> <<>>]
    /\ down = [l \in Links |-> <<>>]
    /\ io = "admit" /\ batch = {} /\ waiting = <<>>
    /\ queue = [p \in Pools |-> <<>>] /\ running = [p \in Pools |-> {}]
    /\ responses = <<>> /\ inflight = {}
    /\ got = [q \in Calls |-> NoAnswer] /\ runs = [q \in Calls |-> 0]
    /\ abandoned = {} /\ cut = {} /\ stops = 0

-------------------------------------------------------------------------------
(* Clients.                                                                *)

Held == {link[c] : c \in Clients}
Accepted == {conns[f] : f \in Fds}
Queued == {backlog[i] : i \in DOMAIN backlog}
ServerEnd(l) == l \in Queued \cup Accepted
Listening == io # "down"

\* Connections nobody else holds; the client has disconnected its own.
FreeFor(c) == {l \in Links : (\A d \in Clients \ {c} : link[d] # l) /\ ~ServerEnd(l)}

Open(c, l) ==
    /\ Listening
    /\ l \in FreeFor(c) /\ \A m \in FreeFor(c) : l <= m
    /\ link' = [link EXCEPT ![c] = l]
    /\ backlog' = Append(backlog, l)

\* connect, then request_internal writes the call and reads.
Connect(c, l, k) ==
    /\ link[c] = NoLink /\ Len(calls) < MaxCalls
    /\ Open(c, l)
    /\ calls' = Append(calls, k)
    /\ await' = [await EXCEPT ![c] = Len(calls) + 1]
    /\ up' = [up EXCEPT ![l] = <<Len(calls) + 1>>]
    /\ down' = [down EXCEPT ![l] = <<>>]
    /\ UNCHANGED <<resent, conns, wbuf, io, batch, waiting, queue, running, responses,
                   inflight, got, runs, abandoned, cut, stops>>

\* A call written to a connection that is gone is lost, and so is what was unread.
Carried(l, s) == IF ServerEnd(l) THEN s ELSE <<>>

\* The bridge keeps its connection from one call to the next.
Send(c, k) ==
    /\ link[c] # NoLink /\ await[c] = 0 /\ Len(calls) < MaxCalls
    /\ calls' = Append(calls, k)
    /\ await' = [await EXCEPT ![c] = Len(calls) + 1]
    /\ up' = [up EXCEPT ![link[c]] = Carried(link[c], Append(@, Len(calls) + 1))]
    /\ down' = [down EXCEPT ![link[c]] = Carried(link[c], @)]
    /\ UNCHANGED <<link, resent, backlog, conns, wbuf, io, batch, waiting, queue, running,
                   responses, inflight, got, runs, abandoned, cut, stops>>

\* The client's own health probe has id 0, every tool call has id 1.
IdOf(q) == IF calls[q] = "health" THEN 0 ELSE 1

\* frame_id_matches; the error frame of the pool's exception handler has no id and
\* matches any caller.
Matches(frame, q) == frame.ans = "error" \/ IdOf(frame.q) = IdOf(q)

Receive(c) ==
    /\ await[c] # 0 /\ down[link[c]] # <<>>
    /\ LET frame == Head(down[link[c]])
       IN  IF Matches(frame, await[c])
           THEN /\ got' = [got EXCEPT ![await[c]] = frame]
                /\ await' = [await EXCEPT ![c] = 0]
           ELSE UNCHANGED <<got, await>>
    /\ down' = [down EXCEPT ![link[c]] = Tail(@)]
    /\ UNCHANGED <<calls, link, resent, backlog, conns, up, wbuf, io, batch, waiting, queue,
                   running, responses, inflight, runs, abandoned, cut, stops>>

\* "Response timeout" is no lost connection: the connection stays in use.
Timeout(c) ==
    /\ await[c] # 0
    /\ await' = [await EXCEPT ![c] = 0]
    /\ abandoned' = abandoned \cup {await[c]}
    /\ UNCHANGED <<calls, link, resent, backlog, conns, up, wbuf, down, io, batch, waiting,
                   queue, running, responses, inflight, got, runs, cut, stops>>

\* A command line client exits after its call, the thin client after a failed one.
\* (Not after the last call: nobody would reuse the descriptor.)
Leave(c) ==
    /\ link[c] # NoLink /\ await[c] = 0 /\ Len(calls) < MaxCalls
    /\ link' = [link EXCEPT ![c] = NoLink]
    /\ down' = [down EXCEPT ![link[c]] = <<>>]
    /\ UNCHANGED <<calls, await, resent, backlog, conns, up, wbuf, io, batch, waiting, queue,
                   running, responses, inflight, got, runs, abandoned, cut, stops>>

Lost(c) == await[c] # 0 /\ ~ServerEnd(link[c]) /\ down[link[c]] = <<>>

\* request: reconnect and send the call once more ...
Resend(c, l) ==
    /\ Lost(c) /\ await[c] \notin resent
    /\ Open(c, l)
    /\ up' = [up EXCEPT ![l] = <<await[c]>>]
    /\ down' = [down EXCEPT ![l] = <<>>]
    /\ resent' = resent \cup {await[c]}
    /\ UNCHANGED <<calls, await, conns, wbuf, io, batch, waiting, queue, running, responses,
                   inflight, got, runs, abandoned, cut, stops>>

\* ... or fail, the second time or when there is nobody to connect to.
Fail(c) ==
    /\ Lost(c) /\ (await[c] \in resent \/ ~Listening)
    /\ link' = [link EXCEPT ![c] = NoLink]
    /\ await' = [await EXCEPT ![c] = 0]
    /\ abandoned' = abandoned \cup {await[c]}
    /\ UNCHANGED <<calls, resent, backlog, conns, up, wbuf, down, io, batch, waiting, queue,
                   running, responses, inflight, got, runs, cut, stops>>

-------------------------------------------------------------------------------
(* SocketServer::poll.                                                     *)

HungUp == {f \in Fds : conns[f] # NoLink /\ conns[f] \notin Held}

\* The place of n in S, counted from below, and the member of S with a place.
Rank(S, n) == Cardinality({x \in S : x <= n})
Nth(S, m) == CHOOSE n \in S : Rank(S, n) = m

\* accept_new_connections: each takes the lowest free descriptor; beyond the limit
\* they are closed at once.
FreeFds == {f \in Fds : conns[f] = NoLink}

WithNew ==
    [f \in Fds |-> IF f \in FreeFds /\ Rank(FreeFds, f) <= Len(backlog)
                   THEN backlog[Rank(FreeFds, f)] ELSE conns[f]]

HasRoom(p) == Len(queue[p]) < PoolDepth(p)

\* A round that finds nothing to do is left out.
Ready ==
    \/ backlog # <<>> \/ HungUp # {} \/ responses # <<>>
    \/ \E l \in Accepted \ {NoLink} : up[l] # <<>> \/ wbuf[l] # <<>>

\* One round: accept, read and write every connection that was there before, take
\* out the complete requests, close what hung up - after its requests were read.
Poll ==
    /\ io = "admit" /\ Ready
    /\ waiting = <<>> \/ ~HasRoom("write")
    /\ conns' = [f \in Fds |-> IF f \in HungUp THEN NoLink ELSE WithNew[f]]
    /\ batch' = UNION {{[fd |-> f, q |-> up[conns[f]][i]] : i \in DOMAIN up[conns[f]]} :
                         f \in {g \in Fds : conns[g] # NoLink}}
    /\ up' = [l \in Links |-> IF l \in Accepted THEN <<>>
                              ELSE IF l \in Queued /\ \A f \in Fds : conns'[f] # l THEN <<>>
                              ELSE up[l]]
    /\ down' = [l \in Links |-> IF l \in Accepted \cap Held THEN down[l] \o wbuf[l]
                                ELSE down[l]]
    /\ wbuf' = [l \in Links |-> <<>>]
    /\ backlog' = <<>>
    /\ io' = "dispatch"
    /\ UNCHANGED <<waiting, responses, cut, stops>>
    /\ UNCHANGED clientVars /\ UNCHANGED taskVars

\* Mutant: connections are counted from one too many.
ReceiverNextDoor(fd) == IF fd < MaxConns /\ conns[fd + 1] # NoLink THEN conns[fd + 1] ELSE conns[fd]

\* respond: the frame goes to whoever has the descriptor now.
Receiver(fd) == conns[fd]

Buffered(buf, fd, frame) ==
    IF Receiver(fd) = NoLink THEN buf
    ELSE [buf EXCEPT ![Receiver(fd)] = Append(@, frame)]

-------------------------------------------------------------------------------
(* The main loop.                                                          *)

Submit(p, r) == queue' = [queue EXCEPT ![p] = Append(@, r)]

Refuse(r) == wbuf' = Buffered(wbuf, r.fd, [q |-> r.q, ans |-> "refused"])

\* Mutant: a refused task leaves its mark behind.
KeepMark(k) == inflight \cup ({k} \cap Exclusive)

Unmark(k) == inflight

\* A health check is answered inline; everything else is offered to a pool.
\* A call of an exclusive kind is marked in flight, or skipped if one is; when the
\* pool is full the mark is taken back.  Only writes may wait.
Dispatch(r) ==
    /\ io = "dispatch" /\ r \in batch
    /\ \A x \in batch : x.fd = r.fd => r.q <= x.q
    /\ LET k == calls[r.q]
           p == PoolOf(k)
       IN  \/ /\ k = "health"
              /\ wbuf' = Buffered(wbuf, r.fd, [q |-> r.q, ans |-> "result"])
              /\ UNCHANGED <<queue, inflight, waiting>>
           \/ /\ k \in inflight
              /\ Refuse(r)
              /\ UNCHANGED <<queue, inflight, waiting>>
           \/ /\ k # "health" /\ k \notin inflight /\ HasRoom(p)
              /\ Submit(p, r)
              /\ inflight' = inflight \cup ({k} \cap Exclusive)
              /\ UNCHANGED <<wbuf, waiting>>
           \/ /\ k = "write" /\ ~HasRoom(p) /\ Len(waiting) < Depth
              /\ waiting' = Append(waiting, r)
              /\ UNCHANGED <<queue, inflight, wbuf>>
           \/ /\ k # "health" /\ k \notin inflight /\ ~HasRoom(p)
              /\ k = "write" => Len(waiting) = Depth
              /\ Refuse(r)
              /\ inflight' = Unmark(k)
              /\ UNCHANGED <<queue, waiting>>
    /\ batch' = batch \ {r}
    /\ UNCHANGED <<backlog, conns, up, down, io, running, responses, runs, cut, stops>>
    /\ UNCHANGED clientVars

\* Mutant: responses stay queued when there were requests to dispatch.
DrainIdle(buf) == IF waiting = <<>> THEN buf ELSE wbuf

\* The queued responses to connection l.
ResponsesTo(l) == {n \in DOMAIN responses : Receiver(responses[n].fd) = l}

\* All queued responses are handed to their connections, in order.
Drained(buf) ==
    [l \in Links |-> buf[l] \o [m \in 1 .. Cardinality(ResponsesTo(l)) |->
                                  responses[Nth(ResponsesTo(l), m)].frame]]

Drain ==
    /\ io = "dispatch" /\ batch = {}
    /\ wbuf' = Drained(wbuf)
    /\ responses' = <<>>
    /\ io' = "admit"
    /\ UNCHANGED <<backlog, conns, up, down, batch, waiting, cut, stops>>
    /\ UNCHANGED clientVars /\ UNCHANGED taskVars

\* The next round first looks at the writes that wait, oldest first.
Admit ==
    /\ io = "admit" /\ waiting # <<>> /\ HasRoom("write")
    /\ Submit("write", Head(waiting))
    /\ waiting' = Tail(waiting)
    /\ UNCHANGED <<backlog, conns, up, wbuf, down, io, batch, running, responses, inflight,
                   runs, cut, stops>>
    /\ UNCHANGED clientVars

\* Mutant: a write that has expired is answered and still submitted later.
StillWaiting == waiting

AfterExpiry == Tail(waiting)

\* "write queue admission timed out"
Expire ==
    /\ io = "admit" /\ waiting # <<>>
    /\ responses' = Append(responses, [fd |-> Head(waiting).fd,
                                       frame |-> [q |-> Head(waiting).q, ans |-> "refused"]])
    /\ waiting' = AfterExpiry
    /\ UNCHANGED <<backlog, conns, up, wbuf, down, io, batch, cut, stops>>
    /\ UNCHANGED clientVars /\ UNCHANGED taskVars

-------------------------------------------------------------------------------
(* Pool workers.                                                           *)

Take(p) ==
    /\ queue[p] # <<>> /\ Cardinality(running[p]) < PoolWorkers(p)
    /\ running' = [running EXCEPT ![p] = @ \cup
                     {[fd |-> Head(queue[p]).fd, q |-> Head(queue[p]).q, done |-> FALSE]}]
    /\ queue' = [queue EXCEPT ![p] = Tail(@)]
    /\ UNCHANGED <<backlog, conns, up, wbuf, down, io, batch, waiting, responses, inflight,
                   runs, cut, stops>>
    /\ UNCHANGED clientVars

\* The handler returns or throws, and on_complete queues the answer.
Work(p, t, ans) ==
    /\ t \in running[p] /\ ~t.done
    /\ runs' = [runs EXCEPT ![t.q] = @ + 1]
    /\ responses' = Append(responses, [fd |-> t.fd, frame |-> [q |-> t.q, ans |-> ans]])
    /\ running' = [running EXCEPT ![p] = (@ \ {t}) \cup
                     (IF calls[t.q] \in Exclusive THEN {[t EXCEPT !.done = TRUE]} ELSE {})]
    /\ UNCHANGED <<backlog, conns, up, wbuf, down, io, batch, waiting, queue, inflight, cut,
                   stops>>
    /\ UNCHANGED clientVars

\* The second half of on_complete: the kind is no longer in flight.
Release(p, t) ==
    /\ t \in running[p] /\ t.done
    /\ running' = [running EXCEPT ![p] = @ \ {t}]
    /\ inflight' = inflight \ {calls[t.q]}
    /\ UNCHANGED <<backlog, conns, up, wbuf, down, io, batch, waiting, queue, responses, runs,
                   cut, stops>>
    /\ UNCHANGED clientVars

-------------------------------------------------------------------------------
(* Shutdown and restart.                                                   *)

\* Calls whose handler is yet to run.
Pending ==
    UNION {{queue[p][i].q : i \in DOMAIN queue[p]} \cup {t.q : t \in {x \in running[p] : ~x.done}} :
             p \in Pools}

\* The loop ends; stop() closes every connection with whatever its write buffer
\* holds, and the writes that wait are forgotten.  Then the pools' destructors run
\* what is queued, until the alarm ends the process.
Stop ==
    /\ io = "admit" /\ stops < MaxStops
    /\ stops' = stops + 1
    /\ io' = "down"
    /\ cut' = cut \cup {await[c] : c \in {d \in Clients : await[d] # 0}}
    /\ conns' = [f \in Fds |-> NoLink] /\ backlog' = <<>>
    /\ up' = [l \in Links |-> <<>>] /\ wbuf' = [l \in Links |-> <<>>]
    /\ waiting' = <<>> /\ responses' = <<>>
    /\ \E ran \in SUBSET Pending :
         runs' = [q \in Calls |-> IF q \in ran THEN runs[q] + 1 ELSE runs[q]]
    /\ queue' = [p \in Pools |-> <<>>] /\ running' = [p \in Pools |-> {}] /\ inflight' = {}
    /\ UNCHANGED <<down, batch>>
    /\ UNCHANGED clientVars

Restart ==
    /\ io = "down"
    /\ io' = "admit"
    /\ UNCHANGED <<backlog, conns, up, wbuf, down, batch, waiting, responses, cut, stops>>
    /\ UNCHANGED clientVars /\ UNCHANGED taskVars

-------------------------------------------------------------------------------

ClientStep(c) ==
    \/ \E l \in Links : Resend(c, l) \/ \E k \in Kinds[c] : Connect(c, l, k)
    \/ \E k \in Kinds[c] : Send(c, k)
    \/ Receive(c) \/ Timeout(c) \/ Leave(c) \/ Fail(c)

Loop == Poll \/ (\E r \in batch : Dispatch(r)) \/ Drain \/ Admit \/ Expire

Answers == {"result", "error"}

WorkerStep(p) ==
    \/ Take(p)
    \/ \E t \in running[p] : Release(p, t) \/ \E ans \in Answers : Work(p, t, ans)

Next ==
    \/ \E c \in Clients : ClientStep(c)
    \/ Loop
    \/ \E p \in Pools : WorkerStep(p)
    \/ Stop \/ Restart

Spec == Init /\ [][Next]_vars

\* The I/O thread and the workers are scheduled, handlers return, and a client that
\* waits reads what there is or notices that its connection is gone.
FairSpec ==
    /\ Spec
    /\ WF_vars(Loop)
    /\ \A p \in Pools : WF_vars(WorkerStep(p))
    /\ \A c \in Clients : /\ WF_vars(Receive(c)) /\ WF_vars(Fail(c))
                          /\ WF_vars(\E l \in Links : Resend(c, l))

-------------------------------------------------------------------------------
(* Properties.                                                             *)

\* Calls that were given another call's answer; their own arrives later, if at all.
Overtaken == {q \in Made : got[q].q \notin {0, q}}

\* An answer that a client takes for its call is the answer to that call, or to one
\* its client gave up before, or to one that was itself overtaken: only a call that
\* timed out shifts answers, from then on every later one of its connection.
\* Descriptors that are closed and reused while handlers run never cross the answers
\* of two calls that are waited for.
OwnAnswerUnlessAbandoned ==
    /\ \A q \in Made : got[q].q \in {0, q} \cup abandoned \cup Overtaken
    /\ Overtaken # {} => abandoned # {}

\* A client that is told its call was refused - overloaded, skipped, not admitted in
\* time - may make it again: the handler has not run and will not run.  The client's
\* own retry repeats the effect of a call only when a shutdown closed its connection,
\* and then at most once.
EffectsMatchAnswers ==
    \A q \in Made :
        /\ got[q].q = q /\ got[q].ans = "refused" /\ q \notin cut => runs[q] = 0
        /\ runs[q] <= 1 \/ (q \in cut /\ runs[q] = 2)

\* The promise behind the connections, the queues and the workers: a call is executed
\* once and not after its answer, an answer is taken by one call and is true of the call
\* it belongs to, with the exceptions that shutdowns and calls given up make.
RemoteCallsSpec ==
    INSTANCE RemoteCalls WITH Offered <- UNION {Kinds[c] : c \in Clients}

ImplementsRemoteCalls == RemoteCallsSpec!Spec

InPool(k) ==
    {r \in Requests : r.q \in Made /\ calls[r.q] = k
                      /\ \E p \in Pools : \/ \E i \in DOMAIN queue[p] : queue[p][i] = r
                                          \/ \E t \in running[p] : t.fd = r.fd /\ t.q = r.q}

\* The mark of an exclusive kind and the task it stands for come and go together,
\* through refusals, exceptions and shutdowns: the kind is neither blocked for ever
\* nor run twice at a time.
MarkMatchesTask ==
    \A k \in Exclusive :
        Cardinality(InPool(k)) = IF k \in inflight THEN 1 ELSE 0

\* Every call a client waits for is answered or fails, although answers are dropped,
\* misdirected and refused, and without its timeout having to expire.
EveryCallReturns == \A c \in Clients : await[c] # 0 ~> await[c] = 0

\* "Skip any frame whose id doesn't match expected_id (stale/out-of-order response)"
StaleFramesSkipped == \A q \in Made : got[q].q \in {0, q}
===============================================================================
