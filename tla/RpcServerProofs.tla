---------------------------- MODULE RpcServerProofs ----------------------------
(***************************************************************************)
(* The safety properties of RpcServer for any clients, connections, queue  *)
(* depths, workers, calls and shutdowns.  A call that is under way is a    *)
(* token: a request on its connection, in the batch, the waiting room, a   *)
(* queue or on a worker, or an answer in the response queue, a write       *)
(* buffer or on its way to the client.                                     *)
(***************************************************************************)
EXTENDS RpcServer, FiniteSetTheorems, FunctionTheorems, SequenceTheorems, TLAPS

-------------------------------------------------------------------------------
(* The inductive invariant.                                                *)

CallKinds == UNION {Kinds[c] : c \in Clients}
MadeRequests == [fd : Fds, q : Made]
Tasks == [fd : Fds, q : Made, done : BOOLEAN]
Responses == [fd : Fds, frame : Frames]

ClientTypes ==
    /\ calls \in Seq(CallKinds) /\ Len(calls) <= MaxCalls
    /\ link \in [Clients -> Links \cup {NoLink}]
    /\ await \in [Clients -> Made \cup {0}]
    /\ \A c \in Clients : await[c] # 0 => link[c] # NoLink
    /\ resent \subseteq Made /\ abandoned \subseteq Made /\ cut \subseteq Made
    /\ got \in [Calls -> Frames \cup {NoAnswer}]

WireTypes ==
    /\ backlog \in Seq(Links)
    /\ conns \in [Fds -> Links \cup {NoLink}]
    /\ up \in [Links -> Seq(Made)]
    /\ wbuf \in [Links -> Seq(Frames)] /\ down \in [Links -> Seq(Frames)]
    /\ io \in {"admit", "dispatch", "down"} /\ stops \in 0 .. MaxStops

DeskTypes ==
    /\ batch \subseteq MadeRequests
    /\ waiting \in Seq(MadeRequests) /\ Len(waiting) <= Depth
    /\ responses \in Seq(Responses)

PoolTypes ==
    /\ queue \in [Pools -> Seq(MadeRequests)]
    /\ \A p \in Pools : Len(queue[p]) <= PoolDepth(p)
    /\ running \in [Pools -> SUBSET Tasks]
    /\ \A p \in Pools : IsFiniteSet(running[p]) /\ Cardinality(running[p]) <= PoolWorkers(p)
    /\ inflight \subseteq Exclusive
    /\ runs \in [Calls -> Nat]

Types == ClientTypes /\ WireTypes /\ DeskTypes /\ PoolTypes

\* Requests are where their kind belongs.
Sorted ==
    /\ \A i \in DOMAIN waiting : calls[waiting[i].q] = "write"
    /\ \A p \in Pools : \A i \in DOMAIN queue[p] : PoolOf(calls[queue[p][i].q]) = p
    /\ \A p \in Pools : \A t \in running[p] : PoolOf(calls[t.q]) = p

\* The one task of an exclusive kind that is in flight is queued or on a worker.
QueuedOf(k) == {i \in DOMAIN queue[PoolOf(k)] : calls[queue[PoolOf(k)][i].q] = k}
RunningOf(k) == {t \in running[PoolOf(k)] : calls[t.q] = k}
MarkOf(k) ==
    \/ k \notin inflight /\ QueuedOf(k) = {} /\ RunningOf(k) = {}
    \/ k \in inflight /\ RunningOf(k) = {} /\ \E i \in DOMAIN queue[PoolOf(k)] : QueuedOf(k) = {i}
    \/ k \in inflight /\ QueuedOf(k) = {} /\ \E t \in running[PoolOf(k)] : RunningOf(k) = {t}
Marked == \A k \in Exclusive : MarkOf(k)
DoneAreExclusive == \A p \in Pools : \A t \in running[p] : t.done => calls[t.q] \in Exclusive

DeskInv == Types /\ Sorted /\ Marked /\ DoneAreExclusive

\* A client has its own connection and its own call, which is unanswered.
ClientEnds ==
    /\ \A c, d \in Clients : link[c] = link[d] /\ link[c] # NoLink => c = d
    /\ \A c, d \in Clients : await[c] = await[d] /\ await[c] # 0 => c = d
    /\ \A c \in Clients : await[c] # 0 => got[await[c]] = NoAnswer /\ await[c] \notin abandoned
    /\ \A q \in Calls \ Made : got[q] = NoAnswer

\* On the server's side a connection has one place.
ServerEnds ==
    /\ \A f, g \in Fds : conns[f] = conns[g] /\ conns[f] # NoLink => f = g
    /\ \A i, j \in DOMAIN backlog : backlog[i] = backlog[j] => i = j
    /\ \A i \in DOMAIN backlog : backlog[i] \notin Accepted
    /\ \A l \in Links : up[l] # <<>> => ServerEnd(l)
    /\ \A l \in Links : wbuf[l] # <<>> => l \in Accepted
    /\ io # "dispatch" => batch = {}

\* Nobody has the answer of call q.
Untaken(q) == \A p \in Calls : got[p].q # q

\* A call that is under way, on connection l: nobody has its answer, and if it is
\* still waited for it is its own client who holds the connection.
Good(q, l) ==
    /\ q \in Made /\ Untaken(q)
    /\ q \in abandoned \cup Overtaken \/ \E c \in Clients : await[c] = q
    /\ \A c \in Clients : await[c] = q => link[c] = l

\* What a call's handler has done before it runs, and when it is not to run.
Unrepeated(q) == runs[q] = 0 \/ (runs[q] = 1 /\ q \in resent /\ q \in cut)
Unrun(q) == q \in cut \/ runs[q] = 0

\* What an answer says of its call is so.
Tells(frame) ==
    /\ frame.q \in Made
    /\ IF frame.ans = "refused" THEN Unrun(frame.q)
       ELSE runs[frame.q] > 0 \/ calls[frame.q] = "health"

UpGood == \A l \in Links : \A i \in DOMAIN up[l] : Good(up[l][i], l) /\ Unrepeated(up[l][i])
BatchGood == \A r \in batch : Good(r.q, conns[r.fd]) /\ Unrepeated(r.q)
WaitingGood ==
    \A i \in DOMAIN waiting : Good(waiting[i].q, conns[waiting[i].fd]) /\ Unrepeated(waiting[i].q)
QueueGood ==
    \A p \in Pools : \A i \in DOMAIN queue[p] :
        Good(queue[p][i].q, conns[queue[p][i].fd]) /\ Unrepeated(queue[p][i].q)
RunningGood ==
    \A p \in Pools : \A t \in running[p] :
        ~t.done => Good(t.q, conns[t.fd]) /\ Unrepeated(t.q)
ResponsesGood ==
    \A i \in DOMAIN responses :
        Good(responses[i].frame.q, conns[responses[i].fd]) /\ Tells(responses[i].frame)
WbufGood == \A l \in Links : \A i \in DOMAIN wbuf[l] : Good(wbuf[l][i].q, l) /\ Tells(wbuf[l][i])
DownGood == \A l \in Links : \A i \in DOMAIN down[l] : Good(down[l][i].q, l) /\ Tells(down[l][i])

AllGood ==
    /\ UpGood /\ BatchGood /\ WaitingGood /\ QueueGood
    /\ RunningGood /\ ResponsesGood /\ WbufGood /\ DownGood

\* In a family of queues: a call has one place, and the calls that have one.
OnceIn(F) ==
    \A a, b \in DOMAIN F : \A i \in DOMAIN F[a], j \in DOMAIN F[b] :
        F[a][i].q = F[b][j].q => a = b /\ i = j
CallsIn(F) == {q \in Calls : \E a \in DOMAIN F : \E i \in DOMAIN F[a] : F[a][i].q = q}

UpOnce ==
    \A l, m \in Links : \A i \in DOMAIN up[l], j \in DOMAIN up[m] : up[l][i] = up[m][j] => l = m /\ i = j
BatchOnce == \A r, s \in batch : r.q = s.q => r = s
WaitingOnce == \A i, j \in DOMAIN waiting : waiting[i].q = waiting[j].q => i = j
RunningOnce ==
    \A p, o \in Pools : \A t \in running[p], u \in running[o] :
        ~t.done /\ ~u.done /\ t.q = u.q => p = o /\ t = u
ResponsesOnce ==
    \A i, j \in DOMAIN responses : responses[i].frame.q = responses[j].frame.q => i = j

\* The calls that are at each stage.
UpCalls == {q \in Calls : \E l \in Links : \E i \in DOMAIN up[l] : up[l][i] = q}
BatchCalls == {q \in Calls : \E r \in batch : r.q = q}
WaitingCalls == {q \in Calls : \E i \in DOMAIN waiting : waiting[i].q = q}
RunningCalls == {q \in Calls : \E p \in Pools : \E t \in running[p] : ~t.done /\ t.q = q}
ResponseCalls == {q \in Calls : \E i \in DOMAIN responses : responses[i].frame.q = q}

\* No call is at two of them.
Apart(u, b, w, k, r, a, x, d) ==
    /\ b \cap u = {}
    /\ w \cap (u \cup b) = {}
    /\ k \cap (u \cup b \cup w) = {}
    /\ r \cap (u \cup b \cup w \cup k) = {}
    /\ a \cap (u \cup b \cup w \cup k \cup r) = {}
    /\ x \cap (u \cup b \cup w \cup k \cup r \cup a) = {}
    /\ d \cap (u \cup b \cup w \cup k \cup r \cup a \cup x) = {}

StagesApart ==
    Apart(UpCalls, BatchCalls, WaitingCalls, CallsIn(queue), RunningCalls, ResponseCalls,
          CallsIn(wbuf), CallsIn(down))

Once ==
    /\ UpOnce /\ BatchOnce /\ WaitingOnce /\ OnceIn(queue)
    /\ RunningOnce /\ ResponsesOnce /\ OnceIn(wbuf) /\ OnceIn(down)
    /\ StagesApart

\* A call whose connection the server has not accepted has not been executed, unless
\* a shutdown came in between.
Unreached ==
    \A c \in Clients : await[c] # 0 /\ link[c] \notin Accepted => Unrun(await[c])

\* How often handlers run.
RunsBounded ==
    \A q \in Calls : /\ runs[q] <= 1 \/ (runs[q] = 2 /\ q \in cut /\ q \in resent)
                     /\ runs[q] > 0 => q \in Made
RefusedKept == \A q \in Made : got[q].q = q /\ got[q].ans = "refused" => Unrun(q)

Counts == Unreached /\ RunsBounded /\ RefusedKept

IInv ==
    /\ DeskInv /\ ClientEnds /\ ServerEnds
    /\ Once /\ AllGood /\ Counts
    /\ OwnAnswerUnlessAbandoned

-------------------------------------------------------------------------------
(* Requests, their kinds and their pools.                                  *)

LEMMA KindFacts ==
    /\ \A k : PoolOf(k) \in Pools
    /\ \A k \in Exclusive : k # "health" /\ k # "write" /\ PoolOf(k) # "write"
    /\ \A k, m \in Exclusive : PoolOf(k) = PoolOf(m) => k = m
BY DEF PoolOf, Pools, Exclusive

LEMMA MadeFacts ==
    ASSUME Types
    PROVE  /\ Len(calls) \in Nat /\ Made \subseteq Calls /\ 0 \notin Made
           /\ MadeRequests \subseteq Requests
           /\ \A q \in Made : calls[q] \in CallKinds
BY RpcAssumption DEF Types, ClientTypes, Made, Calls, MadeRequests, Requests

LEMMA Bounds ==
    /\ Depth \in Nat \ {0} /\ MaxConns \in Nat \ {0} /\ MaxCalls \in Nat
    /\ MaxLinks \in Nat /\ MaxStops \in Nat
    /\ \A p \in Pools : PoolDepth(p) \in Nat \ {0} /\ PoolWorkers(p) \in Nat \ {0}
BY RpcAssumption DEF PoolDepth, PoolWorkers

\* What is in a queue has the type of its queue.
LEMMA RequestFacts ==
    ASSUME Types
    PROVE  /\ \A r \in batch : r \in MadeRequests /\ r.q \in Made /\ r.fd \in Fds
           /\ \A i \in DOMAIN waiting :
                waiting[i] \in MadeRequests /\ waiting[i].q \in Made /\ waiting[i].fd \in Fds
           /\ \A p \in Pools : \A i \in DOMAIN queue[p] :
                queue[p][i] \in MadeRequests /\ queue[p][i].q \in Made /\ queue[p][i].fd \in Fds
           /\ \A p \in Pools : \A t \in running[p] :
                t \in Tasks /\ t.q \in Made /\ t.fd \in Fds /\ t.done \in BOOLEAN
<1>1. \A r \in MadeRequests : r.q \in Made /\ r.fd \in Fds
    BY DEF MadeRequests
<1>2. \A t \in Tasks : t.q \in Made /\ t.fd \in Fds /\ t.done \in BOOLEAN
    BY DEF Tasks
<1>3. \A i \in DOMAIN waiting : waiting[i] \in MadeRequests
    <2>1. waiting \in Seq(MadeRequests)
        BY DEF Types, DeskTypes
    <2>. QED  BY <2>1
<1>4. ASSUME NEW p \in Pools PROVE \A i \in DOMAIN queue[p] : queue[p][i] \in MadeRequests
    <2>1. queue[p] \in Seq(MadeRequests)
        BY DEF Types, PoolTypes
    <2>. QED  BY <2>1
<1>5. /\ batch \subseteq MadeRequests
      /\ \A p \in Pools : running[p] \subseteq Tasks
    BY DEF Types, DeskTypes, PoolTypes
<1>. QED  BY <1>1, <1>2, <1>3, <1>4, <1>5

-------------------------------------------------------------------------------
(* Places in a set of numbers.                                             *)

LEMMA RankFacts ==
    ASSUME NEW S, IsFiniteSet(S), S \subseteq Nat, NEW m \in S
    PROVE  /\ Rank(S, m) \in 1 .. Cardinality(S)
           /\ \A n \in S : m < n => Rank(S, m) < Rank(S, n)
<1> DEFINE Upto(n) == {x \in S : x <= n}
<1>1. ASSUME NEW n \in S
      PROVE  Rank(S, n) = Cardinality(Upto(n)) /\ IsFiniteSet(Upto(n))
             /\ Cardinality(Upto(n)) \in Nat /\ Cardinality(Upto(n)) <= Cardinality(S)
    <2>1. Upto(n) \in SUBSET S
        OBVIOUS
    <2>2. IsFiniteSet(Upto(n)) /\ Cardinality(Upto(n)) <= Cardinality(S)
        BY <2>1, FS_Subset
    <2>3. Cardinality(Upto(n)) \in Nat
        BY <2>2, FS_CardinalityType
    <2>. QED  BY <2>2, <2>3 DEF Rank
<1>2. Cardinality(Upto(m)) # 0
    <2>1. m \in Upto(m)
        OBVIOUS
    <2>2. Upto(m) # {}
        BY <2>1
    <2>. QED  BY <1>1, <2>2, FS_EmptySet
<1>3. Cardinality(S) \in Nat
    BY FS_CardinalityType
<1>4. ASSUME NEW n \in S, m < n PROVE Rank(S, m) < Rank(S, n)
    <2>0. \A x \in S : x <= m => x <= n
        BY <1>4
    <2>1. Upto(m) \in SUBSET Upto(n)
        BY <2>0
    <2>2. n \in Upto(n) /\ n \notin Upto(m)
        BY <1>4
    <2>3. Upto(m) # Upto(n)
        BY <2>2
    <2>4. Cardinality(Upto(m)) <= Cardinality(Upto(n)) /\ Cardinality(Upto(m)) # Cardinality(Upto(n))
        BY <1>1, <2>1, <2>3, FS_Subset
    <2>. QED  BY <1>1, <2>4
<1>. QED  BY <1>1, <1>2, <1>3, <1>4

LEMMA RankInjective ==
    ASSUME NEW S, IsFiniteSet(S), S \subseteq Nat
    PROVE  \A m, n \in S : Rank(S, m) = Rank(S, n) => m = n
<1> SUFFICES ASSUME NEW m \in S, NEW n \in S, Rank(S, m) = Rank(S, n)
             PROVE  m = n
    OBVIOUS
<1>1. m \in Nat /\ n \in Nat /\ Cardinality(S) \in Nat
    BY FS_CardinalityType
<1>2. Rank(S, m) \in 1 .. Cardinality(S)
    BY RankFacts
<1>3. CASE m < n
    <2>1. Rank(S, m) < Rank(S, n)
        BY <1>3, RankFacts
    <2>. QED  BY <1>1, <1>2, <2>1
<1>4. CASE n < m
    <2>1. Rank(S, n) < Rank(S, m)
        BY <1>4, RankFacts
    <2>. QED  BY <1>1, <1>2, <2>1
<1>. QED  BY <1>1, <1>3, <1>4

\* Every place is taken: numbering is one to one, and there are as many places.
LEMMA NthFacts ==
    ASSUME NEW S, IsFiniteSet(S), S \subseteq Nat, NEW m \in 1 .. Cardinality(S)
    PROVE  Nth(S, m) \in S /\ Rank(S, Nth(S, m)) = m
<1> DEFINE place == [n \in S |-> Rank(S, n)]
           Places == 1 .. Cardinality(S)
<1>1. Cardinality(S) \in Nat
    BY FS_CardinalityType
<1>2. IsFiniteSet(Places) /\ Cardinality(Places) = Cardinality(S)
    BY <1>1, FS_Interval
<1>3. place \in [S -> Places]
    BY RankFacts
<1>4. \A x, y \in S : place[x] = place[y] => x = y
    BY RankInjective
<1>5. place \in Injection(S, Places)
    BY <1>3, <1>4 DEF Injection, IsInjective
<1>6. place \in Surjection(S, Places)
    BY <1>2, <1>5, FS_Injection
<1>7. \E n \in S : place[n] = m
    BY <1>6 DEF Surjection
<1>8. \E n \in S : Rank(S, n) = m
    BY <1>7
<1>. QED  BY <1>8 DEF Nth

\* Two places, two members.
LEMMA NthInjective ==
    ASSUME NEW S, IsFiniteSet(S), S \subseteq Nat,
           NEW m \in 1 .. Cardinality(S), NEW n \in 1 .. Cardinality(S), Nth(S, m) = Nth(S, n)
    PROVE  m = n
BY NthFacts

-------------------------------------------------------------------------------
(* Calls and requests.                                                     *)

\* What a step does to the calls: none, or one more.
CallsKept == Made \subseteq Made' /\ \A q \in Made : calls'[q] = calls[q]

LEMMA SameCalls ==
    ASSUME UNCHANGED calls
    PROVE  CallsKept /\ Made' = Made
BY DEF CallsKept, Made

LEMMA OneMoreCall ==
    ASSUME Types, NEW k \in CallKinds, calls' = Append(calls, k), Len(calls) < MaxCalls
    PROVE  /\ CallsKept
           /\ calls' \in Seq(CallKinds) /\ Len(calls') = Len(calls) + 1 /\ Len(calls') <= MaxCalls
           /\ Len(calls) + 1 \in Made' /\ Len(calls) + 1 \notin Made
           /\ Made' = Made \cup {Len(calls) + 1}
           /\ Len(calls) + 1 \in Calls
           /\ Len(calls) \in Nat
<1>1. calls \in Seq(CallKinds) /\ Len(calls) \in Nat /\ MaxCalls \in Nat
    BY RpcAssumption DEF Types, ClientTypes
<1>2. /\ calls' \in Seq(CallKinds) /\ Len(calls') = Len(calls) + 1
      /\ \A q \in 1 .. Len(calls) : calls'[q] = calls[q]
    BY <1>1
<1>3. Made' = 1 .. Len(calls')
    BY DEF Made
<1>. QED  BY <1>1, <1>2, <1>3 DEF CallsKept, Made, Calls

\* Requests that stay where they are stay in order.
LEMMA DeskTypesKept ==
    ASSUME Types, CallsKept, UNCHANGED <<batch, waiting, responses>>
    PROVE  DeskTypes'
<1>1. MadeRequests \subseteq MadeRequests'
    BY DEF CallsKept, MadeRequests
<1>2. waiting' \in Seq(MadeRequests')
    <2>1. waiting \in Seq(MadeRequests)
        BY DEF Types, DeskTypes
    <2>. QED  BY <1>1, <2>1, SeqMonotonic
<1>. QED  BY <1>1, <1>2 DEF Types, DeskTypes, Responses

LEMMA PoolTypesKept ==
    ASSUME Types, CallsKept, UNCHANGED <<queue, running, inflight, runs>>
    PROVE  PoolTypes'
<1>1. MadeRequests \subseteq MadeRequests' /\ Tasks \subseteq Tasks'
    BY DEF CallsKept, MadeRequests, Tasks
<1>2. ASSUME NEW p \in Pools PROVE queue'[p] \in Seq(MadeRequests')
    <2>1. queue[p] \in Seq(MadeRequests)
        BY DEF Types, PoolTypes
    <2>. QED  BY <1>1, <2>1, SeqMonotonic
<1>3. queue' \in [Pools -> Seq(MadeRequests')]
    BY <1>2 DEF Types, PoolTypes
<1>4. running' \in [Pools -> SUBSET Tasks']
    BY <1>1 DEF Types, PoolTypes
<1>. QED  BY <1>3, <1>4 DEF Types, PoolTypes, Calls

LEMMA DeskKept ==
    ASSUME DeskInv, CallsKept, UNCHANGED <<waiting, queue, running, inflight>>
    PROVE  (Sorted /\ Marked /\ DoneAreExclusive)'
<1>1. \A i \in DOMAIN waiting : calls'[waiting[i].q] = calls[waiting[i].q]
    BY RequestFacts DEF DeskInv, CallsKept
<1>2. \A p \in Pools : \A i \in DOMAIN queue[p] : calls'[queue[p][i].q] = calls[queue[p][i].q]
    BY RequestFacts DEF DeskInv, CallsKept
<1>3. \A p \in Pools : \A t \in running[p] : calls'[t.q] = calls[t.q]
    BY RequestFacts DEF DeskInv, CallsKept
<1>4. Sorted' /\ DoneAreExclusive'
    BY <1>1, <1>2, <1>3 DEF DeskInv, Sorted, DoneAreExclusive
<1>5. ASSUME NEW k \in Exclusive PROVE MarkOf(k)'
    <2>1. QueuedOf(k)' = QueuedOf(k) /\ RunningOf(k)' = RunningOf(k)
        BY <1>2, <1>3, KindFacts DEF QueuedOf, RunningOf
    <2>. QED  BY <2>1 DEF MarkOf, DeskInv, Marked
<1>. QED  BY <1>4, <1>5 DEF Marked

-------------------------------------------------------------------------------
(* Clients.                                                                *)

LEMMA KeptByClients ==
    ASSUME DeskInv, CallsKept,
           UNCHANGED <<batch, waiting, responses, queue, running, inflight, runs>>
    PROVE  (DeskTypes /\ PoolTypes /\ Sorted /\ Marked /\ DoneAreExclusive)'
<1>1. DeskTypes'
    BY DeskTypesKept DEF DeskInv
<1>2. PoolTypes'
    BY PoolTypesKept DEF DeskInv
<1>. QED  BY <1>1, <1>2, DeskKept

\* Where a waiting client's call travels.
LEMMA AwaitFacts ==
    ASSUME Types, NEW c \in Clients
    PROVE  /\ link[c] \in Links \cup {NoLink} /\ await[c] \in Made \cup {0}
           /\ link[c] # NoLink => link[c] \in Links
           /\ await[c] # 0 => link[c] \in Links /\ await[c] \in Made /\ await[c] \in Calls
           /\ 0 \notin Links /\ 0 \notin Made
BY MadeFacts, Bounds DEF Types, ClientTypes, Links, NoLink

LEMMA OldRequests ==
    ASSUME Types, CallsKept
    PROVE  up \in [Links -> Seq(Made')]
<1>1. ASSUME NEW l \in Links PROVE up[l] \in Seq(Made')
    <2>1. up[l] \in Seq(Made) /\ Made \subseteq Made'
        BY DEF Types, WireTypes, CallsKept
    <2>. QED  BY <2>1, SeqMonotonic
<1>. QED  BY <1>1 DEF Types, WireTypes

LEMMA ConnectDesk ==
    ASSUME DeskInv, NEW c \in Clients, NEW l \in Links, NEW k \in Kinds[c], Connect(c, l, k)
    PROVE  DeskInv'
<1>1. Types /\ k \in CallKinds
    BY DEF DeskInv, CallKinds
<1>2. calls' = Append(calls, k) /\ Len(calls) < MaxCalls
    BY DEF Connect
<1> DEFINE n == Len(calls) + 1
<1>3. /\ CallsKept /\ calls' \in Seq(CallKinds) /\ Len(calls') <= MaxCalls
      /\ n \in Made' /\ n # 0
    BY <1>1, <1>2, OneMoreCall
<1>4. ClientTypes'
    <2>1. link' = [link EXCEPT ![c] = l] /\ await' = [await EXCEPT ![c] = n]
          /\ UNCHANGED <<resent, abandoned, cut, got>>
        BY DEF Connect, Open
    <2>2. link' \in [Clients -> Links \cup {NoLink}] /\ await' \in [Clients -> Made' \cup {0}]
        BY <1>1, <1>3, <2>1 DEF Types, ClientTypes, CallsKept
    <2>3. \A d \in Clients : await'[d] # 0 => link'[d] # NoLink
        BY <1>1, <2>1, AwaitFacts DEF Types, ClientTypes, NoLink
    <2>. QED  BY <1>1, <1>3, <2>1, <2>2, <2>3 DEF Types, ClientTypes, CallsKept
<1>5. WireTypes'
    <2>1. /\ backlog' = Append(backlog, l) /\ up' = [up EXCEPT ![l] = <<n>>]
          /\ down' = [down EXCEPT ![l] = <<>>] /\ UNCHANGED <<conns, wbuf, io, stops>>
        BY DEF Connect, Open
    <2>2. up' \in [Links -> Seq(Made')]
        BY <1>1, <1>3, <2>1, OldRequests
    <2>3. down' \in [Links -> Seq(Frames)] /\ backlog' \in Seq(Links)
        BY <1>1, <2>1 DEF Types, WireTypes
    <2>. QED  BY <1>1, <2>1, <2>2, <2>3 DEF Types, WireTypes
<1>6. UNCHANGED <<batch, waiting, responses, queue, running, inflight, runs>>
    BY DEF Connect
<1>. QED  BY <1>3, <1>4, <1>5, <1>6, KeptByClients DEF DeskInv, Types

LEMMA CarriedType ==
    ASSUME NEW S, NEW s \in Seq(S), NEW l
    PROVE  Carried(l, s) \in Seq(S)
<1>1. <<>> \in Seq(S)
    BY EmptySeq
<1>. QED  BY <1>1 DEF Carried

LEMMA SendDesk ==
    ASSUME DeskInv, NEW c \in Clients, NEW k \in Kinds[c], Send(c, k)
    PROVE  DeskInv'
<1>1. Types /\ k \in CallKinds
    BY DEF DeskInv, CallKinds
<1>2. calls' = Append(calls, k) /\ Len(calls) < MaxCalls
    BY DEF Send
<1> DEFINE n == Len(calls) + 1
<1>3. /\ CallsKept /\ calls' \in Seq(CallKinds) /\ Len(calls') <= MaxCalls
      /\ n \in Made' /\ n # 0
    BY <1>1, <1>2, OneMoreCall
<1>4. ClientTypes'
    <2>1. link[c] # NoLink /\ await' = [await EXCEPT ![c] = n]
          /\ UNCHANGED <<link, resent, abandoned, cut, got>>
        BY DEF Send
    <2>2. await' \in [Clients -> Made' \cup {0}]
        BY <1>1, <1>3, <2>1 DEF Types, ClientTypes, CallsKept
    <2>. QED  BY <1>1, <1>3, <2>1, <2>2 DEF Types, ClientTypes, CallsKept
<1>5. WireTypes'
    <2>1. /\ up' = [up EXCEPT ![link[c]] = Carried(link[c], Append(@, n))]
          /\ down' = [down EXCEPT ![link[c]] = Carried(link[c], @)]
          /\ UNCHANGED <<backlog, conns, wbuf, io, stops>>
        BY DEF Send
    <2>2. up' \in [Links -> Seq(Made')]
        <3>1. up \in [Links -> Seq(Made')]
            BY <1>1, <1>3, OldRequests
        <3>2. ASSUME NEW s \in Seq(Made') PROVE Carried(link[c], Append(s, n)) \in Seq(Made')
            <4>1. Append(s, n) \in Seq(Made')
                BY <1>3, AppendProperties
            <4>. QED  BY <4>1, CarriedType
        <3>. QED  BY <2>1, <3>1, <3>2
    <2>3. down' \in [Links -> Seq(Frames)]
        <3>1. \A s \in Seq(Frames) : Carried(link[c], s) \in Seq(Frames)
            BY CarriedType
        <3>. QED  BY <1>1, <2>1, <3>1 DEF Types, WireTypes
    <2>. QED  BY <1>1, <2>1, <2>2, <2>3 DEF Types, WireTypes
<1>6. UNCHANGED <<batch, waiting, responses, queue, running, inflight, runs>>
    BY DEF Send
<1>. QED  BY <1>3, <1>4, <1>5, <1>6, KeptByClients DEF DeskInv, Types

LEMMA ReceiveDesk ==
    ASSUME DeskInv, NEW c \in Clients, Receive(c)
    PROVE  DeskInv'
<1>1. Types /\ CallsKept /\ Made' = Made
    BY SameCalls DEF DeskInv, Receive
<1> DEFINE l == link[c]
           frame == Head(down[l])
<1>2. l \in Links /\ await[c] \in Made /\ await[c] \in Calls /\ down[l] # <<>>
    BY <1>1, AwaitFacts DEF Receive
<1>3. frame \in Frames /\ Tail(down[l]) \in Seq(Frames)
    <2>1. down[l] \in Seq(Frames)
        BY <1>1, <1>2 DEF Types, WireTypes
    <2>. QED  BY <1>2, <2>1
<1>4. ClientTypes'
    <2>1. /\ await' \in [Clients -> Made \cup {0}] /\ got' \in [Calls -> Frames \cup {NoAnswer}]
          /\ \A d \in Clients : await'[d] # 0 => await[d] # 0
        BY <1>1, <1>2, <1>3 DEF Receive, Types, ClientTypes
    <2>2. UNCHANGED <<calls, link, resent, abandoned, cut>>
        BY DEF Receive
    <2>. QED  BY <1>1, <2>1, <2>2 DEF Types, ClientTypes
<1>5. WireTypes'
    <2>1. /\ down' = [down EXCEPT ![l] = Tail(@)]
          /\ UNCHANGED <<up, backlog, conns, wbuf, io, stops>>
        BY DEF Receive
    <2>. QED  BY <1>1, <1>3, <2>1 DEF Types, WireTypes
<1>6. UNCHANGED <<batch, waiting, responses, queue, running, inflight, runs>>
    BY DEF Receive
<1>. QED  BY <1>1, <1>4, <1>5, <1>6, KeptByClients DEF DeskInv, Types

\* Timeout, Fail: the client gives its call up.
LEMMA TimeoutDesk ==
    ASSUME DeskInv, NEW c \in Clients, Timeout(c) \/ Fail(c)
    PROVE  DeskInv'
<1>1. Types /\ CallsKept /\ Made' = Made
    BY SameCalls DEF DeskInv, Timeout, Fail
<1>2. await[c] \in Made
    BY <1>1, AwaitFacts DEF Timeout, Fail, Lost
<1>3. /\ await' = [await EXCEPT ![c] = 0] /\ abandoned' = abandoned \cup {await[c]}
      /\ link' = link \/ link' = [link EXCEPT ![c] = NoLink]
      /\ UNCHANGED <<calls, resent, got, cut>>
    BY DEF Timeout, Fail
<1>4. ClientTypes'
    <2>1. await' \in [Clients -> Made \cup {0}] /\ link' \in [Clients -> Links \cup {NoLink}]
        BY <1>1, <1>3 DEF Types, ClientTypes
    <2>2. \A d \in Clients : await'[d] # 0 => link'[d] # NoLink
        BY <1>1, <1>3 DEF Types, ClientTypes
    <2>. QED  BY <1>1, <1>2, <1>3, <2>1, <2>2 DEF Types, ClientTypes
<1>5. UNCHANGED <<backlog, conns, up, wbuf, down, io, stops,
                  batch, waiting, responses, queue, running, inflight, runs>>
    BY DEF Timeout, Fail
<1>6. WireTypes'
    BY <1>1, <1>5 DEF Types, WireTypes
<1>. QED  BY <1>1, <1>4, <1>5, <1>6, KeptByClients DEF DeskInv, Types

LEMMA LeaveDesk ==
    ASSUME DeskInv, NEW c \in Clients, Leave(c)
    PROVE  DeskInv'
<1>1. Types /\ CallsKept /\ Made' = Made
    BY SameCalls DEF DeskInv, Leave
<1>2. ClientTypes'
    <2>1. /\ link' = [link EXCEPT ![c] = NoLink] /\ await[c] = 0
          /\ UNCHANGED <<calls, await, resent, got, abandoned, cut>>
        BY DEF Leave
    <2>. QED  BY <1>1, <2>1 DEF Types, ClientTypes
<1>3. WireTypes'
    <2>1. /\ down' = [down EXCEPT ![link[c]] = <<>>]
          /\ UNCHANGED <<backlog, conns, up, wbuf, io, stops>>
        BY DEF Leave
    <2>2. down' \in [Links -> Seq(Frames)]
        <3>1. <<>> \in Seq(Frames) /\ down \in [Links -> Seq(Frames)]
            BY <1>1, EmptySeq DEF Types, WireTypes
        <3>. QED  BY <2>1, <3>1
    <2>. QED  BY <1>1, <2>1, <2>2 DEF Types, WireTypes
<1>4. UNCHANGED <<batch, waiting, responses, queue, running, inflight, runs>>
    BY DEF Leave
<1>. QED  BY <1>1, <1>2, <1>3, <1>4, KeptByClients DEF DeskInv, Types

LEMMA ResendDesk ==
    ASSUME DeskInv, NEW c \in Clients, NEW l \in Links, Resend(c, l)
    PROVE  DeskInv'
<1>1. Types /\ CallsKept /\ Made' = Made
    BY SameCalls DEF DeskInv, Resend
<1>2. await[c] \in Made
    BY <1>1, AwaitFacts DEF Resend, Lost
<1>3. ClientTypes'
    <2>1. /\ link' = [link EXCEPT ![c] = l] /\ resent' = resent \cup {await[c]}
          /\ UNCHANGED <<calls, await, got, abandoned, cut>>
        BY DEF Resend, Open
    <2>2. \A d \in Clients : await'[d] # 0 => link'[d] # NoLink
        BY <1>1, <2>1, AwaitFacts DEF Types, ClientTypes, NoLink
    <2>. QED  BY <1>1, <1>2, <2>1, <2>2 DEF Types, ClientTypes
<1>4. WireTypes'
    <2>1. /\ backlog' = Append(backlog, l) /\ up' = [up EXCEPT ![l] = <<await[c]>>]
          /\ down' = [down EXCEPT ![l] = <<>>] /\ UNCHANGED <<conns, wbuf, io, stops>>
        BY DEF Resend, Open
    <2>2. up' \in [Links -> Seq(Made)]
        BY <1>1, <1>2, <2>1 DEF Types, WireTypes
    <2>3. down' \in [Links -> Seq(Frames)] /\ backlog' \in Seq(Links)
        BY <1>1, <2>1 DEF Types, WireTypes
    <2>. QED  BY <1>1, <2>1, <2>2, <2>3 DEF Types, WireTypes
<1>5. UNCHANGED <<batch, waiting, responses, queue, running, inflight, runs>>
    BY DEF Resend
<1>. QED  BY <1>1, <1>3, <1>4, <1>5, KeptByClients DEF DeskInv, Types

-------------------------------------------------------------------------------
(* The poll round.                                                         *)

LEMMA FdFacts ==
    /\ IsFiniteSet(Fds) /\ Fds \subseteq Nat
    /\ IsFiniteSet(FreeFds) /\ FreeFds \subseteq Fds
    /\ IsFiniteSet(Links) /\ Links \subseteq Nat /\ NoLink \notin Links
<1>1. MaxConns \in Nat /\ MaxLinks \in Nat
    BY Bounds
<1>2. IsFiniteSet(1 .. MaxConns) /\ IsFiniteSet(1 .. MaxLinks)
    BY <1>1, FS_Interval
<1>3. FreeFds \in SUBSET Fds
    BY DEF FreeFds
<1>4. IsFiniteSet(FreeFds)
    BY <1>2, <1>3, FS_Subset DEF Fds
<1>. QED  BY <1>1, <1>2, <1>3, <1>4 DEF Fds, Links, NoLink

\* accept_new_connections gives a connection that waits a free descriptor.
LEMMA WithNewFacts ==
    ASSUME Types, NEW f \in Fds
    PROVE  \/ WithNew[f] = conns[f]
           \/ /\ f \in FreeFds /\ Rank(FreeFds, f) \in DOMAIN backlog
              /\ WithNew[f] = backlog[Rank(FreeFds, f)]
<1>1. CASE f \in FreeFds /\ Rank(FreeFds, f) <= Len(backlog)
    <2>1. FreeFds \subseteq Nat /\ IsFiniteSet(FreeFds)
        BY FdFacts
    <2>2. Rank(FreeFds, f) \in 1 .. Cardinality(FreeFds) /\ Cardinality(FreeFds) \in Nat
        BY <1>1, <2>1, RankFacts, FS_CardinalityType
    <2>3. Len(backlog) \in Nat /\ DOMAIN backlog = 1 .. Len(backlog)
        BY DEF Types, WireTypes
    <2>4. Rank(FreeFds, f) \in DOMAIN backlog
        BY <1>1, <2>2, <2>3
    <2>5. WithNew[f] = backlog[Rank(FreeFds, f)]
        BY <1>1 DEF WithNew
    <2>. QED  BY <1>1, <2>4, <2>5
<1>2. CASE ~(f \in FreeFds /\ Rank(FreeFds, f) <= Len(backlog))
    BY <1>2 DEF WithNew
<1>. QED  BY <1>1, <1>2

LEMMA BacklogFacts ==
    ASSUME Types, NEW i \in DOMAIN backlog
    PROVE  backlog[i] \in Links /\ backlog[i] \in Queued /\ backlog[i] # NoLink
<1>1. backlog \in Seq(Links)
    BY DEF Types, WireTypes
<1>. QED  BY <1>1, FdFacts DEF Queued

LEMMA PollConns ==
    ASSUME Types, Poll, NEW f \in Fds
    PROVE  conns'[f] \in Links \cup {NoLink}
<1>1. conns'[f] \in {NoLink, WithNew[f]}
    BY DEF Poll
<1>2. WithNew[f] \in Links \cup {NoLink}
    <2>1. conns[f] \in Links \cup {NoLink}
        BY DEF Types, WireTypes
    <2>. QED  BY <2>1, WithNewFacts, BacklogFacts
<1>. QED  BY <1>1, <1>2

\* A request that poll() returns was read from its descriptor's connection.
LEMMA PollBatch ==
    ASSUME Poll, NEW r
    PROVE  r \in batch' <=>
             \E f \in Fds : /\ conns[f] # NoLink
                            /\ \E i \in DOMAIN up[conns[f]] : r = [fd |-> f, q |-> up[conns[f]][i]]
<1> DEFINE Read(f) == {[fd |-> f, q |-> up[conns[f]][i]] : i \in DOMAIN up[conns[f]]}
           Used == {g \in Fds : conns[g] # NoLink}
<1>1. batch' = UNION {Read(f) : f \in Used}
    BY DEF Poll
<1>2. \A f : r \in Read(f) <=> \E i \in DOMAIN up[conns[f]] : r = [fd |-> f, q |-> up[conns[f]][i]]
    OBVIOUS
<1> HIDE DEF Read
<1>3. r \in batch' <=> \E f \in Used : r \in Read(f)
    BY <1>1
<1>. QED  BY <1>2, <1>3

LEMMA PollDesk ==
    ASSUME DeskInv, Poll
    PROVE  DeskInv'
<1>1. Types /\ CallsKept /\ Made' = Made
    BY SameCalls DEF DeskInv, Poll, clientVars
<1>2. ClientTypes'
    BY <1>1 DEF Types, ClientTypes, Poll, clientVars
<1>3. WireTypes'
    <2>1. conns' \in [Fds -> Links \cup {NoLink}]
        <3>1. conns' = [f \in Fds |-> conns'[f]]
            BY DEF Poll
        <3>. QED  BY <1>1, <3>1, PollConns
    <2>2. up' \in [Links -> Seq(Made)]
        <3>1. \A l \in Links : up'[l] = <<>> \/ up'[l] = up[l]
            BY DEF Poll
        <3>2. up' = [l \in Links |-> up'[l]]
            BY DEF Poll
        <3>3. \A l \in Links : up[l] \in Seq(Made) /\ <<>> \in Seq(Made)
            BY <1>1, EmptySeq DEF Types, WireTypes
        <3>. QED  BY <3>1, <3>2, <3>3
    <2>3. down' \in [Links -> Seq(Frames)]
        <3>1. \A l \in Links : down'[l] = down[l] \/ down'[l] = down[l] \o wbuf[l]
            BY DEF Poll
        <3>2. down' = [l \in Links |-> down'[l]]
            BY DEF Poll
        <3>3. \A l \in Links : down[l] \in Seq(Frames) /\ down[l] \o wbuf[l] \in Seq(Frames)
            BY <1>1 DEF Types, WireTypes
        <3>. QED  BY <3>1, <3>2, <3>3
    <2>4. /\ wbuf' = [l \in Links |-> <<>>] /\ backlog' = <<>>
          /\ io' = "dispatch" /\ stops' = stops
        BY DEF Poll
    <2>5. <<>> \in Seq(Frames) /\ <<>> \in Seq(Links)
        BY EmptySeq
    <2>. QED  BY <1>1, <2>1, <2>2, <2>3, <2>4, <2>5 DEF Types, WireTypes
<1>4. DeskTypes'
    <2>1. ASSUME NEW r \in batch' PROVE r \in MadeRequests
        <3>1. PICK f \in Fds : /\ conns[f] # NoLink
                               /\ \E i \in DOMAIN up[conns[f]] : r = [fd |-> f, q |-> up[conns[f]][i]]
            BY <2>1, PollBatch
        <3>2. PICK i \in DOMAIN up[conns[f]] : r = [fd |-> f, q |-> up[conns[f]][i]]
            BY <3>1
        <3>3. conns[f] \in Links
            BY <1>1, <3>1 DEF Types, WireTypes
        <3>4. up[conns[f]] \in Seq(Made)
            BY <1>1, <3>3 DEF Types, WireTypes
        <3>5. up[conns[f]][i] \in Made
            BY <3>4
        <3>. QED  BY <3>2, <3>5 DEF MadeRequests
    <2>2. MadeRequests' = MadeRequests
        BY <1>1 DEF MadeRequests
    <2>3. UNCHANGED <<waiting, responses>>
        BY DEF Poll
    <2>. QED  BY <1>1, <2>1, <2>2, <2>3 DEF Types, DeskTypes, Responses
<1>5. UNCHANGED <<waiting, queue, running, inflight, runs>>
    BY DEF Poll, taskVars
<1>. QED  BY <1>1, <1>2, <1>3, <1>4, <1>5, PoolTypesKept, DeskKept DEF DeskInv, Types

-------------------------------------------------------------------------------
(* Queues that grow and shrink.                                            *)

LEMMA BufferedType ==
    ASSUME Types, NEW f \in Fds, NEW frame \in Frames
    PROVE  Buffered(wbuf, f, frame) \in [Links -> Seq(Frames)]
<1>1. wbuf \in [Links -> Seq(Frames)] /\ Receiver(f) \in Links \cup {NoLink}
    BY DEF Types, WireTypes, Receiver
<1>2. \A s \in Seq(Frames) : Append(s, frame) \in Seq(Frames)
    BY AppendProperties
<1>. QED  BY <1>1, <1>2 DEF Buffered

LEMMA SubmitTypes ==
    ASSUME Types, NEW p \in Pools, NEW r \in MadeRequests, Submit(p, r), HasRoom(p),
           UNCHANGED calls
    PROVE  /\ queue' \in [Pools -> Seq(MadeRequests)]
           /\ \A o \in Pools : Len(queue'[o]) <= PoolDepth(o)
           /\ \A o \in Pools \ {p} : queue'[o] = queue[o]
           /\ queue'[p] = Append(queue[p], r)
           /\ DOMAIN queue[p] = 1 .. Len(queue[p]) /\ Len(queue[p]) \in Nat
           /\ DOMAIN queue'[p] = 1 .. Len(queue[p]) + 1
           /\ \A i \in DOMAIN queue[p] : queue'[p][i] = queue[p][i]
           /\ queue'[p][Len(queue[p]) + 1] = r
<1>1. queue \in [Pools -> Seq(MadeRequests)] /\ queue' = [queue EXCEPT ![p] = Append(@, r)]
    BY DEF Types, PoolTypes, Submit
<1>2. queue[p] \in Seq(MadeRequests)
    BY <1>1
<1>3. /\ Append(queue[p], r) \in Seq(MadeRequests)
      /\ Len(Append(queue[p], r)) = Len(queue[p]) + 1
      /\ \A i \in 1 .. Len(queue[p]) : Append(queue[p], r)[i] = queue[p][i]
      /\ Append(queue[p], r)[Len(queue[p]) + 1] = r
    BY <1>2, AppendProperties
<1>4. Len(queue[p]) \in Nat /\ DOMAIN queue[p] = 1 .. Len(queue[p])
      /\ DOMAIN Append(queue[p], r) = 1 .. Len(queue[p]) + 1
    BY <1>2, <1>3, LenProperties
<1>5. queue' \in [Pools -> Seq(MadeRequests)]
      /\ (\A o \in Pools \ {p} : queue'[o] = queue[o]) /\ queue'[p] = Append(queue[p], r)
    BY <1>1, <1>3
<1>6. Len(queue[p]) + 1 <= PoolDepth(p)
    BY <1>4, Bounds DEF HasRoom
<1>7. \A o \in Pools : Len(queue'[o]) <= PoolDepth(o)
    BY <1>3, <1>5, <1>6 DEF Types, PoolTypes
<1>. QED  BY <1>3, <1>4, <1>5, <1>7

LEMMA SubmitMarks ==
    ASSUME Types, NEW p \in Pools, NEW r \in MadeRequests, Submit(p, r), HasRoom(p),
           UNCHANGED calls, NEW k \in Exclusive
    PROVE  /\ calls[r.q] = k /\ PoolOf(k) = p => QueuedOf(k)' = QueuedOf(k) \cup {Len(queue[p]) + 1}
           /\ calls[r.q] # k \/ PoolOf(k) # p => QueuedOf(k)' = QueuedOf(k)
           /\ Len(queue[p]) + 1 \in DOMAIN queue'[p]
           /\ DOMAIN queue[p] \subseteq DOMAIN queue'[p]
<1> DEFINE n == Len(queue[p]) + 1
<1>1. /\ \A o \in Pools \ {p} : queue'[o] = queue[o]
      /\ DOMAIN queue'[p] = DOMAIN queue[p] \cup {n}
      /\ \A i \in DOMAIN queue[p] : queue'[p][i] = queue[p][i]
      /\ queue'[p][n] = r
    BY SubmitTypes
<1>2. PoolOf(k) \in Pools
    BY KindFacts
<1>3. QueuedOf(k)' = {i \in DOMAIN queue'[PoolOf(k)] : calls[queue'[PoolOf(k)][i].q] = k}
    BY DEF QueuedOf
<1> HIDE DEF n
<1>4. CASE PoolOf(k) # p
    <2>1. queue'[PoolOf(k)] = queue[PoolOf(k)]
        BY <1>1, <1>2, <1>4
    <2>. QED  BY <1>1, <1>3, <1>4, <2>1 DEF QueuedOf, n
<1>5. CASE PoolOf(k) = p
    <2>1. QueuedOf(k) = {i \in DOMAIN queue[p] : calls[queue[p][i].q] = k}
        BY <1>5 DEF QueuedOf
    <2>2. QueuedOf(k)' = {i \in DOMAIN queue[p] \cup {n} : calls[queue'[p][i].q] = k}
        BY <1>1, <1>3, <1>5
    <2>3. CASE calls[r.q] = k
        <3>1. QueuedOf(k)' = QueuedOf(k) \cup {n}
            BY <1>1, <2>1, <2>2, <2>3
        <3>. QED  BY <1>1, <1>5, <2>3, <3>1 DEF n
    <2>4. CASE calls[r.q] # k
        <3>1. QueuedOf(k)' = QueuedOf(k)
            BY <1>1, <2>1, <2>2, <2>4
        <3>. QED  BY <1>1, <1>5, <2>4, <3>1 DEF n
    <2>. QED  BY <2>3, <2>4
<1>. QED  BY <1>4, <1>5

LEMMA SubmitSorted ==
    ASSUME DeskInv, NEW p \in Pools, NEW r \in MadeRequests, Submit(p, r), HasRoom(p),
           PoolOf(calls[r.q]) = p, UNCHANGED <<calls, running>>
    PROVE  /\ \A o \in Pools : \A i \in DOMAIN queue'[o] : PoolOf(calls'[queue'[o][i].q]) = o
           /\ \A o \in Pools : \A t \in running'[o] : PoolOf(calls'[t.q]) = o
           /\ DoneAreExclusive'
<1>1. ASSUME NEW o \in Pools, NEW i \in DOMAIN queue'[o] PROVE PoolOf(calls'[queue'[o][i].q]) = o
    <2>1. Types
        BY DEF DeskInv
    <2>2. CASE o # p
        <3>1. queue'[o] = queue[o]
            BY <2>1, <2>2, SubmitTypes
        <3>. QED  BY <1>1, <3>1 DEF DeskInv, Sorted
    <2>3. CASE o = p
        <3>1. \/ i \in DOMAIN queue[p] /\ queue'[p][i] = queue[p][i]
              \/ queue'[p][i] = r
            BY <1>1, <2>1, <2>3, SubmitTypes
        <3>. QED  BY <1>1, <2>3, <3>1 DEF DeskInv, Sorted
    <2>. QED  BY <2>2, <2>3
<1>. QED  BY <1>1 DEF DeskInv, Sorted, DoneAreExclusive

\* What is the same after each of the server's steps that opens or closes nothing.
LEMMA ServerTypesKept ==
    ASSUME Types, UNCHANGED clientVars, UNCHANGED <<backlog, conns, up, down, cut, stops>>,
           wbuf' \in [Links -> Seq(Frames)], io' \in {"admit", "dispatch", "down"}
    PROVE  ClientTypes' /\ WireTypes' /\ CallsKept /\ Made' = Made
<1>1. CallsKept /\ Made' = Made
    BY SameCalls DEF clientVars
<1>. QED  BY <1>1 DEF Types, ClientTypes, WireTypes, clientVars

LEMMA DispatchFacts ==
    ASSUME DeskInv, NEW r \in batch, Dispatch(r)
    PROVE  /\ Types /\ r \in MadeRequests /\ r.q \in Made /\ r.q \in Calls /\ r.fd \in Fds
           /\ CallsKept /\ Made' = Made
           /\ batch' = batch \ {r} /\ io = "dispatch"
           /\ \A a \in {"result", "refused"} : [q |-> r.q, ans |-> a] \in Frames
           /\ PoolOf(calls[r.q]) \in Pools
<1>1. Types
    BY DEF DeskInv
<1>2. UNCHANGED calls
    BY DEF Dispatch, clientVars
<1>3. r \in MadeRequests /\ r.q \in Made /\ r.q \in Calls /\ r.fd \in Fds
    BY <1>1, RequestFacts, MadeFacts
<1>. QED  BY <1>1, <1>2, <1>3, SameCalls, KindFacts DEF Dispatch, Frames

LEMMA DispatchDesk ==
    ASSUME DeskInv, NEW r \in batch, Dispatch(r)
    PROVE  DeskInv'
<1> DEFINE k == calls[r.q]
           p == PoolOf(k)
<1>1. /\ Types /\ r \in MadeRequests /\ r.q \in Made /\ r.q \in Calls /\ r.fd \in Fds
      /\ CallsKept /\ Made' = Made /\ batch' = batch \ {r}
      /\ \A a \in {"result", "refused"} : [q |-> r.q, ans |-> a] \in Frames
      /\ p \in Pools
    BY DispatchFacts
<1>2. /\ UNCHANGED clientVars /\ calls' = calls
      /\ UNCHANGED <<backlog, conns, up, down, io, running, responses, runs, cut, stops>>
    BY DEF Dispatch, clientVars
<1>3. MadeRequests' = MadeRequests /\ Tasks' = Tasks
    BY <1>1 DEF MadeRequests, Tasks
<1>4. \A a \in {"result", "refused"} :
        Buffered(wbuf, r.fd, [q |-> r.q, ans |-> a]) \in [Links -> Seq(Frames)]
    BY <1>1, BufferedType
<1>5. ASSUME wbuf' \in [Links -> Seq(Frames)],
             waiting' \in Seq(MadeRequests), Len(waiting') <= Depth,
             queue' \in [Pools -> Seq(MadeRequests)],
             \A o \in Pools : Len(queue'[o]) <= PoolDepth(o),
             inflight' \subseteq Exclusive
      PROVE  Types'
    <2>1. ClientTypes' /\ WireTypes'
        BY <1>1, <1>2, <1>5, ServerTypesKept DEF Types, WireTypes
    <2>2. DeskTypes'
        BY <1>1, <1>2, <1>3, <1>5 DEF Types, DeskTypes, Responses
    <2>3. PoolTypes'
        BY <1>1, <1>2, <1>3, <1>5 DEF Types, PoolTypes
    <2>. QED  BY <2>1, <2>2, <2>3 DEF Types
<1>6. CASE \E a \in {"result", "refused"} : wbuf' = Buffered(wbuf, r.fd, [q |-> r.q, ans |-> a])
           /\ UNCHANGED <<queue, inflight, waiting>>
    <2>1. wbuf' \in [Links -> Seq(Frames)] /\ UNCHANGED <<queue, inflight, waiting>>
        BY <1>4, <1>6
    <2>2. Types'
        BY <1>1, <1>5, <2>1 DEF Types, DeskTypes, PoolTypes
    <2>3. (Sorted /\ Marked /\ DoneAreExclusive)'
        BY <1>1, <1>2, <2>1, DeskKept
    <2>. QED  BY <2>2, <2>3 DEF DeskInv
<1>7. CASE /\ k # "health" /\ k \notin inflight /\ HasRoom(p)
           /\ Submit(p, r)
           /\ inflight' = inflight \cup ({k} \cap Exclusive)
           /\ UNCHANGED <<wbuf, waiting>>
    <2>1. Types'
        <3>1. queue' \in [Pools -> Seq(MadeRequests)] /\ \A o \in Pools : Len(queue'[o]) <= PoolDepth(o)
            BY <1>1, <1>2, <1>7, SubmitTypes
        <3>2. inflight' \subseteq Exclusive
            BY <1>1, <1>7 DEF Types, PoolTypes
        <3>. QED  BY <1>1, <1>5, <1>7, <3>1, <3>2 DEF Types, WireTypes, DeskTypes
    <2>2. Sorted' /\ DoneAreExclusive'
        <3>1. \A i \in DOMAIN waiting' : calls'[waiting'[i].q] = "write"
            BY <1>2, <1>7 DEF DeskInv, Sorted
        <3>2. /\ \A o \in Pools : \A i \in DOMAIN queue'[o] : PoolOf(calls'[queue'[o][i].q]) = o
              /\ \A o \in Pools : \A t \in running'[o] : PoolOf(calls'[t.q]) = o
              /\ DoneAreExclusive'
            BY <1>1, <1>2, <1>7, SubmitSorted
        <3>. QED  BY <3>1, <3>2 DEF Sorted
    <2>3. ASSUME NEW e \in Exclusive PROVE MarkOf(e)'
        <3>1. RunningOf(e)' = RunningOf(e) /\ PoolOf(e) \in Pools
            BY <1>2, KindFacts DEF RunningOf
        <3>2. MarkOf(e)
            BY DEF DeskInv, Marked
        <3>3. CASE e = k
            <4>1. e \notin inflight /\ QueuedOf(e) = {} /\ RunningOf(e) = {}
                BY <1>7, <3>2, <3>3 DEF MarkOf
            <4>2. QueuedOf(e)' = {Len(queue[p]) + 1} /\ Len(queue[p]) + 1 \in DOMAIN queue'[p]
                BY <1>1, <1>2, <1>7, <3>3, <4>1, SubmitMarks
            <4>3. e \in inflight' /\ RunningOf(e)' = {}
                BY <1>7, <3>1, <3>3, <4>1
            <4>. QED  BY <3>3, <4>2, <4>3 DEF MarkOf
        <3>4. CASE e # k
            <4>1. QueuedOf(e)' = QueuedOf(e)
                BY <1>1, <1>2, <1>7, <3>4, SubmitMarks
            <4>2. DOMAIN queue[PoolOf(e)] \subseteq DOMAIN queue'[PoolOf(e)]
                <5>1. CASE PoolOf(e) = p
                    BY <1>1, <1>2, <1>7, <5>1, SubmitMarks
                <5>2. CASE PoolOf(e) # p
                    <6>1. queue'[PoolOf(e)] = queue[PoolOf(e)]
                        BY <1>1, <1>2, <1>7, <3>1, <5>2, SubmitTypes
                    <6>. QED  BY <6>1
                <5>. QED  BY <5>1, <5>2
            <4>3. e \in inflight' <=> e \in inflight
                BY <1>7, <3>4
            <4>. QED  BY <1>2, <3>1, <3>2, <4>1, <4>2, <4>3 DEF MarkOf
        <3>. QED  BY <3>3, <3>4
    <2>. QED  BY <2>1, <2>2, <2>3 DEF DeskInv, Marked
<1>8. CASE /\ k = "write" /\ ~HasRoom(p) /\ Len(waiting) < Depth
           /\ waiting' = Append(waiting, r)
           /\ UNCHANGED <<queue, inflight, wbuf>>
    <2>1. /\ waiting' \in Seq(MadeRequests) /\ Len(waiting') <= Depth
          /\ \A i \in DOMAIN waiting' : (i \in DOMAIN waiting /\ waiting'[i] = waiting[i]) \/ waiting'[i] = r
        <3>1. waiting \in Seq(MadeRequests) /\ Depth \in Nat
            BY <1>1, Bounds DEF Types, DeskTypes
        <3>. QED  BY <1>1, <1>8, <3>1
    <2>2. Types'
        BY <1>1, <1>5, <1>8, <2>1 DEF Types, WireTypes, PoolTypes
    <2>3. \A i \in DOMAIN waiting' : calls[waiting'[i].q] = "write"
        BY <1>8, <2>1 DEF DeskInv, Sorted
    <2>4. Sorted' /\ DoneAreExclusive'
        BY <1>2, <1>8, <2>3 DEF DeskInv, Sorted, DoneAreExclusive
    <2>5. Marked'
        BY <1>2, <1>8 DEF DeskInv, Marked, MarkOf, QueuedOf, RunningOf
    <2>. QED  BY <2>2, <2>4, <2>5 DEF DeskInv
<1>9. \/ k = "health" /\ wbuf' = Buffered(wbuf, r.fd, [q |-> r.q, ans |-> "result"])
         /\ UNCHANGED <<queue, inflight, waiting>>
      \/ Refuse(r) /\ UNCHANGED <<queue, inflight, waiting>>
      \/ /\ k # "health" /\ k \notin inflight /\ HasRoom(p)
         /\ Submit(p, r)
         /\ inflight' = inflight \cup ({k} \cap Exclusive)
         /\ UNCHANGED <<wbuf, waiting>>
      \/ /\ k = "write" /\ ~HasRoom(p) /\ Len(waiting) < Depth
         /\ waiting' = Append(waiting, r)
         /\ UNCHANGED <<queue, inflight, wbuf>>
    BY DEF Dispatch, Unmark
<1>. QED  BY <1>6, <1>7, <1>8, <1>9 DEF Refuse

\* The answers that are queued, and where they go.
LEMMA ResponseFacts ==
    ASSUME Types
    PROVE  /\ responses \in Seq(Responses) /\ Len(responses) \in Nat
           /\ DOMAIN responses = 1 .. Len(responses)
           /\ \A i \in DOMAIN responses :
                responses[i].fd \in Fds /\ responses[i].frame \in Frames /\ responses[i] \in Responses
<1>1. responses \in Seq(Responses)
    BY DEF Types, DeskTypes
<1>2. \A i \in DOMAIN responses : responses[i] \in Responses
    BY <1>1
<1>. QED  BY <1>1, <1>2 DEF Responses

LEMMA ResponsesToFacts ==
    ASSUME Types, NEW l \in Links
    PROVE  /\ ResponsesTo(l) \subseteq DOMAIN responses
           /\ IsFiniteSet(ResponsesTo(l)) /\ ResponsesTo(l) \subseteq Nat
           /\ Cardinality(ResponsesTo(l)) \in Nat
<1>1. ResponsesTo(l) \in SUBSET (1 .. Len(responses)) /\ Len(responses) \in Nat
    BY ResponseFacts DEF ResponsesTo
<1>2. IsFiniteSet(1 .. Len(responses))
    BY <1>1, FS_Interval
<1>3. IsFiniteSet(ResponsesTo(l))
    BY <1>1, <1>2, FS_Subset
<1>4. Cardinality(ResponsesTo(l)) \in Nat
    BY <1>3, FS_CardinalityType
<1>. QED  BY <1>1, <1>3, <1>4, ResponseFacts

\* The answers to a connection, in the order they were queued.
AnswersTo(l) == [m \in 1 .. Cardinality(ResponsesTo(l)) |-> responses[Nth(ResponsesTo(l), m)].frame]

LEMMA AnswersToFacts ==
    ASSUME Types, NEW l \in Links
    PROVE  /\ AnswersTo(l) \in Seq(Frames)
           /\ DOMAIN AnswersTo(l) = 1 .. Cardinality(ResponsesTo(l))
           /\ Len(AnswersTo(l)) = Cardinality(ResponsesTo(l))
           /\ \A m \in 1 .. Cardinality(ResponsesTo(l)) :
                /\ Nth(ResponsesTo(l), m) \in ResponsesTo(l)
                /\ AnswersTo(l)[m] = responses[Nth(ResponsesTo(l), m)].frame
<1> DEFINE n == Cardinality(ResponsesTo(l))
<1>1. IsFiniteSet(ResponsesTo(l)) /\ ResponsesTo(l) \subseteq Nat /\ n \in Nat
      /\ ResponsesTo(l) \subseteq DOMAIN responses
    BY ResponsesToFacts
<1>2. \A m \in 1 .. n : Nth(ResponsesTo(l), m) \in ResponsesTo(l)
    BY <1>1, NthFacts
<1>3. \A m \in 1 .. n : responses[Nth(ResponsesTo(l), m)].frame \in Frames
    BY <1>1, <1>2, ResponseFacts
<1>4. AnswersTo(l) \in [1 .. n -> Frames]
    BY <1>3 DEF AnswersTo
<1>5. AnswersTo(l) \in Seq(Frames) /\ DOMAIN AnswersTo(l) = 1 .. n
    BY <1>1, <1>4, SeqDef
<1>6. Len(AnswersTo(l)) = n
    BY <1>1, <1>5, LenProperties
<1>. QED  BY <1>2, <1>5, <1>6 DEF AnswersTo

LEMMA DrainDesk ==
    ASSUME DeskInv, Drain
    PROVE  DeskInv'
<1>1. /\ Types /\ UNCHANGED clientVars /\ UNCHANGED taskVars
      /\ UNCHANGED <<backlog, conns, up, down, batch, waiting, cut, stops>>
      /\ responses' = <<>> /\ io' = "admit" /\ wbuf' = Drained(wbuf)
    BY DEF DeskInv, Drain
<1>2. wbuf' \in [Links -> Seq(Frames)]
    <2>1. wbuf' = [l \in Links |-> wbuf[l] \o AnswersTo(l)]
        BY <1>1 DEF Drained, AnswersTo
    <2>2. ASSUME NEW l \in Links PROVE wbuf[l] \o AnswersTo(l) \in Seq(Frames)
        <3>1. wbuf[l] \in Seq(Frames) /\ AnswersTo(l) \in Seq(Frames)
            BY <1>1, AnswersToFacts DEF Types, WireTypes
        <3>. QED  BY <3>1, ConcatProperties
    <2>. QED  BY <2>1, <2>2
<1>3. ClientTypes' /\ WireTypes' /\ CallsKept /\ Made' = Made
    BY <1>1, <1>2, ServerTypesKept
<1>4. DeskTypes'
    <2>1. MadeRequests' = MadeRequests
        BY <1>3 DEF MadeRequests
    <2>. QED  BY <1>1, <2>1 DEF Types, DeskTypes, Responses
<1>5. PoolTypes' /\ (Sorted /\ Marked /\ DoneAreExclusive)'
    BY <1>1, <1>3, PoolTypesKept, DeskKept DEF taskVars
<1>. QED  BY <1>3, <1>4, <1>5 DEF DeskInv, Types

\* The oldest write that waits.
LEMMA WaitingFacts ==
    ASSUME DeskInv, waiting # <<>>
    PROVE  /\ Head(waiting) = waiting[1] /\ 1 \in DOMAIN waiting
           /\ Head(waiting) \in MadeRequests
           /\ Head(waiting).q \in Made /\ Head(waiting).q \in Calls /\ Head(waiting).fd \in Fds
           /\ calls[Head(waiting).q] = "write"
           /\ Tail(waiting) \in Seq(MadeRequests) /\ Len(Tail(waiting)) <= Depth
           /\ \A i \in DOMAIN Tail(waiting) : i + 1 \in DOMAIN waiting /\ Tail(waiting)[i] = waiting[i + 1]
<1>1. Types /\ waiting \in Seq(MadeRequests) /\ Len(waiting) <= Depth /\ Depth \in Nat
    BY Bounds DEF DeskInv, Types, DeskTypes
<1>2. /\ Head(waiting) = waiting[1] /\ 1 \in DOMAIN waiting
      /\ Tail(waiting) \in Seq(MadeRequests) /\ Len(Tail(waiting)) <= Depth
      /\ \A i \in DOMAIN Tail(waiting) : i + 1 \in DOMAIN waiting /\ Tail(waiting)[i] = waiting[i + 1]
    BY <1>1
<1>. QED  BY <1>1, <1>2, RequestFacts, MadeFacts DEF DeskInv, Sorted

LEMMA AdmitDesk ==
    ASSUME DeskInv, Admit
    PROVE  DeskInv'
<1> DEFINE r == Head(waiting)
<1>1. /\ Types /\ waiting # <<>> /\ HasRoom("write") /\ Submit("write", r)
      /\ waiting' = Tail(waiting)
      /\ UNCHANGED clientVars /\ UNCHANGED calls
      /\ UNCHANGED <<backlog, conns, up, wbuf, down, io, batch, running, responses, inflight,
                     runs, cut, stops>>
    BY DEF DeskInv, Admit, clientVars
<1>2. /\ r \in MadeRequests /\ calls[r.q] = "write"
      /\ Tail(waiting) \in Seq(MadeRequests) /\ Len(Tail(waiting)) <= Depth
      /\ \A i \in DOMAIN Tail(waiting) : i + 1 \in DOMAIN waiting /\ Tail(waiting)[i] = waiting[i + 1]
    BY <1>1, WaitingFacts
<1>3. "write" \in Pools /\ PoolOf("write") = "write" /\ \A e \in Exclusive : PoolOf(e) # "write"
    BY KindFacts DEF Pools, PoolOf
<1>4. ClientTypes' /\ WireTypes' /\ CallsKept /\ Made' = Made
    BY <1>1, ServerTypesKept DEF Types, WireTypes
<1>5. MadeRequests' = MadeRequests /\ Tasks' = Tasks
    BY <1>4 DEF MadeRequests, Tasks
<1>6. DeskTypes'
    BY <1>1, <1>2, <1>5 DEF Types, DeskTypes, Responses
<1>7. PoolTypes'
    <2>1. queue' \in [Pools -> Seq(MadeRequests)] /\ \A o \in Pools : Len(queue'[o]) <= PoolDepth(o)
        BY <1>1, <1>2, <1>3, SubmitTypes
    <2>. QED  BY <1>1, <1>5, <2>1 DEF Types, PoolTypes
<1>8. Sorted' /\ DoneAreExclusive'
    <2>1. /\ \A o \in Pools : \A i \in DOMAIN queue'[o] : PoolOf(calls'[queue'[o][i].q]) = o
          /\ \A o \in Pools : \A t \in running'[o] : PoolOf(calls'[t.q]) = o
          /\ DoneAreExclusive'
        BY <1>1, <1>2, <1>3, SubmitSorted
    <2>2. \A i \in DOMAIN waiting' : calls'[waiting'[i].q] = "write"
        BY <1>1, <1>2 DEF DeskInv, Sorted
    <2>. QED  BY <2>1, <2>2 DEF Sorted
<1>9. ASSUME NEW e \in Exclusive PROVE MarkOf(e)'
    <2>1. queue'[PoolOf(e)] = queue[PoolOf(e)]
        BY <1>1, <1>2, <1>3, SubmitTypes, KindFacts
    <2>2. QueuedOf(e)' = QueuedOf(e) /\ RunningOf(e)' = RunningOf(e)
        BY <1>1, <2>1 DEF QueuedOf, RunningOf
    <2>. QED  BY <1>1, <2>1, <2>2 DEF MarkOf, DeskInv, Marked
<1>. QED  BY <1>4, <1>6, <1>7, <1>8, <1>9 DEF DeskInv, Types, Marked

LEMMA ExpireDesk ==
    ASSUME DeskInv, Expire
    PROVE  DeskInv'
<1> DEFINE r == Head(waiting)
           answer == [fd |-> r.fd, frame |-> [q |-> r.q, ans |-> "refused"]]
<1>1. /\ Types /\ waiting # <<>> /\ waiting' = Tail(waiting)
      /\ responses' = Append(responses, answer)
      /\ UNCHANGED clientVars /\ UNCHANGED taskVars
      /\ UNCHANGED <<backlog, conns, up, wbuf, down, io, batch, cut, stops>>
    BY DEF DeskInv, Expire, AfterExpiry
<1>2. /\ r.q \in Calls /\ r.fd \in Fds
      /\ Tail(waiting) \in Seq(MadeRequests) /\ Len(Tail(waiting)) <= Depth
      /\ \A i \in DOMAIN Tail(waiting) : i + 1 \in DOMAIN waiting /\ Tail(waiting)[i] = waiting[i + 1]
    BY <1>1, WaitingFacts
<1>3. ClientTypes' /\ WireTypes' /\ CallsKept /\ Made' = Made
    BY <1>1, ServerTypesKept DEF Types, WireTypes
<1>4. MadeRequests' = MadeRequests
    BY <1>3 DEF MadeRequests
<1>5. DeskTypes'
    <2>1. answer \in Responses
        BY <1>2 DEF Responses, Frames
    <2>2. responses' \in Seq(Responses)
        BY <1>1, <2>1, ResponseFacts, AppendProperties
    <2>. QED  BY <1>1, <1>2, <1>4, <2>2 DEF Types, DeskTypes, Responses
<1>6. PoolTypes'
    BY <1>1, <1>3, PoolTypesKept DEF taskVars
<1>7. UNCHANGED <<calls, queue, running, inflight>>
    BY <1>1 DEF clientVars, taskVars
<1>8. Sorted' /\ DoneAreExclusive' /\ Marked'
    <2>1. \A i \in DOMAIN waiting' : calls'[waiting'[i].q] = "write"
        BY <1>1, <1>2, <1>7 DEF DeskInv, Sorted
    <2>. QED  BY <1>7, <2>1 DEF DeskInv, Sorted, DoneAreExclusive, Marked, MarkOf, QueuedOf, RunningOf
<1>. QED  BY <1>3, <1>5, <1>6, <1>8 DEF DeskInv, Types

-------------------------------------------------------------------------------
(* Workers.                                                                *)

\* The oldest task of a pool.
LEMMA HeadFacts ==
    ASSUME DeskInv, NEW p \in Pools, queue[p] # <<>>
    PROVE  /\ Head(queue[p]) = queue[p][1] /\ 1 \in DOMAIN queue[p]
           /\ Head(queue[p]) \in MadeRequests
           /\ Head(queue[p]).q \in Made /\ Head(queue[p]).q \in Calls /\ Head(queue[p]).fd \in Fds
           /\ PoolOf(calls[Head(queue[p]).q]) = p
           /\ Tail(queue[p]) \in Seq(MadeRequests) /\ Len(Tail(queue[p])) <= PoolDepth(p)
           /\ DOMAIN Tail(queue[p]) \subseteq Nat \ {0} /\ DOMAIN queue[p] \subseteq Nat \ {0}
           /\ \A i \in Nat \ {0} : i \in DOMAIN Tail(queue[p]) <=> i + 1 \in DOMAIN queue[p]
           /\ \A i \in DOMAIN Tail(queue[p]) : Tail(queue[p])[i] = queue[p][i + 1]
<1>1. Types /\ queue[p] \in Seq(MadeRequests) /\ Len(queue[p]) <= PoolDepth(p) /\ PoolDepth(p) \in Nat
    BY Bounds DEF DeskInv, Types, PoolTypes
<1> DEFINE s == queue[p]
<1>2. s \in Seq(MadeRequests) /\ s # <<>>
    BY <1>1
<1>3. PoolOf(calls[queue[p][1].q]) = p /\ queue[p][1] \in MadeRequests
      /\ queue[p][1].q \in Made /\ queue[p][1].fd \in Fds /\ 1 \in DOMAIN queue[p]
    <2>1. 1 \in DOMAIN queue[p]
        BY <1>2
    <2>. QED  BY <1>1, <2>1, RequestFacts DEF DeskInv, Sorted
<1>4. Len(s) <= PoolDepth(p)
    BY <1>1
<1> HIDE DEF s
<1>5. /\ Head(s) = s[1] /\ 1 \in DOMAIN s
      /\ Tail(s) \in Seq(MadeRequests) /\ Len(Tail(s)) <= PoolDepth(p)
      /\ DOMAIN Tail(s) \subseteq Nat \ {0} /\ DOMAIN s \subseteq Nat \ {0}
      /\ \A i \in Nat \ {0} : i \in DOMAIN Tail(s) <=> i + 1 \in DOMAIN s
      /\ \A i \in DOMAIN Tail(s) : Tail(s)[i] = s[i + 1]
    BY <1>1, <1>2, <1>4
<1>. QED  BY <1>1, <1>3, <1>5, MadeFacts DEF s

LEMMA RunningFacts ==
    ASSUME Types, NEW p \in Pools
    PROVE  /\ running[p] \subseteq Tasks /\ IsFiniteSet(running[p])
           /\ Cardinality(running[p]) \in Nat /\ Cardinality(running[p]) <= PoolWorkers(p)
           /\ PoolWorkers(p) \in Nat
<1>1. running[p] \subseteq Tasks /\ IsFiniteSet(running[p])
      /\ Cardinality(running[p]) <= PoolWorkers(p)
    BY DEF Types, PoolTypes
<1>. QED  BY <1>1, FS_CardinalityType, Bounds

LEMMA TakeDesk ==
    ASSUME DeskInv, NEW p \in Pools, Take(p)
    PROVE  DeskInv'
<1> DEFINE r == Head(queue[p])
           t == [fd |-> r.fd, q |-> r.q, done |-> FALSE]
<1>1. /\ Types /\ queue[p] # <<>> /\ Cardinality(running[p]) < PoolWorkers(p)
      /\ running' = [running EXCEPT ![p] = @ \cup {t}]
      /\ queue' = [queue EXCEPT ![p] = Tail(@)]
      /\ UNCHANGED clientVars /\ UNCHANGED calls
      /\ UNCHANGED <<backlog, conns, up, wbuf, down, io, batch, waiting, responses, inflight,
                     runs, cut, stops>>
    BY DEF DeskInv, Take, clientVars
<1>2. /\ r = queue[p][1] /\ 1 \in DOMAIN queue[p]
      /\ r.q \in Made /\ r.fd \in Fds /\ PoolOf(calls[r.q]) = p
      /\ Tail(queue[p]) \in Seq(MadeRequests) /\ Len(Tail(queue[p])) <= PoolDepth(p)
      /\ DOMAIN Tail(queue[p]) \subseteq Nat \ {0} /\ DOMAIN queue[p] \subseteq Nat \ {0}
      /\ \A i \in Nat \ {0} : i \in DOMAIN Tail(queue[p]) <=> i + 1 \in DOMAIN queue[p]
      /\ \A i \in DOMAIN Tail(queue[p]) : Tail(queue[p])[i] = queue[p][i + 1]
    BY <1>1, HeadFacts
<1>3. t \in Tasks /\ t.q = r.q /\ t.done = FALSE
    BY <1>2 DEF Tasks
<1> HIDE DEF t
<1>4. ClientTypes' /\ WireTypes' /\ CallsKept /\ Made' = Made
    BY <1>1, ServerTypesKept DEF Types, WireTypes
<1>5. MadeRequests' = MadeRequests /\ Tasks' = Tasks
    BY <1>4 DEF MadeRequests, Tasks
<1>6. DeskTypes'
    BY <1>1, <1>5 DEF Types, DeskTypes, Responses
<1>7. /\ queue' \in [Pools -> Seq(MadeRequests)] /\ running' \in [Pools -> SUBSET Tasks]
      /\ queue'[p] = Tail(queue[p]) /\ running'[p] = running[p] \cup {t}
      /\ \A o \in Pools \ {p} : queue'[o] = queue[o] /\ running'[o] = running[o]
    BY <1>1, <1>2, <1>3 DEF Types, PoolTypes
<1>8. PoolTypes'
    <2>1. IsFiniteSet(running'[p]) /\ Cardinality(running'[p]) <= PoolWorkers(p)
        <3>1. IsFiniteSet(running[p]) /\ Cardinality(running[p]) \in Nat /\ PoolWorkers(p) \in Nat
            BY <1>1, RunningFacts
        <3>2. /\ IsFiniteSet(running[p] \cup {t})
              /\ Cardinality(running[p] \cup {t}) \in {Cardinality(running[p]), Cardinality(running[p]) + 1}
            BY <3>1, FS_AddElement
        <3>. QED  BY <1>1, <1>7, <3>1, <3>2
    <2>2. \A o \in Pools : IsFiniteSet(running'[o]) /\ Cardinality(running'[o]) <= PoolWorkers(o)
        BY <1>1, <1>7, <2>1, RunningFacts
    <2>3. \A o \in Pools : Len(queue'[o]) <= PoolDepth(o)
        BY <1>1, <1>2, <1>7 DEF Types, PoolTypes
    <2>. QED  BY <1>1, <1>5, <1>7, <2>2, <2>3 DEF Types, PoolTypes
<1>9. Sorted' /\ DoneAreExclusive'
    <2>1. ASSUME NEW o \in Pools, NEW i \in DOMAIN queue'[o] PROVE PoolOf(calls[queue'[o][i].q]) = o
        <3>1. \E j \in DOMAIN queue[o] : queue'[o][i] = queue[o][j]
            <4>1. CASE o # p
                BY <1>7, <2>1, <4>1
            <4>2. CASE o = p
                <5>1. i \in DOMAIN Tail(queue[p]) /\ i \in Nat \ {0}
                    BY <1>2, <1>7, <2>1, <4>2
                <5>2. i + 1 \in DOMAIN queue[p] /\ Tail(queue[p])[i] = queue[p][i + 1]
                    BY <1>2, <5>1
                <5>. QED  BY <1>7, <4>2, <5>2
            <4>. QED  BY <4>1, <4>2
        <3>. QED  BY <3>1 DEF DeskInv, Sorted
    <2>2. ASSUME NEW o \in Pools, NEW u \in running'[o]
          PROVE  PoolOf(calls[u.q]) = o /\ (u.done => calls[u.q] \in Exclusive)
        <3>1. u \in running[o] \/ (o = p /\ u = t)
            BY <1>7, <2>2
        <3>. QED  BY <1>2, <1>3, <3>1 DEF DeskInv, Sorted, DoneAreExclusive
    <2>. QED  BY <1>1, <2>1, <2>2 DEF DeskInv, Sorted, DoneAreExclusive
<1>10. ASSUME NEW e \in Exclusive PROVE MarkOf(e)'
    <2>1. PoolOf(e) \in Pools /\ MarkOf(e)
        BY KindFacts DEF DeskInv, Marked
    <2>2. CASE PoolOf(e) # p
        <3>1. QueuedOf(e)' = QueuedOf(e) /\ RunningOf(e)' = RunningOf(e)
              /\ queue'[PoolOf(e)] = queue[PoolOf(e)] /\ running'[PoolOf(e)] = running[PoolOf(e)]
            BY <1>1, <1>7, <2>1, <2>2 DEF QueuedOf, RunningOf
        <3>. QED  BY <1>1, <2>1, <3>1 DEF MarkOf
    <2>3. CASE PoolOf(e) = p
        <3>1. \A i : i \in QueuedOf(e)' <=> i \in Nat \ {0} /\ i + 1 \in QueuedOf(e)
            BY <1>1, <1>2, <1>7, <2>3 DEF QueuedOf
        <3>2. 1 \in QueuedOf(e) <=> calls[t.q] = e
            BY <1>2, <1>3, <2>3 DEF QueuedOf
        <3>3. QueuedOf(e) \subseteq Nat \ {0}
            BY <1>2, <2>3 DEF QueuedOf
        <3>4. RunningOf(e)' = RunningOf(e) \cup (IF calls[t.q] = e THEN {t} ELSE {})
            BY <1>1, <1>7, <2>3 DEF RunningOf
        <3>5. CASE e \notin inflight
            <4>1. QueuedOf(e) = {} /\ RunningOf(e) = {}
                BY <2>1, <3>5 DEF MarkOf
            <4>. QED  BY <1>1, <3>1, <3>2, <3>4, <3>5, <4>1 DEF MarkOf
        <3>6. CASE e \in inflight /\ QueuedOf(e) = {}
            <4>1. PICK u \in running[PoolOf(e)] : RunningOf(e) = {u}
                BY <2>1, <3>6 DEF MarkOf
            <4>2. u \in running'[PoolOf(e)] /\ RunningOf(e)' = {u} /\ QueuedOf(e)' = {}
                BY <1>7, <2>3, <3>1, <3>2, <3>4, <3>6, <4>1
            <4>. QED  BY <1>1, <3>6, <4>2 DEF MarkOf
        <3>7. CASE e \in inflight /\ QueuedOf(e) # {}
            <4>1. PICK i \in DOMAIN queue[PoolOf(e)] : QueuedOf(e) = {i}
                BY <2>1, <3>7 DEF MarkOf
            <4>2. RunningOf(e) = {}
                BY <2>1, <3>7 DEF MarkOf
            <4>3. CASE i = 1
                <5>1. QueuedOf(e)' = {}
                    BY <3>1, <4>1, <4>3
                <5>2. RunningOf(e)' = {t} /\ t \in running'[PoolOf(e)]
                    BY <1>7, <2>3, <3>2, <3>4, <4>1, <4>2, <4>3
                <5>. QED  BY <1>1, <3>7, <5>1, <5>2 DEF MarkOf
            <4>4. CASE i # 1
                <5>1. i \in Nat /\ i - 1 \in Nat \ {0} /\ (i - 1) + 1 = i
                    BY <3>3, <4>1, <4>4
                <5>2. QueuedOf(e)' = {i - 1}
                    BY <3>1, <4>1, <5>1
                <5>3. i - 1 \in DOMAIN queue'[PoolOf(e)]
                    BY <5>2 DEF QueuedOf
                <5>4. RunningOf(e)' = {}
                    BY <3>2, <3>4, <4>1, <4>2, <4>4
                <5>. QED  BY <1>1, <3>7, <5>2, <5>3, <5>4 DEF MarkOf
            <4>. QED  BY <4>3, <4>4
        <3>. QED  BY <3>5, <3>6, <3>7
    <2>. QED  BY <2>2, <2>3
<1>. QED  BY <1>4, <1>6, <1>8, <1>9, <1>10 DEF DeskInv, Types, Marked

\* A worker's task is replaced by its second half, or is gone.
LEMMA RunningTypes ==
    ASSUME DeskInv, NEW p \in Pools, NEW t \in running[p], NEW rest,
           rest = {} \/ (\E u \in Tasks : rest = {u} /\ u.q = t.q
                                          /\ (u.done => calls[t.q] \in Exclusive)),
           running' = [running EXCEPT ![p] = (@ \ {t}) \cup rest],
           UNCHANGED <<calls, queue>>, inflight' \subseteq inflight, runs' \in [Calls -> Nat]
    PROVE  /\ PoolTypes' /\ DoneAreExclusive'
           /\ \A o \in Pools : \A u \in running'[o] : PoolOf(calls'[u.q]) = o
           /\ \A o \in Pools \ {p} : running'[o] = running[o]
           /\ running'[p] = (running[p] \ {t}) \cup rest
<1>1. Types /\ CallsKept /\ Made' = Made
    BY SameCalls DEF DeskInv
<1>2. MadeRequests' = MadeRequests /\ Tasks' = Tasks
    BY <1>1 DEF MadeRequests, Tasks
<1>3. /\ running' \in [Pools -> SUBSET Tasks]
      /\ \A o \in Pools \ {p} : running'[o] = running[o]
      /\ running'[p] = (running[p] \ {t}) \cup rest
    BY <1>1 DEF Types, PoolTypes
<1>4. IsFiniteSet(running'[p]) /\ Cardinality(running'[p]) <= PoolWorkers(p)
    <2>1. IsFiniteSet(running[p]) /\ Cardinality(running[p]) \in Nat /\ PoolWorkers(p) \in Nat
          /\ Cardinality(running[p]) <= PoolWorkers(p)
        BY <1>1, RunningFacts
    <2> DEFINE less == running[p] \ {t}
    <2>2. IsFiniteSet(less) /\ Cardinality(less) = Cardinality(running[p]) - 1
        BY <2>1, FS_RemoveElement
    <2>20. Cardinality(less) <= PoolWorkers(p)
        BY <2>1, <2>2
    <2>3. CASE rest = {}
        <3>1. running'[p] = less
            BY <1>3, <2>3
        <3>. QED  BY <2>2, <2>20, <3>1
    <2>4. CASE \E u \in Tasks : rest = {u}
        <3>1. PICK u : rest = {u}
            BY <2>4
        <3>2. running'[p] = less \cup {u}
            BY <1>3, <3>1
        <3>3. /\ IsFiniteSet(less \cup {u})
              /\ Cardinality(less \cup {u}) \in {Cardinality(less), Cardinality(less) + 1}
            BY <2>2, FS_AddElement
        <3>. QED  BY <2>1, <2>2, <3>2, <3>3
    <2>. QED  BY <2>3, <2>4
<1>5. \A o \in Pools : IsFiniteSet(running'[o]) /\ Cardinality(running'[o]) <= PoolWorkers(o)
    BY <1>1, <1>3, <1>4, RunningFacts
<1>6. PoolTypes'
    BY <1>1, <1>2, <1>3, <1>5 DEF Types, PoolTypes
<1>7. ASSUME NEW o \in Pools, NEW u \in running'[o]
      PROVE  PoolOf(calls[u.q]) = o /\ (u.done => calls[u.q] \in Exclusive)
    <2>1. CASE u \in running[o]
        BY <2>1 DEF DeskInv, Sorted, DoneAreExclusive
    <2>2. CASE u \notin running[o]
        <3>1. o = p /\ u \in rest
            BY <1>3, <1>7, <2>2
        <3>2. u.q = t.q /\ (u.done => calls[t.q] \in Exclusive)
            BY <3>1
        <3>. QED  BY <3>1, <3>2 DEF DeskInv, Sorted
    <2>. QED  BY <2>1, <2>2
<1>. QED  BY <1>3, <1>6, <1>7 DEF DoneAreExclusive

LEMMA WorkDesk ==
    ASSUME DeskInv, NEW p \in Pools, NEW t \in running[p], NEW ans \in Answers, Work(p, t, ans)
    PROVE  DeskInv'
<1> DEFINE answer == [fd |-> t.fd, frame |-> [q |-> t.q, ans |-> ans]]
           over == [t EXCEPT !.done = TRUE]
           rest == IF calls[t.q] \in Exclusive THEN {over} ELSE {}
<1>1. /\ Types /\ responses' = Append(responses, answer)
      /\ runs' = [runs EXCEPT ![t.q] = @ + 1]
      /\ running' = [running EXCEPT ![p] = (@ \ {t}) \cup rest]
      /\ UNCHANGED clientVars /\ UNCHANGED calls
      /\ UNCHANGED <<backlog, conns, up, wbuf, down, io, batch, waiting, queue, inflight, cut,
                     stops>>
    BY DEF DeskInv, Work, clientVars
<1>2. t \in Tasks /\ t.q \in Made /\ t.q \in Calls /\ t.fd \in Fds
    BY <1>1, RequestFacts, MadeFacts
<1>3. over \in Tasks /\ over.q = t.q
    BY <1>2 DEF Tasks
<1>4. ClientTypes' /\ WireTypes' /\ CallsKept /\ Made' = Made
    BY <1>1, ServerTypesKept DEF Types, WireTypes
<1>5. MadeRequests' = MadeRequests
    BY <1>4 DEF MadeRequests
<1>6. DeskTypes'
    <2>1. answer \in Responses
        BY <1>2 DEF Responses, Frames, Answers
    <2>2. responses' \in Seq(Responses)
        BY <1>1, <2>1, ResponseFacts, AppendProperties
    <2>. QED  BY <1>1, <1>5, <2>2 DEF Types, DeskTypes, Responses
<1>7. runs' \in [Calls -> Nat]
    <2>1. runs \in [Calls -> Nat] /\ \A n \in Nat : n + 1 \in Nat
        BY <1>1 DEF Types, PoolTypes
    <2>2. runs' = [runs EXCEPT ![t.q] = runs[t.q] + 1]
        BY <1>1
    <2>. QED  BY <1>2, <2>1, <2>2
<1>8. rest = {} \/ (\E u \in Tasks : rest = {u} /\ u.q = t.q /\ (u.done => calls[t.q] \in Exclusive))
    BY <1>3
<1> HIDE DEF rest
<1>9. /\ PoolTypes' /\ DoneAreExclusive'
      /\ \A o \in Pools : \A u \in running'[o] : PoolOf(calls'[u.q]) = o
      /\ \A o \in Pools \ {p} : running'[o] = running[o]
      /\ running'[p] = (running[p] \ {t}) \cup rest
    BY <1>1, <1>7, <1>8, RunningTypes
<1>10. Sorted'
    BY <1>1, <1>9 DEF DeskInv, Sorted
<1>11. ASSUME NEW e \in Exclusive PROVE MarkOf(e)'
    <2>1. PoolOf(e) \in Pools /\ MarkOf(e) /\ PoolOf(calls[t.q]) = p
        BY KindFacts DEF DeskInv, Marked, Sorted
    <2>2. QueuedOf(e)' = QueuedOf(e) /\ queue' = queue /\ inflight' = inflight
        BY <1>1 DEF QueuedOf
    <2>3. CASE calls[t.q] # e
        <3>1. RunningOf(e)' = RunningOf(e)
            <4>1. CASE PoolOf(e) # p
                BY <1>1, <1>9, <2>1, <4>1 DEF RunningOf
            <4>2. CASE PoolOf(e) = p
                <5>1. \A u \in rest : calls[u.q] # e
                    BY <1>8, <2>3
                <5>. QED  BY <1>1, <1>9, <2>3, <4>2, <5>1 DEF RunningOf
            <4>. QED  BY <4>1, <4>2
        <3>2. RunningOf(e)' \subseteq running'[PoolOf(e)]
            BY DEF RunningOf
        <3>. QED  BY <2>1, <2>2, <3>1, <3>2 DEF MarkOf
    <2>4. CASE calls[t.q] = e
        <3>1. rest = {over} /\ calls[over.q] = e /\ PoolOf(e) = p
            BY <1>3, <2>1, <2>4 DEF rest
        <3>2. t \in RunningOf(e)
            BY <2>1, <2>4 DEF RunningOf
        <3>3. e \in inflight /\ QueuedOf(e) = {} /\ RunningOf(e) = {t}
            BY <2>1, <3>2 DEF MarkOf
        <3>4. RunningOf(e)' = {over}
            <4>1. \A u \in running[p] : calls[u.q] = e => u = t
                BY <3>1, <3>3 DEF RunningOf
            <4>. QED  BY <1>1, <1>9, <3>1, <4>1 DEF RunningOf
        <3>5. over \in running'[PoolOf(e)]
            BY <1>9, <3>1
        <3>. QED  BY <2>2, <3>3, <3>4, <3>5 DEF MarkOf
    <2>. QED  BY <2>3, <2>4
<1>. QED  BY <1>4, <1>6, <1>9, <1>10, <1>11 DEF DeskInv, Types, Marked

LEMMA ReleaseDesk ==
    ASSUME DeskInv, NEW p \in Pools, NEW t \in running[p], Release(p, t)
    PROVE  DeskInv'
<1> DEFINE k == calls[t.q]
<1>0. running' = [running EXCEPT ![p] = (@ \ {t}) \cup {}]
    <2>1. running' = [running EXCEPT ![p] = running[p] \ {t}]
        BY DEF Release
    <2>2. (running[p] \ {t}) \cup {} = running[p] \ {t}
        OBVIOUS
    <2>. QED  BY <2>1, <2>2
<1>1. /\ Types /\ t.done
      /\ inflight' = inflight \ {k}
      /\ UNCHANGED clientVars /\ UNCHANGED calls
      /\ UNCHANGED <<backlog, conns, up, wbuf, down, io, batch, waiting, queue, responses, runs,
                     cut, stops>>
    BY DEF DeskInv, Release, clientVars
<1>2. k \in Exclusive /\ PoolOf(k) = p
    BY <1>1 DEF DeskInv, DoneAreExclusive, Sorted
<1>3. ClientTypes' /\ WireTypes' /\ CallsKept /\ Made' = Made
    BY <1>1, ServerTypesKept DEF Types, WireTypes
<1>4. DeskTypes'
    BY <1>1, <1>3, DeskTypesKept
<1>5. inflight' \subseteq inflight /\ runs' \in [Calls -> Nat]
    BY <1>1 DEF Types, PoolTypes
<1>6. /\ PoolTypes' /\ DoneAreExclusive'
      /\ \A o \in Pools : \A u \in running'[o] : PoolOf(calls'[u.q]) = o
      /\ \A o \in Pools \ {p} : running'[o] = running[o]
      /\ running'[p] = (running[p] \ {t}) \cup {}
    BY <1>0, <1>1, <1>5, RunningTypes
<1>7. Sorted'
    BY <1>1, <1>6 DEF DeskInv, Sorted
<1>8. ASSUME NEW e \in Exclusive PROVE MarkOf(e)'
    <2>1. PoolOf(e) \in Pools /\ MarkOf(e)
        BY KindFacts DEF DeskInv, Marked
    <2>2. QueuedOf(e)' = QueuedOf(e) /\ queue' = queue
        BY <1>1 DEF QueuedOf
    <2>3. CASE e = k
        <3>1. t \in RunningOf(e)
            BY <1>2, <2>3 DEF RunningOf
        <3>2. QueuedOf(e) = {} /\ RunningOf(e) = {t}
            BY <2>1, <3>1 DEF MarkOf
        <3>3. RunningOf(e)' = {}
            <4>1. \A u \in running[p] : calls[u.q] = e => u = t
                BY <1>2, <2>3, <3>2 DEF RunningOf
            <4>. QED  BY <1>1, <1>2, <1>6, <2>3, <4>1 DEF RunningOf
        <3>. QED  BY <1>1, <2>2, <2>3, <3>2, <3>3 DEF MarkOf
    <2>4. CASE e # k
        <3>1. RunningOf(e)' = RunningOf(e)
            BY <1>1, <1>6, <2>1, <2>4 DEF RunningOf
        <3>2. RunningOf(e)' \subseteq running'[PoolOf(e)]
            BY DEF RunningOf
        <3>. QED  BY <1>1, <2>1, <2>2, <2>4, <3>1, <3>2 DEF MarkOf
    <2>. QED  BY <2>3, <2>4
<1>. QED  BY <1>3, <1>4, <1>6, <1>7, <1>8 DEF DeskInv, Types, Marked

-------------------------------------------------------------------------------
(* Shutdown and restart.                                                   *)

LEMMA StopDesk ==
    ASSUME DeskInv, Stop
    PROVE  DeskInv'
<1>1. /\ Types /\ UNCHANGED clientVars /\ UNCHANGED calls /\ UNCHANGED <<down, batch>>
      /\ stops < MaxStops /\ stops' = stops + 1 /\ io' = "down"
      /\ cut' = cut \cup {await[c] : c \in {d \in Clients : await[d] # 0}}
      /\ conns' = [f \in Fds |-> NoLink] /\ backlog' = <<>>
      /\ up' = [l \in Links |-> <<>>] /\ wbuf' = [l \in Links |-> <<>>]
      /\ waiting' = <<>> /\ responses' = <<>>
      /\ queue' = [p \in Pools |-> <<>>] /\ running' = [p \in Pools |-> {}] /\ inflight' = {}
    BY DEF DeskInv, Stop, clientVars
<1>2. CallsKept /\ Made' = Made
    BY <1>1, SameCalls
<1>3. /\ MadeRequests' = MadeRequests /\ Tasks' = Tasks
      /\ <<>> \in Seq(MadeRequests) /\ <<>> \in Seq(Responses) /\ <<>> \in Seq(Frames)
      /\ <<>> \in Seq(Made) /\ <<>> \in Seq(Links)
      /\ Len(<<>>) = 0 /\ IsFiniteSet({}) /\ Cardinality({}) = 0
    BY <1>2, EmptySeq, FS_EmptySet DEF MadeRequests, Tasks
<1>4. ClientTypes'
    <2>1. cut' \subseteq Made
        BY <1>1 DEF Types, ClientTypes
    <2>. QED  BY <1>1, <1>2, <2>1 DEF Types, ClientTypes, clientVars
<1>5. WireTypes'
    <2>1. stops' \in 0 .. MaxStops
        BY <1>1, Bounds DEF Types, WireTypes
    <2>. QED  BY <1>1, <1>2, <1>3, <2>1 DEF Types, WireTypes
<1>6. DeskTypes'
    BY <1>1, <1>3, Bounds DEF Types, DeskTypes, Responses
<1>7. PoolTypes'
    <2>1. PICK ran : runs' = [q \in Calls |-> IF q \in ran THEN runs[q] + 1 ELSE runs[q]]
        BY DEF Stop
    <2>2. runs' \in [Calls -> Nat]
        BY <1>1, <2>1 DEF Types, PoolTypes
    <2>. QED  BY <1>1, <1>3, <2>2, Bounds DEF Types, PoolTypes
<1>8. Sorted' /\ DoneAreExclusive'
    BY <1>1 DEF Sorted, DoneAreExclusive
<1>9. Marked'
    <2>1. \A e \in Exclusive : PoolOf(e) \in Pools
        BY KindFacts
    <2>. QED  BY <1>1, <2>1 DEF Marked, MarkOf, QueuedOf, RunningOf
<1>. QED  BY <1>4, <1>5, <1>6, <1>7, <1>8, <1>9 DEF DeskInv, Types

LEMMA RestartDesk ==
    ASSUME DeskInv, Restart
    PROVE  DeskInv'
<1>1. /\ Types /\ UNCHANGED clientVars /\ UNCHANGED taskVars /\ io' = "admit"
      /\ UNCHANGED <<backlog, conns, up, wbuf, down, batch, waiting, responses, cut, stops>>
    BY DEF DeskInv, Restart
<1>2. ClientTypes' /\ WireTypes' /\ CallsKept
    BY <1>1, ServerTypesKept DEF Types, WireTypes
<1>3. DeskTypes' /\ PoolTypes' /\ (Sorted /\ Marked /\ DoneAreExclusive)'
    BY <1>1, <1>2, DeskTypesKept, PoolTypesKept, DeskKept DEF taskVars
<1>. QED  BY <1>2, <1>3 DEF DeskInv, Types

LEMMA StutterDesk ==
    ASSUME DeskInv, UNCHANGED vars
    PROVE  DeskInv'
<1>1. CallsKept /\ Made' = Made /\ Types
    BY SameCalls DEF vars, DeskInv
<1>2. ClientTypes' /\ WireTypes'
    BY <1>1 DEF vars, Types, ClientTypes, WireTypes
<1>3. DeskTypes' /\ PoolTypes' /\ (Sorted /\ Marked /\ DoneAreExclusive)'
    BY <1>1, DeskTypesKept, PoolTypesKept, DeskKept DEF vars
<1>. QED  BY <1>2, <1>3 DEF DeskInv, Types

-------------------------------------------------------------------------------
(* Requests are of their kind and marks match tasks, always.               *)

LEMMA InitDesk == Init => DeskInv
<1> SUFFICES ASSUME Init
             PROVE  DeskInv
    OBVIOUS
<1>1. calls = <<>> /\ Len(calls) = 0 /\ Made = {}
    BY DEF Init, Made
<1>2. /\ <<>> \in Seq(MadeRequests) /\ <<>> \in Seq(Responses) /\ <<>> \in Seq(Frames)
      /\ <<>> \in Seq(Made) /\ <<>> \in Seq(Links) /\ <<>> \in Seq(CallKinds)
      /\ IsFiniteSet({}) /\ Cardinality({}) = 0
    BY EmptySeq, FS_EmptySet
<1>3. ClientTypes
    BY <1>1, <1>2, Bounds DEF Init, ClientTypes
<1>4. WireTypes
    BY <1>1, <1>2, Bounds DEF Init, WireTypes
<1>5. DeskTypes
    BY <1>1, <1>2, Bounds DEF Init, DeskTypes
<1>6. PoolTypes
    BY <1>1, <1>2, Bounds DEF Init, PoolTypes
<1>7. Sorted /\ DoneAreExclusive
    BY DEF Init, Sorted, DoneAreExclusive
<1>8. Marked
    <2>1. \A e \in Exclusive : PoolOf(e) \in Pools
        BY KindFacts
    <2>. QED  BY <2>1 DEF Init, Marked, MarkOf, QueuedOf, RunningOf
<1>. QED  BY <1>3, <1>4, <1>5, <1>6, <1>7, <1>8 DEF DeskInv, Types

LEMMA NextDesk == DeskInv /\ [Next]_vars => DeskInv'
<1> SUFFICES ASSUME DeskInv, [Next]_vars
             PROVE  DeskInv'
    OBVIOUS
<1>1. ASSUME NEW c \in Clients, ClientStep(c) PROVE DeskInv'
    <2>1. CASE \E l \in Links : Resend(c, l)
        BY <2>1, ResendDesk
    <2>2. CASE \E l \in Links : \E k \in Kinds[c] : Connect(c, l, k)
        BY <2>2, ConnectDesk
    <2>3. CASE \E k \in Kinds[c] : Send(c, k)
        BY <2>3, SendDesk
    <2>4. CASE Receive(c)
        BY <2>4, ReceiveDesk
    <2>5. CASE Timeout(c) \/ Fail(c)
        BY <2>5, TimeoutDesk
    <2>6. CASE Leave(c)
        BY <2>6, LeaveDesk
    <2>. QED  BY <1>1, <2>1, <2>2, <2>3, <2>4, <2>5, <2>6 DEF ClientStep
<1>2. ASSUME Loop PROVE DeskInv'
    BY <1>2, PollDesk, DispatchDesk, DrainDesk, AdmitDesk, ExpireDesk DEF Loop
<1>3. ASSUME NEW p \in Pools, WorkerStep(p) PROVE DeskInv'
    BY <1>3, TakeDesk, WorkDesk, ReleaseDesk DEF WorkerStep
<1>. QED  BY <1>1, <1>2, <1>3, StopDesk, RestartDesk, StutterDesk DEF Next

LEMMA DeskInductive == Spec => []DeskInv
BY InitDesk, NextDesk, PTL DEF Spec

LEMMA DeskGivesMarks == DeskInv => MarkMatchesTask
<1> SUFFICES ASSUME DeskInv, NEW k \in Exclusive
             PROVE  Cardinality(InPool(k)) = IF k \in inflight THEN 1 ELSE 0
    BY DEF MarkMatchesTask
<1>1. Types /\ MarkOf(k) /\ PoolOf(k) \in Pools /\ MadeRequests \subseteq Requests
    BY KindFacts, MadeFacts DEF DeskInv, Marked
<1>2. ASSUME NEW r
      PROVE  r \in InPool(k) <=>
               \/ \E i \in QueuedOf(k) : r = queue[PoolOf(k)][i]
               \/ \E t \in RunningOf(k) : r = [fd |-> t.fd, q |-> t.q]
    <2>1. ASSUME r \in InPool(k)
          PROVE  \/ \E i \in QueuedOf(k) : r = queue[PoolOf(k)][i]
                 \/ \E t \in RunningOf(k) : r = [fd |-> t.fd, q |-> t.q]
        <3>1. r \in Requests /\ calls[r.q] = k /\ r = [fd |-> r.fd, q |-> r.q]
            BY <2>1 DEF InPool, Requests
        <3>2. PICK p \in Pools : \/ \E i \in DOMAIN queue[p] : queue[p][i] = r
                                 \/ \E t \in running[p] : t.fd = r.fd /\ t.q = r.q
            BY <2>1 DEF InPool
        <3>3. p = PoolOf(k)
            BY <3>1, <3>2 DEF DeskInv, Sorted
        <3>. QED  BY <3>1, <3>2, <3>3 DEF QueuedOf, RunningOf
    <2>2. ASSUME NEW i \in QueuedOf(k), r = queue[PoolOf(k)][i]
          PROVE  r \in InPool(k)
        <3>1. i \in DOMAIN queue[PoolOf(k)] /\ calls[r.q] = k
            BY <2>2 DEF QueuedOf
        <3>2. r \in Requests /\ r.q \in Made
            BY <1>1, <2>2, <3>1, RequestFacts
        <3>. QED  BY <1>1, <2>2, <3>1, <3>2 DEF InPool
    <2>3. ASSUME NEW t \in RunningOf(k), r = [fd |-> t.fd, q |-> t.q]
          PROVE  r \in InPool(k)
        <3>1. t \in running[PoolOf(k)] /\ calls[t.q] = k
            BY DEF RunningOf
        <3>2. t.fd \in Fds /\ t.q \in Made /\ t.q \in Calls
            BY <1>1, <3>1, RequestFacts, MadeFacts
        <3>3. r \in Requests /\ r.fd = t.fd /\ r.q = t.q
            BY <2>3, <3>2 DEF Requests
        <3>. QED  BY <1>1, <3>1, <3>2, <3>3 DEF InPool
    <2>. QED  BY <2>1, <2>2, <2>3
<1>3. CASE k \notin inflight
    <2>1. InPool(k) = {}
        BY <1>1, <1>2, <1>3 DEF MarkOf
    <2>. QED  BY <1>3, <2>1, FS_EmptySet
<1>4. CASE k \in inflight
    <2>1. \E r : InPool(k) = {r}
        <3>1. CASE \E i \in DOMAIN queue[PoolOf(k)] : QueuedOf(k) = {i} /\ RunningOf(k) = {}
            <4>1. PICK i : QueuedOf(k) = {i} /\ RunningOf(k) = {}
                BY <3>1
            <4>2. \A r : r \in InPool(k) <=> r = queue[PoolOf(k)][i]
                BY <1>2, <4>1
            <4>3. InPool(k) = {queue[PoolOf(k)][i]}
                BY <4>2
            <4>. QED  BY <4>3
        <3>2. CASE \E t \in running[PoolOf(k)] : RunningOf(k) = {t} /\ QueuedOf(k) = {}
            <4>1. PICK t : RunningOf(k) = {t} /\ QueuedOf(k) = {}
                BY <3>2
            <4>2. \A r : r \in InPool(k) <=> r = [fd |-> t.fd, q |-> t.q]
                BY <1>2, <4>1
            <4>3. InPool(k) = {[fd |-> t.fd, q |-> t.q]}
                BY <4>2
            <4>. QED  BY <4>3
        <3>. QED  BY <1>1, <1>4, <3>1, <3>2 DEF MarkOf
    <2>. QED  BY <1>4, <2>1, FS_Singleton
<1>. QED  BY <1>3, <1>4

\* learn_codebase and compact_wal: the mark of a kind that runs alone stands for one
\* task, queued or running, through refusals, exceptions and shutdowns.
THEOREM MarkMatches == Spec => []MarkMatchesTask
BY DeskInductive, DeskGivesMarks, PTL

-------------------------------------------------------------------------------
(* Families of queues.                                                     *)

LEMMA CallsInMember ==
    ASSUME NEW F, NEW q \in Calls
    PROVE  q \in CallsIn(F) <=> \E a \in DOMAIN F : \E i \in DOMAIN F[a] : F[a][i].q = q
BY DEF CallsIn

\* Whatever is left of a family.
LEMMA FamilyLess ==
    ASSUME NEW D, NEW F, NEW G, DOMAIN F = D, DOMAIN G = D, OnceIn(F),
           \A a \in D : G[a] = F[a] \/ G[a] = <<>>
    PROVE  /\ OnceIn(G) /\ CallsIn(G) \subseteq CallsIn(F)
           /\ \A a \in D : \A i \in DOMAIN G[a] : i \in DOMAIN F[a] /\ G[a][i] = F[a][i]
<1>1. ASSUME NEW a \in D, NEW i \in DOMAIN G[a] PROVE i \in DOMAIN F[a] /\ G[a][i] = F[a][i] /\ G[a] = F[a]
    BY <1>1
<1>. QED  BY <1>1 DEF OnceIn, CallsIn

\* G is F with e at the end of queue d.
Lengthened(F, G, d, e) ==
    /\ OnceIn(G) /\ CallsIn(G) \subseteq CallsIn(F) \cup {e.q} /\ DOMAIN G = DOMAIN F
    /\ \A a \in DOMAIN F : \A i \in DOMAIN G[a] :
         (i \in DOMAIN F[a] /\ G[a][i] = F[a][i]) \/ (a = d /\ G[a][i] = e)

LEMMA FamilyAppend ==
    ASSUME NEW D, NEW S, NEW F \in [D -> Seq(S)], NEW d \in D, NEW e \in S, e.q \in Calls,
           OnceIn(F), e.q \notin CallsIn(F), NEW G, G = [F EXCEPT ![d] = Append(@, e)]
    PROVE  Lengthened(F, G, d, e)
<1>1. F[d] \in Seq(S) /\ DOMAIN F = D /\ DOMAIN G = D
    OBVIOUS
<1>2. G[d] = Append(F[d], e) /\ \A a \in D \ {d} : G[a] = F[a]
    BY <1>1
<1> DEFINE n == Len(F[d]) + 1
<1>3. /\ DOMAIN G[d] = DOMAIN F[d] \cup {n} /\ G[d][n] = e /\ n \notin DOMAIN F[d]
      /\ \A i \in DOMAIN F[d] : G[d][i] = F[d][i]
    <2>1. /\ Len(G[d]) = n /\ G[d] \in Seq(S) /\ G[d][n] = e
          /\ \A i \in 1 .. Len(F[d]) : G[d][i] = F[d][i]
        BY <1>1, <1>2, AppendProperties
    <2>2. Len(F[d]) \in Nat /\ DOMAIN F[d] = 1 .. Len(F[d]) /\ DOMAIN G[d] = 1 .. Len(G[d])
        BY <1>1, <2>1, LenProperties
    <2>. QED  BY <2>1, <2>2
<1> HIDE DEF n
<1>4. ASSUME NEW a \in D, NEW i \in DOMAIN G[a]
      PROVE  (i \in DOMAIN F[a] /\ G[a][i] = F[a][i]) \/ (a = d /\ i = n /\ G[a][i] = e)
    BY <1>2, <1>3, <1>4
<1>5. ASSUME NEW a \in D, NEW i \in DOMAIN F[a] PROVE F[a][i].q # e.q
    BY <1>1, <1>5 DEF CallsIn
<1>6. OnceIn(G)
    <2> SUFFICES ASSUME NEW a \in D, NEW b \in D, NEW i \in DOMAIN G[a], NEW j \in DOMAIN G[b],
                        G[a][i].q = G[b][j].q
                 PROVE  a = b /\ i = j
        BY <1>1 DEF OnceIn
    <2>1. CASE i \in DOMAIN F[a] /\ G[a][i] = F[a][i]
        <3>1. j \in DOMAIN F[b] /\ G[b][j] = F[b][j]
            BY <1>4, <1>5, <2>1
        <3>. QED  BY <1>1, <2>1, <3>1 DEF OnceIn
    <2>2. CASE a = d /\ i = n /\ G[a][i] = e
        <3>1. b = d /\ j = n
            BY <1>4, <1>5, <2>2
        <3>. QED  BY <2>2, <3>1
    <2>. QED  BY <1>4, <2>1, <2>2
<1>7. CallsIn(G) \subseteq CallsIn(F) \cup {e.q}
    <2> SUFFICES ASSUME NEW q \in CallsIn(G)
                 PROVE  q \in CallsIn(F) \cup {e.q}
        OBVIOUS
    <2>1. PICK a \in D : \E i \in DOMAIN G[a] : G[a][i].q = q
        BY <1>1 DEF CallsIn
    <2>2. q \in Calls
        BY DEF CallsIn
    <2>. QED  BY <1>1, <1>4, <2>1, <2>2, CallsInMember
<1>. QED  BY <1>1, <1>4, <1>6, <1>7 DEF Lengthened

\* G is F without the head of queue d.
Shortened(F, G, d) ==
    /\ OnceIn(G) /\ CallsIn(G) \subseteq CallsIn(F) /\ F[d][1].q \notin CallsIn(G)
    /\ Head(F[d]) = F[d][1] /\ 1 \in DOMAIN F[d]
    /\ \A a \in DOMAIN F : \A i \in DOMAIN G[a] : \E j \in DOMAIN F[a] : G[a][i] = F[a][j]

LEMMA FamilyTail ==
    ASSUME NEW D, NEW S, NEW F \in [D -> Seq(S)], NEW d \in D, F[d] # <<>>,
           OnceIn(F), NEW G, G = [F EXCEPT ![d] = Tail(@)]
    PROVE  Shortened(F, G, d)
<1>1. F[d] \in Seq(S) /\ DOMAIN F = D /\ DOMAIN G = D
    OBVIOUS
<1>2. G[d] = Tail(F[d]) /\ \A a \in D \ {d} : G[a] = F[a]
    BY <1>1
<1>3. /\ Head(F[d]) = F[d][1] /\ 1 \in DOMAIN F[d]
      /\ \A i \in DOMAIN G[d] : i \in Nat /\ i + 1 # 1 /\ i + 1 \in DOMAIN F[d] /\ G[d][i] = F[d][i + 1]
    <2>1. \A s \in Seq(S) : s # <<>> =>
             /\ Head(s) = s[1] /\ 1 \in DOMAIN s
             /\ \A i \in DOMAIN Tail(s) : i \in Nat /\ i + 1 # 1 /\ i + 1 \in DOMAIN s /\ Tail(s)[i] = s[i + 1]
        OBVIOUS
    <2>. QED  BY <1>1, <1>2, <2>1
<1> DEFINE back(a, i) == IF a = d THEN i + 1 ELSE i
<1>4. ASSUME NEW a \in D, NEW i \in DOMAIN G[a]
      PROVE  /\ back(a, i) \in DOMAIN F[a] /\ G[a][i] = F[a][back(a, i)]
             /\ a = d => i \in Nat /\ back(a, i) # 1
    BY <1>2, <1>3, <1>4
<1>5. OnceIn(G)
    <2> SUFFICES ASSUME NEW a \in D, NEW b \in D, NEW i \in DOMAIN G[a], NEW j \in DOMAIN G[b],
                        G[a][i].q = G[b][j].q
                 PROVE  a = b /\ i = j
        BY <1>1 DEF OnceIn
    <2>1. a = b /\ back(a, i) = back(b, j)
        BY <1>1, <1>4 DEF OnceIn
    <2>. QED  BY <1>4, <2>1
<1>6. ASSUME NEW q \in CallsIn(G) PROVE q \in CallsIn(F) /\ q # F[d][1].q
    <2>0. PICK a \in D : \E i \in DOMAIN G[a] : G[a][i].q = q
        BY <1>1, <1>6 DEF CallsIn
    <2>1. PICK i \in DOMAIN G[a] : G[a][i].q = q
        BY <2>0
    <2>2. q \in Calls
        BY <1>6 DEF CallsIn
    <2>3. back(a, i) \in DOMAIN F[a] /\ F[a][back(a, i)].q = q /\ (a = d => back(a, i) # 1)
        BY <1>4, <2>1
    <2>4. q \in CallsIn(F)
        BY <1>1, <2>2, <2>3, CallsInMember
    <2>5. q # F[d][1].q
        BY <1>1, <1>3, <2>3 DEF OnceIn
    <2>. QED  BY <2>4, <2>5
<1> HIDE DEF back
<1>7. \A a \in D : \A i \in DOMAIN G[a] : \E j \in DOMAIN F[a] : G[a][i] = F[a][j]
    BY <1>4
<1>8. CallsIn(G) \subseteq CallsIn(F) /\ F[d][1].q \notin CallsIn(G)
    BY <1>6
<1>. QED  BY <1>1, <1>3, <1>5, <1>7, <1>8 DEF Shortened

\* G is F with queues of H appended.
Joined(F, H, G) ==
    /\ OnceIn(G) /\ CallsIn(G) \subseteq CallsIn(F) \cup CallsIn(H)
    /\ \A a \in DOMAIN F : \A i \in DOMAIN G[a] :
         \/ i \in DOMAIN F[a] /\ G[a][i] = F[a][i]
         \/ /\ \E j \in DOMAIN H[a] : G[a][i] = H[a][j]
            /\ G[a] = F[a] \o H[a]

LEMMA FamilyJoin ==
    ASSUME NEW D, NEW S, NEW F \in [D -> Seq(S)], NEW H \in [D -> Seq(S)], NEW G, DOMAIN G = D,
           \A a \in D : G[a] = F[a] \/ G[a] = F[a] \o H[a],
           OnceIn(F), OnceIn(H), \A s \in S : s.q \in Calls,
           CallsIn(F) \cap CallsIn(H) = {}
    PROVE  Joined(F, H, G)
<1>1. DOMAIN F = D /\ DOMAIN H = D /\ \A a \in D : F[a] \in Seq(S) /\ H[a] \in Seq(S)
    OBVIOUS
<1> DEFINE own(a, i) == i \in DOMAIN F[a]
           off(a, i) == i - Len(F[a])
<1>2. ASSUME NEW s \in Seq(S), NEW t \in Seq(S), NEW i \in DOMAIN (s \o t)
      PROVE  /\ i \in DOMAIN s => (s \o t)[i] = s[i]
             /\ i \notin DOMAIN s => /\ i - Len(s) \in DOMAIN t /\ (s \o t)[i] = t[i - Len(s)]
                                     /\ i \in Nat /\ Len(s) \in Nat
    BY <1>2
<1>3. ASSUME NEW a \in D, NEW i \in DOMAIN G[a]
      PROVE  /\ own(a, i) => G[a][i] = F[a][i]
             /\ ~own(a, i) => /\ off(a, i) \in DOMAIN H[a] /\ G[a][i] = H[a][off(a, i)]
                              /\ i \in Nat /\ Len(F[a]) \in Nat /\ G[a] = F[a] \o H[a]
    <2>1. CASE G[a] = F[a]
        BY <1>3, <2>1
    <2>2. CASE G[a] = F[a] \o H[a]
        BY <1>1, <1>2, <1>3, <2>2
    <2>. QED  BY <1>3, <2>1, <2>2
<1>4. ASSUME NEW a \in D, NEW b \in D, NEW i \in DOMAIN F[a], NEW j \in DOMAIN H[b]
      PROVE  F[a][i].q # H[b][j].q
    <2>1. F[a][i] \in S /\ F[a][i].q \in Calls
        BY <1>1, <1>4
    <2>2. F[a][i].q \in CallsIn(F)
        BY <1>1, <2>1, CallsInMember
    <2>3. F[a][i].q = H[b][j].q => F[a][i].q \in CallsIn(H)
        BY <1>1, <2>1, CallsInMember
    <2>. QED  BY <2>2, <2>3
<1>5. OnceIn(G)
    <2> SUFFICES ASSUME NEW a \in D, NEW b \in D, NEW i \in DOMAIN G[a], NEW j \in DOMAIN G[b],
                        G[a][i].q = G[b][j].q
                 PROVE  a = b /\ i = j
        BY DEF OnceIn
    <2> HIDE DEF own, off
    <2>1. CASE own(a, i)
        <3>1. own(b, j)
            BY <1>3, <1>4, <2>1 DEF own
        <3>. QED  BY <1>1, <1>3, <2>1, <3>1 DEF OnceIn, own
    <2>2. CASE ~own(a, i)
        <3>1. ~own(b, j)
            BY <1>3, <1>4, <2>2 DEF own
        <3>2. a = b /\ off(a, i) = off(b, j)
            BY <1>1, <1>3, <2>2, <3>1 DEF OnceIn
        <3>3. i \in Nat /\ j \in Nat /\ Len(F[a]) \in Nat
            BY <1>3, <2>2, <3>1
        <3>. QED  BY <3>2, <3>3 DEF off
    <2>. QED  BY <2>1, <2>2
<1>6. ASSUME NEW q \in CallsIn(G) PROVE q \in CallsIn(F) \cup CallsIn(H)
    <2>1. PICK a \in D : \E i \in DOMAIN G[a] : G[a][i].q = q
        BY <1>6 DEF CallsIn
    <2>2. q \in Calls
        BY <1>6 DEF CallsIn
    <2>. QED  BY <1>1, <1>3, <2>1, <2>2, CallsInMember
<1>. QED  BY <1>1, <1>3, <1>5, <1>6 DEF Joined

-------------------------------------------------------------------------------
(* Calls that are under way.                                               *)

Busy == UpCalls \cup BatchCalls \cup WaitingCalls \cup CallsIn(queue) \cup RunningCalls
          \cup ResponseCalls \cup CallsIn(wbuf) \cup CallsIn(down)

\* A call that is under way is somewhere, for somebody.
LEMMA BusyFacts ==
    ASSUME DeskInv, AllGood, NEW q \in Busy
    PROVE  /\ q \in Made
           /\ \/ \E l \in Links : Good(q, l) /\ (up[l] # <<>> \/ wbuf[l] # <<>> \/ down[l] # <<>>)
              \/ \E f \in Fds : Good(q, conns[f])
<1>1. Types
    BY DEF DeskInv
<1>2. \A s : \A i \in DOMAIN s : s = <<>> => FALSE
    OBVIOUS
<1>3. CASE q \in UpCalls
    BY <1>2, <1>3 DEF UpCalls, AllGood, UpGood, Good
<1>4. CASE q \in BatchCalls
    BY <1>1, <1>4, RequestFacts DEF BatchCalls, AllGood, BatchGood, Good
<1>5. CASE q \in WaitingCalls
    BY <1>1, <1>5, RequestFacts DEF WaitingCalls, AllGood, WaitingGood, Good
<1>6. CASE q \in CallsIn(queue)
    <2>1. PICK p \in Pools : \E i \in DOMAIN queue[p] : queue[p][i].q = q
        BY <1>1, <1>6 DEF CallsIn, Types, PoolTypes
    <2>. QED  BY <1>1, <2>1, RequestFacts DEF AllGood, QueueGood, Good
<1>7. CASE q \in RunningCalls
    BY <1>1, <1>7, RequestFacts DEF RunningCalls, AllGood, RunningGood, Good
<1>8. CASE q \in ResponseCalls
    BY <1>1, <1>8, ResponseFacts DEF ResponseCalls, AllGood, ResponsesGood, Good
<1>9. CASE q \in CallsIn(wbuf)
    <2>1. PICK l \in Links : \E i \in DOMAIN wbuf[l] : wbuf[l][i].q = q
        BY <1>1, <1>9 DEF CallsIn, Types, WireTypes
    <2>. QED  BY <1>2, <2>1 DEF AllGood, WbufGood, Good
<1>10. CASE q \in CallsIn(down)
    <2>1. PICK l \in Links : \E i \in DOMAIN down[l] : down[l][i].q = q
        BY <1>1, <1>10 DEF CallsIn, Types, WireTypes
    <2>. QED  BY <1>2, <2>1 DEF AllGood, DownGood, Good
<1>. QED  BY <1>3, <1>4, <1>5, <1>6, <1>7, <1>8, <1>9, <1>10 DEF Busy

\* What clients do disturbs no call but one.
GoodKept(x) == \A q, l : Good(q, l) /\ q # x => Good(q, l)'
RunsKept ==
    /\ \A q : (Unrepeated(q) => Unrepeated(q)') /\ (Unrun(q) => Unrun(q)')
    /\ \A frame : Tells(frame) => Tells(frame)'

LEMMA RunsKeptBy ==
    ASSUME UNCHANGED <<runs, cut>>, resent \subseteq resent', CallsKept
    PROVE  RunsKept
BY DEF RunsKept, Unrepeated, Unrun, Tells, CallsKept

LEMMA SameGood ==
    ASSUME UNCHANGED clientVars
    PROVE  /\ Made' = Made /\ Overtaken' = Overtaken
           /\ \A q, l : Good(q, l)' <=> Good(q, l)
<1>1. Made' = Made /\ Overtaken' = Overtaken
    BY DEF clientVars, Made, Overtaken
<1>. QED  BY <1>1 DEF clientVars, Good, Untaken

LEMMA OnceByClients ==
    ASSUME Once, NEW N, N \cap Busy = {},
           UNCHANGED <<batch, waiting, queue, running, responses, wbuf>>,
           UpOnce', UpCalls' \subseteq UpCalls \cup N,
           OnceIn(down'), CallsIn(down') \subseteq CallsIn(down)
    PROVE  Once'
<1>1. /\ BatchOnce' /\ WaitingOnce' /\ OnceIn(queue)' /\ RunningOnce' /\ ResponsesOnce' /\ OnceIn(wbuf)'
      /\ OnceIn(down)'
    BY DEF Once, BatchOnce, WaitingOnce, RunningOnce, ResponsesOnce
<1>2. /\ BatchCalls' = BatchCalls /\ WaitingCalls' = WaitingCalls /\ CallsIn(queue') = CallsIn(queue)
      /\ RunningCalls' = RunningCalls /\ ResponseCalls' = ResponseCalls /\ CallsIn(wbuf') = CallsIn(wbuf)
    BY DEF BatchCalls, WaitingCalls, RunningCalls, ResponseCalls
<1>3. Apart(UpCalls', BatchCalls', WaitingCalls', CallsIn(queue'), RunningCalls', ResponseCalls',
            CallsIn(wbuf'), CallsIn(down'))
    <2>1. StagesApart
        BY DEF Once
    <2>. QED  BY <1>2, <2>1 DEF StagesApart, Apart, Busy
<1>. QED  BY <1>1, <1>3 DEF Once, StagesApart

LEMMA GoodByClients ==
    ASSUME AllGood, RunsKept, NEW x, GoodKept(x),
           UNCHANGED <<batch, waiting, queue, running, responses, wbuf, conns>>,
           Types, x \notin Busy \/ x \in CallsIn(down), Once
    PROVE  BatchGood' /\ WaitingGood' /\ QueueGood' /\ RunningGood' /\ ResponsesGood' /\ WbufGood'
<1>1. /\ x \notin BatchCalls /\ x \notin WaitingCalls /\ x \notin CallsIn(queue)
      /\ x \notin RunningCalls /\ x \notin ResponseCalls /\ x \notin CallsIn(wbuf)
    BY DEF Busy, Once, StagesApart, Apart
<1>2. Made \subseteq Calls
    BY MadeFacts
<1>3. BatchGood'
    <2>1. \A r \in batch : r.q # x
        BY <1>1, <1>2, RequestFacts DEF BatchCalls
    <2>. QED  BY <2>1 DEF AllGood, BatchGood, RunsKept, GoodKept
<1>4. WaitingGood'
    <2>1. \A i \in DOMAIN waiting : waiting[i].q # x
        BY <1>1, <1>2, RequestFacts DEF WaitingCalls
    <2>. QED  BY <2>1 DEF AllGood, WaitingGood, RunsKept, GoodKept
<1>5. QueueGood'
    <2>1. ASSUME NEW p \in Pools, NEW i \in DOMAIN queue[p] PROVE queue[p][i].q # x
        <3>1. queue[p][i].q \in Calls
            BY <1>2, RequestFacts
        <3>2. p \in DOMAIN queue
            BY DEF Types, PoolTypes
        <3>. QED  BY <1>1, <3>1, <3>2 DEF CallsIn
    <2>. QED  BY <2>1 DEF AllGood, QueueGood, RunsKept, GoodKept
<1>6. RunningGood'
    <2>1. \A p \in Pools : \A t \in running[p] : ~t.done => t.q # x
        BY <1>1, <1>2, RequestFacts DEF RunningCalls
    <2>. QED  BY <2>1 DEF AllGood, RunningGood, RunsKept, GoodKept
<1>7. ResponsesGood'
    <2>1. \A i \in DOMAIN responses : responses[i].frame.q # x
        BY <1>1, ResponseFacts DEF ResponseCalls, Frames
    <2>. QED  BY <2>1 DEF AllGood, ResponsesGood, RunsKept, GoodKept
<1>8. WbufGood'
    <2>1. ASSUME NEW l \in Links, NEW i \in DOMAIN wbuf[l] PROVE wbuf[l][i].q # x
        <3>1. wbuf[l] \in Seq(Frames) /\ l \in DOMAIN wbuf
            BY DEF Types, WireTypes
        <3>2. wbuf[l][i] \in Frames
            BY <3>1, LenProperties, ElementOfSeq
        <3>3. wbuf[l][i].q \in Calls
            BY <3>2 DEF Frames
        <3>. QED  BY <1>1, <3>1, <3>3 DEF CallsIn
    <2>. QED  BY <2>1 DEF AllGood, WbufGood, RunsKept, GoodKept
<1>. QED  BY <1>3, <1>4, <1>5, <1>6, <1>7, <1>8

LEMMA WireFacts ==
    ASSUME Types, NEW l \in Links
    PROVE  /\ up[l] \in Seq(Made) /\ wbuf[l] \in Seq(Frames) /\ down[l] \in Seq(Frames)
           /\ \A i \in DOMAIN up[l] : up[l][i] \in Made
           /\ \A i \in DOMAIN wbuf[l] : wbuf[l][i] \in Frames /\ wbuf[l][i].q \in Calls
           /\ \A i \in DOMAIN down[l] : down[l][i] \in Frames /\ down[l][i].q \in Calls
           /\ DOMAIN up = Links /\ DOMAIN wbuf = Links /\ DOMAIN down = Links
<1>1. /\ up[l] \in Seq(Made) /\ wbuf[l] \in Seq(Frames) /\ down[l] \in Seq(Frames)
      /\ DOMAIN up = Links /\ DOMAIN wbuf = Links /\ DOMAIN down = Links
    BY DEF Types, WireTypes
<1>2. \A S : \A s \in Seq(S) : \A i \in DOMAIN s : s[i] \in S
    BY LenProperties, ElementOfSeq
<1>3. \A x \in Frames : x.q \in Calls
    BY DEF Frames
<1>. QED  BY <1>1, <1>2, <1>3

\* A request is written to connection l, and nothing else is; frames are dropped.
UpPuts(l, n, x) ==
    \A m \in Links : \A i \in DOMAIN up'[m] :
        (i \in DOMAIN up[m] /\ up'[m][i] = up[m][i]) \/ (m = l /\ i = n /\ up'[m][i] = x)
FramesDropped ==
    DOMAIN down' = Links /\ \A m \in Links : down'[m] = down[m] \/ down'[m] = <<>>

LEMMA UpPut ==
    ASSUME Types, Once, AllGood, RunsKept, NEW l \in Links, NEW n, NEW x \in Calls, x \notin UpCalls,
           GoodKept(x), Good(x, l)', Unrepeated(x)', UpPuts(l, n, x)
    PROVE  UpOnce' /\ UpGood' /\ UpCalls' \subseteq UpCalls \cup {x}
<1>0. \A m \in Links : \A i \in DOMAIN up'[m] :
        (i \in DOMAIN up[m] /\ up'[m][i] = up[m][i]) \/ (m = l /\ i = n /\ up'[m][i] = x)
    BY DEF UpPuts
<1>1. ASSUME NEW m \in Links, NEW i \in DOMAIN up[m]
      PROVE  up[m][i] \in Calls /\ up[m][i] # x
    <2>1. up[m][i] \in Calls
        BY <1>1, WireFacts, MadeFacts
    <2>. QED  BY <2>1 DEF UpCalls
<1>2. UpOnce'
    <2> SUFFICES ASSUME NEW m \in Links, NEW o \in Links, NEW i \in DOMAIN up'[m], NEW j \in DOMAIN up'[o],
                        up'[m][i] = up'[o][j]
                 PROVE  m = o /\ i = j
        BY DEF UpOnce
    <2>1. CASE i \in DOMAIN up[m] /\ up'[m][i] = up[m][i]
        <3>1. j \in DOMAIN up[o] /\ up'[o][j] = up[o][j]
            BY <1>0, <1>1, <2>1
        <3>2. up[m][i] = up[o][j] /\ UpOnce
            BY <2>1, <3>1 DEF Once
        <3>. QED  BY <2>1, <3>1, <3>2 DEF UpOnce
    <2>2. CASE m = l /\ i = n /\ up'[m][i] = x
        <3>1. o = l /\ j = n
            BY <1>0, <1>1, <2>2
        <3>. QED  BY <2>2, <3>1
    <2>. QED  BY <1>0, <2>1, <2>2
<1>3. UpGood'
    <2>1. ASSUME NEW m \in Links, NEW i \in DOMAIN up'[m]
          PROVE  Good(up[m][i], m)' /\ Unrepeated(up[m][i])'
        <3>1. PICK z : z = up'[m][i]
            OBVIOUS
        <3>2. CASE i \in DOMAIN up[m] /\ up'[m][i] = up[m][i]
            <4>1. UpGood /\ z = up[m][i] /\ z # x
                BY <1>1, <3>1, <3>2 DEF AllGood
            <4>2. Good(z, m) /\ Unrepeated(z)
                BY <3>2, <4>1 DEF UpGood
            <4>3. Good(z, m)' /\ Unrepeated(z)'
                BY <4>1, <4>2 DEF GoodKept, RunsKept
            <4>. QED  BY <3>1, <4>3
        <3>3. CASE m = l /\ up'[m][i] = x
            BY <3>3
        <3>. QED  BY <1>0, <2>1, <3>2, <3>3
    <2>. QED  BY <2>1 DEF UpGood
<1>4. UpCalls' \subseteq UpCalls \cup {x}
    <2> SUFFICES ASSUME NEW q \in UpCalls' PROVE q \in UpCalls \cup {x}
        OBVIOUS
    <2>1. q \in Calls /\ \E m \in Links : \E i \in DOMAIN up'[m] : up'[m][i] = q
        BY DEF UpCalls, Calls
    <2>. QED  BY <1>0, <2>1 DEF UpCalls
<1>. QED  BY <1>2, <1>3, <1>4

LEMMA DownLess ==
    ASSUME Types, Once, AllGood, RunsKept, NEW x, GoodKept(x), x \notin CallsIn(down),
           FramesDropped
    PROVE  OnceIn(down') /\ DownGood' /\ CallsIn(down') \subseteq CallsIn(down)
<1>1. DOMAIN down = Links
    BY DEF Types, WireTypes
<1>2. /\ OnceIn(down') /\ CallsIn(down') \subseteq CallsIn(down)
      /\ \A l \in Links : \A i \in DOMAIN down'[l] : i \in DOMAIN down[l] /\ down'[l][i] = down[l][i]
    BY <1>1, FamilyLess DEF Once, FramesDropped
<1>3. ASSUME NEW l \in Links, NEW i \in DOMAIN down[l] PROVE down[l][i].q # x
    <2>1. down[l][i].q \in Calls
        BY <1>3, WireFacts
    <2>. QED  BY <1>1, <2>1 DEF CallsIn
<1>4. DownGood'
    BY <1>2, <1>3 DEF AllGood, DownGood, GoodKept, RunsKept
<1>. QED  BY <1>2, <1>4

\* What a step of a client leaves to be shown, once its request is written.
LEMMA ClientSteps ==
    ASSUME IInv, RunsKept, NEW l \in Links, NEW n, NEW x \in Calls, x \notin Busy,
           GoodKept(x), Good(x, l)', Unrepeated(x)',
           UNCHANGED <<batch, waiting, queue, running, responses, wbuf, conns>>,
           UpPuts(l, n, x), FramesDropped
    PROVE  Once' /\ AllGood'
<1>1. Types /\ Once /\ AllGood
    BY DEF IInv, DeskInv
<1>2. x \notin UpCalls /\ x \notin CallsIn(down) /\ {x} \cap Busy = {}
    BY DEF Busy
<1>3. UpOnce' /\ UpGood' /\ UpCalls' \subseteq UpCalls \cup {x}
    BY <1>1, <1>2, UpPut
<1>4. OnceIn(down') /\ DownGood' /\ CallsIn(down') \subseteq CallsIn(down)
    BY <1>1, <1>2, DownLess
<1>5. Once'
    BY <1>1, <1>2, <1>3, <1>4, OnceByClients
<1>6. BatchGood' /\ WaitingGood' /\ QueueGood' /\ RunningGood' /\ ResponsesGood' /\ WbufGood'
    BY <1>1, GoodByClients
<1>. QED  BY <1>3, <1>4, <1>5, <1>6 DEF AllGood

-------------------------------------------------------------------------------
(* Calls that clients make, repeat and give up.                            *)

\* A new call has left no trace.
LEMMA NewCall ==
    ASSUME IInv, NEW k \in CallKinds, calls' = Append(calls, k), Len(calls) < MaxCalls
    PROVE  /\ Len(calls) + 1 \notin Busy /\ Len(calls) + 1 \in Calls
           /\ Len(calls) + 1 \in Made' /\ Len(calls) + 1 \notin Made /\ Len(calls) + 1 # 0
           /\ got[Len(calls) + 1] = NoAnswer /\ runs[Len(calls) + 1] = 0
           /\ Made' = Made \cup {Len(calls) + 1} /\ CallsKept
           /\ Untaken(Len(calls) + 1) /\ Len(calls) + 1 \notin abandoned
<1> DEFINE n == Len(calls) + 1
<1>1. Types /\ AllGood /\ DeskInv
    BY DEF IInv, DeskInv
<1>2. /\ n \in Made' /\ n \notin Made /\ n \in Calls /\ n # 0
      /\ Made' = Made \cup {n} /\ CallsKept
    BY <1>1, OneMoreCall
<1>3. n \notin Busy
    BY <1>1, <1>2, BusyFacts
<1>4. got[n] = NoAnswer
    BY <1>2 DEF IInv, ClientEnds
<1>5. runs[n] = 0
    <2>1. runs[n] \in Nat /\ ~(runs[n] > 0)
        BY <1>1, <1>2 DEF IInv, Counts, RunsBounded, Types, PoolTypes
    <2>. QED  BY <2>1
<1>6. n \notin abandoned
    BY <1>1, <1>2 DEF Types, ClientTypes
<1>7. Untaken(n)
    <2>1. NoAnswer.q = 0
        BY DEF NoAnswer
    <2>2. \A p \in Calls : got[p].q \in {0} \cup Made
        BY <1>1, <2>1 DEF IInv, OwnAnswerUnlessAbandoned, ClientEnds, Overtaken, Types, ClientTypes
    <2> HIDE DEF n
    <2>. QED  BY <1>2, <2>2 DEF Untaken
<1>. QED  BY <1>2, <1>3, <1>4, <1>5, <1>6, <1>7

\* What is known of the calls made before survives a call, new or repeated, of client c.
LEMMA OldCalls ==
    ASSUME IInv, NEW c \in Clients, NEW n, n \notin Made,
           Made' = Made \/ (Made' = Made \cup {n} /\ got[n] = NoAnswer),
           UNCHANGED <<got, abandoned, runs, cut>>
    PROVE  /\ Overtaken' = Overtaken
           /\ OwnAnswerUnlessAbandoned'
           /\ \A q \in Made' : got[q].q = q /\ got[q].ans = "refused" => Unrun(q)'
<1>1. NoAnswer.q = 0 /\ NoAnswer.ans # "refused"
    BY DEF NoAnswer
<1>2. Overtaken' = Overtaken
    BY <1>1 DEF Overtaken
<1>3. OwnAnswerUnlessAbandoned'
    <2>1. \A q \in Made' : got'[q].q \in {0, q} \cup abandoned' \cup Overtaken'
        BY <1>1, <1>2 DEF IInv, OwnAnswerUnlessAbandoned
    <2>. QED  BY <1>2, <2>1 DEF IInv, OwnAnswerUnlessAbandoned
<1>4. \A q \in Made' : got[q].q = q /\ got[q].ans = "refused" => Unrun(q)'
    BY <1>1 DEF IInv, Counts, RefusedKept, Unrun
<1>. QED  BY <1>2, <1>3, <1>4

LEMMA FreeForFacts ==
    ASSUME NEW c \in Clients, NEW l \in Links, Open(c, l)
    PROVE  /\ \A d \in Clients \ {c} : link[d] # l
           /\ ~ServerEnd(l) /\ l \notin Accepted /\ l \notin Queued
           /\ link' = [link EXCEPT ![c] = l] /\ backlog' = Append(backlog, l)
BY DEF Open, FreeFor, ServerEnd

\* A new connection waits to be accepted.
LEMMA OpenServerEnds ==
    ASSUME Types, ServerEnds, NEW c \in Clients, NEW l \in Links, Open(c, l),
           NEW s, up' = [up EXCEPT ![l] = s],
           UNCHANGED <<conns, wbuf, io, batch>>
    PROVE  ServerEnds' /\ Accepted' = Accepted
<1>1. Accepted' = Accepted
    BY DEF Accepted
<1>2. l \notin Accepted /\ l \notin Queued /\ backlog' = Append(backlog, l)
    BY FreeForFacts
<1>3. /\ \A i \in DOMAIN backlog : backlog[i] # l /\ i \in DOMAIN backlog' /\ backlog'[i] = backlog[i]
      /\ \E n : n \in DOMAIN backlog' /\ backlog'[n] = l /\ DOMAIN backlog' = DOMAIN backlog \cup {n}
    <2>1. backlog \in Seq(Links)
        BY DEF Types, WireTypes
    <2>2. /\ Len(backlog') = Len(backlog) + 1 /\ backlog' \in Seq(Links) /\ Len(backlog) \in Nat
          /\ \A i \in 1 .. Len(backlog) : backlog'[i] = backlog[i]
          /\ backlog'[Len(backlog) + 1] = l
        BY <1>2, <2>1, AppendProperties
    <2>3. DOMAIN backlog = 1 .. Len(backlog) /\ DOMAIN backlog' = 1 .. Len(backlog) + 1
        BY <2>1, <2>2, LenProperties
    <2>. QED  BY <1>2, <2>2, <2>3 DEF Queued
<1>4. Queued' = Queued \cup {l}
    BY <1>3 DEF Queued
<1>5. \A m \in Links : ServerEnd(m) => ServerEnd(m)'
    BY <1>1, <1>4 DEF ServerEnd
<1>6. \A m \in Links : up'[m] # <<>> => ServerEnd(m)'
    <2>1. ServerEnd(l)'
        BY <1>4 DEF ServerEnd
    <2>2. \A m \in Links \ {l} : up'[m] = up[m]
        BY DEF Types, WireTypes
    <2>. QED  BY <1>5, <2>1, <2>2 DEF ServerEnds
<1>7. \A i, j \in DOMAIN backlog' : backlog'[i] = backlog'[j] => i = j
    BY <1>3 DEF ServerEnds
<1>8. \A i \in DOMAIN backlog' : backlog'[i] \notin Accepted'
    BY <1>1, <1>2, <1>3 DEF ServerEnds
<1>. QED  BY <1>1, <1>6, <1>7, <1>8 DEF ServerEnds

LEMMA ConnectSafe ==
    ASSUME IInv, NEW c \in Clients, NEW l \in Links, NEW k \in Kinds[c], Connect(c, l, k)
    PROVE  IInv'
<1>0. PICK n : n = Len(calls) + 1
    OBVIOUS
<1>1. /\ link[c] = NoLink /\ Len(calls) < MaxCalls /\ Open(c, l)
      /\ calls' = Append(calls, k) /\ await' = [await EXCEPT ![c] = n]
      /\ up' = [up EXCEPT ![l] = <<n>>] /\ down' = [down EXCEPT ![l] = <<>>]
      /\ UNCHANGED <<resent, conns, wbuf, io, batch, waiting, queue, running, responses,
                     inflight, got, runs, abandoned, cut, stops>>
    BY <1>0 DEF Connect
<1>2. Types /\ DeskInv /\ ClientEnds /\ ServerEnds /\ k \in CallKinds
    BY DEF IInv, DeskInv, CallKinds
<1>3. DeskInv'
    BY <1>2, ConnectDesk
<1>4. /\ n \notin Busy /\ n \in Calls /\ n \in Made' /\ n \notin Made /\ n # 0
      /\ got[n] = NoAnswer /\ runs[n] = 0 /\ Made' = Made \cup {n} /\ CallsKept
      /\ Untaken(n) /\ n \notin abandoned
    BY <1>0, <1>1, <1>2, NewCall
<1>5. /\ \A d \in Clients \ {c} : link[d] # l
      /\ link' = [link EXCEPT ![c] = l]
    BY <1>1, FreeForFacts
<1>6. /\ await[c] = 0 /\ await'[c] = n /\ link'[c] = l /\ l # NoLink
      /\ \A d \in Clients \ {c} : await'[d] = await[d] /\ link'[d] = link[d] /\ await[d] # n
    <2>1. \A d \in Clients : await[d] \in Made \cup {0} /\ (await[d] # 0 => link[d] # NoLink)
        BY <1>2, AwaitFacts, FdFacts
    <2>2. await \in [Clients -> Made \cup {0}] /\ link \in [Clients -> Links \cup {NoLink}]
        BY <1>2 DEF Types, ClientTypes
    <2>3. l # NoLink
        BY FdFacts
    <2>. QED  BY <1>1, <1>4, <1>5, <2>1, <2>2, <2>3
<1>7. NoAnswer.q = 0
    BY DEF NoAnswer
<1>8. /\ Overtaken' = Overtaken /\ OwnAnswerUnlessAbandoned'
      /\ \A q \in Made' : got[q].q = q /\ got[q].ans = "refused" => Unrun(q)'
    BY <1>1, <1>4, OldCalls
<1>9. ClientEnds'
    <2>1. \A d, e \in Clients : link'[d] = link'[e] /\ link'[d] # NoLink => d = e
        BY <1>2, <1>5, <1>6 DEF ClientEnds
    <2>2. \A d, e \in Clients : await'[d] = await'[e] /\ await'[d] # 0 => d = e
        BY <1>2, <1>6 DEF ClientEnds
    <2>. QED  BY <1>1, <1>2, <1>4, <1>6, <2>1, <2>2 DEF ClientEnds
<1>10. ServerEnds' /\ Accepted' = Accepted
    BY <1>1, <1>2, OpenServerEnds
<1>11. RunsKept
    BY <1>1, <1>4, RunsKeptBy
<1>12. GoodKept(n)
    <2> SUFFICES ASSUME NEW q, NEW m, Good(q, m), q # n PROVE Good(q, m)'
        BY DEF GoodKept
    <2>1. q \in Made' /\ Untaken(q)' /\ q # 0
        BY <1>1, <1>2, <1>4, MadeFacts DEF Good, Untaken
    <2>2. q \in abandoned' \cup Overtaken' \/ \E d \in Clients : await'[d] = q
        BY <1>1, <1>6, <1>8, <2>1 DEF Good
    <2>3. \A d \in Clients : await'[d] = q => link'[d] = m
        BY <1>6 DEF Good
    <2>. QED  BY <2>1, <2>2, <2>3 DEF Good
<1>13. Good(n, l)' /\ Unrepeated(n)'
    <2>1. Good(n, l)'
        <3>1. \A d \in Clients : await'[d] = n => link'[d] = l
            BY <1>6
        <3>. QED  BY <1>1, <1>4, <1>6, <3>1 DEF Good, Untaken
    <2>. QED  BY <1>1, <1>4, <2>1 DEF Unrepeated
<1>14. Once' /\ AllGood'
    <2>1. UpPuts(l, 1, n)
        BY <1>1, <1>2 DEF UpPuts, Types, WireTypes
    <2>2. FramesDropped
        BY <1>1, <1>2 DEF FramesDropped, Types, WireTypes
    <2>. QED  BY <1>1, <1>4, <1>11, <1>12, <1>13, <2>1, <2>2, ClientSteps
<1>15. Counts'
    <2>1. Unreached'
        <3> SUFFICES ASSUME NEW d \in Clients, await'[d] # 0, link'[d] \notin Accepted'
                     PROVE  Unrun(await[d])'
            BY DEF Unreached
        <3>1. CASE d = c
            BY <1>1, <1>4, <1>6, <3>1 DEF Unrun
        <3>2. CASE d # c
            BY <1>1, <1>6, <1>10, <3>2 DEF IInv, Counts, Unreached, Unrun
        <3>. QED  BY <3>1, <3>2
    <2>2. RunsBounded'
        BY <1>1, <1>4 DEF IInv, Counts, RunsBounded
    <2>3. RefusedKept'
        BY <1>1, <1>8 DEF RefusedKept
    <2>. QED  BY <2>1, <2>2, <2>3 DEF Counts
<1>. QED  BY <1>3, <1>8, <1>9, <1>10, <1>14, <1>15 DEF IInv

LEMMA SameServerEnds ==
    ASSUME ServerEnds, UNCHANGED <<conns, backlog, wbuf, io, batch>>,
           \A l \in Links : up'[l] # <<>> => up[l] # <<>> \/ ServerEnd(l)
    PROVE  ServerEnds' /\ Accepted' = Accepted
<1>1. Accepted' = Accepted /\ Queued' = Queued
    BY DEF Accepted, Queued
<1>2. \A l \in Links : ServerEnd(l)' <=> ServerEnd(l)
    BY <1>1 DEF ServerEnd
<1>. QED  BY <1>1, <1>2 DEF ServerEnds

LEMMA SendSafe ==
    ASSUME IInv, NEW c \in Clients, NEW k \in Kinds[c], Send(c, k)
    PROVE  IInv'
<1>0. PICK n : n = Len(calls) + 1
    OBVIOUS
<1>00. PICK l : l = link[c]
    OBVIOUS
<1>1. /\ l # NoLink /\ Len(calls) < MaxCalls /\ await[c] = 0
      /\ calls' = Append(calls, k) /\ await' = [await EXCEPT ![c] = n]
      /\ up' = [up EXCEPT ![l] = Carried(l, Append(@, n))]
      /\ down' = [down EXCEPT ![l] = Carried(l, @)]
      /\ UNCHANGED <<link, resent, backlog, conns, wbuf, io, batch, waiting, queue, running,
                     responses, inflight, got, runs, abandoned, cut, stops>>
    BY <1>0, <1>00 DEF Send
<1>2. Types /\ DeskInv /\ ClientEnds /\ ServerEnds /\ k \in CallKinds
    BY DEF IInv, DeskInv, CallKinds
<1>3. DeskInv'
    BY <1>2, SendDesk
<1>4. /\ n \notin Busy /\ n \in Calls /\ n \in Made' /\ n \notin Made /\ n # 0
      /\ got[n] = NoAnswer /\ runs[n] = 0 /\ Made' = Made \cup {n} /\ CallsKept
      /\ Untaken(n) /\ n \notin abandoned
    BY <1>0, <1>1, <1>2, NewCall
<1>5. l \in Links
    BY <1>00, <1>1, <1>2, AwaitFacts
<1>6. /\ await'[c] = n /\ link'[c] = l
      /\ \A d \in Clients \ {c} : await'[d] = await[d] /\ link'[d] = link[d] /\ await[d] # n
    <2>1. \A d \in Clients : await[d] \in Made \cup {0} /\ (await[d] # 0 => link[d] # NoLink)
        BY <1>2, AwaitFacts, FdFacts
    <2>2. await \in [Clients -> Made \cup {0}]
        BY <1>2 DEF Types, ClientTypes
    <2>. QED  BY <1>00, <1>1, <1>4, <2>1, <2>2
<1>7. NoAnswer.q = 0
    BY DEF NoAnswer
<1>8. /\ Overtaken' = Overtaken /\ OwnAnswerUnlessAbandoned'
      /\ \A q \in Made' : got[q].q = q /\ got[q].ans = "refused" => Unrun(q)'
    BY <1>1, <1>4, OldCalls
<1>9. ClientEnds'
    <2>1. \A d, e \in Clients : await'[d] = await'[e] /\ await'[d] # 0 => d = e
        BY <1>2, <1>6 DEF ClientEnds
    <2>. QED  BY <1>1, <1>2, <1>4, <1>6, <2>1 DEF ClientEnds
<1>10. ServerEnds' /\ Accepted' = Accepted
    <2>1. \A m \in Links : up'[m] # <<>> => up[m] # <<>> \/ ServerEnd(m)
        BY <1>1, <1>2, <1>5 DEF Types, WireTypes, Carried
    <2>. QED  BY <1>1, <1>2, <2>1, SameServerEnds
<1>11. RunsKept
    BY <1>1, <1>4, RunsKeptBy
<1>12. GoodKept(n)
    <2> SUFFICES ASSUME NEW q, NEW m, Good(q, m), q # n PROVE Good(q, m)'
        BY DEF GoodKept
    <2>1. q \in Made' /\ Untaken(q)' /\ q # 0
        BY <1>1, <1>2, <1>4, MadeFacts DEF Good, Untaken
    <2>2. q \in abandoned' \cup Overtaken' \/ \E d \in Clients : await'[d] = q
        BY <1>1, <1>6, <1>8, <2>1 DEF Good
    <2>3. \A d \in Clients : await'[d] = q => link'[d] = m
        BY <1>6 DEF Good
    <2>. QED  BY <2>1, <2>2, <2>3 DEF Good
<1>13. Good(n, l)' /\ Unrepeated(n)'
    <2>1. Good(n, l)'
        <3>1. \A d \in Clients : await'[d] = n => link'[d] = l
            BY <1>6
        <3>. QED  BY <1>1, <1>4, <1>6, <3>1 DEF Good, Untaken
    <2>. QED  BY <1>1, <1>4, <2>1 DEF Unrepeated
<1>14. Once' /\ AllGood'
    <2>1. PICK place : place = Len(up[l]) + 1
        OBVIOUS
    <2>2. UpPuts(l, place, n)
        <3>1. up \in [Links -> Seq(Made)] /\ up[l] \in Seq(Made)
            BY <1>2, <1>5 DEF Types, WireTypes
        <3>2. up'[l] = Append(up[l], n) \/ up'[l] = <<>>
            BY <1>1, <1>5, <3>1 DEF Carried
        <3>3. \A m \in Links \ {l} : up'[m] = up[m]
            BY <1>1, <1>5, <3>1
        <3>4. \A i \in DOMAIN Append(up[l], n) :
                 \/ i \in DOMAIN up[l] /\ Append(up[l], n)[i] = up[l][i]
                 \/ i = place /\ Append(up[l], n)[i] = n
            BY <2>1, <3>1
        <3>5. \A i \in DOMAIN up'[l] :
                 (i \in DOMAIN up[l] /\ up'[l][i] = up[l][i]) \/ (i = place /\ up'[l][i] = n)
            BY <3>2, <3>4
        <3>. QED  BY <3>3, <3>5 DEF UpPuts
    <2>3. FramesDropped
        BY <1>1, <1>2 DEF FramesDropped, Types, WireTypes, Carried
    <2>. QED  BY <1>1, <1>4, <1>5, <1>11, <1>12, <1>13, <2>2, <2>3, ClientSteps
<1>15. Counts'
    <2>1. Unreached'
        <3> SUFFICES ASSUME NEW d \in Clients, await'[d] # 0, link'[d] \notin Accepted'
                     PROVE  Unrun(await[d])'
            BY DEF Unreached
        <3>1. CASE d = c
            BY <1>1, <1>4, <1>6, <3>1 DEF Unrun
        <3>2. CASE d # c
            BY <1>1, <1>6, <1>10, <3>2 DEF IInv, Counts, Unreached, Unrun
        <3>. QED  BY <3>1, <3>2
    <2>2. RunsBounded'
        BY <1>1, <1>4 DEF IInv, Counts, RunsBounded
    <2>3. RefusedKept'
        BY <1>1, <1>8 DEF RefusedKept
    <2>. QED  BY <2>1, <2>2, <2>3 DEF Counts
<1>. QED  BY <1>3, <1>8, <1>9, <1>10, <1>14, <1>15 DEF IInv

\* A client that has lost its connection has nothing under way on it any more.
LEMMA LostCall ==
    ASSUME IInv, NEW c \in Clients, Lost(c)
    PROVE  await[c] \notin Busy
<1> DEFINE a == await[c]
<1>1. Types /\ DeskInv /\ AllGood /\ ServerEnds
    BY DEF IInv, DeskInv
<1>2. a # 0 /\ ~ServerEnd(link[c]) /\ down[link[c]] = <<>> /\ link[c] \in Links
    BY <1>1, AwaitFacts DEF Lost
<1>3. \A l : Good(a, l) => l = link[c]
    BY DEF Good
<1>4. ASSUME NEW l \in Links, Good(a, l), up[l] # <<>> \/ wbuf[l] # <<>> \/ down[l] # <<>>
      PROVE  FALSE
    <2>1. l = link[c]
        BY <1>3, <1>4
    <2>. QED  BY <1>1, <1>2, <1>4, <2>1 DEF ServerEnds, ServerEnd
<1>5. ASSUME NEW f \in Fds, Good(a, conns[f])
      PROVE  FALSE
    BY <1>2, <1>3, <1>5 DEF ServerEnd, Accepted
<1> HIDE DEF a
<1>. QED  BY <1>1, <1>4, <1>5, BusyFacts DEF a

\* Nobody has the answer that a client waits for.
LEMMA WaitedUntaken ==
    ASSUME IInv, NEW c \in Clients, await[c] # 0
    PROVE  Untaken(await[c])
<1>1. await[c] \notin abandoned /\ got[await[c]] = NoAnswer /\ NoAnswer.q = 0
    BY DEF IInv, ClientEnds, NoAnswer
<1>2. await[c] \notin Overtaken
    BY <1>1 DEF Overtaken
<1>3. \A p \in Calls \ Made : got[p].q = 0
    BY <1>1 DEF IInv, ClientEnds
<1>4. \A p \in Made : got[p].q \in {0, p} \cup abandoned \cup Overtaken
    BY DEF IInv, OwnAnswerUnlessAbandoned
<1>. QED  BY <1>1, <1>2, <1>3, <1>4 DEF Untaken

LEMMA ResendSafe ==
    ASSUME IInv, NEW c \in Clients, NEW l \in Links, Resend(c, l)
    PROVE  IInv'
<1>0. PICK n : n = await[c]
    OBVIOUS
<1>1. /\ Lost(c) /\ n \notin resent /\ Open(c, l) /\ n # 0
      /\ up' = [up EXCEPT ![l] = <<n>>] /\ down' = [down EXCEPT ![l] = <<>>]
      /\ resent' = resent \cup {n}
      /\ UNCHANGED <<calls, await, conns, wbuf, io, batch, waiting, queue, running, responses,
                     inflight, got, runs, abandoned, cut, stops>>
    BY <1>0 DEF Resend, Lost
<1>2. Types /\ DeskInv /\ ClientEnds /\ ServerEnds
    BY DEF IInv, DeskInv
<1>3. DeskInv'
    BY <1>2, ResendDesk
<1>4. /\ n \notin Busy /\ n \in Calls /\ n \in Made /\ got[n] = NoAnswer /\ Made' = Made
      /\ CallsKept /\ n \notin abandoned
    BY <1>0, <1>1, <1>2, LostCall, AwaitFacts, SameCalls DEF ClientEnds
<1>5. /\ \A d \in Clients \ {c} : link[d] # l
      /\ link' = [link EXCEPT ![c] = l]
    BY <1>1, FreeForFacts
<1>6. /\ await[c] = n /\ link'[c] = l /\ l # NoLink
      /\ \A d \in Clients \ {c} : link'[d] = link[d] /\ await[d] # n
    <2>1. link \in [Clients -> Links \cup {NoLink}] /\ l # NoLink
        BY <1>2, FdFacts DEF Types, ClientTypes
    <2>. QED  BY <1>0, <1>1, <1>2, <1>5, <2>1 DEF ClientEnds
<1>7. NoAnswer.q = 0
    BY DEF NoAnswer
<1>8. Overtaken' = Overtaken /\ OwnAnswerUnlessAbandoned'
    BY <1>1, <1>4 DEF Overtaken, IInv, OwnAnswerUnlessAbandoned
<1>9. ClientEnds'
    <2>1. \A d, e \in Clients : link'[d] = link'[e] /\ link'[d] # NoLink => d = e
        BY <1>2, <1>5, <1>6 DEF ClientEnds
    <2>. QED  BY <1>1, <1>2, <1>4, <2>1 DEF ClientEnds
<1>10. ServerEnds' /\ Accepted' = Accepted
    BY <1>1, <1>2, OpenServerEnds
<1>11. RunsKept
    BY <1>1, <1>4, RunsKeptBy
<1>12. GoodKept(n)
    <2> SUFFICES ASSUME NEW q, NEW m, Good(q, m), q # n PROVE Good(q, m)'
        BY DEF GoodKept
    <2>1. \A d \in Clients : await'[d] = q => link'[d] = m
        BY <1>1, <1>6 DEF Good
    <2>. QED  BY <1>1, <1>4, <1>8, <2>1 DEF Good, Untaken
<1>13. Good(n, l)' /\ Unrepeated(n)'
    <2>1. Good(n, l)'
        <3>1. \A d \in Clients : await'[d] = n => link'[d] = l
            BY <1>1, <1>6
        <3>2. Untaken(n)
            BY <1>0, <1>1, <1>6, WaitedUntaken
        <3>. QED  BY <1>1, <1>4, <1>6, <3>1, <3>2 DEF Good, Untaken
    <2>2. link[c] \notin Accepted
        BY <1>1 DEF Lost, ServerEnd
    <2>3. Unrun(n)
        BY <1>1, <1>6, <2>2 DEF IInv, Counts, Unreached
    <2>4. runs[n] <= 1 /\ runs[n] \in Nat
        BY <1>1, <1>2, <1>4 DEF IInv, Counts, RunsBounded, Types, PoolTypes
    <2>5. runs[n] = 0 \/ runs[n] = 1
        BY <2>4
    <2>. QED  BY <1>1, <2>1, <2>3, <2>5 DEF Unrepeated, Unrun
<1>14. Once' /\ AllGood'
    <2>1. UpPuts(l, 1, n)
        BY <1>1, <1>2 DEF UpPuts, Types, WireTypes
    <2>2. FramesDropped
        BY <1>1, <1>2 DEF FramesDropped, Types, WireTypes
    <2>. QED  BY <1>1, <1>4, <1>11, <1>12, <1>13, <2>1, <2>2, ClientSteps
<1>15. Counts'
    <2>1. Unreached'
        <3> SUFFICES ASSUME NEW d \in Clients, await'[d] # 0, link'[d] \notin Accepted'
                     PROVE  Unrun(await[d])'
            BY DEF Unreached
        <3>1. link[d] \notin Accepted
            BY <1>1, <1>6, <1>10 DEF Lost, ServerEnd
        <3>. QED  BY <1>1, <3>1 DEF IInv, Counts, Unreached, Unrun
    <2>2. RunsBounded'
        BY <1>1, <1>4 DEF IInv, Counts, RunsBounded
    <2>3. RefusedKept'
        BY <1>1, <1>4 DEF IInv, Counts, RefusedKept, Unrun
    <2>. QED  BY <2>1, <2>2, <2>3 DEF Counts
<1>. QED  BY <1>3, <1>8, <1>9, <1>10, <1>14, <1>15 DEF IInv

\* What a client's step leaves to be shown when it writes no request.
LEMMA ClientQuiet ==
    ASSUME IInv, RunsKept, GoodKept(0), FramesDropped,
           UNCHANGED <<up, batch, waiting, queue, running, responses, wbuf, conns>>
    PROVE  Once' /\ AllGood'
<1>1. Types /\ Once /\ AllGood /\ DeskInv
    BY DEF IInv, DeskInv
<1>2. 0 \notin Busy /\ 0 \notin CallsIn(down) /\ {} \cap Busy = {}
    <2>1. 0 \notin Busy
        BY <1>1, BusyFacts, MadeFacts
    <2>. QED  BY <2>1 DEF Busy
<1>3. UpOnce' /\ UpCalls' = UpCalls
    BY <1>1 DEF Once, UpOnce, UpCalls
<1>4. UpGood'
    <2>1. ASSUME NEW l \in Links, NEW i \in DOMAIN up[l] PROVE up[l][i] # 0
        BY <1>1, WireFacts, MadeFacts
    <2>. QED  BY <1>1, <2>1 DEF AllGood, UpGood, GoodKept, RunsKept
<1>5. OnceIn(down') /\ DownGood' /\ CallsIn(down') \subseteq CallsIn(down)
    BY <1>1, <1>2, DownLess
<1>6. Once'
    <2>1. UpCalls' \subseteq UpCalls \cup {}
        BY <1>3
    <2>. QED  BY <1>1, <1>2, <1>3, <1>5, <2>1, OnceByClients
<1>7. BatchGood' /\ WaitingGood' /\ QueueGood' /\ RunningGood' /\ ResponsesGood' /\ WbufGood'
    BY <1>1, <1>2, GoodByClients
<1>. QED  BY <1>4, <1>5, <1>6, <1>7 DEF AllGood

LEMMA TimeoutSafe ==
    ASSUME IInv, NEW c \in Clients, Timeout(c) \/ Fail(c)
    PROVE  IInv'
<1>0. PICK n : n = await[c]
    OBVIOUS
<1>1. /\ n # 0 /\ await' = [await EXCEPT ![c] = 0] /\ abandoned' = abandoned \cup {n}
      /\ link' = link \/ link' = [link EXCEPT ![c] = NoLink]
      /\ UNCHANGED <<calls, resent, got, cut, backlog, conns, up, wbuf, down, io, stops,
                     batch, waiting, responses, queue, running, inflight, runs>>
    BY <1>0 DEF Timeout, Fail, Lost
<1>2. Types /\ DeskInv /\ ClientEnds /\ ServerEnds
    BY DEF IInv, DeskInv
<1>3. DeskInv'
    BY <1>2, TimeoutDesk
<1>4. Made' = Made /\ Overtaken' = Overtaken /\ 0 \notin Made /\ CallsKept
    <2>1. Made' = Made /\ CallsKept
        BY <1>1, SameCalls
    <2>. QED  BY <1>1, <1>2, <2>1, MadeFacts DEF Overtaken
<1>5. /\ await'[c] = 0 /\ link'[c] \in {link[c], NoLink} /\ await[c] = n
      /\ \A d \in Clients \ {c} : await'[d] = await[d] /\ link'[d] = link[d]
    <2>1. await \in [Clients -> Made \cup {0}] /\ link \in [Clients -> Links \cup {NoLink}]
        BY <1>2 DEF Types, ClientTypes
    <2>. QED  BY <1>0, <1>1, <2>1
<1>6. OwnAnswerUnlessAbandoned'
    BY <1>1, <1>4 DEF IInv, OwnAnswerUnlessAbandoned
<1>7. ClientEnds'
    BY <1>1, <1>2, <1>4, <1>5 DEF ClientEnds
<1>8. ServerEnds' /\ Accepted' = Accepted
    BY <1>1, <1>2, SameServerEnds
<1>9. RunsKept
    BY <1>1, <1>4, RunsKeptBy
<1>10. GoodKept(0)
    <2> SUFFICES ASSUME NEW q, NEW m, Good(q, m) PROVE Good(q, m)'
        BY DEF GoodKept
    <2>1. q \in Made' /\ Untaken(q)' /\ q # 0
        BY <1>1, <1>4 DEF Good, Untaken
    <2>2. q \in abandoned' \cup Overtaken' \/ \E d \in Clients : await'[d] = q
        <3>1. CASE q = n
            BY <1>1, <3>1
        <3>2. CASE q # n
            BY <1>1, <1>4, <1>5, <3>2 DEF Good
        <3>. QED  BY <3>1, <3>2
    <2>3. \A d \in Clients : await'[d] = q => link'[d] = m
        BY <1>5, <2>1 DEF Good
    <2>. QED  BY <2>1, <2>2, <2>3 DEF Good
<1>11. Once' /\ AllGood'
    <2>1. FramesDropped
        BY <1>1, <1>2 DEF FramesDropped, Types, WireTypes
    <2>. QED  BY <1>1, <1>9, <1>10, <2>1, ClientQuiet
<1>12. Counts'
    <2>1. Unreached'
        <3> SUFFICES ASSUME NEW d \in Clients, await'[d] # 0, link'[d] \notin Accepted'
                     PROVE  Unrun(await[d])'
            BY DEF Unreached
        <3>1. d # c
            BY <1>5
        <3>. QED  BY <1>1, <1>5, <1>8, <3>1 DEF IInv, Counts, Unreached, Unrun
    <2>2. RunsBounded'
        BY <1>1, <1>4 DEF IInv, Counts, RunsBounded
    <2>3. RefusedKept'
        BY <1>1, <1>4 DEF IInv, Counts, RefusedKept, Unrun
    <2>. QED  BY <2>1, <2>2, <2>3 DEF Counts
<1>. QED  BY <1>3, <1>6, <1>7, <1>8, <1>11, <1>12 DEF IInv

LEMMA LeaveSafe ==
    ASSUME IInv, NEW c \in Clients, Leave(c)
    PROVE  IInv'
<1>1. /\ await[c] = 0 /\ link' = [link EXCEPT ![c] = NoLink]
      /\ down' = [down EXCEPT ![link[c]] = <<>>]
      /\ UNCHANGED <<calls, await, resent, backlog, conns, up, wbuf, io, batch, waiting, queue,
                     running, responses, inflight, got, runs, abandoned, cut, stops>>
    BY DEF Leave
<1>2. Types /\ DeskInv /\ ClientEnds /\ ServerEnds
    BY DEF IInv, DeskInv
<1>3. DeskInv'
    BY <1>2, LeaveDesk
<1>4. Made' = Made /\ Overtaken' = Overtaken /\ 0 \notin Made /\ CallsKept
    <2>1. Made' = Made /\ CallsKept
        BY <1>1, SameCalls
    <2>. QED  BY <1>1, <1>2, <2>1, MadeFacts DEF Overtaken
<1>5. link'[c] = NoLink /\ \A d \in Clients \ {c} : link'[d] = link[d]
    <2>1. link \in [Clients -> Links \cup {NoLink}]
        BY <1>2 DEF Types, ClientTypes
    <2>. QED  BY <1>1, <2>1
<1>6. OwnAnswerUnlessAbandoned'
    BY <1>1, <1>4 DEF IInv, OwnAnswerUnlessAbandoned
<1>7. ClientEnds'
    BY <1>1, <1>2, <1>4, <1>5 DEF ClientEnds
<1>8. ServerEnds' /\ Accepted' = Accepted
    BY <1>1, <1>2, SameServerEnds
<1>9. RunsKept
    BY <1>1, <1>4, RunsKeptBy
<1>10. GoodKept(0)
    <2> SUFFICES ASSUME NEW q, NEW m, Good(q, m) PROVE Good(q, m)'
        BY DEF GoodKept
    <2>1. q # 0
        BY <1>4 DEF Good
    <2>2. \A d \in Clients : await'[d] = q => link'[d] = m
        BY <1>1, <1>5, <2>1 DEF Good
    <2>. QED  BY <1>1, <1>4, <2>2 DEF Good, Untaken
<1>11. Once' /\ AllGood'
    <2>1. FramesDropped
        BY <1>1, <1>2 DEF FramesDropped, Types, WireTypes
    <2>. QED  BY <1>1, <1>9, <1>10, <2>1, ClientQuiet
<1>12. Counts'
    <2>1. Unreached'
        <3> SUFFICES ASSUME NEW d \in Clients, await'[d] # 0, link'[d] \notin Accepted'
                     PROVE  Unrun(await[d])'
            BY DEF Unreached
        <3>. QED  BY <1>1, <1>5, <1>8 DEF IInv, Counts, Unreached, Unrun
    <2>2. RunsBounded'
        BY <1>1, <1>4 DEF IInv, Counts, RunsBounded
    <2>3. RefusedKept'
        BY <1>1, <1>4 DEF IInv, Counts, RefusedKept, Unrun
    <2>. QED  BY <2>1, <2>2, <2>3 DEF Counts
<1>. QED  BY <1>3, <1>6, <1>7, <1>8, <1>11, <1>12 DEF IInv

\* A client reads a frame: it is the answer to its call, or it is nobody's any more.
LEMMA ReceiveSafe ==
    ASSUME IInv, NEW c \in Clients, Receive(c)
    PROVE  IInv'
<1>0. PICK n : n = await[c]
    OBVIOUS
<1>00. PICK l : l = link[c]
    OBVIOUS
<1>000. PICK frame : frame = Head(down[l])
    OBVIOUS
<1>1. /\ n # 0 /\ down[l] # <<>> /\ down' = [down EXCEPT ![l] = Tail(@)]
      /\ \/ UNCHANGED <<got, await>>
         \/ got' = [got EXCEPT ![n] = frame] /\ await' = [await EXCEPT ![c] = 0]
      /\ UNCHANGED <<calls, link, resent, backlog, conns, up, wbuf, io, batch, waiting, queue,
                     running, responses, inflight, runs, abandoned, cut, stops>>
    BY <1>0, <1>00, <1>000 DEF Receive
<1>2. Types /\ DeskInv /\ ClientEnds /\ ServerEnds /\ Once /\ AllGood
    BY DEF IInv, DeskInv
<1>3. DeskInv'
    BY <1>2, ReceiveDesk
<1>4. l \in Links /\ n \in Made /\ n \in Calls /\ got[n] = NoAnswer /\ 0 \notin Made /\ Made \subseteq Calls
    BY <1>0, <1>00, <1>1, <1>2, AwaitFacts, MadeFacts DEF ClientEnds
<1>5. PICK x : x = frame.q
    OBVIOUS
<1>6. /\ OnceIn(down') /\ CallsIn(down') \subseteq CallsIn(down) \ {x}
      /\ frame = down[l][1] /\ 1 \in DOMAIN down[l]
      /\ \A m \in Links : \A i \in DOMAIN down'[m] : \E j \in DOMAIN down[m] : down'[m][i] = down[m][j]
    <2>1. down \in [Links -> Seq(Frames)]
        BY <1>2 DEF Types, WireTypes
    <2>2. OnceIn(down)
        BY <1>2 DEF Once
    <2>3. Shortened(down, down', l)
        BY <1>1, <1>4, <2>1, <2>2, FamilyTail
    <2>. QED  BY <1>000, <1>5, <2>1, <2>3 DEF Shortened
<1>7. /\ x \in Calls /\ x \in CallsIn(down) /\ frame \in Frames
      /\ Good(x, l) /\ Tells(frame)
    <2>1. frame \in Frames /\ x \in Calls /\ DOMAIN down = Links
        BY <1>2, <1>4, <1>5, <1>6, WireFacts
    <2>2. x \in CallsIn(down)
        BY <1>4, <1>5, <1>6, <2>1, CallsInMember
    <2>3. Good(x, l) /\ Tells(frame)
        BY <1>2, <1>4, <1>5, <1>6 DEF AllGood, DownGood
    <2>. QED  BY <2>1, <2>2, <2>3
<1>8. x \in Made /\ x # 0 /\ (x = n \/ x \in abandoned \cup Overtaken)
    BY <1>0, <1>00, <1>2, <1>4, <1>7, FdFacts DEF Good, ClientEnds
<1>9. NoAnswer.q = 0 /\ NoAnswer.ans # "refused"
    BY DEF NoAnswer
<1>10. /\ Made' = Made /\ CallsKept /\ await[c] = n
       /\ \A d \in Clients : await'[d] # 0 => await'[d] = await[d]
       /\ \A d \in Clients \ {c} : await'[d] = await[d]
       /\ \A q \in Calls \ {n} : got'[q] = got[q]
       /\ \/ UNCHANGED <<got, await>>
          \/ got'[n] = frame /\ await'[c] = 0
    <2>1. await \in [Clients -> Made \cup {0}] /\ got \in [Calls -> Frames \cup {NoAnswer}]
        BY <1>2 DEF Types, ClientTypes
    <2>2. Made' = Made /\ CallsKept
        BY <1>1, SameCalls
    <2>. QED  BY <1>0, <1>1, <1>4, <2>1, <2>2
<1>11. /\ Overtaken \subseteq Overtaken' /\ Overtaken' \subseteq Overtaken \cup {n}
       /\ got'[n] = frame => (n \in Overtaken' <=> x # n)
       /\ got' = got => Overtaken' = Overtaken
       /\ n \notin Overtaken
    BY <1>4, <1>5, <1>8, <1>9, <1>10 DEF Overtaken
<1>12. OwnAnswerUnlessAbandoned'
    <2>1. \A q \in Made' : got'[q].q \in {0, q} \cup abandoned' \cup Overtaken'
        <3> SUFFICES ASSUME NEW q \in Made PROVE got'[q].q \in {0, q} \cup abandoned \cup Overtaken'
            BY <1>1, <1>10
        <3>1. CASE got'[q] = got[q]
            BY <1>11, <3>1 DEF IInv, OwnAnswerUnlessAbandoned
        <3>2. CASE q = n /\ got'[n] = frame
            BY <1>5, <1>8, <1>11, <3>2
        <3>. QED  BY <1>10, <1>4, <3>1, <3>2
    <2>2. Overtaken' # {} => abandoned # {}
        BY <1>8, <1>10, <1>11 DEF IInv, OwnAnswerUnlessAbandoned
    <2>. QED  BY <1>1, <2>1, <2>2 DEF OwnAnswerUnlessAbandoned
<1>13. ClientEnds'
    <2>1. \A d \in Clients : await'[d] # 0 => got'[await'[d]] = NoAnswer
        <3> SUFFICES ASSUME NEW d \in Clients, await'[d] # 0 PROVE got'[await'[d]] = NoAnswer
            OBVIOUS
        <3>1. CASE UNCHANGED <<got, await>>
            BY <1>2, <3>1 DEF ClientEnds
        <3>2. CASE got'[n] = frame /\ await'[c] = 0
            <4>1. d # c /\ await'[d] = await[d] /\ await[d] # n /\ await[d] \in Calls
                BY <1>2, <1>10, <3>2, AwaitFacts, MadeFacts DEF ClientEnds
            <4>. QED  BY <1>2, <1>10, <4>1 DEF ClientEnds
        <3>. QED  BY <1>10, <3>1, <3>2
    <2>2. \A d, e \in Clients : await'[d] = await'[e] /\ await'[d] # 0 => d = e
        BY <1>2, <1>10 DEF ClientEnds
    <2>3. \A q \in Calls \ Made' : got'[q] = NoAnswer
        BY <1>2, <1>4, <1>10 DEF ClientEnds
    <2>4. \A d \in Clients : await'[d] # 0 => await'[d] \notin abandoned'
        BY <1>1, <1>2, <1>10 DEF ClientEnds
    <2>. QED  BY <1>1, <1>2, <2>1, <2>2, <2>3, <2>4 DEF ClientEnds
<1>14. ServerEnds' /\ Accepted' = Accepted
    BY <1>1, <1>2, SameServerEnds
<1>15. RunsKept
    BY <1>1, <1>10, RunsKeptBy
<1>16. GoodKept(x)
    <2> SUFFICES ASSUME NEW q, NEW m, Good(q, m), q # x PROVE Good(q, m)'
        BY DEF GoodKept
    <2>1. q \in Made' /\ q # 0 /\ q \in Calls
        BY <1>4, <1>10 DEF Good
    <2>2. Untaken(q)'
        BY <1>5, <1>10, <2>1 DEF Good, Untaken
    <2>3. q \in abandoned' \cup Overtaken' \/ \E d \in Clients : await'[d] = q
        <3>1. CASE q = n
            BY <1>1, <1>10, <1>11, <2>1, <3>1 DEF Good
        <3>2. CASE q # n
            BY <1>1, <1>10, <1>11, <3>2 DEF Good
        <3>. QED  BY <3>1, <3>2
    <2>4. \A d \in Clients : await'[d] = q => link'[d] = m
        BY <1>1, <1>10, <2>1 DEF Good
    <2>. QED  BY <2>1, <2>2, <2>3, <2>4 DEF Good
<1>17. UpOnce' /\ UpCalls' \subseteq UpCalls \cup {} /\ {} \cap Busy = {}
    BY <1>1, <1>2 DEF Once, UpOnce, UpCalls
<1>18. Once'
    BY <1>1, <1>2, <1>6, <1>17, OnceByClients
<1>19. AllGood'
    <2>1. BatchGood' /\ WaitingGood' /\ QueueGood' /\ RunningGood' /\ ResponsesGood' /\ WbufGood'
        BY <1>1, <1>2, <1>7, <1>15, <1>16, GoodByClients
    <2>2. UpGood'
        <3>1. x \notin UpCalls
            BY <1>2, <1>7 DEF Once, StagesApart, Apart
        <3>2. ASSUME NEW m \in Links, NEW i \in DOMAIN up[m] PROVE up[m][i] # x
            <4>1. up[m][i] \in Calls
                BY <1>2, <3>2, WireFacts, MadeFacts
            <4>. QED  BY <3>1, <4>1 DEF UpCalls
        <3>. QED  BY <1>1, <1>2, <1>15, <1>16, <3>2 DEF AllGood, UpGood, GoodKept, RunsKept
    <2>3. DownGood'
        <3>1. ASSUME NEW m \in Links, NEW i \in DOMAIN down'[m]
              PROVE  Good(down[m][i].q, m)' /\ Tells(down[m][i])'
            <4>1. PICK j \in DOMAIN down[m] : down'[m][i] = down[m][j]
                BY <1>6, <3>1
            <4>2. PICK z : z = down'[m][i]
                OBVIOUS
            <4>3. z = down[m][j] /\ z.q \in Calls
                BY <1>2, <4>1, <4>2, WireFacts
            <4>4. z.q \in CallsIn(down')
                <5>1. DOMAIN down' = Links
                    BY <1>1, <1>2 DEF Types, WireTypes
                <5>. QED  BY <3>1, <4>2, <4>3, <5>1, CallsInMember
            <4>5. z.q # x
                BY <1>6, <4>4
            <4>6. Good(z.q, m) /\ Tells(z)
                BY <1>2, <4>3 DEF AllGood, DownGood
            <4>7. Good(z.q, m)' /\ Tells(z)'
                BY <1>15, <1>16, <4>5, <4>6 DEF GoodKept, RunsKept
            <4>. QED  BY <4>2, <4>7
        <3>. QED  BY <3>1 DEF DownGood
    <2>. QED  BY <2>1, <2>2, <2>3 DEF AllGood
<1>20. Counts'
    <2>1. Unreached'
        <3> SUFFICES ASSUME NEW d \in Clients, await'[d] # 0, link'[d] \notin Accepted'
                     PROVE  Unrun(await[d])'
            BY DEF Unreached
        <3>. QED  BY <1>1, <1>10, <1>14 DEF IInv, Counts, Unreached, Unrun
    <2>2. RunsBounded'
        BY <1>1, <1>10 DEF IInv, Counts, RunsBounded
    <2>3. RefusedKept'
        <3> SUFFICES ASSUME NEW q \in Made, got'[q].q = q, got'[q].ans = "refused" PROVE Unrun(q)'
            BY <1>10 DEF RefusedKept
        <3>1. CASE got'[q] = got[q]
            BY <1>15, <3>1 DEF IInv, Counts, RefusedKept, RunsKept
        <3>2. CASE q = n /\ got'[n] = frame
            BY <1>5, <1>7, <1>15, <3>2 DEF Tells, RunsKept
        <3>. QED  BY <1>10, <1>4, <3>1, <3>2
    <2>. QED  BY <2>1, <2>2, <2>3 DEF Counts
<1>. QED  BY <1>3, <1>12, <1>13, <1>14, <1>18, <1>19, <1>20 DEF IInv

-------------------------------------------------------------------------------
(* Steps of the server: what they leave alone.                             *)

\* Handlers, clients and connections are as they were.
Quiet == UNCHANGED clientVars /\ UNCHANGED <<runs, cut, conns>>

LEMMA QuietRuns ==
    ASSUME Quiet
    PROVE  /\ \A q : (Unrepeated(q)' <=> Unrepeated(q)) /\ (Unrun(q)' <=> Unrun(q))
           /\ \A x : Tells(x)' <=> Tells(x)
           /\ \A q, l : Good(q, l)' <=> Good(q, l)
           /\ Made' = Made /\ Overtaken' = Overtaken /\ conns' = conns
<1>1. UNCHANGED clientVars /\ UNCHANGED <<runs, cut, conns>>
    BY DEF Quiet
<1>2. \A q : (Unrepeated(q)' <=> Unrepeated(q)) /\ (Unrun(q)' <=> Unrun(q))
    BY <1>1 DEF clientVars, Unrepeated, Unrun
<1>3. \A x : Tells(x)' <=> Tells(x)
    BY <1>1, SameGood DEF clientVars, Tells, Unrun
<1>. QED  BY <1>1, <1>2, <1>3, SameGood

LEMMA UpKept ==
    ASSUME IInv, Quiet, up' = up
    PROVE  UpOnce' /\ UpGood' /\ UpCalls' = UpCalls
<1>1. UpOnce /\ UpGood
    BY DEF IInv, Once, AllGood
<1>. QED  BY <1>1, QuietRuns DEF UpOnce, UpGood, UpCalls

LEMMA BatchKept ==
    ASSUME IInv, Quiet, batch' = batch
    PROVE  BatchOnce' /\ BatchGood' /\ BatchCalls' = BatchCalls
<1>1. BatchOnce /\ BatchGood
    BY DEF IInv, Once, AllGood
<1>. QED  BY <1>1, QuietRuns DEF BatchOnce, BatchGood, BatchCalls

LEMMA WaitingKept ==
    ASSUME IInv, Quiet, waiting' = waiting
    PROVE  WaitingOnce' /\ WaitingGood' /\ WaitingCalls' = WaitingCalls
<1>1. WaitingOnce /\ WaitingGood
    BY DEF IInv, Once, AllGood
<1>. QED  BY <1>1, QuietRuns DEF WaitingOnce, WaitingGood, WaitingCalls

LEMMA QueueKept ==
    ASSUME IInv, Quiet, queue' = queue
    PROVE  OnceIn(queue') /\ QueueGood' /\ CallsIn(queue') = CallsIn(queue)
<1>1. OnceIn(queue) /\ QueueGood
    BY DEF IInv, Once, AllGood
<1>. QED  BY <1>1, QuietRuns DEF QueueGood

LEMMA RunningKept ==
    ASSUME IInv, Quiet, running' = running
    PROVE  RunningOnce' /\ RunningGood' /\ RunningCalls' = RunningCalls
<1>1. RunningOnce /\ RunningGood
    BY DEF IInv, Once, AllGood
<1>. QED  BY <1>1, QuietRuns DEF RunningOnce, RunningGood, RunningCalls

LEMMA ResponsesKept ==
    ASSUME IInv, Quiet, responses' = responses
    PROVE  ResponsesOnce' /\ ResponsesGood' /\ ResponseCalls' = ResponseCalls
<1>1. ResponsesOnce /\ ResponsesGood
    BY DEF IInv, Once, AllGood
<1>. QED  BY <1>1, QuietRuns DEF ResponsesOnce, ResponsesGood, ResponseCalls

LEMMA WbufKept ==
    ASSUME IInv, Quiet, wbuf' = wbuf
    PROVE  OnceIn(wbuf') /\ WbufGood' /\ CallsIn(wbuf') = CallsIn(wbuf)
<1>1. OnceIn(wbuf) /\ WbufGood
    BY DEF IInv, Once, AllGood
<1>. QED  BY <1>1, QuietRuns DEF WbufGood

LEMMA DownKept ==
    ASSUME IInv, Quiet, down' = down
    PROVE  OnceIn(down') /\ DownGood' /\ CallsIn(down') = CallsIn(down)
<1>1. OnceIn(down) /\ DownGood
    BY DEF IInv, Once, AllGood
<1>. QED  BY <1>1, QuietRuns DEF DownGood

\* Nothing else has to be shown of a quiet step.
LEMMA QuietSafe ==
    ASSUME IInv, Quiet, DeskInv', ServerEnds', Once', AllGood'
    PROVE  IInv'
<1>1. UNCHANGED clientVars /\ UNCHANGED <<runs, cut, conns>>
    BY DEF Quiet
<1>2. ClientEnds'
    BY <1>1, QuietRuns DEF IInv, ClientEnds, clientVars
<1>3. OwnAnswerUnlessAbandoned'
    BY <1>1, QuietRuns DEF IInv, OwnAnswerUnlessAbandoned, clientVars
<1>4. Counts'
    <2>1. Accepted' = Accepted
        BY <1>1 DEF Accepted
    <2>2. Unreached'
        BY <1>1, <2>1, QuietRuns DEF IInv, Counts, Unreached, clientVars
    <2>3. RunsBounded'
        BY <1>1, QuietRuns DEF IInv, Counts, RunsBounded, clientVars
    <2>4. RefusedKept'
        BY <1>1, QuietRuns DEF IInv, Counts, RefusedKept, clientVars
    <2>. QED  BY <2>2, <2>3, <2>4 DEF Counts
<1>. QED  BY <1>2, <1>3, <1>4 DEF IInv

LEMMA QuietEnds ==
    ASSUME ServerEnds, UNCHANGED <<conns, backlog, up>>,
           \A l \in Links : wbuf'[l] # <<>> => wbuf[l] # <<>> \/ l \in Accepted,
           io' # "dispatch" => batch' = {}
    PROVE  ServerEnds'
<1>1. Accepted' = Accepted /\ Queued' = Queued
    BY DEF Accepted, Queued
<1>. QED  BY <1>1 DEF ServerEnds, ServerEnd

-------------------------------------------------------------------------------
(* A call moves from one stage to the next.                                *)

LEMMA BatchTaken ==
    ASSUME IInv, Quiet, NEW r \in batch, batch' = batch \ {r}
    PROVE  /\ BatchOnce' /\ BatchGood' /\ BatchCalls' \subseteq BatchCalls \ {r.q}
           /\ r.q \in BatchCalls /\ r.q \in Calls /\ r.q \in Made /\ r.fd \in Fds
           /\ Good(r.q, conns[r.fd]) /\ Unrepeated(r.q)
<1>1. BatchOnce /\ BatchGood /\ Types
    BY DEF IInv, DeskInv, Once, AllGood
<1>2. \A x \in batch : x.q \in Calls /\ x.q \in Made /\ x.fd \in Fds
    BY <1>1, RequestFacts, MadeFacts
<1>. QED  BY <1>1, <1>2, QuietRuns DEF BatchOnce, BatchGood, BatchCalls

LEMMA AnswerBuffered ==
    ASSUME IInv, Quiet, NEW fd \in Fds, NEW frame \in Frames, wbuf' = Buffered(wbuf, fd, frame),
           frame.q \notin CallsIn(wbuf), Good(frame.q, conns[fd]), Tells(frame)
    PROVE  /\ OnceIn(wbuf') /\ WbufGood' /\ CallsIn(wbuf') \subseteq CallsIn(wbuf) \cup {frame.q}
           /\ \A l \in Links : wbuf'[l] # <<>> => wbuf[l] # <<>> \/ l \in Accepted
<1>1. OnceIn(wbuf) /\ WbufGood /\ Types /\ wbuf \in [Links -> Seq(Frames)]
    BY DEF IInv, DeskInv, Once, AllGood, Types, WireTypes
<1>2. CASE conns[fd] = NoLink
    <2>1. wbuf' = wbuf
        BY <1>2 DEF Buffered, Receiver
    <2>. QED  BY <2>1, WbufKept
<1>3. CASE conns[fd] # NoLink
    <2>0. PICK l : l = conns[fd]
        OBVIOUS
    <2>1. l \in Links /\ l \in Accepted /\ wbuf' = [wbuf EXCEPT ![l] = Append(@, frame)]
        BY <1>1, <1>3, <2>0 DEF Buffered, Receiver, Types, WireTypes, Accepted
    <2>2. frame.q \in Calls
        BY DEF Frames
    <2>3. Lengthened(wbuf, wbuf', l, frame)
        BY <1>1, <2>1, <2>2, FamilyAppend
    <2>4. \A m \in Links : \A i \in DOMAIN wbuf'[m] :
             (i \in DOMAIN wbuf[m] /\ wbuf'[m][i] = wbuf[m][i]) \/ (m = l /\ wbuf'[m][i] = frame)
        BY <1>1, <2>3 DEF Lengthened
    <2>5. WbufGood'
        BY <1>1, <2>0, <2>4, QuietRuns DEF WbufGood
    <2>6. \A m \in Links : wbuf'[m] # <<>> => wbuf[m] # <<>> \/ m \in Accepted
        BY <1>1, <2>1
    <2>. QED  BY <2>3, <2>5, <2>6 DEF Lengthened
<1>. QED  BY <1>2, <1>3

LEMMA RequestSubmitted ==
    ASSUME IInv, Quiet, NEW p \in Pools, NEW r \in MadeRequests, Submit(p, r),
           r.q \notin CallsIn(queue), Good(r.q, conns[r.fd]), Unrepeated(r.q)
    PROVE  OnceIn(queue') /\ QueueGood' /\ CallsIn(queue') \subseteq CallsIn(queue) \cup {r.q}
<1>1. OnceIn(queue) /\ QueueGood /\ Types /\ queue \in [Pools -> Seq(MadeRequests)]
    BY DEF IInv, DeskInv, Once, AllGood, Types, PoolTypes
<1>2. r.q \in Calls /\ queue' = [queue EXCEPT ![p] = Append(@, r)]
    BY <1>1, MadeFacts DEF Submit, MadeRequests
<1>3. Lengthened(queue, queue', p, r)
    BY <1>1, <1>2, FamilyAppend
<1>4. \A o \in Pools : \A i \in DOMAIN queue'[o] :
         (i \in DOMAIN queue[o] /\ queue'[o][i] = queue[o][i]) \/ (o = p /\ queue'[o][i] = r)
    BY <1>1, <1>3 DEF Lengthened
<1>5. QueueGood'
    BY <1>1, <1>4, QuietRuns DEF QueueGood
<1>. QED  BY <1>3, <1>5 DEF Lengthened

\* Items appended to a sequence, and its items without the first.
LEMMA AppendItems ==
    ASSUME NEW S, NEW s \in Seq(S), NEW e \in S
    PROVE  /\ DOMAIN Append(s, e) = DOMAIN s \cup {Len(s) + 1} /\ Len(s) + 1 \notin DOMAIN s
           /\ Append(s, e)[Len(s) + 1] = e
           /\ \A i \in DOMAIN s : Append(s, e)[i] = s[i]
<1>1. /\ Len(Append(s, e)) = Len(s) + 1 /\ Append(s, e) \in Seq(S) /\ Append(s, e)[Len(s) + 1] = e
      /\ \A i \in 1 .. Len(s) : Append(s, e)[i] = s[i]
    BY AppendProperties
<1>2. Len(s) \in Nat /\ DOMAIN s = 1 .. Len(s) /\ DOMAIN Append(s, e) = 1 .. Len(Append(s, e))
    BY <1>1, LenProperties
<1>. QED  BY <1>1, <1>2

LEMMA TailItems ==
    ASSUME NEW S, NEW s \in Seq(S), s # <<>>
    PROVE  /\ Head(s) = s[1] /\ 1 \in DOMAIN s
           /\ \A i \in DOMAIN Tail(s) : i \in Nat /\ i + 1 # 1 /\ i + 1 \in DOMAIN s /\ Tail(s)[i] = s[i + 1]
OBVIOUS

LEMMA WriteWaits ==
    ASSUME IInv, Quiet, NEW r \in MadeRequests, waiting' = Append(waiting, r),
           r.q \notin WaitingCalls, Good(r.q, conns[r.fd]), Unrepeated(r.q)
    PROVE  WaitingOnce' /\ WaitingGood' /\ WaitingCalls' \subseteq WaitingCalls \cup {r.q}
<1>1. WaitingOnce /\ WaitingGood /\ Types /\ waiting \in Seq(MadeRequests)
    BY DEF IInv, DeskInv, Once, AllGood, Types, DeskTypes
<1>2. PICK n : n = Len(waiting) + 1
    OBVIOUS
<1>3. /\ DOMAIN waiting' = DOMAIN waiting \cup {n} /\ n \notin DOMAIN waiting /\ waiting'[n] = r
      /\ \A i \in DOMAIN waiting : waiting'[i] = waiting[i]
    BY <1>1, <1>2, AppendItems
<1>4. \A i \in DOMAIN waiting : waiting[i].q # r.q
    <2>1. r.q \in Calls
        BY <1>1, MadeFacts DEF MadeRequests
    <2>. QED  BY <2>1 DEF WaitingCalls
<1>5. WaitingOnce'
    BY <1>1, <1>3, <1>4 DEF WaitingOnce
<1>6. WaitingGood'
    BY <1>1, <1>3, QuietRuns DEF WaitingGood
<1>7. WaitingCalls' \subseteq WaitingCalls \cup {r.q}
    BY <1>3 DEF WaitingCalls
<1>. QED  BY <1>5, <1>6, <1>7

LEMMA WriteLeaves ==
    ASSUME IInv, Quiet, waiting # <<>>, waiting' = Tail(waiting)
    PROVE  /\ WaitingOnce' /\ WaitingGood' /\ WaitingCalls' \subseteq WaitingCalls \ {Head(waiting).q}
           /\ Head(waiting) \in MadeRequests /\ Head(waiting).q \in WaitingCalls
           /\ Head(waiting).q \in Calls /\ Head(waiting).fd \in Fds
           /\ Good(Head(waiting).q, conns[Head(waiting).fd]) /\ Unrepeated(Head(waiting).q)
<1>1. WaitingOnce /\ WaitingGood /\ Types /\ waiting \in Seq(MadeRequests)
    BY DEF IInv, DeskInv, Once, AllGood, Types, DeskTypes
<1>2. PICK r : r = Head(waiting)
    OBVIOUS
<1>3. /\ r = waiting[1] /\ 1 \in DOMAIN waiting
      /\ \A i \in DOMAIN waiting' : i \in Nat /\ i + 1 # 1 /\ i + 1 \in DOMAIN waiting /\ waiting'[i] = waiting[i + 1]
    BY <1>1, <1>2, TailItems
<1>4. r \in MadeRequests /\ r.q \in Calls /\ r.fd \in Fds
    <2>1. r \in MadeRequests
        BY <1>1, <1>3, ElementOfSeq, LenProperties
    <2>. QED  BY <1>1, <2>1, MadeFacts DEF MadeRequests
<1>5. WaitingOnce'
    <2> SUFFICES ASSUME NEW i \in DOMAIN waiting', NEW j \in DOMAIN waiting', waiting'[i].q = waiting'[j].q
                 PROVE  i = j
        BY DEF WaitingOnce
    <2>1. i + 1 = j + 1 /\ i \in Nat /\ j \in Nat
        BY <1>1, <1>3 DEF WaitingOnce
    <2>. QED  BY <2>1
<1>6. WaitingGood'
    BY <1>1, <1>3, QuietRuns DEF WaitingGood
<1>7. WaitingCalls' \subseteq WaitingCalls \ {r.q}
    BY <1>1, <1>3 DEF WaitingCalls, WaitingOnce
<1>8. r.q \in WaitingCalls /\ Good(r.q, conns[r.fd]) /\ Unrepeated(r.q)
    BY <1>1, <1>3, <1>4 DEF WaitingCalls, WaitingGood
<1>. QED  BY <1>2, <1>4, <1>5, <1>6, <1>7, <1>8

-------------------------------------------------------------------------------
(* Steps of the main loop.                                                 *)

\* A call of the batch is in no other place.
LEMMA BatchCallApart ==
    ASSUME IInv, NEW q \in BatchCalls
    PROVE  q \notin CallsIn(wbuf) /\ q \notin CallsIn(queue) /\ q \notin WaitingCalls
BY DEF IInv, Once, StagesApart, Apart

LEMMA DispatchSafe ==
    ASSUME IInv, NEW r \in batch, Dispatch(r)
    PROVE  IInv'
<1>0. PICK e : e = r.q
    OBVIOUS
<1>1. /\ Quiet /\ batch' = batch \ {r} /\ io = "dispatch"
      /\ UNCHANGED <<backlog, conns, up, down, io, running, responses>>
    BY DEF Dispatch, Quiet
<1>2. DeskInv /\ ServerEnds /\ Types
    BY DEF IInv, DeskInv
<1>3. DeskInv'
    BY <1>2, DispatchDesk
<1>4. /\ BatchOnce' /\ BatchGood' /\ BatchCalls' \subseteq BatchCalls \ {e}
      /\ e \in BatchCalls /\ Good(e, conns[r.fd]) /\ Unrepeated(e)
    BY <1>0, <1>1, BatchTaken
<1>5. e \notin CallsIn(wbuf) /\ e \notin CallsIn(queue) /\ e \notin WaitingCalls
    BY <1>4, BatchCallApart
<1>6. r \in MadeRequests /\ r.fd \in Fds /\ PoolOf(calls[r.q]) \in Pools
      /\ \A a \in {"result", "refused"} : [q |-> e, ans |-> a] \in Frames
    BY <1>0, <1>2, DispatchFacts
<1>7. /\ UpOnce' /\ UpGood' /\ UpCalls' = UpCalls
      /\ RunningOnce' /\ RunningGood' /\ RunningCalls' = RunningCalls
      /\ ResponsesOnce' /\ ResponsesGood' /\ ResponseCalls' = ResponseCalls
      /\ OnceIn(down') /\ DownGood' /\ CallsIn(down') = CallsIn(down)
    BY <1>1, UpKept, RunningKept, ResponsesKept, DownKept
<1>8. /\ OnceIn(wbuf') /\ WbufGood' /\ OnceIn(queue') /\ QueueGood' /\ WaitingOnce' /\ WaitingGood'
      /\ \/ /\ CallsIn(wbuf') \subseteq CallsIn(wbuf) \cup {e}
            /\ CallsIn(queue') = CallsIn(queue) /\ WaitingCalls' = WaitingCalls
         \/ /\ CallsIn(queue') \subseteq CallsIn(queue) \cup {e}
            /\ CallsIn(wbuf') = CallsIn(wbuf) /\ WaitingCalls' = WaitingCalls
         \/ /\ WaitingCalls' \subseteq WaitingCalls \cup {e}
            /\ CallsIn(wbuf') = CallsIn(wbuf) /\ CallsIn(queue') = CallsIn(queue)
      /\ \A l \in Links : wbuf'[l] # <<>> => wbuf[l] # <<>> \/ l \in Accepted
    <2>1. CASE \E a \in {"result", "refused"} :
                  /\ wbuf' = Buffered(wbuf, r.fd, [q |-> e, ans |-> a]) /\ UNCHANGED <<queue, waiting>>
                  /\ a = "result" => calls[e] = "health"
        <3>1. PICK a \in {"result", "refused"} :
                  /\ wbuf' = Buffered(wbuf, r.fd, [q |-> e, ans |-> a]) /\ UNCHANGED <<queue, waiting>>
                  /\ a = "result" => calls[e] = "health"
            BY <2>1
        <3>2. PICK frame \in Frames : frame = [q |-> e, ans |-> a]
            BY <1>6
        <3>3. frame.q = e /\ wbuf' = Buffered(wbuf, r.fd, frame)
            BY <3>1, <3>2
        <3>4. Tells(frame)
            BY <1>4, <3>1, <3>2 DEF Tells, Good, Unrepeated, Unrun
        <3>5. /\ OnceIn(wbuf') /\ WbufGood' /\ CallsIn(wbuf') \subseteq CallsIn(wbuf) \cup {e}
              /\ \A l \in Links : wbuf'[l] # <<>> => wbuf[l] # <<>> \/ l \in Accepted
            BY <1>1, <1>4, <1>5, <1>6, <3>3, <3>4, AnswerBuffered
        <3>. QED  BY <1>1, <3>1, <3>5, QueueKept, WaitingKept
    <2>2. CASE Submit(PoolOf(calls[r.q]), r) /\ UNCHANGED <<wbuf, waiting>>
        <3>1. OnceIn(queue') /\ QueueGood' /\ CallsIn(queue') \subseteq CallsIn(queue) \cup {e}
            BY <1>0, <1>1, <1>4, <1>5, <1>6, <2>2, RequestSubmitted
        <3>. QED  BY <1>1, <2>2, <3>1, WbufKept, WaitingKept
    <2>3. CASE waiting' = Append(waiting, r) /\ UNCHANGED <<wbuf, queue>>
        <3>1. WaitingOnce' /\ WaitingGood' /\ WaitingCalls' \subseteq WaitingCalls \cup {e}
            BY <1>0, <1>1, <1>4, <1>5, <1>6, <2>3, WriteWaits
        <3>. QED  BY <1>1, <2>3, <3>1, WbufKept, QueueKept
    <2>4. \/ /\ wbuf' = Buffered(wbuf, r.fd, [q |-> e, ans |-> "result"]) /\ UNCHANGED <<queue, waiting>>
             /\ calls[e] = "health"
          \/ wbuf' = Buffered(wbuf, r.fd, [q |-> e, ans |-> "refused"]) /\ UNCHANGED <<queue, waiting>>
          \/ Submit(PoolOf(calls[r.q]), r) /\ UNCHANGED <<wbuf, waiting>>
          \/ waiting' = Append(waiting, r) /\ UNCHANGED <<wbuf, queue>>
        BY <1>0 DEF Dispatch, Refuse
    <2>. QED  BY <2>1, <2>2, <2>3, <2>4
<1>9. Apart(UpCalls', BatchCalls', WaitingCalls', CallsIn(queue'), RunningCalls', ResponseCalls',
            CallsIn(wbuf'), CallsIn(down'))
    <2>1. StagesApart
        BY DEF IInv, Once
    <2>. QED  BY <1>4, <1>7, <1>8, <2>1 DEF StagesApart, Apart
<1>10. Once' /\ AllGood'
    BY <1>4, <1>7, <1>8, <1>9 DEF Once, StagesApart, AllGood
<1>11. ServerEnds'
    BY <1>1, <1>2, <1>8, QuietEnds
<1>. QED  BY <1>1, <1>3, <1>10, <1>11, QuietSafe

\* The oldest write leaves the waiting room for the pool or is refused.
LEMMA AdmitSafe ==
    ASSUME IInv, Admit
    PROVE  IInv'
<1>0. PICK r : r = Head(waiting)
    OBVIOUS
<1>1. /\ Quiet /\ waiting # <<>> /\ waiting' = Tail(waiting) /\ Submit("write", r)
      /\ UNCHANGED <<backlog, conns, up, wbuf, down, io, batch, running, responses>>
    BY <1>0 DEF Admit, Quiet
<1>2. DeskInv /\ ServerEnds /\ "write" \in Pools
    BY DEF IInv, Pools
<1>3. DeskInv'
    BY <1>2, AdmitDesk
<1>4. /\ WaitingOnce' /\ WaitingGood' /\ WaitingCalls' \subseteq WaitingCalls \ {r.q}
      /\ r \in MadeRequests /\ r.q \in WaitingCalls
      /\ Good(r.q, conns[r.fd]) /\ Unrepeated(r.q)
    BY <1>0, <1>1, WriteLeaves
<1>5. r.q \notin CallsIn(queue) /\ StagesApart
    BY <1>4 DEF IInv, Once, StagesApart, Apart
<1>6. OnceIn(queue') /\ QueueGood' /\ CallsIn(queue') \subseteq CallsIn(queue) \cup {r.q}
    BY <1>1, <1>2, <1>4, <1>5, RequestSubmitted
<1>7. /\ UpOnce' /\ UpGood' /\ UpCalls' = UpCalls
      /\ BatchOnce' /\ BatchGood' /\ BatchCalls' = BatchCalls
      /\ RunningOnce' /\ RunningGood' /\ RunningCalls' = RunningCalls
      /\ ResponsesOnce' /\ ResponsesGood' /\ ResponseCalls' = ResponseCalls
      /\ OnceIn(wbuf') /\ WbufGood' /\ CallsIn(wbuf') = CallsIn(wbuf)
      /\ OnceIn(down') /\ DownGood' /\ CallsIn(down') = CallsIn(down)
    BY <1>1, UpKept, BatchKept, RunningKept, ResponsesKept, WbufKept, DownKept
<1>8. Apart(UpCalls', BatchCalls', WaitingCalls', CallsIn(queue'), RunningCalls', ResponseCalls',
            CallsIn(wbuf'), CallsIn(down'))
    BY <1>4, <1>5, <1>6, <1>7 DEF StagesApart, Apart
<1>9. Once' /\ AllGood'
    BY <1>4, <1>6, <1>7, <1>8 DEF Once, StagesApart, AllGood
<1>10. ServerEnds'
    BY <1>1, <1>2, QuietEnds DEF ServerEnds
<1>. QED  BY <1>1, <1>3, <1>9, <1>10, QuietSafe

\* An answer is queued.
LEMMA AnswerQueued ==
    ASSUME IInv, NEW e \in Responses, responses' = Append(responses, e),
           e.frame.q \notin ResponseCalls
    PROVE  /\ ResponsesOnce' /\ ResponseCalls' \subseteq ResponseCalls \cup {e.frame.q}
           /\ \A i \in DOMAIN responses' :
                (i \in DOMAIN responses /\ responses'[i] = responses[i]) \/ responses'[i] = e
<1>1. ResponsesOnce /\ Types /\ responses \in Seq(Responses)
    BY DEF IInv, DeskInv, Once, Types, DeskTypes
<1>2. PICK n : n = Len(responses) + 1
    OBVIOUS
<1>3. /\ DOMAIN responses' = DOMAIN responses \cup {n} /\ n \notin DOMAIN responses /\ responses'[n] = e
      /\ \A i \in DOMAIN responses : responses'[i] = responses[i]
    BY <1>1, <1>2, AppendItems
<1>4. \A i \in DOMAIN responses : responses[i].frame.q # e.frame.q
    <2>1. e.frame.q \in Calls
        BY DEF Responses, Frames
    <2>. QED  BY <2>1 DEF ResponseCalls
<1>5. ResponsesOnce'
    BY <1>1, <1>3, <1>4 DEF ResponsesOnce
<1>6. ResponseCalls' \subseteq ResponseCalls \cup {e.frame.q}
    BY <1>3 DEF ResponseCalls
<1>. QED  BY <1>3, <1>5, <1>6

LEMMA ExpireSafe ==
    ASSUME IInv, Expire
    PROVE  IInv'
<1>0. PICK r : r = Head(waiting)
    OBVIOUS
<1>00. PICK e : e = [fd |-> r.fd, frame |-> [q |-> r.q, ans |-> "refused"]]
    OBVIOUS
<1>1. /\ Quiet /\ waiting # <<>> /\ waiting' = Tail(waiting) /\ responses' = Append(responses, e)
      /\ UNCHANGED <<backlog, conns, up, wbuf, down, io, batch, running, queue>>
    BY <1>0, <1>00 DEF Expire, AfterExpiry, Quiet, taskVars
<1>2. DeskInv /\ ServerEnds
    BY DEF IInv
<1>3. DeskInv'
    BY <1>2, ExpireDesk
<1>4. /\ WaitingOnce' /\ WaitingGood' /\ WaitingCalls' \subseteq WaitingCalls \ {r.q}
      /\ r.q \in WaitingCalls /\ r.q \in Calls /\ r.fd \in Fds
      /\ Good(r.q, conns[r.fd]) /\ Unrepeated(r.q)
    BY <1>0, <1>1, WriteLeaves
<1>5. r.q \notin ResponseCalls /\ StagesApart
    BY <1>4 DEF IInv, Once, StagesApart, Apart
<1>6. /\ e \in Responses /\ e.frame.q = r.q /\ e.fd = r.fd
      /\ Tells(e.frame)
    BY <1>00, <1>4 DEF Responses, Frames, Tells, Good, Unrepeated, Unrun
<1>7. /\ ResponsesOnce' /\ ResponseCalls' \subseteq ResponseCalls \cup {r.q}
      /\ \A i \in DOMAIN responses' :
           (i \in DOMAIN responses /\ responses'[i] = responses[i]) \/ responses'[i] = e
    BY <1>1, <1>5, <1>6, AnswerQueued
<1>8. ResponsesGood'
    BY <1>1, <1>4, <1>6, <1>7, QuietRuns DEF IInv, AllGood, ResponsesGood
<1>9. /\ UpOnce' /\ UpGood' /\ UpCalls' = UpCalls
      /\ BatchOnce' /\ BatchGood' /\ BatchCalls' = BatchCalls
      /\ OnceIn(queue') /\ QueueGood' /\ CallsIn(queue') = CallsIn(queue)
      /\ RunningOnce' /\ RunningGood' /\ RunningCalls' = RunningCalls
      /\ OnceIn(wbuf') /\ WbufGood' /\ CallsIn(wbuf') = CallsIn(wbuf)
      /\ OnceIn(down') /\ DownGood' /\ CallsIn(down') = CallsIn(down)
    BY <1>1, UpKept, BatchKept, QueueKept, RunningKept, WbufKept, DownKept
<1>10. Apart(UpCalls', BatchCalls', WaitingCalls', CallsIn(queue'), RunningCalls', ResponseCalls',
             CallsIn(wbuf'), CallsIn(down'))
    BY <1>4, <1>5, <1>7, <1>9 DEF StagesApart, Apart
<1>11. Once' /\ AllGood'
    BY <1>4, <1>7, <1>8, <1>9, <1>10 DEF Once, StagesApart, AllGood
<1>12. ServerEnds'
    BY <1>1, <1>2, QuietEnds DEF ServerEnds
<1>. QED  BY <1>1, <1>3, <1>11, <1>12, QuietSafe

\* Starting again, and doing nothing.
LEMMA RestartSafe ==
    ASSUME IInv, Restart \/ UNCHANGED vars
    PROVE  IInv'
<1>1. /\ Quiet /\ (io' # "dispatch" => batch' = {})
      /\ UNCHANGED <<backlog, conns, up, wbuf, down, batch, waiting, queue, running, responses>>
    BY DEF Restart, vars, Quiet, clientVars, taskVars, IInv, ServerEnds
<1>2. DeskInv /\ ServerEnds
    BY DEF IInv
<1>3. DeskInv'
    BY <1>2, RestartDesk, StutterDesk
<1>4. /\ UpOnce' /\ UpGood' /\ UpCalls' = UpCalls
      /\ BatchOnce' /\ BatchGood' /\ BatchCalls' = BatchCalls
      /\ WaitingOnce' /\ WaitingGood' /\ WaitingCalls' = WaitingCalls
      /\ OnceIn(queue') /\ QueueGood' /\ CallsIn(queue') = CallsIn(queue)
      /\ RunningOnce' /\ RunningGood' /\ RunningCalls' = RunningCalls
      /\ ResponsesOnce' /\ ResponsesGood' /\ ResponseCalls' = ResponseCalls
      /\ OnceIn(wbuf') /\ WbufGood' /\ CallsIn(wbuf') = CallsIn(wbuf)
      /\ OnceIn(down') /\ DownGood' /\ CallsIn(down') = CallsIn(down)
    BY <1>1, UpKept, BatchKept, WaitingKept, QueueKept, RunningKept, ResponsesKept, WbufKept, DownKept
<1>5. Once' /\ AllGood'
    BY <1>4 DEF IInv, Once, StagesApart, AllGood
<1>6. ServerEnds'
    BY <1>1, <1>2, QuietEnds
<1>. QED  BY <1>1, <1>3, <1>5, <1>6, QuietSafe

LEMMA DrainFamily ==
    ASSUME IInv, NEW H, H = [l \in Links |-> AnswersTo(l)]
    PROVE  /\ H \in [Links -> Seq(Frames)] /\ OnceIn(H) /\ CallsIn(H) \subseteq ResponseCalls
           /\ \A l \in Links : \A m \in DOMAIN H[l] :
                \E i \in DOMAIN responses : conns[responses[i].fd] = l /\ H[l][m] = responses[i].frame
<1>1. Types /\ ResponsesOnce
    BY DEF IInv, DeskInv, Once
<1>2. ASSUME NEW l \in Links
      PROVE  /\ H[l] \in Seq(Frames) /\ DOMAIN H[l] = 1 .. Cardinality(ResponsesTo(l))
             /\ \A m \in DOMAIN H[l] : /\ Nth(ResponsesTo(l), m) \in ResponsesTo(l)
                                       /\ H[l][m] = responses[Nth(ResponsesTo(l), m)].frame
    BY <1>1, <1>2, AnswersToFacts
<1>3. \A l \in Links : \A i \in ResponsesTo(l) :
         i \in DOMAIN responses /\ conns[responses[i].fd] = l /\ responses[i].frame.q \in Calls
    BY <1>1, ResponseFacts DEF ResponsesTo, Receiver, Frames
<1>4. OnceIn(H)
    <2> SUFFICES ASSUME NEW l \in Links, NEW k \in Links, NEW m \in DOMAIN H[l], NEW n \in DOMAIN H[k],
                        H[l][m].q = H[k][n].q
                 PROVE  l = k /\ m = n
        BY DEF OnceIn
    <2>1. PICK i : i = Nth(ResponsesTo(l), m)
        OBVIOUS
    <2>2. PICK j : j = Nth(ResponsesTo(k), n)
        OBVIOUS
    <2>3. /\ i \in ResponsesTo(l) /\ H[l][m] = responses[i].frame
          /\ j \in ResponsesTo(k) /\ H[k][n] = responses[j].frame
        BY <1>2, <2>1, <2>2
    <2>4. i = j
        BY <1>1, <1>3, <2>3 DEF ResponsesOnce
    <2>5. l = k
        BY <1>3, <2>3, <2>4
    <2>6. /\ IsFiniteSet(ResponsesTo(l)) /\ ResponsesTo(l) \subseteq Nat
          /\ m \in 1 .. Cardinality(ResponsesTo(l)) /\ n \in 1 .. Cardinality(ResponsesTo(l))
          /\ Nth(ResponsesTo(l), m) = Nth(ResponsesTo(l), n)
        BY <1>1, <1>2, <2>1, <2>2, <2>4, <2>5, ResponsesToFacts
    <2>7. m = n
        BY <2>6, NthInjective
    <2>. QED  BY <2>5, <2>7
<1>5. \A l \in Links : \A m \in DOMAIN H[l] :
         \E i \in DOMAIN responses : conns[responses[i].fd] = l /\ H[l][m] = responses[i].frame
    BY <1>2, <1>3
<1>6. CallsIn(H) \subseteq ResponseCalls
    <2> SUFFICES ASSUME NEW q \in CallsIn(H) PROVE q \in ResponseCalls
        OBVIOUS
    <2>1. q \in Calls /\ DOMAIN H = Links
        BY DEF CallsIn
    <2>2. PICK l \in Links : \E m \in DOMAIN H[l] : H[l][m].q = q
        BY <2>1 DEF CallsIn
    <2>. QED  BY <1>5, <2>1, <2>2 DEF ResponseCalls
<1>7. H \in [Links -> Seq(Frames)]
    BY <1>2
<1>. QED  BY <1>4, <1>5, <1>6, <1>7

LEMMA DrainSafe ==
    ASSUME IInv, Drain
    PROVE  IInv'
<1>1. /\ Quiet /\ wbuf' = Drained(wbuf) /\ responses' = <<>> /\ io' = "admit" /\ batch = {}
      /\ UNCHANGED <<backlog, conns, up, down, batch, waiting, queue, running>>
    BY DEF Drain, Quiet, taskVars
<1>2. DeskInv /\ ServerEnds /\ Types /\ OnceIn(wbuf) /\ wbuf \in [Links -> Seq(Frames)] /\ StagesApart
    BY DEF IInv, DeskInv, Types, WireTypes, Once
<1>3. DeskInv'
    BY <1>2, DrainDesk
<1>4. PICK H : H = [l \in Links |-> AnswersTo(l)]
    OBVIOUS
<1>5. /\ H \in [Links -> Seq(Frames)] /\ OnceIn(H) /\ CallsIn(H) \subseteq ResponseCalls
      /\ \A l \in Links : \A m \in DOMAIN H[l] :
           \E i \in DOMAIN responses : conns[responses[i].fd] = l /\ H[l][m] = responses[i].frame
    BY <1>4, DrainFamily
<1>6. DOMAIN wbuf' = Links /\ \A l \in Links : wbuf'[l] = wbuf[l] \o H[l]
    BY <1>1, <1>4 DEF Drained, AnswersTo
<1>7. Joined(wbuf, H, wbuf')
    <2>1. CallsIn(wbuf) \cap CallsIn(H) = {}
        BY <1>2, <1>5 DEF StagesApart, Apart
    <2>2. \A s \in Frames : s.q \in Calls
        BY DEF Frames
    <2>3. H \in [Links -> Seq(Frames)] /\ OnceIn(H)
        BY <1>5
    <2>. QED  BY <1>2, <1>6, <2>1, <2>2, <2>3, FamilyJoin
<1>8. /\ OnceIn(wbuf') /\ CallsIn(wbuf') \subseteq CallsIn(wbuf) \cup ResponseCalls
      /\ \A l \in Links : \A i \in DOMAIN wbuf'[l] :
           \/ i \in DOMAIN wbuf[l] /\ wbuf'[l][i] = wbuf[l][i]
           \/ \E j \in DOMAIN responses : conns[responses[j].fd] = l /\ wbuf'[l][i] = responses[j].frame
    <2>1. /\ OnceIn(wbuf') /\ CallsIn(wbuf') \subseteq CallsIn(wbuf) \cup CallsIn(H)
          /\ \A l \in Links : \A i \in DOMAIN wbuf'[l] :
               \/ i \in DOMAIN wbuf[l] /\ wbuf'[l][i] = wbuf[l][i]
               \/ \E j \in DOMAIN H[l] : wbuf'[l][i] = H[l][j]
        BY <1>2, <1>7 DEF Joined
    <2>. QED  BY <1>5, <2>1
<1>9. WbufGood'
    <2> SUFFICES ASSUME NEW l \in Links, NEW i \in DOMAIN wbuf'[l]
                 PROVE  Good(wbuf[l][i].q, l)' /\ Tells(wbuf[l][i])'
        BY DEF WbufGood
    <2>1. PICK z : z = wbuf'[l][i]
        OBVIOUS
    <2>2. Good(z.q, l) /\ Tells(z)
        BY <1>8, <2>1 DEF IInv, AllGood, WbufGood, ResponsesGood
    <2>. QED  BY <1>1, <2>1, <2>2, QuietRuns
<1>10. ResponsesOnce' /\ ResponsesGood' /\ ResponseCalls' = {}
    BY <1>1 DEF ResponsesOnce, ResponsesGood, ResponseCalls
<1>11. /\ UpOnce' /\ UpGood' /\ UpCalls' = UpCalls
       /\ BatchOnce' /\ BatchGood' /\ BatchCalls' = BatchCalls
       /\ WaitingOnce' /\ WaitingGood' /\ WaitingCalls' = WaitingCalls
       /\ OnceIn(queue') /\ QueueGood' /\ CallsIn(queue') = CallsIn(queue)
       /\ RunningOnce' /\ RunningGood' /\ RunningCalls' = RunningCalls
       /\ OnceIn(down') /\ DownGood' /\ CallsIn(down') = CallsIn(down)
    BY <1>1, UpKept, BatchKept, WaitingKept, QueueKept, RunningKept, DownKept
<1>12. Apart(UpCalls', BatchCalls', WaitingCalls', CallsIn(queue'), RunningCalls', ResponseCalls',
             CallsIn(wbuf'), CallsIn(down'))
    BY <1>2, <1>8, <1>10, <1>11 DEF StagesApart, Apart
<1>13. Once' /\ AllGood'
    BY <1>8, <1>9, <1>10, <1>11, <1>12 DEF Once, StagesApart, AllGood
<1>14. ServerEnds'
    <2>1. \A l \in Links : wbuf'[l] # <<>> => wbuf[l] # <<>> \/ l \in Accepted
        <3> SUFFICES ASSUME NEW l \in Links, wbuf'[l] # <<>>, wbuf[l] = <<>> PROVE l \in Accepted
            OBVIOUS
        <3>1. H[l] \in Seq(Frames) /\ H[l] # <<>>
            BY <1>5, <1>6
        <3>2. 1 \in DOMAIN H[l]
            BY <3>1
        <3>3. PICK i \in DOMAIN responses : conns[responses[i].fd] = l
            BY <1>5, <3>2
        <3>4. responses[i].fd \in Fds
            BY <1>2, ResponseFacts
        <3>. QED  BY <3>3, <3>4 DEF Accepted
    <2>. QED  BY <1>1, <1>2, <2>1, QuietEnds
<1>. QED  BY <1>1, <1>3, <1>13, <1>14, QuietSafe

-------------------------------------------------------------------------------
(* Steps of the workers.                                                   *)

LEMMA RequestTaken ==
    ASSUME IInv, Quiet, NEW p \in Pools, queue[p] # <<>>, queue' = [queue EXCEPT ![p] = Tail(@)],
           NEW r, r = Head(queue[p])
    PROVE  /\ OnceIn(queue') /\ QueueGood' /\ CallsIn(queue') \subseteq CallsIn(queue) \ {r.q}
           /\ r \in MadeRequests /\ r.q \in CallsIn(queue) /\ r.q \in Calls
           /\ Good(r.q, conns[r.fd]) /\ Unrepeated(r.q)
<1>1. Types /\ OnceIn(queue) /\ QueueGood /\ queue \in [Pools -> Seq(MadeRequests)]
    BY DEF IInv, DeskInv, Types, PoolTypes, Once, AllGood
<1>2. Shortened(queue, queue', p)
    BY <1>1, FamilyTail
<1>3. /\ OnceIn(queue') /\ CallsIn(queue') \subseteq CallsIn(queue) /\ queue[p][1].q \notin CallsIn(queue')
      /\ r = queue[p][1] /\ 1 \in DOMAIN queue[p]
      /\ \A o \in Pools : \A i \in DOMAIN queue'[o] : \E j \in DOMAIN queue[o] : queue'[o][i] = queue[o][j]
    BY <1>1, <1>2 DEF Shortened
<1>4. r \in MadeRequests /\ r.q \in Calls
    BY <1>1, <1>3, RequestFacts, MadeFacts
<1>5. r.q \in CallsIn(queue) /\ Good(r.q, conns[r.fd]) /\ Unrepeated(r.q)
    BY <1>1, <1>3, <1>4 DEF QueueGood, CallsIn
<1>6. QueueGood'
    <2> SUFFICES ASSUME NEW o \in Pools, NEW i \in DOMAIN queue'[o]
                 PROVE  (Good(queue[o][i].q, conns[queue[o][i].fd]) /\ Unrepeated(queue[o][i].q))'
        BY DEF QueueGood
    <2>1. PICK z : z = queue'[o][i]
        OBVIOUS
    <2>2. Good(z.q, conns[z.fd]) /\ Unrepeated(z.q)
        BY <1>1, <1>3, <2>1 DEF QueueGood
    <2>. QED  BY <2>1, <2>2, QuietRuns
<1>. QED  BY <1>3, <1>4, <1>5, <1>6

LEMMA TakeSafe ==
    ASSUME IInv, NEW p \in Pools, Take(p)
    PROVE  IInv'
<1>0. PICK r : r = Head(queue[p])
    OBVIOUS
<1>00. PICK t : t = [fd |-> r.fd, q |-> r.q, done |-> FALSE]
    OBVIOUS
<1>1. /\ Quiet /\ queue[p] # <<>> /\ queue' = [queue EXCEPT ![p] = Tail(@)]
      /\ running' = [running EXCEPT ![p] = @ \cup {t}]
      /\ UNCHANGED <<backlog, conns, up, wbuf, down, io, batch, waiting, responses>>
    BY <1>0, <1>00 DEF Take, Quiet
<1>2. DeskInv /\ ServerEnds /\ Types /\ running \in [Pools -> SUBSET Tasks] /\ StagesApart
      /\ RunningOnce /\ RunningGood
    BY DEF IInv, DeskInv, Types, PoolTypes, Once, AllGood
<1>3. DeskInv'
    BY <1>2, TakeDesk
<1>4. /\ OnceIn(queue') /\ QueueGood' /\ CallsIn(queue') \subseteq CallsIn(queue) \ {r.q}
      /\ r \in MadeRequests /\ r.q \in CallsIn(queue) /\ r.q \in Calls
      /\ Good(r.q, conns[r.fd]) /\ Unrepeated(r.q)
    BY <1>0, <1>1, RequestTaken
<1>5. r.q \notin RunningCalls
    BY <1>2, <1>4 DEF StagesApart, Apart
<1>6. \A o \in Pools : \A u \in running'[o] : u \in running[o] \/ (o = p /\ u = t)
    BY <1>1, <1>2
<1>7. t.q = r.q /\ t.fd = r.fd /\ ~t.done
    BY <1>00
<1>8. RunningOnce'
    <2>1. \A o \in Pools : \A u \in running[o] : ~u.done => u.q # r.q
        BY <1>4, <1>5 DEF RunningCalls
    <2>. QED  BY <1>2, <1>6, <1>7, <2>1 DEF RunningOnce
<1>9. RunningGood'
    BY <1>2, <1>4, <1>6, <1>7, QuietRuns, <1>1 DEF RunningGood
<1>10. RunningCalls' \subseteq RunningCalls \cup {r.q}
    BY <1>6, <1>7 DEF RunningCalls
<1>11. /\ UpOnce' /\ UpGood' /\ UpCalls' = UpCalls
       /\ BatchOnce' /\ BatchGood' /\ BatchCalls' = BatchCalls
       /\ WaitingOnce' /\ WaitingGood' /\ WaitingCalls' = WaitingCalls
       /\ ResponsesOnce' /\ ResponsesGood' /\ ResponseCalls' = ResponseCalls
       /\ OnceIn(wbuf') /\ WbufGood' /\ CallsIn(wbuf') = CallsIn(wbuf)
       /\ OnceIn(down') /\ DownGood' /\ CallsIn(down') = CallsIn(down)
    BY <1>1, UpKept, BatchKept, WaitingKept, ResponsesKept, WbufKept, DownKept
<1>12. Apart(UpCalls', BatchCalls', WaitingCalls', CallsIn(queue'), RunningCalls', ResponseCalls',
             CallsIn(wbuf'), CallsIn(down'))
    BY <1>2, <1>4, <1>10, <1>11 DEF StagesApart, Apart
<1>13. Once' /\ AllGood'
    BY <1>4, <1>8, <1>9, <1>11, <1>12 DEF Once, StagesApart, AllGood
<1>14. ServerEnds'
    BY <1>1, <1>2, QuietEnds DEF ServerEnds
<1>. QED  BY <1>1, <1>3, <1>13, <1>14, QuietSafe

LEMMA ReleaseSafe ==
    ASSUME IInv, NEW p \in Pools, NEW t \in running[p], Release(p, t)
    PROVE  IInv'
<1>1. /\ Quiet /\ t.done /\ running' = [running EXCEPT ![p] = @ \ {t}]
      /\ UNCHANGED <<backlog, conns, up, wbuf, down, io, batch, waiting, queue, responses>>
    BY DEF Release, Quiet
<1>2. DeskInv /\ ServerEnds /\ Types /\ running \in [Pools -> SUBSET Tasks] /\ StagesApart
      /\ RunningOnce /\ RunningGood
    BY DEF IInv, DeskInv, Types, PoolTypes, Once, AllGood
<1>3. DeskInv'
    BY <1>2, ReleaseDesk
<1>4. \A o \in Pools : \A u \in running'[o] : u \in running[o]
    BY <1>1, <1>2
<1>5. RunningOnce' /\ RunningCalls' \subseteq RunningCalls
    BY <1>2, <1>4 DEF RunningOnce, RunningCalls
<1>6. RunningGood'
    BY <1>1, <1>2, <1>4, QuietRuns DEF RunningGood
<1>7. /\ UpOnce' /\ UpGood' /\ UpCalls' = UpCalls
      /\ BatchOnce' /\ BatchGood' /\ BatchCalls' = BatchCalls
      /\ WaitingOnce' /\ WaitingGood' /\ WaitingCalls' = WaitingCalls
      /\ OnceIn(queue') /\ QueueGood' /\ CallsIn(queue') = CallsIn(queue)
      /\ ResponsesOnce' /\ ResponsesGood' /\ ResponseCalls' = ResponseCalls
      /\ OnceIn(wbuf') /\ WbufGood' /\ CallsIn(wbuf') = CallsIn(wbuf)
      /\ OnceIn(down') /\ DownGood' /\ CallsIn(down') = CallsIn(down)
    BY <1>1, UpKept, BatchKept, WaitingKept, QueueKept, ResponsesKept, WbufKept, DownKept
<1>8. Apart(UpCalls', BatchCalls', WaitingCalls', CallsIn(queue'), RunningCalls', ResponseCalls',
            CallsIn(wbuf'), CallsIn(down'))
    BY <1>2, <1>5, <1>7 DEF StagesApart, Apart
<1>9. Once' /\ AllGood'
    BY <1>5, <1>6, <1>7, <1>8 DEF Once, StagesApart, AllGood
<1>10. ServerEnds'
    BY <1>1, <1>2, QuietEnds DEF ServerEnds
<1>. QED  BY <1>1, <1>3, <1>9, <1>10, QuietSafe

\* A call that is on a worker has its handler run: nothing is known of it elsewhere.
LEMMA WorkElsewhere ==
    ASSUME IInv, UNCHANGED clientVars, UNCHANGED <<cut, conns, up, batch, waiting, queue, wbuf, down>>,
           NEW x \in RunningCalls, \A q \in Calls \ {x} : runs'[q] = runs[q]
    PROVE  /\ UpGood' /\ BatchGood' /\ WaitingGood' /\ QueueGood' /\ WbufGood' /\ DownGood'
           /\ \A p \in Pools : \A u \in running[p] :
                ~u.done /\ u.q # x => Good(u.q, conns[u.fd])' /\ Unrepeated(u.q)'
           /\ \A i \in DOMAIN responses : \A z : z = responses[i] =>
                Good(z.frame.q, conns[z.fd])' /\ Tells(z.frame)'
<1>1. /\ Types /\ AllGood /\ Made \subseteq Calls /\ resent' = resent
      /\ x \notin UpCalls /\ x \notin BatchCalls /\ x \notin WaitingCalls /\ x \notin CallsIn(queue)
      /\ x \notin ResponseCalls /\ x \notin CallsIn(wbuf) /\ x \notin CallsIn(down)
    <2>1. Types /\ AllGood /\ StagesApart
        BY DEF IInv, DeskInv, Once
    <2>. QED  BY <2>1, MadeFacts DEF StagesApart, Apart, clientVars
<1>2. /\ \A q \in Calls \ {x} : (Unrepeated(q) => Unrepeated(q)') /\ (Unrun(q) => Unrun(q)')
      /\ \A q, l : Good(q, l)' <=> Good(q, l)
      /\ \A z : z.q \in Calls \ {x} /\ Tells(z) => Tells(z)'
    <2>1. /\ \A q \in Calls \ {x} : (Unrepeated(q) => Unrepeated(q)') /\ (Unrun(q) => Unrun(q)')
          /\ (\A q, l : Good(q, l)' <=> Good(q, l)) /\ Made' = Made
        BY <1>1, SameGood DEF Unrepeated, Unrun
    <2>2. \A z : z.q \in Calls \ {x} /\ Tells(z) => Tells(z)'
        BY <2>1 DEF Tells, clientVars
    <2>. QED  BY <2>1, <2>2
<1>3. UpGood'
    <2>1. ASSUME NEW l \in Links, NEW i \in DOMAIN up[l] PROVE up[l][i] \in Calls \ {x}
        <3>1. up[l][i] \in Calls
            BY <1>1, <2>1, WireFacts
        <3>. QED  BY <1>1, <3>1 DEF UpCalls
    <2>. QED  BY <1>1, <1>2, <2>1 DEF AllGood, UpGood
<1>4. BatchGood'
    <2>1. \A r \in batch : r.q \in Calls \ {x}
        BY <1>1, RequestFacts DEF BatchCalls
    <2>. QED  BY <1>1, <1>2, <2>1 DEF AllGood, BatchGood
<1>5. WaitingGood'
    <2>1. \A i \in DOMAIN waiting : waiting[i].q \in Calls \ {x}
        BY <1>1, RequestFacts DEF WaitingCalls
    <2>. QED  BY <1>1, <1>2, <2>1 DEF AllGood, WaitingGood
<1>6. QueueGood'
    <2>1. ASSUME NEW p \in Pools, NEW i \in DOMAIN queue[p] PROVE queue[p][i].q \in Calls \ {x}
        <3>1. queue[p][i].q \in Calls /\ p \in DOMAIN queue
            BY <1>1, <2>1, RequestFacts DEF Types, PoolTypes
        <3>. QED  BY <1>1, <3>1 DEF CallsIn
    <2>. QED  BY <1>1, <1>2, <2>1 DEF AllGood, QueueGood
<1>7. WbufGood'
    <2>1. ASSUME NEW l \in Links, NEW i \in DOMAIN wbuf[l] PROVE wbuf[l][i].q \in Calls \ {x}
        <3>1. wbuf[l][i].q \in Calls /\ l \in DOMAIN wbuf
            BY <1>1, <2>1, WireFacts
        <3>. QED  BY <1>1, <3>1 DEF CallsIn
    <2>. QED  BY <1>1, <1>2, <2>1 DEF AllGood, WbufGood
<1>8. DownGood'
    <2>1. ASSUME NEW l \in Links, NEW i \in DOMAIN down[l] PROVE down[l][i].q \in Calls \ {x}
        <3>1. down[l][i].q \in Calls /\ l \in DOMAIN down
            BY <1>1, <2>1, WireFacts
        <3>. QED  BY <1>1, <3>1 DEF CallsIn
    <2>. QED  BY <1>1, <1>2, <2>1 DEF AllGood, DownGood
<1>9. \A p \in Pools : \A u \in running[p] :
        ~u.done /\ u.q # x => Good(u.q, conns[u.fd])' /\ Unrepeated(u.q)'
    BY <1>1, <1>2, RequestFacts DEF AllGood, RunningGood
<1>10. \A i \in DOMAIN responses : \A z : z = responses[i] =>
         Good(z.frame.q, conns[z.fd])' /\ Tells(z.frame)'
    <2>1. \A i \in DOMAIN responses : responses[i].frame.q \in Calls \ {x}
        BY <1>1, ResponseFacts DEF ResponseCalls, Frames
    <2>. QED  BY <1>1, <1>2, <2>1 DEF AllGood, ResponsesGood
<1>. QED  BY <1>3, <1>4, <1>5, <1>6, <1>7, <1>8, <1>9, <1>10

LEMMA WorkSafe ==
    ASSUME IInv, NEW p \in Pools, NEW t \in running[p], NEW ans \in Answers, Work(p, t, ans)
    PROVE  IInv'
<1>0. PICK x : x = t.q
    OBVIOUS
<1>00. PICK e : e = [fd |-> t.fd, frame |-> [q |-> x, ans |-> ans]]
    OBVIOUS
<1>000. PICK rest : rest = IF calls[x] \in Exclusive THEN {[t EXCEPT !.done = TRUE]} ELSE {}
    OBVIOUS
<1>1. /\ ~t.done /\ runs' = [runs EXCEPT ![x] = @ + 1] /\ responses' = Append(responses, e)
      /\ running' = [running EXCEPT ![p] = (@ \ {t}) \cup rest]
      /\ UNCHANGED clientVars
      /\ UNCHANGED <<backlog, conns, up, wbuf, down, io, batch, waiting, queue, cut>>
    BY <1>0, <1>00, <1>000 DEF Work
<1>2. DeskInv /\ ServerEnds /\ Types /\ running \in [Pools -> SUBSET Tasks] /\ StagesApart
      /\ RunningOnce /\ AllGood /\ RunsBounded /\ runs \in [Calls -> Nat]
    BY DEF IInv, DeskInv, Types, PoolTypes, Once, Counts
<1>3. DeskInv'
    BY <1>2, WorkDesk
<1>4. /\ x \in Made /\ x \in Calls /\ t.fd \in Fds /\ x \in RunningCalls
      /\ Good(x, conns[t.fd]) /\ Unrepeated(x)
    <2>1. x \in Made /\ x \in Calls /\ t.fd \in Fds
        BY <1>0, <1>2, RequestFacts, MadeFacts
    <2>. QED  BY <1>0, <1>1, <1>2, <2>1 DEF RunningCalls, AllGood, RunningGood
<1>5. runs'[x] = runs[x] + 1 /\ \A q \in Calls \ {x} : runs'[q] = runs[q]
    BY <1>1, <1>2, <1>4
<1>6. /\ Made' = Made /\ Overtaken' = Overtaken
      /\ \A q, l : Good(q, l)' <=> Good(q, l)
    BY <1>1, SameGood
<1>7. /\ UpGood' /\ BatchGood' /\ WaitingGood' /\ QueueGood' /\ WbufGood' /\ DownGood'
      /\ \A o \in Pools : \A u \in running[o] :
           ~u.done /\ u.q # x => Good(u.q, conns[u.fd])' /\ Unrepeated(u.q)'
      /\ \A i \in DOMAIN responses : \A z : z = responses[i] =>
           Good(z.frame.q, conns[z.fd])' /\ Tells(z.frame)'
    BY <1>1, <1>4, <1>5, WorkElsewhere
<1>8. e \in Responses /\ e.frame.q = x /\ e.fd = t.fd /\ e.frame.ans # "refused"
    BY <1>00, <1>4 DEF Responses, Frames, Answers
<1>9. x \notin ResponseCalls
    BY <1>2, <1>4 DEF StagesApart, Apart
<1>10. /\ ResponsesOnce' /\ ResponseCalls' \subseteq ResponseCalls \cup {x}
       /\ \A i \in DOMAIN responses' :
            (i \in DOMAIN responses /\ responses'[i] = responses[i]) \/ responses'[i] = e
    BY <1>1, <1>8, <1>9, AnswerQueued
<1>11. ResponsesGood'
    <2> SUFFICES ASSUME NEW i \in DOMAIN responses'
                 PROVE  (Good(responses[i].frame.q, conns[responses[i].fd]) /\ Tells(responses[i].frame))'
        BY DEF ResponsesGood
    <2>1. CASE i \in DOMAIN responses /\ responses'[i] = responses[i]
        <3>1. PICK z : z = responses[i]
            OBVIOUS
        <3>2. (Good(z.frame.q, conns[z.fd]))' /\ Tells(z.frame)'
            BY <1>7, <2>1, <3>1
        <3>. QED  BY <2>1, <3>1, <3>2
    <2>2. CASE responses'[i] = e
        <3>1. runs'[x] > 0
            BY <1>2, <1>4, <1>5
        <3>. QED  BY <1>1, <1>4, <1>6, <1>8, <2>2, <3>1 DEF Tells
    <2>. QED  BY <1>10, <2>1, <2>2
<1>12. \A o \in Pools : \A u \in running'[o] : ~u.done => u \in running[o] /\ u.q # x
    <2>1. \A u \in rest : u.done
        <3>1. t \in Tasks
            BY <1>2
        <3>. QED  BY <1>000, <3>1 DEF Tasks
    <2>2. \A o \in Pools : \A u \in running'[o] : (u \in running[o] /\ (o = p => u # t)) \/ u \in rest
        BY <1>1, <1>2
    <2>. QED  BY <1>0, <1>1, <1>2, <2>1, <2>2 DEF RunningOnce
<1>13. RunningOnce' /\ RunningCalls' \subseteq RunningCalls \ {x}
    BY <1>2, <1>12 DEF RunningOnce, RunningCalls
<1>14. RunningGood'
    BY <1>7, <1>12 DEF RunningGood
<1>15. /\ UpOnce' /\ UpCalls' = UpCalls /\ BatchOnce' /\ BatchCalls' = BatchCalls
       /\ WaitingOnce' /\ WaitingCalls' = WaitingCalls
       /\ OnceIn(queue') /\ OnceIn(wbuf') /\ OnceIn(down')
    BY <1>1 DEF IInv, Once, UpOnce, UpCalls, BatchOnce, BatchCalls, WaitingOnce, WaitingCalls
<1>16. Apart(UpCalls', BatchCalls', WaitingCalls', CallsIn(queue'), RunningCalls', ResponseCalls',
             CallsIn(wbuf'), CallsIn(down'))
    <2>1. CallsIn(queue') = CallsIn(queue) /\ CallsIn(wbuf') = CallsIn(wbuf) /\ CallsIn(down') = CallsIn(down)
        BY <1>1
    <2>. QED  BY <1>2, <1>4, <1>10, <1>13, <1>15, <2>1 DEF StagesApart, Apart
<1>17. Once' /\ AllGood'
    BY <1>7, <1>10, <1>11, <1>13, <1>14, <1>15, <1>16 DEF Once, StagesApart, AllGood
<1>18. ServerEnds' /\ Accepted' = Accepted
    BY <1>1, <1>2, QuietEnds DEF ServerEnds, Accepted
<1>19. ClientEnds' /\ OwnAnswerUnlessAbandoned'
    BY <1>1, <1>6 DEF IInv, ClientEnds, OwnAnswerUnlessAbandoned, clientVars
<1>20. Counts'
    <2>0. /\ UNCHANGED <<await, link, got, resent, cut>>
          /\ \A q \in Calls \ {x} : Unrun(q) => Unrun(q)'
        BY <1>1, <1>5 DEF clientVars, Unrun
    <2>1. Unreached'
        <3> SUFFICES ASSUME NEW c \in Clients, await[c] # 0, link[c] \notin Accepted
                     PROVE  Unrun(await[c])'
            BY <1>18, <2>0 DEF Unreached
        <3>1. await[c] # x
            BY <1>4 DEF Good, Accepted
        <3>2. await[c] \in Calls
            BY <1>2, AwaitFacts
        <3>3. Unrun(await[c])
            BY DEF IInv, Counts, Unreached
        <3>. QED  BY <2>0, <3>1, <3>2, <3>3 DEF Unrun
    <2>2. RunsBounded'
        <3> SUFFICES ASSUME NEW q \in Calls
                     PROVE  /\ runs'[q] <= 1 \/ (runs'[q] = 2 /\ q \in cut /\ q \in resent)
                            /\ runs'[q] > 0 => q \in Made
            BY <1>6, <2>0 DEF RunsBounded
        <3>1. CASE q = x
            BY <1>4, <1>5, <3>1 DEF Unrepeated
        <3>2. CASE q # x
            BY <1>2, <1>5, <3>2 DEF RunsBounded
        <3>. QED  BY <3>1, <3>2
    <2>3. RefusedKept'
        <3> SUFFICES ASSUME NEW q \in Made, got[q].q = q, got[q].ans = "refused" PROVE Unrun(q)'
            BY <1>6, <2>0 DEF RefusedKept
        <3>1. q # x /\ q \in Calls
            BY <1>2, <1>4, MadeFacts DEF Good, Untaken
        <3>2. Unrun(q)
            BY DEF IInv, Counts, RefusedKept
        <3>. QED  BY <2>0, <3>1, <3>2
    <2>. QED  BY <2>1, <2>2, <2>3 DEF Counts
<1>. QED  BY <1>3, <1>17, <1>18, <1>19, <1>20 DEF IInv

-------------------------------------------------------------------------------
(* A shutdown.                                                             *)

\* What may still run is under way.
LEMMA PendingFacts ==
    ASSUME IInv, NEW q \in Pending
    PROVE  /\ q \in Made /\ q \in Calls /\ q \notin CallsIn(down)
           /\ Untaken(q) /\ Unrepeated(q)
<1>1. Types /\ AllGood /\ StagesApart /\ DOMAIN queue = Pools
    BY DEF IInv, DeskInv, Once, Types, PoolTypes
<1>2. PICK p \in Pools : q \in {queue[p][i].q : i \in DOMAIN queue[p]} \cup {t.q : t \in {y \in running[p] : ~y.done}}
    BY DEF Pending
<1>3. CASE \E i \in DOMAIN queue[p] : q = queue[p][i].q
    <2>1. PICK i \in DOMAIN queue[p] : q = queue[p][i].q
        BY <1>3
    <2>2. Good(q, conns[queue[p][i].fd]) /\ Unrepeated(q) /\ q \in Calls
        BY <1>1, <2>1, RequestFacts, MadeFacts DEF AllGood, QueueGood
    <2>3. q \in CallsIn(queue)
        BY <1>1, <2>1, <2>2, CallsInMember
    <2>. QED  BY <1>1, <2>2, <2>3 DEF Good, StagesApart, Apart
<1>4. CASE \E t \in running[p] : ~t.done /\ q = t.q
    <2>1. PICK t \in running[p] : ~t.done /\ q = t.q
        BY <1>4
    <2>2. Good(q, conns[t.fd]) /\ Unrepeated(q) /\ q \in Calls
        BY <1>1, <2>1, RequestFacts, MadeFacts DEF AllGood, RunningGood
    <2>3. q \in RunningCalls
        BY <2>1, <2>2 DEF RunningCalls
    <2>. QED  BY <1>1, <2>2, <2>3 DEF Good, StagesApart, Apart
<1>. QED  BY <1>2, <1>3, <1>4

LEMMA StopSafe ==
    ASSUME IInv, Stop
    PROVE  IInv'
<1>1. /\ io = "admit" /\ io' = "down"
      /\ cut' = cut \cup {await[c] : c \in {d \in Clients : await[d] # 0}}
      /\ conns' = [f \in Fds |-> NoLink] /\ backlog' = <<>>
      /\ up' = [l \in Links |-> <<>>] /\ wbuf' = [l \in Links |-> <<>>]
      /\ waiting' = <<>> /\ responses' = <<>>
      /\ queue' = [p \in Pools |-> <<>>] /\ running' = [p \in Pools |-> {}]
      /\ down' = down /\ batch' = batch /\ UNCHANGED clientVars
    BY DEF Stop
<1>2. PICK ran \in SUBSET Pending : runs' = [q \in Calls |-> IF q \in ran THEN runs[q] + 1 ELSE runs[q]]
    BY DEF Stop
<1>3. /\ DeskInv /\ Types /\ ServerEnds /\ batch = {} /\ OnceIn(down) /\ DownGood
      /\ runs \in [Calls -> Nat]
    BY <1>1 DEF IInv, DeskInv, Types, PoolTypes, ServerEnds, Once, AllGood
<1>4. DeskInv'
    BY <1>3, StopDesk
<1>5. /\ Made' = Made /\ Overtaken' = Overtaken
      /\ \A q, l : Good(q, l)' <=> Good(q, l)
      /\ UNCHANGED <<calls, link, await, resent, got, abandoned>>
    BY <1>1, SameGood DEF clientVars
<1>6. /\ \A q \in Calls : q \notin Pending => (Unrun(q) => Unrun(q)')
      /\ \A z : z.q \in Calls \ Pending /\ Tells(z) => Tells(z)'
    <2>1. \A q \in Calls : q \notin Pending => runs'[q] = runs[q] /\ (Unrun(q) => Unrun(q)')
        BY <1>1, <1>2 DEF Unrun
    <2>. QED  BY <1>5, <2>1 DEF Tells
<1>7. ClientEnds' /\ OwnAnswerUnlessAbandoned'
    BY <1>5 DEF IInv, ClientEnds, OwnAnswerUnlessAbandoned
<1>8. ServerEnds'
    <2>1. \A f \in Fds : conns'[f] = NoLink
        BY <1>1
    <2>2. \A l \in Links : up'[l] = <<>> /\ wbuf'[l] = <<>>
        BY <1>1
    <2>3. DOMAIN backlog' = {}
        BY <1>1
    <2>. QED  BY <1>1, <1>3, <2>1, <2>2, <2>3 DEF ServerEnds
<1>9. /\ UpOnce' /\ BatchOnce' /\ WaitingOnce' /\ RunningOnce' /\ ResponsesOnce'
      /\ UpCalls' = {} /\ BatchCalls' = {} /\ WaitingCalls' = {} /\ RunningCalls' = {}
      /\ ResponseCalls' = {}
      /\ UpGood' /\ BatchGood' /\ WaitingGood' /\ QueueGood' /\ RunningGood' /\ ResponsesGood' /\ WbufGood'
    BY <1>1, <1>3 DEF UpOnce, BatchOnce, WaitingOnce, RunningOnce, ResponsesOnce, UpCalls, BatchCalls,
                      WaitingCalls, RunningCalls, ResponseCalls, UpGood, BatchGood, WaitingGood,
                      QueueGood, RunningGood, ResponsesGood, WbufGood
<1>10. /\ OnceIn(queue') /\ CallsIn(queue') = {} /\ OnceIn(wbuf') /\ CallsIn(wbuf') = {}
       /\ OnceIn(down') /\ CallsIn(down') = CallsIn(down)
    BY <1>1, <1>3 DEF OnceIn, CallsIn
<1>11. DownGood'
    <2> SUFFICES ASSUME NEW l \in Links, NEW i \in DOMAIN down[l]
                 PROVE  Good(down[l][i].q, l)' /\ Tells(down[l][i])'
        BY <1>1 DEF DownGood
    <2>1. PICK z : z = down[l][i]
        OBVIOUS
    <2>2. Good(z.q, l) /\ Tells(z)
        BY <1>3, <2>1 DEF DownGood
    <2>3. z.q \in Calls /\ z.q \in CallsIn(down)
        <3>1. z.q \in Calls /\ l \in DOMAIN down
            BY <1>3, <2>1, WireFacts
        <3>. QED  BY <2>1, <3>1, CallsInMember
    <2>4. z.q \notin Pending
        BY <2>3, PendingFacts
    <2>5. Good(z.q, l)' /\ Tells(z)'
        BY <1>5, <1>6, <2>2, <2>3, <2>4
    <2>. QED  BY <1>1, <2>1, <2>5
<1>12. Once' /\ AllGood'
    <2>1. Apart(UpCalls', BatchCalls', WaitingCalls', CallsIn(queue'), RunningCalls', ResponseCalls',
                CallsIn(wbuf'), CallsIn(down'))
        BY <1>9, <1>10 DEF Apart
    <2>. QED  BY <1>9, <1>10, <1>11, <2>1 DEF Once, StagesApart, AllGood
<1>13. Counts'
    <2>1. Unreached'
        BY <1>1, <1>5 DEF Unreached, Unrun
    <2>2. RunsBounded'
        <3> SUFFICES ASSUME NEW q \in Calls
                     PROVE  /\ runs'[q] <= 1 \/ (runs'[q] = 2 /\ q \in cut' /\ q \in resent')
                            /\ runs'[q] > 0 => q \in Made'
            BY DEF RunsBounded
        <3>1. CASE q \in ran
            <4>1. q \in Made /\ Unrepeated(q) /\ runs'[q] = runs[q] + 1
                BY <1>2, <3>1, PendingFacts
            <4>. QED  BY <1>1, <1>5, <4>1 DEF Unrepeated
        <3>2. CASE q \notin ran
            BY <1>1, <1>2, <1>5, <3>2 DEF IInv, Counts, RunsBounded
        <3>. QED  BY <3>1, <3>2
    <2>3. RefusedKept'
        <3> SUFFICES ASSUME NEW q \in Made, got[q].q = q, got[q].ans = "refused" PROVE Unrun(q)'
            BY <1>5 DEF RefusedKept
        <3>1. q \notin Pending /\ q \in Calls
            BY <1>3, PendingFacts, MadeFacts DEF Untaken
        <3>. QED  BY <1>6, <3>1 DEF IInv, Counts, RefusedKept
    <2>. QED  BY <2>1, <2>2, <2>3 DEF Counts
<1>. QED  BY <1>4, <1>7, <1>8, <1>12, <1>13 DEF IInv

-------------------------------------------------------------------------------
(* A round of polling.                                                     *)

\* Who waits keeps the descriptor; every other one is vacated, kept or filled.
LEMMA PollPlaces ==
    ASSUME Types, Poll, NEW f \in Fds
    PROVE  /\ conns[f] # NoLink /\ conns[f] \in Held => conns'[f] = conns[f]
           /\ \/ conns'[f] = NoLink \/ conns'[f] = conns[f]
              \/ /\ f \in FreeFds /\ Rank(FreeFds, f) \in DOMAIN backlog
                 /\ conns'[f] = backlog[Rank(FreeFds, f)]
<1>1. conns' = [g \in Fds |-> IF g \in HungUp THEN NoLink ELSE WithNew[g]]
    BY DEF Poll
<1>2. conns[f] # NoLink => WithNew[f] = conns[f]
    BY DEF WithNew, FreeFds
<1>3. conns[f] \in Held => f \notin HungUp
    BY DEF HungUp
<1>. QED  BY <1>1, <1>2, <1>3, WithNewFacts

LEMMA PollEnds ==
    ASSUME Types, ServerEnds, Poll
    PROVE  ServerEnds'
<1>1. \A f, g \in Fds : conns'[f] = conns'[g] /\ conns'[f] # NoLink => f = g
    <2> SUFFICES ASSUME NEW f \in Fds, NEW g \in Fds, conns'[f] = conns'[g], conns'[f] # NoLink
                 PROVE  f = g
        OBVIOUS
    <2>1. \A h \in Fds :
             \/ conns'[h] = NoLink \/ conns'[h] = conns[h]
             \/ /\ h \in FreeFds /\ Rank(FreeFds, h) \in DOMAIN backlog
                /\ conns'[h] = backlog[Rank(FreeFds, h)]
        BY PollPlaces
    <2>2. \A i \in DOMAIN backlog : \A h \in Fds : backlog[i] # conns[h]
        BY DEF ServerEnds, Accepted
    <2>3. CASE conns'[f] = conns[f]
        <3>1. conns'[g] = conns[g]
            BY <2>1, <2>2, <2>3
        <3>. QED  BY <2>3, <3>1 DEF ServerEnds
    <2>4. CASE conns'[f] # conns[f]
        <3>1. /\ f \in FreeFds /\ Rank(FreeFds, f) \in DOMAIN backlog
              /\ conns'[f] = backlog[Rank(FreeFds, f)]
            BY <2>1, <2>4
        <3>2. /\ g \in FreeFds /\ Rank(FreeFds, g) \in DOMAIN backlog
              /\ conns'[g] = backlog[Rank(FreeFds, g)]
            BY <2>1, <2>2, <3>1
        <3>3. Rank(FreeFds, f) = Rank(FreeFds, g)
            BY <3>1, <3>2 DEF ServerEnds
        <3>. QED  BY <3>1, <3>2, <3>3, FdFacts, RankInjective
    <2>. QED  BY <2>3, <2>4
<1>2. backlog' = <<>> /\ DOMAIN backlog' = {} /\ io' = "dispatch"
    BY DEF Poll
<1>3. \A l \in Links : wbuf'[l] = <<>>
    BY DEF Poll
<1>4. \A l \in Links : up'[l] # <<>> => ServerEnd(l)'
    <2> SUFFICES ASSUME NEW l \in Links, up'[l] # <<>> PROVE l \in Accepted'
        BY DEF ServerEnd
    <2>1. up'[l] = IF l \in Accepted THEN <<>>
                   ELSE IF l \in Queued /\ \A f \in Fds : conns'[f] # l THEN <<>> ELSE up[l]
        BY DEF Poll
    <2>2. l \notin Accepted /\ up[l] # <<>> /\ ~(l \in Queued /\ \A f \in Fds : conns'[f] # l)
        BY <2>1
    <2>3. l \in Queued
        BY <2>2 DEF ServerEnds, ServerEnd
    <2>. QED  BY <2>2, <2>3 DEF Accepted
<1>. QED  BY <1>1, <1>2, <1>3, <1>4 DEF ServerEnds

\* Whoever waits for a call still has the connection it travels on.
LEMMA PollGood ==
    ASSUME IInv, Poll
    PROVE  /\ \A q, l : Good(q, l)' <=> Good(q, l)
           /\ \A f \in Fds : \A q : Good(q, conns[f]) => Good(q, conns[f])'
           /\ \A q : (Unrepeated(q)' <=> Unrepeated(q)) /\ (Unrun(q)' <=> Unrun(q))
           /\ \A x : Tells(x)' <=> Tells(x)
           /\ Made' = Made /\ Overtaken' = Overtaken
<1>1. Types /\ UNCHANGED clientVars /\ UNCHANGED <<runs, cut>>
    BY DEF IInv, DeskInv, Poll, taskVars
<1>2. /\ \A q, l : Good(q, l)' <=> Good(q, l)
      /\ Made' = Made /\ Overtaken' = Overtaken
    BY <1>1, SameGood
<1>3. \A q : (Unrepeated(q)' <=> Unrepeated(q)) /\ (Unrun(q)' <=> Unrun(q))
    BY <1>1 DEF clientVars, Unrepeated, Unrun
<1>4. ASSUME NEW f \in Fds, NEW q, Good(q, conns[f]) PROVE Good(q, conns[f])'
    <2>0. PICK m : m = conns'[f]
        OBVIOUS
    <2>1. ASSUME NEW c \in Clients, await[c] = q PROVE link[c] = m
        <3>1. q # 0 /\ link[c] = conns[f]
            BY <1>1, <1>4, <2>1, MadeFacts DEF Good
        <3>2. link[c] # NoLink /\ link[c] \in Held
            BY <1>1, <2>1, <3>1 DEF Types, ClientTypes, Held
        <3>. QED  BY <1>1, <2>0, <3>1, <3>2, PollPlaces
    <2>2. Good(q, m)
        BY <1>4, <2>1 DEF Good
    <2>. QED  BY <1>2, <2>0, <2>2
<1>5. \A x : Tells(x)' <=> Tells(x)
    BY <1>1, <1>2, <1>3 DEF Tells, clientVars
<1>. QED  BY <1>2, <1>3, <1>4, <1>5

\* The requests that were read, and those that were not.
LEMMA PollRequests ==
    ASSUME IInv, Poll
    PROVE  /\ UpOnce' /\ UpGood' /\ UpCalls' \subseteq UpCalls
           /\ BatchOnce' /\ BatchGood' /\ BatchCalls' \subseteq UpCalls
           /\ UpCalls' \cap BatchCalls' = {}
<1>1. Types /\ UpOnce /\ UpGood /\ ServerEnds
    BY DEF IInv, DeskInv, Once, AllGood
<1>2. \A l \in Links : \/ up'[l] = <<>>
                       \/ up'[l] = up[l] /\ l \notin Accepted
    BY DEF Poll
<1>3. ASSUME NEW l \in Links, NEW i \in DOMAIN up'[l]
      PROVE  i \in DOMAIN up[l] /\ up'[l][i] = up[l][i] /\ l \notin Accepted
    BY <1>2, <1>3
<1>4. UpOnce' /\ UpCalls' \subseteq UpCalls
    BY <1>1, <1>3 DEF UpOnce, UpCalls
<1>5. UpGood'
    <2> SUFFICES ASSUME NEW l \in Links, NEW i \in DOMAIN up'[l]
                 PROVE  Good(up[l][i], l)' /\ Unrepeated(up[l][i])'
        BY DEF UpGood
    <2>1. PICK z : z = up'[l][i]
        OBVIOUS
    <2>2. Good(z, l) /\ Unrepeated(z)
        BY <1>1, <1>3, <2>1 DEF UpGood
    <2>. QED  BY <2>1, <2>2, PollGood
<1>6. ASSUME NEW r \in batch'
      PROVE  /\ r.fd \in Fds /\ conns[r.fd] \in Links /\ conns[r.fd] \in Accepted
             /\ \E i \in DOMAIN up[conns[r.fd]] :
                  up[conns[r.fd]][i] = r.q /\ r = [fd |-> r.fd, q |-> r.q]
    <2>1. PICK f \in Fds : /\ conns[f] # NoLink
                           /\ \E i \in DOMAIN up[conns[f]] : r = [fd |-> f, q |-> up[conns[f]][i]]
        BY <1>6, PollBatch
    <2>2. conns[f] \in Links /\ r.fd = f
        BY <1>1, <2>1 DEF Types, WireTypes
    <2>. QED  BY <2>1, <2>2 DEF Accepted
<1>7. BatchOnce'
    <2> SUFFICES ASSUME NEW r \in batch', NEW s \in batch', r.q = s.q PROVE r = s
        BY DEF BatchOnce
    <2>1. PICK i \in DOMAIN up[conns[r.fd]] : up[conns[r.fd]][i] = r.q /\ r = [fd |-> r.fd, q |-> r.q]
        BY <1>6
    <2>2. PICK j \in DOMAIN up[conns[s.fd]] : up[conns[s.fd]][j] = s.q /\ s = [fd |-> s.fd, q |-> s.q]
        BY <1>6
    <2>3. conns[r.fd] = conns[s.fd]
        BY <1>1, <1>6, <2>1, <2>2 DEF UpOnce
    <2>4. r.fd = s.fd
        BY <1>1, <1>6, <2>3, FdFacts DEF ServerEnds
    <2>. QED  BY <2>1, <2>2, <2>4
<1>8. BatchGood'
    <2> SUFFICES ASSUME NEW r \in batch' PROVE Good(r.q, conns[r.fd])' /\ Unrepeated(r.q)'
        BY DEF BatchGood
    <2>1. Good(r.q, conns[r.fd]) /\ Unrepeated(r.q)
        BY <1>1, <1>6 DEF UpGood
    <2>. QED  BY <1>6, <2>1, PollGood
<1>9. BatchCalls' \subseteq UpCalls /\ UpCalls' \cap BatchCalls' = {}
    <2> SUFFICES ASSUME NEW q \in BatchCalls' PROVE q \in UpCalls /\ q \notin UpCalls'
        OBVIOUS
    <2>1. q \in Calls /\ \E r \in batch' : r.q = q
        BY DEF BatchCalls
    <2>2. PICK r \in batch' : r.q = q
        BY <2>1
    <2>3. PICK i \in DOMAIN up[conns[r.fd]] : up[conns[r.fd]][i] = q
        BY <1>6, <2>2
    <2>4. q \in UpCalls
        BY <1>6, <2>1, <2>3 DEF UpCalls
    <2>5. ASSUME NEW l \in Links, NEW j \in DOMAIN up'[l], up'[l][j] = q PROVE FALSE
        <3>1. j \in DOMAIN up[l] /\ up[l][j] = q /\ l \notin Accepted
            BY <1>3, <2>5
        <3>2. l = conns[r.fd]
            BY <1>1, <1>6, <2>3, <3>1 DEF UpOnce
        <3>. QED  BY <1>6, <3>1, <3>2
    <2>. QED  BY <2>4, <2>5 DEF UpCalls
<1>. QED  BY <1>4, <1>5, <1>7, <1>8, <1>9

\* The answers that were written.
LEMMA PollAnswers ==
    ASSUME IInv, Poll
    PROVE  /\ OnceIn(wbuf') /\ WbufGood' /\ CallsIn(wbuf') = {}
           /\ OnceIn(down') /\ DownGood' /\ CallsIn(down') \subseteq CallsIn(down) \cup CallsIn(wbuf)
<1>1. /\ Types /\ OnceIn(wbuf) /\ OnceIn(down) /\ WbufGood /\ DownGood /\ StagesApart
      /\ wbuf \in [Links -> Seq(Frames)] /\ down \in [Links -> Seq(Frames)]
    BY DEF IInv, DeskInv, Once, AllGood, Types, WireTypes
<1>2. wbuf' = [l \in Links |-> <<>>]
    BY DEF Poll
<1>3. OnceIn(wbuf') /\ WbufGood' /\ CallsIn(wbuf') = {}
    BY <1>2 DEF OnceIn, WbufGood, CallsIn
<1>4. DOMAIN down' = Links /\ \A l \in Links : down'[l] = down[l] \/ down'[l] = down[l] \o wbuf[l]
    BY DEF Poll
<1>5. Joined(down, wbuf, down')
    <2>1. CallsIn(down) \cap CallsIn(wbuf) = {}
        BY <1>1 DEF StagesApart, Apart
    <2>2. \A s \in Frames : s.q \in Calls
        BY DEF Frames
    <2>. QED  BY <1>1, <1>4, <2>1, <2>2, FamilyJoin
<1>6. /\ OnceIn(down') /\ CallsIn(down') \subseteq CallsIn(down) \cup CallsIn(wbuf)
      /\ \A l \in Links : \A i \in DOMAIN down'[l] :
           \/ i \in DOMAIN down[l] /\ down'[l][i] = down[l][i]
           \/ \E j \in DOMAIN wbuf[l] : down'[l][i] = wbuf[l][j]
    BY <1>1, <1>5 DEF Joined
<1>7. DownGood'
    <2> SUFFICES ASSUME NEW l \in Links, NEW i \in DOMAIN down'[l]
                 PROVE  Good(down[l][i].q, l)' /\ Tells(down[l][i])'
        BY DEF DownGood
    <2>1. PICK z : z = down'[l][i]
        OBVIOUS
    <2>2. Good(z.q, l) /\ Tells(z)
        BY <1>1, <1>6, <2>1 DEF DownGood, WbufGood
    <2>. QED  BY <2>1, <2>2, PollGood
<1>. QED  BY <1>3, <1>6, <1>7

LEMMA PollSafe ==
    ASSUME IInv, Poll
    PROVE  IInv'
<1>1. /\ UNCHANGED clientVars /\ UNCHANGED <<waiting, queue, running, responses, runs, cut>>
      /\ io = "admit"
    BY DEF Poll, taskVars
<1>2. DeskInv /\ Types /\ ServerEnds /\ StagesApart
    BY DEF IInv, DeskInv, Once
<1>3. DeskInv' /\ ServerEnds'
    BY <1>2, PollDesk, PollEnds
<1>4. /\ UpOnce' /\ UpGood' /\ UpCalls' \subseteq UpCalls
      /\ BatchOnce' /\ BatchGood' /\ BatchCalls' \subseteq UpCalls
      /\ UpCalls' \cap BatchCalls' = {}
      /\ OnceIn(wbuf') /\ WbufGood' /\ CallsIn(wbuf') = {}
      /\ OnceIn(down') /\ DownGood' /\ CallsIn(down') \subseteq CallsIn(down) \cup CallsIn(wbuf)
    BY PollRequests, PollAnswers
<1>5. /\ WaitingOnce' /\ WaitingCalls' = WaitingCalls /\ RunningOnce' /\ RunningCalls' = RunningCalls
      /\ ResponsesOnce' /\ ResponseCalls' = ResponseCalls
      /\ OnceIn(queue') /\ CallsIn(queue') = CallsIn(queue)
    BY <1>1 DEF IInv, Once, WaitingOnce, WaitingCalls, RunningOnce, RunningCalls, ResponsesOnce, ResponseCalls
<1>6. Apart(UpCalls', BatchCalls', WaitingCalls', CallsIn(queue'), RunningCalls', ResponseCalls',
            CallsIn(wbuf'), CallsIn(down'))
    BY <1>2, <1>4, <1>5 DEF StagesApart, Apart
<1>7. Once'
    BY <1>4, <1>5, <1>6 DEF Once, StagesApart
<1>8. WaitingGood' /\ QueueGood' /\ RunningGood' /\ ResponsesGood'
    <2>0. WaitingGood /\ QueueGood /\ RunningGood /\ ResponsesGood
        BY DEF IInv, AllGood
    <2>1. WaitingGood'
        BY <1>1, <1>2, <2>0, PollGood, RequestFacts DEF WaitingGood
    <2>2. QueueGood'
        BY <1>1, <1>2, <2>0, PollGood, RequestFacts DEF QueueGood
    <2>3. RunningGood'
        BY <1>1, <1>2, <2>0, PollGood, RequestFacts DEF RunningGood
    <2>4. ResponsesGood'
        BY <1>1, <1>2, <2>0, PollGood, ResponseFacts DEF ResponsesGood
    <2>. QED  BY <2>1, <2>2, <2>3, <2>4
<1>9. AllGood'
    BY <1>4, <1>8 DEF AllGood
<1>10. ClientEnds' /\ OwnAnswerUnlessAbandoned'
    BY <1>1, PollGood DEF IInv, ClientEnds, OwnAnswerUnlessAbandoned, clientVars
<1>11. Counts'
    <2>0. UNCHANGED <<await, link, got, resent, cut, runs>>
        BY <1>1 DEF clientVars
    <2>1. Unreached'
        <3> SUFFICES ASSUME NEW c \in Clients, await[c] # 0, link[c] \notin Accepted'
                     PROVE  Unrun(await[c])'
            BY <2>0 DEF Unreached
        <3>1. link[c] # NoLink /\ link[c] \in Held
            BY <1>2 DEF Types, ClientTypes, Held
        <3>2. link[c] \notin Accepted
            BY <1>2, <3>1, PollPlaces DEF Accepted
        <3>3. Unrun(await[c])
            BY <3>2 DEF IInv, Counts, Unreached
        <3>. QED  BY <2>0, <3>3 DEF Unrun
    <2>2. RunsBounded'
        BY <2>0, PollGood DEF IInv, Counts, RunsBounded
    <2>3. RefusedKept'
        BY <2>0, PollGood DEF IInv, Counts, RefusedKept
    <2>. QED  BY <2>1, <2>2, <2>3 DEF Counts
<1>. QED  BY <1>3, <1>7, <1>9, <1>10, <1>11 DEF IInv

-------------------------------------------------------------------------------
(* The invariant holds throughout.                                         *)

LEMMA InitSafe == Init => IInv
<1> SUFFICES ASSUME Init PROVE IInv
    OBVIOUS
<1>1. DeskInv
    BY InitDesk
<1>2. /\ calls = <<>> /\ link = [c \in Clients |-> NoLink] /\ await = [c \in Clients |-> 0]
      /\ backlog = <<>> /\ conns = [f \in Fds |-> NoLink]
      /\ up = [l \in Links |-> <<>>] /\ wbuf = [l \in Links |-> <<>>] /\ down = [l \in Links |-> <<>>]
      /\ batch = {} /\ waiting = <<>> /\ responses = <<>>
      /\ queue = [p \in Pools |-> <<>>] /\ running = [p \in Pools |-> {}]
      /\ got = [q \in Calls |-> NoAnswer] /\ runs = [q \in Calls |-> 0]
    BY DEF Init
<1>3. Made = {} /\ Overtaken = {}
    BY <1>2 DEF Made, Overtaken
<1>4. ClientEnds
    BY <1>2 DEF ClientEnds
<1>5. ServerEnds
    <2>1. DOMAIN backlog = {} /\ (\A f \in Fds : conns[f] = NoLink)
          /\ \A l \in Links : up[l] = <<>> /\ wbuf[l] = <<>>
        BY <1>2
    <2>. QED  BY <1>2, <2>1 DEF ServerEnds
<1>6. /\ UpOnce /\ BatchOnce /\ WaitingOnce /\ RunningOnce /\ ResponsesOnce
      /\ UpCalls = {} /\ BatchCalls = {} /\ WaitingCalls = {} /\ RunningCalls = {} /\ ResponseCalls = {}
    BY <1>2 DEF UpOnce, BatchOnce, WaitingOnce, RunningOnce, ResponsesOnce, UpCalls, BatchCalls,
                WaitingCalls, RunningCalls, ResponseCalls
<1>7. /\ OnceIn(queue) /\ CallsIn(queue) = {} /\ OnceIn(wbuf) /\ CallsIn(wbuf) = {}
      /\ OnceIn(down) /\ CallsIn(down) = {}
    BY <1>2 DEF OnceIn, CallsIn
<1>8. Once
    BY <1>6, <1>7 DEF Once, StagesApart, Apart
<1>9. AllGood
    BY <1>2 DEF AllGood, UpGood, BatchGood, WaitingGood, QueueGood, RunningGood, ResponsesGood,
                WbufGood, DownGood
<1>10. Counts
    <2>1. Unreached /\ RefusedKept
        BY <1>2, <1>3 DEF Unreached, RefusedKept
    <2>2. RunsBounded
        BY <1>2 DEF RunsBounded
    <2>. QED  BY <2>1, <2>2 DEF Counts
<1>11. OwnAnswerUnlessAbandoned
    BY <1>3 DEF OwnAnswerUnlessAbandoned
<1>. QED  BY <1>1, <1>4, <1>5, <1>8, <1>9, <1>10, <1>11 DEF IInv

LEMMA NextSafe == IInv /\ [Next]_vars => IInv'
<1> SUFFICES ASSUME IInv, [Next]_vars PROVE IInv'
    OBVIOUS
<1>1. ASSUME NEW c \in Clients, ClientStep(c) PROVE IInv'
    BY <1>1, ResendSafe, ConnectSafe, SendSafe, ReceiveSafe, TimeoutSafe, LeaveSafe DEF ClientStep
<1>2. CASE Loop
    BY <1>2, PollSafe, DispatchSafe, DrainSafe, AdmitSafe, ExpireSafe DEF Loop
<1>3. ASSUME NEW p \in Pools, WorkerStep(p) PROVE IInv'
    BY <1>3, TakeSafe, ReleaseSafe, WorkSafe DEF WorkerStep
<1>4. CASE Stop
    BY <1>4, StopSafe
<1>5. CASE Restart \/ UNCHANGED vars
    BY <1>5, RestartSafe
<1>. QED  BY <1>1, <1>2, <1>3, <1>4, <1>5 DEF Next

LEMMA Inductive == Spec => []IInv
BY InitSafe, NextSafe, PTL DEF Spec

\* Every variable keeps its type; in particular queues, pools and the waiting room keep
\* their limits and no handler runs a third time for a call.
THEOREM TypeCorrect == Spec => []TypeOK
<1>1. IInv => TypeOK
    <2> SUFFICES ASSUME IInv PROVE TypeOK
        OBVIOUS
    <2>1. Types /\ RunsBounded /\ Made \subseteq Calls
        BY MadeFacts DEF IInv, DeskInv, Counts
    <2>2. /\ calls \in Seq(UNION {Kinds[c] : c \in Clients}) /\ Len(calls) <= MaxCalls
          /\ link \in [Clients -> Links \cup {NoLink}]
          /\ await \in [Clients -> 0 .. MaxCalls]
          /\ resent \subseteq Calls /\ abandoned \subseteq Calls /\ cut \subseteq Calls
          /\ got \in [Calls -> Frames \cup {NoAnswer}]
        <3>1. Made \cup {0} \subseteq 0 .. MaxCalls
            BY <2>1, Bounds DEF Calls
        <3>2. await \in [Clients -> 0 .. MaxCalls]
            BY <2>1, <3>1 DEF Types, ClientTypes
        <3>. QED  BY <2>1, <3>2 DEF Types, ClientTypes, CallKinds
    <2>3. /\ backlog \in Seq(Links) /\ conns \in [Fds -> Links \cup {NoLink}]
          /\ up \in [Links -> Seq(Calls)]
          /\ wbuf \in [Links -> Seq(Frames)] /\ down \in [Links -> Seq(Frames)]
          /\ io \in {"admit", "dispatch", "down"} /\ stops \in 0 .. MaxStops
        <3>1. Seq(Made) \subseteq Seq(Calls)
            BY <2>1
        <3>2. up \in [Links -> Seq(Calls)]
            BY <2>1, <3>1 DEF Types, WireTypes
        <3>. QED  BY <2>1, <3>2 DEF Types, WireTypes
    <2>4. MadeRequests \subseteq Requests /\ Seq(MadeRequests) \subseteq Seq(Requests)
        <3>1. MadeRequests \subseteq Requests
            BY <2>1 DEF MadeRequests, Requests
        <3>. QED  BY <3>1
    <2>5. /\ batch \subseteq Requests /\ waiting \in Seq(Requests) /\ Len(waiting) <= Depth
          /\ responses \in Seq([fd : Fds, frame : Frames])
        BY <2>1, <2>4 DEF Types, DeskTypes, Responses
    <2>6. /\ queue \in [Pools -> Seq(Requests)]
          /\ \A p \in Pools : Len(queue[p]) <= PoolDepth(p)
          /\ running \in [Pools -> SUBSET [fd : Fds, q : Calls, done : BOOLEAN]]
          /\ \A p \in Pools : Cardinality(running[p]) <= PoolWorkers(p)
          /\ inflight \subseteq Exclusive
        <3>1. Tasks \subseteq [fd : Fds, q : Calls, done : BOOLEAN]
            BY <2>1 DEF Tasks
        <3>2. queue \in [Pools -> Seq(Requests)]
            BY <2>1, <2>4 DEF Types, PoolTypes
        <3>3. running \in [Pools -> SUBSET [fd : Fds, q : Calls, done : BOOLEAN]]
            BY <2>1, <3>1 DEF Types, PoolTypes
        <3>. QED  BY <2>1, <3>2, <3>3 DEF Types, PoolTypes
    <2>7. runs \in [Calls -> 0 .. 2]
        <3>1. runs \in [Calls -> Nat] /\ \A q \in Calls : runs[q] \in Nat /\ runs[q] <= 2
            BY <2>1 DEF Types, PoolTypes, RunsBounded
        <3>. QED  BY <3>1
    <2>. QED  BY <2>2, <2>3, <2>5, <2>6, <2>7 DEF TypeOK
<1>. QED  BY <1>1, Inductive, PTL

\* Whoever takes an answer takes its own, or one that a call given up before has let
\* through: descriptors that are closed and reused while handlers run, and frames that
\* all carry the id 1, never cross the answers of two calls that are waited for.
THEOREM OwnAnswer == Spec => []OwnAnswerUnlessAbandoned
<1>1. IInv => OwnAnswerUnlessAbandoned
    BY DEF IInv
<1>. QED  BY <1>1, Inductive, PTL

\* A refused call has not been and will not be executed, unless a shutdown closed its
\* connection, and only then the client's retry executes a call again, once.
THEOREM EffectsMatch == Spec => []EffectsMatchAnswers
<1>1. IInv => EffectsMatchAnswers
    <2> SUFFICES ASSUME IInv, NEW q \in Made
                 PROVE  /\ got[q].q = q /\ got[q].ans = "refused" /\ q \notin cut => runs[q] = 0
                        /\ runs[q] <= 1 \/ (q \in cut /\ runs[q] = 2)
        BY DEF EffectsMatchAnswers
    <2>1. q \in Calls
        BY MadeFacts DEF IInv, DeskInv
    <2>. QED  BY <2>1 DEF IInv, Counts, RunsBounded, RefusedKept, Unrun
<1>. QED  BY <1>1, Inductive, PTL

-------------------------------------------------------------------------------
(* The server and its clients keep the promise of RemoteCalls.             *)

LEMMA CallMade ==
    ASSUME NEW c \in Clients, NEW k \in Kinds[c],
           (\E l \in Links : Connect(c, l, k)) \/ Send(c, k)
    PROVE  RemoteCallsSpec!Make(k) /\ k \in UNION {Kinds[d] : d \in Clients}
BY DEF Connect, Send, RemoteCallsSpec!Make

\* Calls as RemoteCalls has them.
LEMMA SameWords ==
    ASSUME Types
    PROVE  /\ RemoteCallsSpec!Made = Made
           /\ RemoteCallsSpec!Overtaken = Overtaken
           /\ \A q : Untaken(q) => RemoteCallsSpec!Untaken(q)
           /\ \A q \in Made : Untaken(q) /\ Unrepeated(q) => q \in RemoteCallsSpec!Due
           /\ \A frame : Tells(frame) => RemoteCallsSpec!Tells(frame)
<1>1. /\ RemoteCallsSpec!Made = Made
      /\ RemoteCallsSpec!Overtaken = Overtaken
    BY DEF RemoteCallsSpec!Made, Made, RemoteCallsSpec!Overtaken, Overtaken
<1>2. \A q : Untaken(q) => RemoteCallsSpec!Untaken(q)
    BY <1>1, MadeFacts DEF Untaken, RemoteCallsSpec!Untaken
<1>3. \A q \in Made : Untaken(q) /\ Unrepeated(q) => q \in RemoteCallsSpec!Due
    BY <1>1, <1>2 DEF Unrepeated, RemoteCallsSpec!Due
<1>4. \A frame : Tells(frame) => RemoteCallsSpec!Tells(frame)
    BY DEF Tells, Unrun, RemoteCallsSpec!Tells
<1>. QED  BY <1>1, <1>2, <1>3, <1>4

\* A call that a client waits for is open.
LEMMA WaitedOpen ==
    ASSUME IInv, NEW c \in Clients, await[c] # 0
    PROVE  await[c] \in RemoteCallsSpec!Open /\ await[c] \in Calls
<1>1. Types /\ ClientEnds
    BY DEF IInv, DeskInv
<1>2. await[c] \in Made /\ await[c] \in Calls
    BY <1>1, AwaitFacts
<1>3. got[await[c]] = RemoteCallsSpec!NoAnswer /\ await[c] \notin abandoned
    BY <1>1 DEF ClientEnds, NoAnswer, RemoteCallsSpec!NoAnswer
<1>4. await[c] \in RemoteCallsSpec!Made
    BY <1>1, <1>2, SameWords
<1>. QED  BY <1>2, <1>3, <1>4 DEF RemoteCallsSpec!Open

\* The client reads the answer of its call or of one that nobody waits for, and the
\* frame was on the client's own connection: any other call it can belong to is waited
\* for on another one.
LEMMA AnswerTaken ==
    ASSUME IInv, NEW c \in Clients, Receive(c)
    PROVE  (\E q \in Calls, frame \in Frames : RemoteCallsSpec!Answer(q, frame))
           \/ UNCHANGED RemoteCallsSpec!callVars
<1>1. CASE UNCHANGED got
    BY <1>1 DEF Receive, RemoteCallsSpec!callVars
<1>2. CASE ~UNCHANGED got
    <2> DEFINE n == await[c]
               l == link[c]
               frame == Head(down[l])
    <2>1. /\ n # 0 /\ down[l] # <<>> /\ got' = [got EXCEPT ![n] = frame]
          /\ UNCHANGED <<calls, runs, abandoned, cut>>
        BY <1>2 DEF Receive
    <2>2. Types /\ DownGood /\ ClientEnds
        BY DEF IInv, DeskInv, AllGood
    <2>3. l \in Links /\ n \in Calls
        BY <2>1, <2>2, AwaitFacts
    <2>4. frame = down[l][1] /\ 1 \in DOMAIN down[l] /\ frame \in Frames
        <3>1. down[l] \in Seq(Frames)
            BY <2>2, <2>3 DEF Types, WireTypes
        <3>. QED  BY <2>1, <3>1
    <2>5. Good(frame.q, l) /\ Tells(frame)
        BY <2>2, <2>3, <2>4 DEF DownGood
    <2>6. frame.q \in {n} \cup abandoned \cup Overtaken
        <3>1. ASSUME NEW d \in Clients, await[d] = frame.q PROVE d = c
            <4>1. link[d] = l /\ l # NoLink
                BY <2>2, <2>3, <2>5, <3>1, AwaitFacts DEF Good, NoLink
            <4>. QED  BY <2>2, <4>1 DEF ClientEnds
        <3>. QED  BY <2>5, <3>1 DEF Good
    <2>7. n \in RemoteCallsSpec!Open
        BY <2>1, WaitedOpen
    <2>8. RemoteCallsSpec!Untaken(frame.q) /\ RemoteCallsSpec!Tells(frame)
        BY <2>2, <2>5, SameWords DEF Good
    <2>9. frame.q \in {n} \cup abandoned \cup RemoteCallsSpec!Overtaken
        BY <2>2, <2>6, SameWords
    <2> HIDE DEF n, l, frame
    <2>10. RemoteCallsSpec!Answer(n, frame)
        BY <2>1, <2>7, <2>8, <2>9 DEF RemoteCallsSpec!Answer
    <2>. QED  BY <2>3, <2>4, <2>10
<1>. QED  BY <1>1, <1>2

LEMMA CallGivenUp ==
    ASSUME IInv, NEW c \in Clients, Timeout(c) \/ Fail(c)
    PROVE  \E q \in Calls : RemoteCallsSpec!GiveUp(q)
<1>1. /\ await[c] # 0 /\ abandoned' = abandoned \cup {await[c]}
      /\ UNCHANGED <<calls, runs, got, cut>>
    BY DEF Timeout, Fail, Lost
<1>2. await[c] \in RemoteCallsSpec!Open /\ await[c] \in Calls
    BY <1>1, WaitedOpen
<1>3. RemoteCallsSpec!GiveUp(await[c])
    BY <1>1, <1>2 DEF RemoteCallsSpec!GiveUp
<1>. QED  BY <1>2, <1>3

\* What is on a worker was not executed before, or was cut off and sent again.
LEMMA HandlerRun ==
    ASSUME IInv, NEW p \in Pools, NEW t \in running[p], NEW ans \in Answers, Work(p, t, ans)
    PROVE  \E q \in Calls : RemoteCallsSpec!Run(q)
<1>1. /\ ~t.done /\ runs' = [runs EXCEPT ![t.q] = @ + 1]
      /\ UNCHANGED <<calls, got, abandoned, cut>>
    BY DEF Work, clientVars
<1>2. Types /\ RunningGood /\ runs \in [Calls -> Nat]
    BY DEF IInv, DeskInv, AllGood, Types, PoolTypes
<1>3. t.q \in Made /\ t.q \in Calls
    BY <1>2, RequestFacts, MadeFacts
<1>4. Untaken(t.q) /\ Unrepeated(t.q)
    BY <1>1, <1>2 DEF RunningGood, Good
<1>5. t.q \in RemoteCallsSpec!Due
    BY <1>2, <1>3, <1>4, SameWords
<1>6. RemoteCallsSpec!Execute({t.q})
    BY <1>1, <1>2 DEF RemoteCallsSpec!Execute
<1>7. RemoteCallsSpec!Run(t.q)
    BY <1>1, <1>5, <1>6 DEF RemoteCallsSpec!Run
<1>. QED  BY <1>3, <1>7

\* A shutdown cuts off calls that are waited for and executes some that are pending.
LEMMA StopShutsDown ==
    ASSUME IInv, Stop
    PROVE  RemoteCallsSpec!Shutdown
<1>1. UNCHANGED <<calls, got, abandoned>>
    BY DEF Stop, clientVars
<1>2. \E Q \in SUBSET RemoteCallsSpec!Open : cut' = cut \cup Q
    <2>1. cut' = cut \cup {await[c] : c \in {d \in Clients : await[d] # 0}}
        BY DEF Stop
    <2>2. {await[c] : c \in {d \in Clients : await[d] # 0}} \in SUBSET RemoteCallsSpec!Open
        BY WaitedOpen
    <2>. QED  BY <2>1, <2>2
<1>3. \E Q \in SUBSET RemoteCallsSpec!Due : RemoteCallsSpec!Execute(Q)
    <2>1. PICK ran \in SUBSET Pending :
                 runs' = [q \in Calls |-> IF q \in ran THEN runs[q] + 1 ELSE runs[q]]
        BY DEF Stop
    <2>2. ran \in SUBSET RemoteCallsSpec!Due
        <3>1. Types
            BY DEF IInv, DeskInv
        <3>2. \A q \in Pending : q \in Made /\ Untaken(q) /\ Unrepeated(q)
            BY PendingFacts
        <3>. QED  BY <2>1, <3>1, <3>2, SameWords
    <2>3. RemoteCallsSpec!Execute(ran)
        BY <2>1 DEF RemoteCallsSpec!Execute
    <2>. QED  BY <2>2, <2>3
<1>. QED  BY <1>1, <1>2, <1>3 DEF RemoteCallsSpec!Shutdown

\* Connections, the loop and the pools' queues are not seen by the callers.
LEMMA UnseenSteps ==
    ASSUME \/ \E c \in Clients : Leave(c) \/ \E l \in Links : Resend(c, l)
           \/ Poll \/ (\E r \in batch : Dispatch(r)) \/ Drain \/ Admit \/ Expire
           \/ \E p \in Pools : Take(p) \/ \E t \in running[p] : Release(p, t)
           \/ Restart \/ UNCHANGED vars
    PROVE  UNCHANGED RemoteCallsSpec!callVars
<1>1. CASE \E c \in Clients : Leave(c) \/ \E l \in Links : Resend(c, l)
    BY <1>1 DEF Leave, Resend, RemoteCallsSpec!callVars
<1>2. CASE Poll \/ Drain \/ Admit \/ Expire
    BY <1>2 DEF Poll, Drain, Admit, Expire, clientVars, taskVars, RemoteCallsSpec!callVars
<1>3. CASE \E r \in batch : Dispatch(r)
    BY <1>3 DEF Dispatch, clientVars, RemoteCallsSpec!callVars
<1>4. CASE \E p \in Pools : Take(p) \/ \E t \in running[p] : Release(p, t)
    BY <1>4 DEF Take, Release, clientVars, RemoteCallsSpec!callVars
<1>5. CASE Restart \/ UNCHANGED vars
    BY <1>5 DEF Restart, vars, clientVars, taskVars, RemoteCallsSpec!callVars
<1>. QED  BY <1>1, <1>2, <1>3, <1>4, <1>5

LEMMA StepKeepsPromise ==
    ASSUME IInv, [Next]_vars
    PROVE  [RemoteCallsSpec!Next]_(RemoteCallsSpec!callVars)
<1>1. ASSUME NEW c \in Clients, ClientStep(c)
      PROVE  [RemoteCallsSpec!Next]_(RemoteCallsSpec!callVars)
    BY <1>1, CallMade, AnswerTaken, CallGivenUp, UnseenSteps DEF ClientStep, RemoteCallsSpec!Next
<1>2. CASE Loop
    BY <1>2, UnseenSteps DEF Loop
<1>3. ASSUME NEW p \in Pools, WorkerStep(p)
      PROVE  [RemoteCallsSpec!Next]_(RemoteCallsSpec!callVars)
    BY <1>3, HandlerRun, UnseenSteps DEF WorkerStep, RemoteCallsSpec!Next
<1>4. CASE Stop
    BY <1>4, StopShutsDown DEF RemoteCallsSpec!Next
<1>5. CASE Restart \/ UNCHANGED vars
    BY <1>5, UnseenSteps
<1>. QED  BY <1>1, <1>2, <1>3, <1>4, <1>5 DEF Next

\* Through lost, reused and misdirected connections, full queues, expired waits, handlers
\* that throw, retries and shutdowns, the callers see what RemoteCalls promises: a call
\* is executed once and not after its answer, no answer is taken twice, and it tells
\* whether its call was executed.
THEOREM Refinement == Spec => ImplementsRemoteCalls
<1>1. Init => RemoteCallsSpec!Init
    BY DEF Init, RemoteCallsSpec!Init, NoAnswer, RemoteCallsSpec!NoAnswer
<1>2. IInv /\ [Next]_vars => [RemoteCallsSpec!Next]_(RemoteCallsSpec!callVars)
    BY StepKeepsPromise
<1>. QED  BY <1>1, <1>2, Inductive, PTL DEF Spec, ImplementsRemoteCalls, RemoteCallsSpec!Spec
===============================================================================
