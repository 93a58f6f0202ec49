-------------------------- MODULE SadhanaManagerProofs --------------------------
(***************************************************************************)
(* The safety properties of SadhanaManager for any number of agents, tool  *)
(* calls and restarts, and any limits.                                     *)
(***************************************************************************)
EXTENDS SadhanaManager, FiniteSetTheorems, TLAPS

-------------------------------------------------------------------------------
(* The inductive invariant.                                                *)

\* Where a thread is inside start, pause or stop, or about to write a payload.
Procedures == {"startGet", "startRoom", "startPut", "startInsert", "pauseErase", "pauseGet",
               "pausePut", "stopErase", "stopGet", "stopPut"}
Busy == Procedures \cup {"setPut", "checkpointPut"}
TickPlaces == Procedures \cup {"idle", "next", "lookup", "think", "judge", "spawn", "complete", "delay"}
RpcPlaces == Busy \cup {"idle"}

Tasks == [state : States, goal : 0 .. 1, iterations : Nat]

StoreTypes ==
    /\ task \in [Ids -> Tasks]
    /\ running \subseteq Ids /\ due \subseteq running /\ fails \in [Ids -> Nat]

HistoryTypes ==
    /\ gaps \in [Ids -> SUBSET {"staleWrite", "overlap", "crowded", "interrupted", "torn", "revived", "threw"}]
    /\ cycles \in [Ids -> Nat] /\ streak \in [Ids -> Nat]
    /\ ops \in 0 .. MaxOps /\ restarts \in 0 .. MaxRestarts

ThreadTypes ==
    /\ at \in [Threads -> Busy \cup TickPlaces]
    /\ at["tick"] \in TickPlaces /\ at["rpc"] \in RpcPlaces
    /\ on \in [Threads -> Ids \cup {NoId}]
    /\ snap \in [Threads -> Tasks]
    /\ back \in [Threads -> {"idle", "next", "delay", "complete"}] /\ back["rpc"] = "idle"

CycleTypes ==
    /\ batch \subseteq Ids /\ cyc \in Ids \cup {NoId}
    /\ out \in Outcomes \cup {"none"} /\ dangling \in BOOLEAN

\* A thread works on an agent exactly while it is in a procedure, and the tick knows
\* the agent of its cycle until the cycle is over.
Working ==
    /\ \A t \in Threads : on[t] \in Ids <=> at[t] \in Busy
    /\ cyc = NoId => \/ at["tick"] \in {"idle", "next"}
                     \/ at["tick"] \in Busy /\ back["tick"] \in {"idle", "next"}

\* Only agents that were created are scheduled or worked on, and no copy of a payload
\* that is going to be written is that of a task which does not exist.
Existing ==
    /\ \A i \in Ids : ~Exists(i) => task[i] = NoTask
    /\ \A i \in running \cup batch : Exists(i)
    /\ \A t \in Threads : on[t] \in Ids => Exists(on[t])
    /\ cyc \in Ids => Exists(cyc)
    /\ \A t \in Threads :
        at[t] \in {"startRoom", "startPut", "pausePut", "stopPut", "setPut", "checkpointPut",
                   "lookup", "think"} => snap[t].state # "none"

Shape == StoreTypes /\ HistoryTypes /\ ThreadTypes /\ CycleTypes /\ Working /\ Existing

Clean(i) == gaps[i] \cap {"staleWrite", "overlap"} = {}
Taken == {"pauseGet", "pausePut", "stopGet", "stopPut"}

\* While a thread has only made one half of its change, the other half is known.
HalfWay ==
    \A i \in Ids : Clean(i) =>
        /\ \A t \in Threads : on[t] = i =>
            /\ at[t] \in {"startInsert", "pauseGet", "pausePut"} => task[i].state = "running"
            /\ at[t] \in Taken => i \notin running
        /\ (\A t \in Threads : on[t] = i => at[t] \notin Taken \cup {"startInsert"})
                => (i \in running <=> task[i].state = "running")

\* What start checked of its copy.
CheckedStart ==
    \A t \in Threads : at[t] \in {"startRoom", "startPut"} => snap[t].state \in Startable

\* The copy a cycle will write back has passed the circuit breaker.
CheckedCycle ==
    at["tick"] \in {"lookup", "think"} => snap["tick"].iterations < MaxIterations

NoGaps == \A i \in Ids : gaps[i] \subseteq {"torn", "threw"}

\* A start that has passed the check of the limit still has its room.
RoomKept ==
    NoGaps /\ (\E t \in Threads : at[t] \in {"startPut", "startInsert"})
        => Cardinality(running) < MaxConcurrent

\* Every failure of the agent went to the counter of its entry.
Counted(i) == gaps[i] \cap {"torn", "threw"} = {}

\* That counter never lags behind the failures in a row.
Counting ==
    /\ at["tick"] \in {"think", "judge"} /\ dangling => "torn" \in gaps[cyc]
    /\ \A i \in running : Counted(i) =>
        \/ at["tick"] = "pauseErase" /\ on["tick"] = i
        \/ /\ fails[i] < MaxFailures
           /\ streak[i] <= IF at["tick"] = "judge" /\ cyc = i
                           THEN IF Failed(out) THEN fails[i] + 1 ELSE 0
                           ELSE fails[i]

Rest ==
    /\ HalfWay /\ CheckedStart /\ CheckedCycle /\ RoomKept /\ Counting
    /\ CyclesAreCounted /\ StoppedUnlessOverwritten /\ LimitHolds

IInv == Shape /\ Rest

-------------------------------------------------------------------------------
(* The store and the threads.                                              *)

LEMMA TasksFacts ==
    /\ NoTask \in Tasks /\ NewTask \in Tasks /\ NoTask.state = "none" /\ NewTask.state = "pending"
    /\ NoTask.iterations = 0 /\ NewTask.iterations = 0
BY DEF NoTask, NewTask, Tasks, States

\* What writing a payload back does, and what it leaves on record.
LEMMA PutFacts ==
    ASSUME task \in [Ids -> Tasks],
           gaps \in [Ids -> SUBSET {"staleWrite", "overlap", "crowded", "interrupted", "torn", "revived", "threw"}],
           NEW t \in Threads, NEW i \in Ids, NEW new \in Tasks, NEW old, Put(t, i, new, old)
    PROVE  /\ task' \in [Ids -> Tasks] /\ task'[i] = new /\ \A j \in Ids : j # i => task'[j] = task[j]
           /\ gaps' \in [Ids -> SUBSET {"staleWrite", "overlap", "crowded", "interrupted", "torn", "revived", "threw"}]
           /\ \A j \in Ids : gaps[j] \subseteq gaps'[j] /\ (j # i => gaps'[j] = gaps[j])
           /\ \A j \in Ids : ("torn" \in gaps'[j] <=> "torn" \in gaps[j]) /\ (Counted(j)' <=> Counted(j))
           /\ "staleWrite" \notin gaps'[i] => task[i] = old
           /\ "overlap" \notin gaps'[i] => \A u \in Threads \ {t} : on[u] # i
           /\ "crowded" \notin gaps'[i] /\ at[t] \in {"startPut", "startInsert"} =>
                  \A u \in Threads \ {t} : at[u] \notin {"startPut", "startInsert"}
           /\ "revived" \in gaps'[i] => \/ "revived" \in gaps[i]
                                        \/ task[i].state \in Finished /\ new.state \notin Finished
<1>1. task' = [task EXCEPT ![i] = new]
    BY DEF Put
<1>2. gaps'[i] = gaps[i] \cup Races(t, i) \cup (IF task[i] = old THEN {} ELSE {"staleWrite"})
                         \cup Revives(i, new)
      /\ gaps' = [gaps EXCEPT ![i] = gaps'[i]]
    BY DEF Put
<1>3. Races(t, i) \subseteq {"overlap", "crowded"} /\ Revives(i, new) \subseteq {"revived"}
    BY DEF Races, Revives
<1>4. "overlap" \notin Races(t, i) => \A u \in Threads \ {t} : on[u] # i
    BY DEF Races
<1>5. "crowded" \notin Races(t, i) /\ at[t] \in {"startPut", "startInsert"} =>
          \A u \in Threads \ {t} : at[u] \notin {"startPut", "startInsert"}
    BY DEF Races
<1>6. "revived" \in Revives(i, new) => task[i].state \in Finished /\ new.state \notin Finished
    BY DEF Revives
<1>7. gaps' \in [Ids -> SUBSET {"staleWrite", "overlap", "crowded", "interrupted", "torn", "revived", "threw"}]
    <2>1. gaps'[i] \in SUBSET {"staleWrite", "overlap", "crowded", "interrupted", "torn", "revived", "threw"}
        BY <1>2, <1>3
    <2>. QED  BY <1>2, <2>1
<1>8. \A j \in Ids : gaps[j] \subseteq gaps'[j] /\ (j # i => gaps'[j] = gaps[j])
    BY <1>2
<1>9. \A j \in Ids : ("torn" \in gaps'[j] <=> "torn" \in gaps[j]) /\ (Counted(j)' <=> Counted(j))
    BY <1>2, <1>3, <1>8 DEF Counted
<1>10. "staleWrite" \notin gaps'[i] => task[i] = old
    BY <1>2
<1>11. "overlap" \notin gaps'[i] => \A u \in Threads \ {t} : on[u] # i
    BY <1>2, <1>4
<1>12. "crowded" \notin gaps'[i] /\ at[t] \in {"startPut", "startInsert"} =>
           \A u \in Threads \ {t} : at[u] \notin {"startPut", "startInsert"}
    BY <1>2, <1>5
<1>13. "revived" \in gaps'[i] => \/ "revived" \in gaps[i]
                                 \/ task[i].state \in Finished /\ new.state \notin Finished
    BY <1>2, <1>3, <1>6
<1>. QED  BY <1>1, <1>7, <1>8, <1>9, <1>10, <1>11, <1>12, <1>13

\* A thread enters, goes on in or leaves a procedure.
LEMMA GotoTypes ==
    ASSUME ThreadTypes, NEW t \in Threads, NEW pc, Goto(t, pc),
           pc \in IF t = "tick" THEN TickPlaces ELSE RpcPlaces
    PROVE  /\ at' \in [Threads -> Busy \cup TickPlaces]
           /\ at'["tick"] \in TickPlaces /\ at'["rpc"] \in RpcPlaces
           /\ at'[t] = pc /\ \A u \in Threads : u # t => at'[u] = at[u]
BY DEF ThreadTypes, Goto, Threads, TickPlaces, RpcPlaces, Busy, Procedures

LEMMA ReturnTypes ==
    ASSUME ThreadTypes, NEW t \in Threads, Return(t), UNCHANGED back
    PROVE  /\ ThreadTypes' /\ at'[t] = back[t] /\ on'[t] = NoId /\ snap'[t] = NoTask
           /\ \A u \in Threads : u # t => at'[u] = at[u] /\ on'[u] = on[u] /\ snap'[u] = snap[u]
<1>1. Goto(t, back[t]) /\ back[t] \in IF t = "tick" THEN TickPlaces ELSE RpcPlaces
    BY DEF ThreadTypes, Return, Threads, TickPlaces, RpcPlaces
<1>2. /\ on' = [on EXCEPT ![t] = NoId] /\ snap' = [snap EXCEPT ![t] = NoTask]
    BY DEF Return
<1>3. on' \in [Threads -> Ids \cup {NoId}] /\ snap' \in [Threads -> Tasks]
    BY <1>2, TasksFacts DEF ThreadTypes
<1>4. /\ at' \in [Threads -> Busy \cup TickPlaces]
      /\ at'["tick"] \in TickPlaces /\ at'["rpc"] \in RpcPlaces
      /\ at'[t] = back[t] /\ \A u \in Threads : u # t => at'[u] = at[u]
    BY <1>1, GotoTypes
<1>5. ThreadTypes'
    BY <1>3, <1>4 DEF ThreadTypes
<1>. QED  BY <1>2, <1>4, <1>5 DEF ThreadTypes

LEMMA CallTypes ==
    ASSUME ThreadTypes, NEW t \in Threads, NEW pc, NEW i \in Ids, NEW ret, Call(t, pc, i, ret),
           pc \in IF t = "tick" THEN TickPlaces ELSE RpcPlaces,
           ret \in IF t = "tick" THEN {"idle", "next", "delay", "complete"} ELSE {"idle"}
    PROVE  /\ at' \in [Threads -> Busy \cup TickPlaces]
           /\ at'["tick"] \in TickPlaces /\ at'["rpc"] \in RpcPlaces
           /\ on' \in [Threads -> Ids \cup {NoId}]
           /\ back' \in [Threads -> {"idle", "next", "delay", "complete"}] /\ back'["rpc"] = "idle"
           /\ at'[t] = pc /\ on'[t] = i /\ back'[t] = ret
           /\ \A u \in Threads : u # t => at'[u] = at[u] /\ on'[u] = on[u] /\ back'[u] = back[u]
<1>1. Goto(t, pc) /\ on' = [on EXCEPT ![t] = i] /\ back' = [back EXCEPT ![t] = ret]
    BY DEF Call
<1>2. on' \in [Threads -> Ids \cup {NoId}] /\ on'[t] = i /\ \A u \in Threads : u # t => on'[u] = on[u]
    BY <1>1 DEF ThreadTypes
<1>3. /\ back' \in [Threads -> {"idle", "next", "delay", "complete"}] /\ back'["rpc"] = "idle"
      /\ back'[t] = ret /\ \A u \in Threads : u # t => back'[u] = back[u]
    BY <1>1 DEF ThreadTypes, Threads
<1>. QED  BY <1>1, <1>2, <1>3, GotoTypes

-------------------------------------------------------------------------------
(* Types, and what exists.                                                 *)

Stored ==
    /\ StoreTypes /\ HistoryTypes /\ CycleTypes
    /\ \A i \in Ids : ~Exists(i) => task[i] = NoTask
    /\ \A i \in running \cup batch : Exists(i)
    /\ cyc \in Ids => Exists(cyc)

\* The store and the table keep their shape, and no task disappears.
Grown == Stored' /\ \A i \in Ids : Exists(i) => Exists(i)'

LEMMA ShapeParts == Shape => Stored
BY DEF Shape, Stored, Existing

LEMMA SameStore ==
    ASSUME Stored, UNCHANGED <<task, table, cycle, history, ops, restarts>>
    PROVE  Grown
BY DEF Stored, Grown, StoreTypes, HistoryTypes, CycleTypes, Exists, table, cycle, history

LEMMA PutGrows ==
    ASSUME Stored, NEW t \in Threads, NEW i \in Ids, NEW new \in Tasks, NEW old, Put(t, i, new, old),
           Exists(i), new.state # "none",
           UNCHANGED <<table, batch, cyc, dangling, ops, restarts>>, out' \in Outcomes \cup {"none"},
           cycles' \in [Ids -> Nat], streak' \in [Ids -> Nat]
    PROVE  Grown
<1>1. /\ task' \in [Ids -> Tasks] /\ task'[i] = new /\ \A j \in Ids : j # i => task'[j] = task[j]
      /\ gaps' \in [Ids -> SUBSET {"staleWrite", "overlap", "crowded", "interrupted", "torn", "revived", "threw"}]
    BY PutFacts DEF Stored, StoreTypes, HistoryTypes
<1>2. StoreTypes' /\ HistoryTypes' /\ CycleTypes'
    BY <1>1 DEF Stored, StoreTypes, HistoryTypes, CycleTypes, table
<1>3. \A j \in Ids : Exists(j)' <=> Exists(j)
    BY <1>1 DEF Exists
<1>4. running' = running /\ batch' = batch /\ cyc' = cyc /\ running \subseteq Ids /\ batch \subseteq Ids
    BY DEF table, Stored, StoreTypes, CycleTypes
<1>. QED  BY <1>1, <1>2, <1>3, <1>4 DEF Stored, Grown, Exists

LEMMA EraseGrows ==
    ASSUME Stored, NEW i \in Ids, Erase(i), UNCHANGED <<task, fails, batch, cyc, out, cycles, streak, ops, restarts>>
    PROVE  Grown
<1>1. gaps' \in [Ids -> SUBSET {"staleWrite", "overlap", "crowded", "interrupted", "torn", "revived", "threw"}]
    BY DEF Stored, HistoryTypes, Erase
<1>2. running' \subseteq running /\ due' \subseteq running' /\ dangling' \in BOOLEAN
    BY DEF Erase, Stored, StoreTypes, CycleTypes
<1>. QED  BY <1>1, <1>2 DEF Stored, Grown, StoreTypes, HistoryTypes, CycleTypes, Exists

\* A thread leaves its procedure.
LEMMA ReturnShape ==
    ASSUME Shape, NEW t \in Threads, at[t] \in Busy, Return(t), back' = back, cyc' = cyc, Grown
    PROVE  Shape'
<1>1. /\ ThreadTypes' /\ at'[t] = back[t] /\ on'[t] = NoId /\ snap'[t] = NoTask
      /\ \A u \in Threads : u # t => at'[u] = at[u] /\ on'[u] = on[u] /\ snap'[u] = snap[u]
    BY ReturnTypes DEF Shape
<1>2. Working'
    BY <1>1 DEF Shape, Working, ThreadTypes, Busy, Procedures, Threads, NoId, Ids
<1>3. Existing'
    <2>1. \A u \in Threads : (on[u] \in Ids => Exists(on[u]))'
        BY <1>1 DEF Shape, Existing, Grown, NoId, Ids, Exists
    <2>2. \A u \in Threads :
            at'[u] \in {"startRoom", "startPut", "pausePut", "stopPut", "setPut", "checkpointPut",
                        "lookup", "think"} => snap'[u].state # "none"
        BY <1>1 DEF Shape, Existing, ThreadTypes
    <2>. QED  BY <2>1, <2>2 DEF Existing, Grown, Stored, Exists
<1>. QED  BY <1>1, <1>2, <1>3 DEF Shape, Grown, Stored

\* A thread goes on in its procedure, perhaps with a new copy of the payload.
LEMMA GoOnShape ==
    ASSUME Shape, NEW t \in Threads, at[t] \in Busy, NEW pc \in Procedures, Goto(t, pc),
           UNCHANGED <<on, back>>, cyc' = cyc, Grown,
           \/ Get(t)
           \/ snap' = snap /\ (pc \in {"startGet", "startInsert", "pauseErase", "pauseGet", "stopErase", "stopGet"}
                               \/ snap[t].state # "none")
    PROVE  Shape'
<1>1. /\ at' \in [Threads -> Busy \cup TickPlaces]
      /\ at'["tick"] \in TickPlaces /\ at'["rpc"] \in RpcPlaces
      /\ at'[t] = pc /\ \A u \in Threads : u # t => at'[u] = at[u]
    BY GotoTypes DEF Shape, TickPlaces, RpcPlaces, Busy
<1>2. on[t] \in Ids /\ Exists(on[t]) /\ task[on[t]] \in Tasks
    BY DEF Shape, Working, Existing, StoreTypes
<1>3. /\ snap' \in [Threads -> Tasks] /\ \A u \in Threads : u # t => snap'[u] = snap[u]
      /\ snap'[t] = snap[t] \/ snap'[t].state # "none"
      /\ pc \in {"startRoom", "startPut", "pausePut", "stopPut"} => snap'[t].state # "none"
    BY <1>2 DEF Shape, ThreadTypes, Get, Exists
<1>4. ThreadTypes'
    BY <1>1, <1>3 DEF Shape, ThreadTypes
<1>5. Working'
    BY <1>1 DEF Shape, Working, ThreadTypes, Busy, Procedures, Threads
<1>6. Existing'
    <2>1. \A u \in Threads : (on[u] \in Ids => Exists(on[u]))'
        BY DEF Shape, Existing, Grown, Exists
    <2>2. \A u \in Threads :
            at'[u] \in {"startRoom", "startPut", "pausePut", "stopPut", "setPut", "checkpointPut",
                        "lookup", "think"} => snap'[u].state # "none"
        BY <1>1, <1>3 DEF Shape, Existing, Procedures
    <2>. QED  BY <2>1, <2>2 DEF Existing, Grown, Stored, Exists
<1>. QED  BY <1>4, <1>5, <1>6 DEF Shape, Grown, Stored

\* A thread enters a procedure.
LEMMA CallShape ==
    ASSUME Shape, NEW t \in Threads, at[t] \notin Busy, NEW pc, NEW i \in Ids, NEW ret, Call(t, pc, i, ret),
           pc \in IF t = "tick" THEN Procedures ELSE Busy,
           ret \in IF t = "tick" THEN {"next", "delay", "complete"} ELSE {"idle"},
           cyc' = NoId => IF t = "tick" THEN ret = "next" ELSE cyc = NoId,
           Grown, Exists(i)',
           snap' = [snap EXCEPT ![t] = snap'[t]], snap'[t] \in Tasks,
           pc \in {"startRoom", "startPut", "pausePut", "stopPut", "setPut", "checkpointPut"}
                => snap'[t].state # "none"
    PROVE  Shape'
<1>1. /\ at' \in [Threads -> Busy \cup TickPlaces]
      /\ at'["tick"] \in TickPlaces /\ at'["rpc"] \in RpcPlaces
      /\ on' \in [Threads -> Ids \cup {NoId}]
      /\ back' \in [Threads -> {"idle", "next", "delay", "complete"}] /\ back'["rpc"] = "idle"
      /\ at'[t] = pc /\ on'[t] = i /\ back'[t] = ret
      /\ \A u \in Threads : u # t => at'[u] = at[u] /\ on'[u] = on[u] /\ back'[u] = back[u]
    BY CallTypes DEF Shape, TickPlaces, RpcPlaces, Busy
<1>2. snap' \in [Threads -> Tasks] /\ \A u \in Threads : u # t => snap'[u] = snap[u]
    BY DEF Shape, ThreadTypes
<1>3. ThreadTypes'
    BY <1>1, <1>2 DEF ThreadTypes
<1>4. Working'
    BY <1>1 DEF Shape, Working, ThreadTypes, Busy, Procedures, Threads
<1>5. Existing'
    <2>1. \A u \in Threads : (on[u] \in Ids => Exists(on[u]))'
        BY <1>1 DEF Shape, Existing, Grown, Exists
    <2>2. \A u \in Threads :
            at'[u] \in {"startRoom", "startPut", "pausePut", "stopPut", "setPut", "checkpointPut",
                        "lookup", "think"} => snap'[u].state # "none"
        BY <1>1, <1>2 DEF Shape, Existing, Procedures, Busy
    <2>. QED  BY <2>1, <2>2 DEF Existing, Grown, Stored, Exists
<1>. QED  BY <1>3, <1>4, <1>5 DEF Shape, Grown, Stored

\* The tick goes on outside the procedures, between and in cycles.
LEMMA TickShape ==
    ASSUME Shape, at["tick"] \notin Busy, NEW pc \in {"idle", "next", "lookup", "think", "judge", "spawn", "complete", "delay"},
           Goto("tick", pc), UNCHANGED <<on, back>>, Grown,
           pc \in {"idle", "next"} \/ cyc' # NoId,
           snap' = [snap EXCEPT !["tick"] = snap'["tick"]], snap'["tick"] \in Tasks,
           pc \in {"lookup", "think"} => snap'["tick"].state # "none"
    PROVE  Shape'
<1>1. /\ at' \in [Threads -> Busy \cup TickPlaces]
      /\ at'["tick"] \in TickPlaces /\ at'["rpc"] \in RpcPlaces
      /\ at'["tick"] = pc /\ at'["rpc"] = at["rpc"]
    BY GotoTypes DEF Shape, TickPlaces, RpcPlaces, Busy, Threads
<1>2. snap' \in [Threads -> Tasks] /\ snap'["rpc"] = snap["rpc"]
    BY DEF Shape, ThreadTypes, Threads
<1>3. ThreadTypes'
    BY <1>1, <1>2 DEF Shape, ThreadTypes
<1>4. Working'
    BY <1>1 DEF Shape, Working, ThreadTypes, Busy, Procedures, Threads
<1>5. Existing'
    <2>1. \A u \in Threads : (on[u] \in Ids => Exists(on[u]))'
        BY DEF Shape, Existing, Grown, Exists
    <2>2. \A u \in Threads :
            at'[u] \in {"startRoom", "startPut", "pausePut", "stopPut", "setPut", "checkpointPut",
                        "lookup", "think"} => snap'[u].state # "none"
        BY <1>1, <1>2 DEF Shape, Existing, Threads
    <2>. QED  BY <2>1, <2>2 DEF Existing, Grown, Stored, Exists
<1>. QED  BY <1>3, <1>4, <1>5 DEF Shape, Grown, Stored

LEMMA ProcedureShape ==
    ASSUME Shape, NEW t \in Threads, Procedure(t)
    PROVE  Shape'
<1>0. Stored /\ (at[t] \in Busy => on[t] \in Ids /\ Exists(on[t]))
    BY ShapeParts DEF Shape, Working, Existing
<1>1. CASE StartGet(t)
    <2>1. Grown /\ cyc' = cyc /\ back' = back /\ at[t] \in Busy
        BY <1>0, <1>1, SameStore DEF StartGet, cycle, Busy, Procedures
    <2>. QED  BY <1>1, <2>1, ReturnShape, GoOnShape DEF StartGet, Procedures
<1>2. CASE StartRoom(t)
    <2>1. Grown /\ cyc' = cyc /\ back' = back /\ at[t] \in Busy
        BY <1>0, <1>2, SameStore DEF StartRoom, cycle, Busy, Procedures
    <2>2. snap[t].state # "none"
        BY <1>2 DEF StartRoom, Shape, Existing
    <2>. QED  BY <1>2, <2>1, <2>2, ReturnShape, GoOnShape DEF StartRoom, Procedures
<1>3. CASE StartPut(t)
    <2>1. cyc' = cyc /\ back' = back /\ snap' = snap /\ on' = on /\ at[t] \in Busy /\ Goto(t, "startInsert")
        BY <1>3 DEF StartPut, cycle, Busy, Procedures
    <2>2. [snap[t] EXCEPT !.state = "running"] \in Tasks
          /\ [snap[t] EXCEPT !.state = "running"].state = "running"
        BY DEF Shape, ThreadTypes, Tasks, States
    <2>3. Grown
        BY <1>0, <1>3, <2>1, <2>2, PutGrows DEF StartPut, cycle, Stored, CycleTypes, HistoryTypes
    <2>. QED  BY <2>1, <2>3, GoOnShape DEF Procedures
<1>4. CASE StartInsert(t)
    <2>1. cyc' = cyc /\ back' = back /\ at[t] \in Busy /\ Return(t)
        BY <1>4 DEF StartInsert, cycle, Busy, Procedures
    <2>2. Races(t, on[t]) \subseteq {"overlap", "crowded"}
        BY DEF Races
    <2>3. HistoryTypes'
        BY <1>0, <1>4, <2>2 DEF StartInsert, Stored, HistoryTypes
    <2>4. StoreTypes' /\ CycleTypes'
        BY <1>0, <1>4, <2>1 DEF StartInsert, Stored, StoreTypes, CycleTypes, cycle
    <2>5. Grown
        BY <1>0, <1>4, <2>1, <2>3, <2>4 DEF StartInsert, Stored, Grown, Exists, cycle
    <2>. QED  BY <2>1, <2>5, ReturnShape
<1>5. CASE PauseErase(t)
    <2>1. cyc' = cyc /\ back' = back /\ at[t] \in Busy
        BY <1>5 DEF PauseErase, Busy, Procedures
    <2>2. Grown
        BY <1>0, <1>5, <2>1, EraseGrows DEF PauseErase
    <2>. QED  BY <1>5, <2>1, <2>2, ReturnShape, GoOnShape DEF PauseErase, Procedures
<1>6. CASE PauseGet(t)
    <2>1. Grown /\ cyc' = cyc /\ back' = back /\ on' = on /\ at[t] \in Busy
        BY <1>0, <1>6, SameStore DEF PauseGet, cycle, Busy, Procedures
    <2>. QED  BY <1>6, <2>1, GoOnShape DEF PauseGet, Procedures
<1>7. CASE PausePut(t)
    <2>1. cyc' = cyc /\ back' = back /\ at[t] \in Busy /\ Return(t)
        BY <1>7 DEF PausePut, cycle, Busy, Procedures
    <2>2. [snap[t] EXCEPT !.state = "paused"] \in Tasks
          /\ [snap[t] EXCEPT !.state = "paused"].state = "paused"
        BY DEF Shape, ThreadTypes, Tasks, States
    <2>3. Grown
        BY <1>0, <1>7, <2>1, <2>2, PutGrows DEF PausePut, cycle, Stored, CycleTypes, HistoryTypes
    <2>. QED  BY <2>1, <2>3, ReturnShape
<1>8. CASE StopErase(t)
    <2>1. cyc' = cyc /\ back' = back /\ on' = on /\ snap' = snap /\ at[t] \in Busy /\ Goto(t, "stopGet")
        BY <1>8 DEF StopErase, Busy, Procedures
    <2>2. Grown
        BY <1>0, <1>8, <2>1, EraseGrows DEF StopErase
    <2>. QED  BY <2>1, <2>2, GoOnShape DEF Procedures
<1>9. CASE StopGet(t)
    <2>1. Grown /\ cyc' = cyc /\ back' = back /\ on' = on /\ at[t] \in Busy
        BY <1>0, <1>9, SameStore DEF StopGet, cycle, Busy, Procedures
    <2>. QED  BY <1>9, <2>1, GoOnShape DEF StopGet, Procedures
<1>10. CASE StopPut(t)
    <2>1. cyc' = cyc /\ back' = back /\ at[t] \in Busy /\ Return(t)
        BY <1>10 DEF StopPut, cycle, Busy, Procedures
    <2>2. PICK f \in Finished : Put(t, on[t], [snap[t] EXCEPT !.state = f], snap[t])
        BY <1>10 DEF StopPut, Finished
    <2>3. [snap[t] EXCEPT !.state = f] \in Tasks /\ [snap[t] EXCEPT !.state = f].state # "none"
        BY DEF Shape, ThreadTypes, Tasks, States, Finished
    <2>4. Grown
        BY <1>0, <1>10, <2>1, <2>2, <2>3, PutGrows DEF StopPut, cycle, Stored, CycleTypes, HistoryTypes
    <2>. QED  BY <2>1, <2>4, ReturnShape
<1>. QED  BY <1>1, <1>2, <1>3, <1>4, <1>5, <1>6, <1>7, <1>8, <1>9, <1>10 DEF Procedure

\* A tool or a dream that ends creates a task.
LEMMA CreateGrows ==
    ASSUME Stored, NEW i \in Ids, Fresh(i), task' = [task EXCEPT ![i] = NewTask],
           UNCHANGED <<table, cycle, history, restarts>>, ops' \in 0 .. MaxOps
    PROVE  Grown /\ Exists(i)'
<1>1. /\ task' \in [Ids -> Tasks] /\ task'[i] = NewTask /\ \A j \in Ids : j # i => task'[j] = task[j]
    BY TasksFacts DEF Stored, StoreTypes
<1>2. \A j \in Ids : (Exists(j)' <=> Exists(j) \/ j = i)
    BY <1>1, TasksFacts DEF Exists
<1>3. StoreTypes' /\ HistoryTypes' /\ CycleTypes'
    BY <1>1 DEF Stored, StoreTypes, HistoryTypes, CycleTypes, table, cycle, history
<1>4. running' = running /\ batch' = batch /\ cyc' = cyc /\ running \subseteq Ids /\ batch \subseteq Ids
    BY DEF table, cycle, Stored, StoreTypes, CycleTypes
<1>. QED  BY <1>1, <1>2, <1>3, <1>4, TasksFacts DEF Stored, Grown, Exists

LEMMA ToolsShape ==
    ASSUME Shape, Tools
    PROVE  Shape'
<1>0. Stored /\ "rpc" \in Threads /\ at["rpc"] \notin Busy /\ ops' \in 0 .. MaxOps
      /\ snap \in [Threads -> Tasks]
    BY ShapeParts, SadhanaAssumption DEF Shape, HistoryTypes, ThreadTypes, Tools, ToolStart, ToolResume, ToolPause, ToolStop,
              ToolSet, ToolCheckpoint, Tool, Busy, Procedures, Threads
<1>1. CASE ToolStart
    <2>1. PICK i \in Ids : /\ Fresh(i) /\ task' = [task EXCEPT ![i] = NewTask]
                           /\ Call("rpc", "startGet", i, "idle")
        BY <1>1 DEF ToolStart
    <2>2. UNCHANGED <<table, snap, cycle, history, restarts>>
        BY <1>1 DEF ToolStart
    <2>3. Grown /\ Exists(i)'
        BY <1>0, <2>1, <2>2, CreateGrows
    <2>4. snap' = [snap EXCEPT !["rpc"] = snap'["rpc"]] /\ snap'["rpc"] \in Tasks /\ cyc' = cyc
        BY <1>0, <2>2 DEF cycle
    <2>. QED  BY <1>0, <2>1, <2>3, <2>4, CallShape DEF Busy, Procedures
<1>2. ASSUME NEW i \in Ids, NEW pc \in {"startGet", "pauseErase", "stopErase"}, Exists(i),
             Call("rpc", pc, i, "idle"), UNCHANGED <<task, table, snap, cycle, history, restarts>>
      PROVE  Shape'
    <2>1. Grown /\ Exists(i)'
        BY <1>0, <1>2 DEF Stored, Grown, StoreTypes, HistoryTypes, CycleTypes, Exists, table, cycle, history
    <2>2. snap' = [snap EXCEPT !["rpc"] = snap'["rpc"]] /\ snap'["rpc"] \in Tasks /\ cyc' = cyc
        BY <1>0, <1>2 DEF cycle
    <2>. QED  BY <1>0, <1>2, <2>1, <2>2, CallShape DEF Busy, Procedures
<1>3. ASSUME NEW i \in Ids, NEW pc \in {"setPut", "checkpointPut"}, Exists(i),
             Call("rpc", pc, i, "idle"), snap' = [snap EXCEPT !["rpc"] = task[i]],
             UNCHANGED <<task, table, cycle, history, restarts>>
      PROVE  Shape'
    <2>1. Grown /\ Exists(i)'
        BY <1>0, <1>3 DEF Stored, Grown, StoreTypes, HistoryTypes, CycleTypes, Exists, table, cycle, history
    <2>2. snap' = [snap EXCEPT !["rpc"] = snap'["rpc"]] /\ snap'["rpc"] \in Tasks
          /\ snap'["rpc"].state # "none" /\ cyc' = cyc
        BY <1>0, <1>3 DEF cycle, Stored, StoreTypes, Exists
    <2>. QED  BY <1>0, <1>3, <2>1, <2>2, CallShape DEF Busy, Procedures
<1>4. CASE ToolResume \/ ToolPause \/ ToolStop
    BY <1>2, <1>4 DEF ToolResume, ToolPause, ToolStop
<1>5. CASE ToolSet \/ ToolCheckpoint
    BY <1>3, <1>5 DEF ToolSet, ToolCheckpoint
<1>. QED  BY <1>1, <1>4, <1>5 DEF Tools

LEMMA ToolPutsShape ==
    ASSUME Shape, SetPut \/ CheckpointPut
    PROVE  Shape'
<1>0. Stored /\ "rpc" \in Threads /\ at["rpc"] \in Busy /\ on["rpc"] \in Ids /\ Exists(on["rpc"])
      /\ snap["rpc"] \in Tasks /\ snap["rpc"].state # "none"
    BY ShapeParts DEF Shape, SetPut, CheckpointPut, Busy, Threads, Working, Existing, ThreadTypes
<1>1. /\ cyc' = cyc /\ back' = back /\ Return("rpc")
      /\ UNCHANGED <<table, cycle, cycles, streak, ops, restarts>>
    BY DEF SetPut, CheckpointPut, cycle
<1>2. PICK new \in Tasks : Put("rpc", on["rpc"], new, snap["rpc"]) /\ new.state # "none"
    <2>1. [snap["rpc"] EXCEPT !.goal = 1] \in Tasks
          /\ [snap["rpc"] EXCEPT !.goal = 1].state = snap["rpc"].state
        BY <1>0 DEF Tasks
    <2>. QED  BY <1>0, <2>1 DEF SetPut, CheckpointPut
<1>3. Grown
    BY <1>0, <1>1, <1>2, PutGrows DEF cycle, Stored, CycleTypes, HistoryTypes
<1>. QED  BY <1>0, <1>1, <1>3, ReturnShape

\* A tick ends.
LEMMA TickOverShape ==
    ASSUME Shape, at["tick"] \notin Busy, TickOver, UNCHANGED <<task, table, on, ops, restarts>>,
           HistoryTypes'
    PROVE  Shape'
<1>1. /\ at' \in [Threads -> Busy \cup TickPlaces]
      /\ at'["tick"] = "idle" /\ at'["rpc"] = at["rpc"] /\ at'["rpc"] \in RpcPlaces
    BY GotoTypes DEF TickOver, Shape, ThreadTypes, TickPlaces, Threads
<1>2. /\ snap' = [snap EXCEPT !["tick"] = NoTask] /\ back' = [back EXCEPT !["tick"] = "idle"]
      /\ batch' = {} /\ cyc' = NoId /\ out' = "none" /\ dangling' = FALSE /\ on' = on
    BY DEF TickOver
<1>3. StoreTypes' /\ CycleTypes'
    BY <1>2 DEF Shape, StoreTypes, CycleTypes, table
<1>4. ThreadTypes'
    BY <1>1, <1>2, TasksFacts DEF Shape, ThreadTypes, Threads, TickPlaces
<1>5. Working'
    BY <1>1, <1>2 DEF Shape, Working, ThreadTypes, Busy, Procedures, Threads
<1>6. Existing'
    BY <1>1, <1>2 DEF Shape, Existing, Exists, ThreadTypes, Threads, table, NoId, Ids
<1>. QED  BY <1>3, <1>4, <1>5, <1>6 DEF Shape

LEMMA CycleShape ==
    ASSUME Shape, Cycle
    PROVE  Shape'
<1>0. /\ Stored /\ "tick" \in Threads /\ snap \in [Threads -> Tasks] /\ snap["tick"] \in Tasks
      /\ batch \subseteq Ids /\ running \subseteq Ids /\ due \subseteq running /\ cyc \in Ids \cup {NoId}
      /\ task \in [Ids -> Tasks]
    BY ShapeParts DEF Shape, Threads, ThreadTypes, StoreTypes, CycleTypes
<1>1. at["tick"] \in {"lookup", "think", "judge", "spawn", "complete", "delay"} =>
          cyc \in Ids /\ cyc # NoId /\ Exists(cyc)
    BY <1>0 DEF Shape, Working, Existing, Busy, Procedures, Ids, NoId
<1>2. at["tick"] \notin Busy
    BY DEF Cycle, Pick, BatchDone, Lookup, BeginCycle, AutoPause, NextAgent, Persist, CycleThrows, JudgeFailed,
           JudgeBlocked, JudgeAchieved, JudgeContinue, Judge, Spawn, SpawnFails, Complete, Delay,
           Busy, Procedures
<1>3. snap' = snap => snap' = [snap EXCEPT !["tick"] = snap'["tick"]] /\ snap'["tick"] \in Tasks
    BY <1>0
<1>4. CASE Pick
    <2>1. Grown
        BY <1>0, <1>4 DEF Pick, Stored, Grown, StoreTypes, HistoryTypes, CycleTypes, Exists, table, history
    <2>. QED  BY <1>2, <1>3, <1>4, <2>1, TickShape DEF Pick
<1>5. CASE BatchDone
    <2>1. HistoryTypes'
        BY <1>5 DEF BatchDone, Shape, HistoryTypes, history
    <2>. QED  BY <1>2, <1>5, <2>1, TickOverShape DEF BatchDone
<1>6. ASSUME NEW i \in Ids, NextAgent(i), UNCHANGED <<task, table, out, dangling, history, ops, restarts>>
      PROVE  /\ Grown /\ Exists(i)' /\ cyc' = i /\ cyc' # NoId
             /\ snap' = [snap EXCEPT !["tick"] = snap'["tick"]] /\ snap'["tick"] \in Tasks
             /\ snap'["tick"].state # "none"
    <2>1. Exists(i)
        BY <1>6 DEF NextAgent, Shape, Existing
    <2>2. Grown /\ Exists(i)'
        BY <1>0, <1>6, <2>1 DEF NextAgent, Stored, Grown, StoreTypes, HistoryTypes, CycleTypes, Exists, table, history
    <2>. QED  BY <1>0, <1>6, <2>1, <2>2 DEF NextAgent, Exists, NoId, Ids
<1>7. ASSUME NEW i \in Ids, BeginCycle(i)
      PROVE  Shape'
    BY <1>2, <1>6, <1>7, TickShape DEF BeginCycle
<1>8. ASSUME NEW i \in Ids, AutoPause(i)
      PROVE  Shape'
    BY <1>0, <1>2, <1>6, <1>8, CallShape DEF AutoPause, Procedures
<1>9. CASE Lookup
    <2>1. Grown /\ cyc' = cyc
        BY <1>0, <1>9 DEF Lookup, Stored, Grown, StoreTypes, HistoryTypes, CycleTypes, Exists, table, history
    <2>2. snap["tick"].state # "none" /\ cyc # NoId
        BY <1>0, <1>1, <1>9 DEF Lookup, Shape, Existing
    <2>. QED  BY <1>2, <1>3, <1>9, <2>1, <2>2, TickShape DEF Lookup
<1>10. ASSUME NEW o \in Outcomes, Persist(o)
       PROVE  Shape'
    <2>1. /\ Put("tick", cyc, [snap["tick"] EXCEPT !.iterations = @ + 1], snap["tick"])
          /\ out' = o /\ cyc' = cyc /\ snap' = snap /\ UNCHANGED <<on, back>> /\ Goto("tick", "judge")
          /\ UNCHANGED <<table, batch, dangling, ops, restarts>> /\ at["tick"] = "think"
        BY <1>10 DEF Persist
    <2>2. [snap["tick"] EXCEPT !.iterations = @ + 1] \in Tasks
          /\ [snap["tick"] EXCEPT !.iterations = @ + 1].state # "none"
        BY <1>0, <2>1 DEF Tasks, Shape, Existing
    <2>3. cycles' \in [Ids -> Nat] /\ streak' \in [Ids -> Nat]
        <3>1. cyc \in Ids /\ cycles \in [Ids -> Nat] /\ streak \in [Ids -> Nat]
            BY <1>0, <1>1, <2>1 DEF Stored, HistoryTypes
        <3>2. cycles' = [cycles EXCEPT ![cyc] = @ + 1]
              /\ streak' = [streak EXCEPT ![cyc] = IF Failed(o) THEN @ + 1 ELSE 0]
            BY <1>10 DEF Persist
        <3>. QED  BY <3>1, <3>2
    <2>4. Grown
        BY <1>0, <1>1, <2>1, <2>2, <2>3, PutGrows
    <2>. QED  BY <1>1, <1>2, <1>3, <2>1, <2>4, TickShape
<1>11. ASSUME Judge, UNCHANGED <<task, running, due, snap, cycle, history, ops, restarts>>
       PROVE  Grown /\ cyc' = cyc /\ cyc \in Ids /\ cyc # NoId /\ Exists(cyc)' /\ snap' = snap
    <2>1. cyc \in Ids /\ cyc # NoId /\ Exists(cyc)
        BY <1>1, <1>11 DEF Judge
    <2>2. fails' \in [Ids -> Nat]
        BY <1>0, <1>11, <2>1 DEF Judge, Count, Stored, StoreTypes
    <2>. QED  BY <1>0, <1>11, <2>1, <2>2
              DEF Stored, Grown, StoreTypes, HistoryTypes, CycleTypes, Exists, cycle, history
<1>12. CASE JudgeFailed \/ JudgeBlocked
    BY <1>2, <1>3, <1>11, <1>12, CallShape DEF JudgeFailed, JudgeBlocked, Procedures, Threads
<1>13. CASE JudgeAchieved \/ JudgeContinue
    <2>1. PICK pc \in {"spawn", "complete", "delay"} : Goto("tick", pc) /\ UNCHANGED <<on, back>>
        BY <1>13 DEF JudgeAchieved, JudgeContinue
    <2>. QED  BY <1>2, <1>3, <1>11, <1>13, <2>1, TickShape DEF JudgeAchieved, JudgeContinue
<1>14. CASE Spawn
    <2>1. PICK i \in Ids : /\ Fresh(i) /\ task' = [task EXCEPT ![i] = NewTask]
                           /\ Call("tick", "startGet", i, "complete")
        BY <1>14 DEF Spawn
    <2>2. UNCHANGED <<table, snap, cycle, history, ops, restarts>> /\ cyc # NoId
        BY <1>1, <1>14 DEF Spawn
    <2>3. Grown /\ Exists(i)' /\ cyc' = cyc
        BY <1>0, <2>1, <2>2, CreateGrows DEF cycle, Stored, HistoryTypes
    <2>. QED  BY <1>0, <1>2, <1>3, <2>1, <2>2, <2>3, CallShape DEF Procedures
<1>15. CASE SpawnFails
    <2>1. Grown /\ cyc' = cyc
        BY <1>0, <1>15, SameStore DEF SpawnFails, cycle
    <2>. QED  BY <1>1, <1>2, <1>3, <1>15, <2>1, TickShape DEF SpawnFails
<1>16. CASE Complete
    <2>1. Grown /\ cyc' = cyc /\ snap' = snap
        BY <1>0, <1>16, SameStore DEF Complete, cycle
    <2>2. cyc \in Ids /\ cyc # NoId /\ Exists(cyc)' /\ Call("tick", "stopErase", cyc, "delay")
        BY <1>1, <1>16, <2>1 DEF Complete, Grown
    <2>. QED  BY <1>0, <1>2, <1>3, <2>1, <2>2, CallShape DEF Procedures
<1>17. CASE Delay
    <2>1. due' \subseteq running
        BY <1>0, <1>17 DEF Delay
    <2>2. Grown
        <3>1. UNCHANGED <<task, running, fails, batch, history, ops, restarts>>
              /\ cyc' = NoId /\ out' = "none" /\ dangling' = FALSE
            BY <1>17 DEF Delay
        <3>2. StoreTypes' /\ CycleTypes'
            BY <1>0, <2>1, <3>1 DEF Stored, StoreTypes, CycleTypes
        <3>3. HistoryTypes'
            BY <1>0, <3>1 DEF Stored, HistoryTypes, history
        <3>. QED  BY <1>0, <3>1, <3>2, <3>3 DEF Stored, Grown, Exists, NoId, Ids
    <2>3. snap' = [snap EXCEPT !["tick"] = snap'["tick"]] /\ snap'["tick"] \in Tasks
        BY <1>0, <1>17, TasksFacts DEF Delay
    <2>. QED  BY <1>2, <1>17, <2>2, <2>3, TickShape DEF Delay
<1>18. CASE CycleThrows
    <2>1. /\ cyc \in Ids /\ cycles \in [Ids -> Nat] /\ streak \in [Ids -> Nat] /\ MaxFailures \in Nat
          /\ gaps \in [Ids -> SUBSET {"staleWrite", "overlap", "crowded", "interrupted", "torn", "revived", "threw"}]
        BY <1>0, <1>1, <1>18, SadhanaAssumption DEF CycleThrows, Stored, HistoryTypes
    <2>2. cycles' \in [Ids -> Nat] /\ streak' \in [Ids -> Nat]
        BY <1>18, <2>1 DEF CycleThrows, UpTo
    <2>3. gaps' \in [Ids -> SUBSET {"staleWrite", "overlap", "crowded", "interrupted", "torn", "revived", "threw"}]
        BY <1>18, <2>1 DEF CycleThrows
    <2>4. HistoryTypes'
        BY <1>18, <2>2, <2>3 DEF CycleThrows, Shape, HistoryTypes
    <2>. QED  BY <1>2, <1>18, <2>4, TickOverShape DEF CycleThrows
<1>. QED  BY <1>4, <1>5, <1>7, <1>8, <1>9, <1>10, <1>12, <1>13, <1>14, <1>15, <1>16, <1>17, <1>18 DEF Cycle

LEMMA ResetShape ==
    ASSUME Shape, Restart \/ RestartPaused
    PROVE  Shape'
<1>0. Stored /\ Reset
    BY ShapeParts DEF Restart, RestartPaused
<1>1. /\ task' \in [Ids -> Tasks] /\ running' \subseteq Ids /\ due' \subseteq running'
      /\ \A i \in Ids : ~Exists(i)' => task'[i] = NoTask
      /\ \A i \in running' : Exists(i)'
    <2>1. CASE Restart
        BY <1>0, <2>1 DEF Restart, Recorded, Stored, StoreTypes, Exists
    <2>2. CASE RestartPaused
        <3>1. \A i \in Ids : [task[i] EXCEPT !.state = "paused"] \in Tasks
                             /\ [task[i] EXCEPT !.state = "paused"].state = "paused"
            BY <1>0 DEF Stored, StoreTypes, Tasks, States
        <3>2. task' = [i \in Ids |-> IF i \in Recorded THEN [task[i] EXCEPT !.state = "paused"] ELSE task[i]]
              /\ running' = {} /\ due' = {}
            BY <2>2 DEF RestartPaused
        <3>. QED  BY <1>0, <3>1, <3>2 DEF Stored, StoreTypes, Exists
    <2>. QED  BY <2>1, <2>2
<1>2. fails' \in [Ids -> Nat] /\ streak' \in [Ids -> Nat] /\ cycles' = cycles /\ ops' = ops
      /\ restarts' \in 0 .. MaxRestarts
    BY <1>0, SadhanaAssumption DEF Reset, Stored, HistoryTypes
<1>3. gaps' \in [Ids -> SUBSET {"staleWrite", "overlap", "crowded", "interrupted", "torn", "revived", "threw"}]
    BY <1>0 DEF Reset, Stored, HistoryTypes
<1>4. StoreTypes' /\ HistoryTypes'
    BY <1>0, <1>1, <1>2, <1>3 DEF StoreTypes, HistoryTypes, Stored
<1>5. /\ at' = [t \in Threads |-> "idle"] /\ back' = [t \in Threads |-> "idle"]
      /\ snap' = [t \in Threads |-> NoTask] /\ on' = [t \in Threads |-> NoId] /\ batch' = {}
      /\ cyc' = NoId /\ out' = "none" /\ dangling' = FALSE
    BY <1>0 DEF Reset
<1>6. ThreadTypes' /\ CycleTypes'
    BY <1>5, TasksFacts DEF ThreadTypes, CycleTypes, Threads, Busy, TickPlaces, RpcPlaces, Procedures
<1>7. Working'
    <2>1. \A t \in Threads : on'[t] \notin Ids
        BY <1>5 DEF NoId, Ids
    <2>2. \A t \in Threads : at'[t] = "idle" /\ at'[t] \notin Busy
        BY <1>5 DEF Busy, Procedures
    <2>. QED  BY <2>1, <2>2 DEF Working, Threads
<1>8. Existing'
    <2>1. \A u \in Threads : (on[u] \in Ids => Exists(on[u]))'
        BY <1>5 DEF NoId, Ids
    <2>. QED  BY <1>1, <1>5, <2>1 DEF Existing, NoId, Ids, Exists
<1>. QED  BY <1>4, <1>6, <1>7, <1>8 DEF Shape

LEMMA ShapeKept ==
    ASSUME Shape, [Next]_vars
    PROVE  Shape'
<1>1. CASE RpcStep \/ TickStep
    BY <1>1, ProcedureShape, ToolPutsShape, CycleShape DEF RpcStep, TickStep, Threads
<1>2. CASE Tools
    BY <1>2, ToolsShape
<1>3. ASSUME NEW i \in Ids, Elapse(i)
      PROVE  Shape'
    <2>1. due' \subseteq running /\ UNCHANGED <<task, running, fails, thread, cycle, history, ops, restarts>>
        BY <1>3 DEF Elapse, Shape, StoreTypes
    <2>2. StoreTypes' /\ HistoryTypes' /\ CycleTypes'
        BY <2>1 DEF Shape, StoreTypes, HistoryTypes, CycleTypes, cycle, history
    <2>3. ThreadTypes' /\ Working'
        BY <2>1 DEF Shape, ThreadTypes, Working, thread, cycle
    <2>4. Existing'
        BY <2>1 DEF Shape, Existing, Exists, thread, cycle
    <2>. QED  BY <2>2, <2>3, <2>4 DEF Shape
<1>4. CASE Restart \/ RestartPaused
    BY <1>4, ResetShape
<1>5. CASE UNCHANGED vars
    <2>1. StoreTypes' /\ HistoryTypes' /\ CycleTypes'
        BY <1>5 DEF Shape, StoreTypes, HistoryTypes, CycleTypes, cycle, history, table, vars
    <2>2. ThreadTypes' /\ Working'
        BY <1>5 DEF Shape, ThreadTypes, Working, thread, cycle, vars
    <2>3. Existing'
        BY <1>5 DEF Shape, Existing, Exists, thread, cycle, table, vars
    <2>. QED  BY <2>1, <2>2, <2>3 DEF Shape
<1>. QED  BY <1>1, <1>2, <1>3, <1>4, <1>5 DEF Next

-------------------------------------------------------------------------------
(* Steps of one thread that write nothing but a copy, a position or a new  *)
(* task.                                                                   *)

Others(t) == \A u \in Threads : u # t => at'[u] = at[u] /\ on'[u] = on[u] /\ snap'[u] = snap[u]

Still(t) ==
    /\ Others(t)
    /\ UNCHANGED <<running, fails, gaps, cycles, streak>>
    /\ \A i \in Ids : /\ (task'[i].state = "running" <=> task[i].state = "running")
                      /\ task'[i].iterations = task[i].iterations
    /\ \/ at'[t] = at[t] /\ on'[t] = on[t]
       \/ at[t] \notin Taken \cup {"startInsert"} /\ at'[t] \notin Taken \cup {"startInsert"}
       \/ on'[t] = on[t] /\ \/ at[t] = "pauseGet" /\ at'[t] = "pausePut"
                            \/ at[t] = "stopGet" /\ at'[t] = "stopPut"
    /\ at'[t] \in {"startRoom", "startPut"} => snap'[t].state \in Startable
    /\ at'[t] = "startPut" => at[t] = "startPut" \/ Room
    /\ at'["tick"] \in {"lookup", "think"} => snap'["tick"].iterations < MaxIterations
    /\ at'["tick"] \in {"think", "judge"} => cyc' = cyc /\ (dangling' => dangling /\ at["tick"] \in {"think", "judge"})
    /\ at["tick"] = "judge" \/ at'["tick"] = "judge" => at'["tick"] = at["tick"] /\ cyc' = cyc /\ out' = out
    /\ at["tick"] = "pauseErase" => \/ at'["tick"] = "pauseErase" /\ on'["tick"] = on["tick"]
                                    \/ on["tick"] \notin running

LEMMA StillKeeps ==
    ASSUME Shape, Rest, NEW t \in Threads, Still(t)
    PROVE  Rest'
<1>1. HalfWay'
    <2>. SUFFICES ASSUME NEW i \in Ids, Clean(i)'
                  PROVE  /\ \A u \in Threads : on'[u] = i =>
                            /\ at'[u] \in {"startInsert", "pauseGet", "pausePut"} => task'[i].state = "running"
                            /\ at'[u] \in Taken => i \notin running'
                         /\ (\A u \in Threads : on'[u] = i => at'[u] \notin Taken \cup {"startInsert"})
                                => (i \in running' <=> task'[i].state = "running")
        BY DEF HalfWay
    <2>1. Clean(i) /\ running' = running /\ (task'[i].state = "running" <=> task[i].state = "running")
        BY DEF Still, Clean
    <2>2. \A u \in Threads : on[u] = i =>
            /\ at[u] \in {"startInsert", "pauseGet", "pausePut"} => task[i].state = "running"
            /\ at[u] \in Taken => i \notin running
        BY <2>1 DEF Rest, HalfWay
    <2>3. (\A u \in Threads : on[u] = i => at[u] \notin Taken \cup {"startInsert"})
            => (i \in running <=> task[i].state = "running")
        BY <2>1 DEF Rest, HalfWay
    <2>4. \A u \in Threads : at'[u] \in Taken \cup {"startInsert"} =>
            /\ on'[u] = on[u] /\ at[u] \in Taken \cup {"startInsert"}
            /\ at'[u] \in {"startInsert", "pauseGet", "pausePut"} <=> at[u] \in {"startInsert", "pauseGet", "pausePut"}
            /\ at'[u] \in Taken <=> at[u] \in Taken
        BY DEF Still, Others, Taken
    <2>5. \A u \in Threads : at[u] \in Taken \cup {"startInsert"} =>
            on'[u] = on[u] /\ at'[u] \in Taken \cup {"startInsert"}
        BY DEF Still, Others, Taken
    <2>. QED  BY <2>1, <2>2, <2>3, <2>4, <2>5 DEF Taken
<1>2. CheckedStart'
    BY DEF Rest, CheckedStart, Still, Others
<1>3. CheckedCycle'
    BY DEF Still, CheckedCycle
<1>4. RoomKept'
    <2>. SUFFICES ASSUME NoGaps', NEW u \in Threads, at'[u] \in {"startPut", "startInsert"}
                  PROVE  Cardinality(running') < MaxConcurrent
        BY DEF RoomKept
    <2>1. NoGaps /\ running' = running
        BY DEF Still, NoGaps
    <2>2. CASE at[u] \in {"startPut", "startInsert"}
        BY <2>1, <2>2 DEF Rest, RoomKept
    <2>3. CASE at[u] \notin {"startPut", "startInsert"}
        BY <2>1, <2>3 DEF Still, Others, Room
    <2>. QED  BY <2>2, <2>3
<1>5. Counting'
    BY DEF Rest, Counting, Counted, Still, Others, Threads
<1>6. CyclesAreCounted' /\ StoppedUnlessOverwritten' /\ LimitHolds'
    BY DEF Rest, CyclesAreCounted, StoppedUnlessOverwritten, LimitHolds, Still
<1>. QED  BY <1>1, <1>2, <1>3, <1>4, <1>5, <1>6 DEF Rest

\* Leaving a procedure, without having changed anything.
LEMMA ReturnStill ==
    ASSUME Shape, Rest, NEW t \in Threads, at[t] \in Busy, at[t] \notin Taken \cup {"startInsert"}, Return(t),
           at[t] = "pauseErase" => on[t] \notin running,
           UNCHANGED <<task, running, fails, back, cycle, history>>
    PROVE  Still(t)
<1>1. /\ at'[t] = back[t] /\ on'[t] = NoId /\ snap'[t] = NoTask /\ Others(t)
      /\ back[t] \in {"idle", "next", "delay", "complete"}
    BY ReturnTypes DEF Shape, ThreadTypes, Others
<1>2. t = "rpc" => at'["tick"] = at["tick"] /\ on'["tick"] = on["tick"] /\ snap'["tick"] = snap["tick"]
    BY <1>1 DEF Others, Threads
<1>. QED  BY <1>1, <1>2 DEF Still, Taken, cycle, history, Rest, CheckedCycle, Threads, Busy, Procedures

\* Going on in a procedure, or entering one.
LEMMA GoStill ==
    ASSUME Shape, Rest, NEW t \in Threads, NEW pc \in Busy \ {"startInsert"}, Goto(t, pc), Others(t),
           \/ on'[t] = on[t] /\ at[t] = "pauseGet" /\ pc = "pausePut"
           \/ on'[t] = on[t] /\ at[t] = "stopGet" /\ pc = "stopPut"
           \/ at[t] \notin Taken \cup {"startInsert"} /\ pc \notin Taken,
           at[t] \notin {"judge", "pauseErase"},
           pc \in {"startRoom", "startPut"} => snap'[t].state \in Startable,
           pc = "startPut" => Room,
           UNCHANGED <<running, fails, gaps, cycles, streak>>,
           \A i \in Ids : /\ (task'[i].state = "running" <=> task[i].state = "running")
                          /\ task'[i].iterations = task[i].iterations,
           t = "tick" \/ UNCHANGED cycle
    PROVE  Still(t)
<1>1. at'[t] = pc
    BY DEF Goto, Shape, ThreadTypes
<1>2. t = "rpc" => at'["tick"] = at["tick"] /\ on'["tick"] = on["tick"] /\ snap'["tick"] = snap["tick"]
    BY <1>1 DEF Others, Threads
<1>3. CASE t = "tick"
    BY <1>1, <1>3 DEF Still, Taken, Busy, Procedures
<1>4. CASE t = "rpc"
    BY <1>1, <1>2, <1>4 DEF Still, Taken, Busy, Procedures, cycle, Rest, CheckedCycle
<1>. QED  BY <1>3, <1>4 DEF Threads

LEMMA ProcedureStill ==
    ASSUME Shape, Rest, NEW t \in Threads,
           \/ StartGet(t) \/ StartRoom(t) \/ PauseGet(t) \/ StopGet(t)
           \/ PauseErase(t) /\ on[t] \notin running
    PROVE  Still(t)
<1>0. /\ at \in [Threads -> Busy \cup TickPlaces] /\ on \in [Threads -> Ids \cup {NoId}]
      /\ snap \in [Threads -> Tasks] /\ running \subseteq Ids /\ due \subseteq running
      /\ at[t] \in Busy => on[t] \in Ids
    BY DEF Shape, ThreadTypes, StoreTypes, Working
<1>1. CASE StartGet(t)
    <2>1. CASE task[on[t]].state \in Startable
        <3>1. Get(t) /\ Goto(t, "startRoom") /\ UNCHANGED <<on, task, table, back, cycle, history, ops, restarts>>
            BY <1>1, <2>1 DEF StartGet
        <3>2. Others(t) /\ snap'[t] = task[on[t]]
            BY <1>0, <3>1 DEF Others, Get, Goto
        <3>. QED  BY <1>1, <2>1, <3>1, <3>2, GoStill DEF StartGet, Taken, Busy, Procedures, table, history
    <2>2. CASE task[on[t]].state \notin Startable
        BY <1>1, <2>2, ReturnStill DEF StartGet, Taken, Busy, Procedures, table
    <2>. QED  BY <2>1, <2>2
<1>2. CASE StartRoom(t)
    <2>1. CASE Room
        <3>1. Goto(t, "startPut") /\ UNCHANGED <<on, snap, task, table, back, cycle, history, ops, restarts>>
            BY <1>2, <2>1 DEF StartRoom
        <3>2. Others(t) /\ snap'[t] = snap[t] /\ snap[t].state \in Startable
            BY <1>0, <1>2, <3>1 DEF Others, Goto, StartRoom, Rest, CheckedStart
        <3>. QED  BY <1>2, <2>1, <3>1, <3>2, GoStill DEF StartRoom, Taken, Busy, Procedures, table, history
    <2>2. CASE ~Room
        BY <1>2, <2>2, ReturnStill DEF StartRoom, Taken, Busy, Procedures, table
    <2>. QED  BY <2>1, <2>2
<1>3. CASE PauseGet(t) \/ StopGet(t)
    <2>1. PICK pc \in {"pausePut", "stopPut"} :
            /\ Get(t) /\ Goto(t, pc) /\ UNCHANGED <<on, task, table, back, cycle, history, ops, restarts>>
            /\ \/ at[t] = "pauseGet" /\ pc = "pausePut"
               \/ at[t] = "stopGet" /\ pc = "stopPut"
        BY <1>3 DEF PauseGet, StopGet
    <2>2. Others(t)
        BY <1>0, <2>1 DEF Others, Get, Goto
    <2>. QED  BY <2>1, <2>2, GoStill DEF Busy, Procedures, table, history
<1>4. CASE PauseErase(t) /\ on[t] \notin running
    <2>1. /\ at[t] = "pauseErase" /\ Return(t) /\ Erase(on[t])
          /\ UNCHANGED <<task, fails, back, batch, cyc, out, cycles, streak>>
        BY <1>4 DEF PauseErase
    <2>2. running' = running /\ gaps' = gaps /\ dangling' = dangling
        BY <1>0, <1>4, <2>1 DEF Erase, Shape, CycleTypes
    <2>. QED  BY <1>4, <2>1, <2>2, ReturnStill DEF Taken, Busy, Procedures, cycle, history
<1>. QED  BY <1>1, <1>2, <1>3, <1>4

LEMMA ToolsStill ==
    ASSUME Shape, Rest, Tools
    PROVE  Still("rpc")
<1>0. /\ at \in [Threads -> Busy \cup TickPlaces] /\ on \in [Threads -> Ids \cup {NoId}]
      /\ snap \in [Threads -> Tasks] /\ back \in [Threads -> {"idle", "next", "delay", "complete"}]
      /\ "rpc" \in Threads /\ task \in [Ids -> Tasks]
    BY DEF Shape, ThreadTypes, StoreTypes, Threads
<1>1. at["rpc"] = "idle"
    BY DEF Tools, ToolStart, ToolResume, ToolPause, ToolStop, ToolSet, ToolCheckpoint, Tool
<1>2. ASSUME NEW i \in Ids, NEW pc \in {"startGet", "pauseErase", "stopErase", "setPut", "checkpointPut"},
             Call("rpc", pc, i, "idle"), UNCHANGED <<table, cycle, history>>, snap'["tick"] = snap["tick"],
             \A j \in Ids : /\ (task'[j].state = "running" <=> task[j].state = "running")
                           /\ task'[j].iterations = task[j].iterations
      PROVE  Still("rpc")
    <2>1. Others("rpc")
        BY <1>0, <1>2 DEF Others, Call, Goto, Threads
    <2>. QED  BY <1>0, <1>1, <1>2, <2>1, GoStill DEF Call, table, history, Taken, Busy, Procedures
<1>3. CASE ToolStart
    <2>1. PICK i \in Ids : /\ Fresh(i) /\ task' = [task EXCEPT ![i] = NewTask]
                           /\ Call("rpc", "startGet", i, "idle")
        BY <1>3 DEF ToolStart
    <2>2. \A j \in Ids : /\ (task'[j].state = "running" <=> task[j].state = "running")
                         /\ task'[j].iterations = task[j].iterations
        BY <1>0, <2>1, TasksFacts DEF Fresh, Shape, Existing
    <2>3. UNCHANGED <<table, cycle, history>> /\ snap'["tick"] = snap["tick"]
        BY <1>3 DEF ToolStart
    <2>. QED  BY <1>2, <2>1, <2>2, <2>3
<1>4. CASE Tools /\ task' = task
    <2>1. PICK i \in Ids, pc \in {"startGet", "pauseErase", "stopErase", "setPut", "checkpointPut"} :
            Call("rpc", pc, i, "idle")
        BY <1>4 DEF Tools, ToolStart, ToolResume, ToolPause, ToolStop, ToolSet, ToolCheckpoint
    <2>2. UNCHANGED <<table, cycle, history>> /\ snap'["tick"] = snap["tick"]
        BY <1>0, <1>4 DEF Tools, ToolStart, ToolResume, ToolPause, ToolStop, ToolSet, ToolCheckpoint, Threads
    <2>. QED  BY <1>2, <1>4, <2>1, <2>2
<1>. QED  BY <1>3, <1>4 DEF Tools, ToolResume, ToolPause, ToolStop, ToolSet, ToolCheckpoint

\* The cycle's steps outside the procedures, but for those that write the payload or
\* the counter of failures.
LEMMA CycleStill ==
    ASSUME Shape, Rest,
           \/ Pick \/ BatchDone \/ Lookup \/ \E i \in Ids : BeginCycle(i) \/ AutoPause(i)
           \/ Spawn \/ SpawnFails \/ Complete \/ Delay
    PROVE  Still("tick")
<1>0. /\ at \in [Threads -> Busy \cup TickPlaces] /\ on \in [Threads -> Ids \cup {NoId}]
      /\ snap \in [Threads -> Tasks] /\ back \in [Threads -> {"idle", "next", "delay", "complete"}]
      /\ "tick" \in Threads /\ task \in [Ids -> Tasks]
    BY DEF Shape, ThreadTypes, StoreTypes, Threads
<1>1. ASSUME NEW pc \in {"idle", "next", "complete"}, Goto("tick", pc), UNCHANGED <<task, running, fails, history, on, snap>>,
             at["tick"] \in {"idle", "next", "spawn"}
      PROVE  Still("tick")
    <2>1. at'["tick"] = pc /\ Others("tick")
        BY <1>0, <1>1 DEF Goto, Others
    <2>. QED  BY <1>0, <1>1, <2>1 DEF Still, Taken, history
<1>2. CASE Pick
    BY <1>1, <1>2 DEF Pick, table
<1>3. CASE BatchDone
    <2>1. /\ at["tick"] = "next" /\ at'["tick"] = "idle" /\ Others("tick")
          /\ UNCHANGED <<task, table, on, history>>
        BY <1>0, <1>3 DEF BatchDone, TickOver, Goto, Others
    <2>. QED  BY <1>0, <2>1 DEF Still, Taken, history, table
<1>4. CASE SpawnFails
    BY <1>1, <1>4 DEF SpawnFails, table
<1>5. CASE Lookup
    <2>1. PICK pc \in {"think", "next"} : Goto("tick", pc)
        BY <1>5 DEF Lookup
    <2>2. /\ at["tick"] = "lookup" /\ at'["tick"] = pc /\ Others("tick")
          /\ UNCHANGED <<task, table, on, snap, cyc, out, history>> /\ dangling' = FALSE
        BY <1>0, <1>5, <2>1 DEF Goto, Others, Lookup
    <2>3. snap["tick"].iterations < MaxIterations
        BY <2>2 DEF Rest, CheckedCycle
    <2>. QED  BY <1>0, <2>2, <2>3 DEF Still, Taken, history, table
<1>6. ASSUME NEW i \in Ids, BeginCycle(i)
      PROVE  Still("tick")
    <2>1. /\ at["tick"] = "next" /\ at'["tick"] = "lookup" /\ snap'["tick"] = task[i] /\ Others("tick")
          /\ UNCHANGED <<task, table, on, dangling, history>> /\ ~IterationsTripped(task[i])
        BY <1>0, <1>6 DEF BeginCycle, NextAgent, Goto, Others
    <2>2. task[i].iterations \in Nat /\ MaxIterations \in Nat
        BY <1>0, SadhanaAssumption DEF Tasks
    <2>3. task[i].iterations < MaxIterations
        BY <2>1, <2>2 DEF IterationsTripped
    <2>. QED  BY <1>0, <2>1, <2>3 DEF Still, Taken, history, table
<1>7. ASSUME NEW i \in Ids, AutoPause(i)
      PROVE  Still("tick")
    <2>1. /\ at["tick"] = "next" /\ Goto("tick", "pauseErase") /\ Others("tick")
          /\ UNCHANGED <<task, table, dangling, history>>
        BY <1>0, <1>7 DEF AutoPause, NextAgent, Call, Goto, Others
    <2>. QED  BY <1>0, <2>1, GoStill DEF Taken, Busy, Procedures, history, table
<1>8. CASE Complete
    <2>1. /\ at["tick"] = "complete" /\ Goto("tick", "stopErase") /\ Others("tick")
          /\ UNCHANGED <<task, table, history>>
        BY <1>0, <1>8 DEF Complete, Call, Goto, Others
    <2>. QED  BY <1>0, <2>1, GoStill DEF Taken, Busy, Procedures, history, table
<1>9. CASE Spawn
    <2>1. PICK i \in Ids : /\ Fresh(i) /\ task' = [task EXCEPT ![i] = NewTask]
                           /\ Call("tick", "startGet", i, "complete")
        BY <1>9 DEF Spawn
    <2>2. /\ at["tick"] = "spawn" /\ Goto("tick", "startGet") /\ Others("tick") /\ UNCHANGED <<table, history>>
        BY <1>0, <1>9, <2>1 DEF Spawn, Call, Goto, Others
    <2>3. \A j \in Ids : /\ (task'[j].state = "running" <=> task[j].state = "running")
                         /\ task'[j].iterations = task[j].iterations
        BY <1>0, <2>1, TasksFacts DEF Fresh, Shape, Existing
    <2>. QED  BY <1>0, <2>2, <2>3, GoStill DEF Taken, Busy, Procedures, history, table
<1>10. CASE Delay
    <2>1. /\ at["tick"] = "delay" /\ at'["tick"] = "next" /\ Others("tick")
          /\ UNCHANGED <<task, running, fails, on, history>>
        BY <1>0, <1>10 DEF Delay, Goto, Others
    <2>. QED  BY <1>0, <2>1 DEF Still, Taken, history
<1>. QED  BY <1>2, <1>3, <1>4, <1>5, <1>6, <1>7, <1>8, <1>9, <1>10

-------------------------------------------------------------------------------
(* Steps that change the table or write a payload.                         *)

\* The record of races only grows, and what it does not hold it never held.
LEMMA CleanBefore ==
    ASSUME \A i \in Ids : gaps[i] \subseteq gaps'[i]
    PROVE  (\A i \in Ids : Clean(i)' => Clean(i)) /\ (NoGaps' => NoGaps)
BY DEF Clean, NoGaps

\* What HalfWay says of one agent.
Half(i) ==
    /\ \A t \in Threads : on[t] = i =>
        /\ at[t] \in {"startInsert", "pauseGet", "pausePut"} => task[i].state = "running"
        /\ at[t] \in Taken => i \notin running
    /\ (\A t \in Threads : on[t] = i => at[t] \notin Taken \cup {"startInsert"})
            => (i \in running <=> task[i].state = "running")

\* A step of a thread leaves the agents it does not work on as they were.
LEMMA HalfElsewhere ==
    ASSUME NEW t \in Threads, NEW i \in Ids, on[t] # i, on'[t] # i, Half(i), Others(t),
           i \in running' <=> i \in running, task'[i].state = "running" <=> task[i].state = "running"
    PROVE  Half(i)'
BY DEF Half, Others, Taken

LEMMA FewerRun ==
    ASSUME running \subseteq Ids, NEW S, S \subseteq running
    PROVE  Cardinality(S) <= Cardinality(running) /\ Cardinality(S) \in Nat /\ Cardinality(running) \in Nat
<1>1. IsFiniteSet(Ids)
    BY FS_Interval, SadhanaAssumption DEF Ids
<1>2. IsFiniteSet(running)
    BY <1>1, FS_Subset
<1>. QED  BY <1>2, FS_Subset, FS_CardinalityType

LEMMA OneMoreRuns ==
    ASSUME running \subseteq Ids, NEW i \in Ids
    PROVE  Cardinality(running \cup {i}) <= Cardinality(running) + 1 /\ Cardinality(running) \in Nat
           /\ Cardinality(running \cup {i}) \in Nat
<1>1. IsFiniteSet(Ids)
    BY FS_Interval, SadhanaAssumption DEF Ids
<1>2. IsFiniteSet(running)
    BY <1>1, FS_Subset
<1>3. IsFiniteSet(running \cup {i})
    BY <1>2, FS_AddElement
<1>4. Cardinality(running) \in Nat /\ Cardinality(running \cup {i}) \in Nat
    BY <1>2, <1>3, FS_CardinalityType
<1>5. i \notin running => Cardinality(running \cup {i}) = Cardinality(running) + 1
    BY <1>2, FS_AddElement
<1>6. i \in running => running \cup {i} = running
    OBVIOUS
<1>7. ASSUME i \in running
      PROVE  Cardinality(running \cup {i}) = Cardinality(running)
    BY <1>6, <1>7
<1>. QED  BY <1>4, <1>5, <1>7

\* A procedure writes its agent's payload.  What is left to show of each of them is
\* what it makes of that agent.
LEMMA PutKeeps ==
    ASSUME Shape, Rest, NEW t \in Threads, NEW i \in Ids, on[t] = i, on'[t] \in {i, NoId}, Others(t),
           NEW new \in Tasks, Put(t, i, new, snap[t]), new.iterations = snap[t].iterations,
           UNCHANGED <<table, cycle, cycles, streak>>,
           at[t] \in Busy \ {"pauseErase"},
           at'[t] \in {"startInsert", "idle", "next", "delay", "complete"},
           at'[t] = "startInsert" => at[t] = "startPut",
           Clean(i)' => Half(i)',
           Clean(i)' /\ task[i] = snap[t] /\ task[i].state \in Finished => new.state \in Finished
    PROVE  Rest'
<1>1. /\ \A j \in Ids : j # i => task'[j] = task[j]
      /\ task'[i] = new
      /\ \A j \in Ids : gaps[j] \subseteq gaps'[j] /\ (j # i => gaps'[j] = gaps[j])
      /\ \A j \in Ids : ("torn" \in gaps'[j] <=> "torn" \in gaps[j]) /\ (Counted(j)' <=> Counted(j))
      /\ "staleWrite" \notin gaps'[i] => task[i] = snap[t]
      /\ "revived" \in gaps'[i] => \/ "revived" \in gaps[i]
                                   \/ task[i].state \in Finished /\ new.state \notin Finished
    BY PutFacts DEF Shape, StoreTypes, HistoryTypes
<1>2. running' = running /\ fails' = fails /\ dangling' = dangling /\ cyc' = cyc /\ out' = out
      /\ cycles' = cycles /\ streak' = streak
    BY DEF table, cycle
<1>3. t = "rpc" => at'["tick"] = at["tick"] /\ on'["tick"] = on["tick"] /\ snap'["tick"] = snap["tick"]
    BY DEF Others, Threads
<1>4. HalfWay'
    <2>1. ASSUME NEW j \in Ids, Clean(j)', j # i
          PROVE  Half(j)'
        <3>1. Half(j)
            BY <1>1, <2>1 DEF Rest, HalfWay, Half, Clean
        <3>2. on[t] # j /\ on'[t] # j
            BY <2>1 DEF NoId, Ids
        <3>. QED  BY <1>1, <1>2, <2>1, <3>1, <3>2, HalfElsewhere
    <2>2. \A j \in Ids : Clean(j)' => Half(j)'
        BY <2>1
    <2>. QED  BY <2>2 DEF HalfWay, Half
<1>5. CheckedStart'
    BY DEF Rest, CheckedStart, Others
<1>6. CheckedCycle'
    BY <1>3 DEF Rest, CheckedCycle, Threads
<1>7. RoomKept' /\ LimitHolds'
    <2>1. NoGaps' => NoGaps
        BY <1>1 DEF NoGaps
    <2>2. (\E u \in Threads : at'[u] \in {"startPut", "startInsert"}) =>
            \E u \in Threads : at[u] \in {"startPut", "startInsert"}
        BY DEF Others
    <2>. QED  BY <1>2, <2>1, <2>2 DEF Rest, RoomKept, LimitHolds, NoGaps
<1>8. Counting'
    <2>1. at'["tick"] \in {"think", "judge"} => at'["tick"] = at["tick"]
        BY <1>3 DEF Threads
    <2>2. at["tick"] = "judge" => at'["tick"] = at["tick"]
        BY <1>3 DEF Threads, Busy, Procedures
    <2>3. at["tick"] = "pauseErase" => at'["tick"] = at["tick"] /\ on'["tick"] = on["tick"]
        BY <1>3 DEF Threads, Busy, Procedures
    <2>4. cyc \in Ids \/ at["tick"] \notin {"think", "judge"}
        BY DEF Shape, Working, CycleTypes, Busy, Procedures
    <2>5. running \subseteq Ids
        BY DEF Shape, StoreTypes
    <2>. QED  BY <1>1, <1>2, <2>1, <2>2, <2>3, <2>4, <2>5 DEF Rest, Counting
<1>9. CyclesAreCounted'
    BY <1>1, <1>2 DEF Rest, CyclesAreCounted
<1>10. StoppedUnlessOverwritten'
    <2>1. gaps'[i] \cap {"staleWrite", "overlap"} = {} => Clean(i)' /\ task[i] = snap[t]
        BY <1>1 DEF Clean
    <2>. QED  BY <1>1, <2>1 DEF Rest, StoppedUnlessOverwritten, Clean
<1>. QED  BY <1>4, <1>5, <1>6, <1>7, <1>8, <1>9, <1>10 DEF Rest

LEMMA PutsRest ==
    ASSUME Shape, Rest, NEW t \in Threads,
           StartPut(t) \/ PausePut(t) \/ StopPut(t) \/ (t = "rpc" /\ (SetPut \/ CheckpointPut))
    PROVE  Rest'
<1>0. /\ at \in [Threads -> Busy \cup TickPlaces] /\ snap[t] \in Tasks /\ on \in [Threads -> Ids \cup {NoId}]
      /\ back[t] \in {"idle", "next", "delay", "complete"}
    BY DEF Shape, ThreadTypes
<1>. PICK i \in Ids : on[t] = i
    BY DEF Shape, Working, StartPut, PausePut, StopPut, SetPut, CheckpointPut, Busy, Procedures
<1>1. ASSUME NEW new \in Tasks, Put(t, i, new, snap[t]), at[t] \in Busy \ {"pauseErase"}
      PROVE  /\ task'[i] = new
             /\ Clean(i)' => task[i] = snap[t] /\ \A u \in Threads \ {t} : on[u] # i
             /\ Clean(i)' => Half(i)
    <2>1. /\ task'[i] = new /\ gaps[i] \subseteq gaps'[i]
          /\ "staleWrite" \notin gaps'[i] => task[i] = snap[t]
          /\ "overlap" \notin gaps'[i] => \A u \in Threads \ {t} : on[u] # i
        BY <1>1, PutFacts DEF Shape, StoreTypes, HistoryTypes
    <2>2. Clean(i)' => Clean(i) /\ "staleWrite" \notin gaps'[i] /\ "overlap" \notin gaps'[i]
        BY <2>1 DEF Clean
    <2>. QED  BY <2>1, <2>2 DEF Rest, HalfWay, Half
<1>2. ASSUME Return(t)
      PROVE  Others(t) /\ at'[t] = back[t] /\ on'[t] = NoId
    BY <1>0, <1>2 DEF Return, Goto, Others
<1>3. CASE StartPut(t)
    <2>. DEFINE new == [snap[t] EXCEPT !.state = "running"]
    <2>1. /\ at[t] = "startPut" /\ Put(t, i, new, snap[t]) /\ at'[t] = "startInsert" /\ on' = on /\ Others(t)
          /\ UNCHANGED <<table, cycle, cycles, streak>>
        BY <1>0, <1>3 DEF StartPut, Goto, Others
    <2>2. new \in Tasks /\ new.state = "running" /\ new.iterations = snap[t].iterations
        BY <1>0, <2>1 DEF Tasks, States, Busy, Procedures
    <2>3. snap[t].state \in Startable
        BY <2>1 DEF Rest, CheckedStart
    <2>4. at[t] \in Busy \ {"pauseErase"}
        BY <2>1 DEF Busy, Procedures
    <2>5. Clean(i)' => Half(i)'
        <3>. SUFFICES ASSUME Clean(i)'  PROVE Half(i)'
            OBVIOUS
        <3>1. task[i] = snap[t] /\ task'[i] = new /\ Half(i) /\ \A u \in Threads \ {t} : on[u] # i
            BY <1>1, <2>1, <2>2, <2>4
        <3>2. i \notin running
            BY <2>1, <2>3, <3>1 DEF Half, Taken, Startable
        <3>3. \A u \in Threads : on'[u] = i => u = t
            BY <2>1, <3>1
        <3>4. running' = running /\ at'[t] = "startInsert" /\ on'[t] = i
            BY <2>1 DEF table
        <3>. QED  BY <2>2, <3>1, <3>2, <3>3, <3>4 DEF Half, Taken
    <2>6. Clean(i)' /\ task[i] = snap[t] /\ task[i].state \in Finished => new.state \in Finished
        BY <2>3 DEF Startable, Finished
    <2>7. on'[t] \in {i, NoId}
        BY <2>1
    <2>8. at'[t] \in {"startInsert", "idle", "next", "delay", "complete"}
          /\ (at'[t] = "startInsert" => at[t] = "startPut")
        BY <2>1
    <2>. HIDE DEF new
    <2>. QED  BY <2>1, <2>2, <2>4, <2>5, <2>6, <2>7, <2>8, PutKeeps
<1>4. ASSUME NEW new \in Tasks, Put(t, i, new, snap[t]), new.iterations = snap[t].iterations,
             at[t] \in Busy \ {"pauseErase"}, Return(t), UNCHANGED <<table, cycle, cycles, streak>>,
             Clean(i)' => (i \in running <=> new.state = "running"),
             Clean(i)' /\ task[i] = snap[t] /\ task[i].state \in Finished => new.state \in Finished
      PROVE  Rest'
    <2>1. Others(t) /\ at'[t] = back[t] /\ on'[t] = NoId
        BY <1>0, <1>2, <1>4
    <2>2. Clean(i)' => Half(i)'
        <3>. SUFFICES ASSUME Clean(i)'  PROVE Half(i)'
            OBVIOUS
        <3>1. task'[i] = new /\ \A u \in Threads \ {t} : on[u] # i
            BY <1>1, <1>4
        <3>2. \A u \in Threads : on'[u] # i
            BY <2>1, <3>1 DEF Others, NoId, Ids
        <3>3. running' = running
            BY <1>4 DEF table
        <3>. QED  BY <1>4, <3>1, <3>2, <3>3 DEF Half
    <2>3. on'[t] \in {i, NoId}
        BY <2>1
    <2>4. at'[t] \in {"startInsert", "idle", "next", "delay", "complete"} /\ at'[t] # "startInsert"
        BY <1>0, <2>1
    <2>. QED  BY <1>4, <2>1, <2>2, <2>3, <2>4, PutKeeps
<1>5. CASE PausePut(t)
    <2>. DEFINE new == [snap[t] EXCEPT !.state = "paused"]
    <2>1. /\ at[t] = "pausePut" /\ Put(t, i, new, snap[t]) /\ Return(t)
          /\ UNCHANGED <<table, cycle, cycles, streak>>
        BY <1>5 DEF PausePut
    <2>2. new \in Tasks /\ new.state = "paused" /\ new.iterations = snap[t].iterations
          /\ at[t] \in Busy \ {"pauseErase"}
        BY <1>0, <2>1 DEF Tasks, States, Busy, Procedures
    <2>3. Clean(i)' => i \notin running /\ task[i].state = "running"
        BY <1>0, <1>1, <2>1, <2>2 DEF Half, Taken
    <2>4. Clean(i)' => (i \in running <=> new.state = "running")
        BY <2>2, <2>3
    <2>5. Clean(i)' /\ task[i] = snap[t] /\ task[i].state \in Finished => new.state \in Finished
        BY <2>3 DEF Finished
    <2>. HIDE DEF new
    <2>. QED  BY <1>4, <2>1, <2>2, <2>4, <2>5
<1>6. CASE StopPut(t)
    <2>1. PICK f \in Finished : Put(t, i, [snap[t] EXCEPT !.state = f], snap[t])
        BY <1>6 DEF StopPut, Finished
    <2>. DEFINE new == [snap[t] EXCEPT !.state = f]
    <2>2. /\ at[t] = "stopPut" /\ Put(t, i, new, snap[t]) /\ Return(t)
          /\ UNCHANGED <<table, cycle, cycles, streak>>
        BY <1>6, <2>1 DEF StopPut
    <2>3. new \in Tasks /\ new.state = f /\ new.iterations = snap[t].iterations
          /\ at[t] \in Busy \ {"pauseErase"}
        BY <1>0, <2>2 DEF Tasks, States, Busy, Procedures, Finished
    <2>4. Clean(i)' => i \notin running
        BY <1>0, <1>1, <2>2, <2>3 DEF Half, Taken
    <2>5. Clean(i)' => (i \in running <=> new.state = "running")
        BY <2>3, <2>4 DEF Finished
    <2>6. Clean(i)' /\ task[i] = snap[t] /\ task[i].state \in Finished => new.state \in Finished
        BY <2>3
    <2>. HIDE DEF new
    <2>. QED  BY <1>4, <2>2, <2>3, <2>5, <2>6
<1>7. CASE t = "rpc" /\ (SetPut \/ CheckpointPut)
    <2>1. PICK new \in Tasks : /\ Put(t, i, new, snap[t])
                               /\ new.state = snap[t].state /\ new.iterations = snap[t].iterations
        <3>1. [snap[t] EXCEPT !.goal = 1] \in Tasks
              /\ [snap[t] EXCEPT !.goal = 1].state = snap[t].state
              /\ [snap[t] EXCEPT !.goal = 1].iterations = snap[t].iterations
            BY <1>0 DEF Tasks
        <3>. QED  BY <1>0, <1>7, <3>1 DEF SetPut, CheckpointPut
    <2>2. /\ at[t] \in {"setPut", "checkpointPut"} /\ Return(t) /\ UNCHANGED <<table, cycle, cycles, streak>>
          /\ at[t] \in Busy \ {"pauseErase"}
        BY <1>7 DEF SetPut, CheckpointPut, Busy, Procedures
    <2>3. Clean(i)' => (i \in running <=> new.state = "running")
        BY <1>0, <1>1, <2>1, <2>2 DEF Half, Taken
    <2>. QED  BY <1>4, <2>1, <2>2, <2>3
<1>. QED  BY <1>3, <1>5, <1>6, <1>7

LEMMA PersistRest ==
    ASSUME Shape, Rest, NEW o \in Outcomes, Persist(o)
    PROVE  Rest'
<1>1. /\ at["tick"] = "think" /\ at'["tick"] = "judge" /\ Others("tick") /\ on' = on
      /\ snap["tick"] \in Tasks /\ "tick" \in Threads
      /\ Put("tick", cyc, [snap["tick"] EXCEPT !.iterations = @ + 1], snap["tick"])
      /\ UNCHANGED <<table, dangling, cyc>> /\ out' = o /\ running' = running /\ fails' = fails
      /\ cycles' = [cycles EXCEPT ![cyc] = @ + 1]
      /\ streak' = [streak EXCEPT ![cyc] = IF Failed(o) THEN @ + 1 ELSE 0]
    BY DEF Persist, Shape, ThreadTypes, Goto, Others, Threads, table
<1>2. PICK i \in Ids : i = cyc
    BY <1>1 DEF Shape, Working, CycleTypes, Busy, Procedures
<1>3. PICK new \in Tasks : /\ Put("tick", i, new, snap["tick"]) /\ new.state = snap["tick"].state
                           /\ new.iterations = snap["tick"].iterations + 1
    <2>1. [snap["tick"] EXCEPT !.iterations = @ + 1] \in Tasks
        BY <1>1 DEF Tasks
    <2>. QED  BY <1>1, <1>2, <2>1 DEF Tasks
<1>4. /\ \A j \in Ids : j # i => task'[j] = task[j]
      /\ task'[i] = new
      /\ \A j \in Ids : gaps[j] \subseteq gaps'[j] /\ (j # i => gaps'[j] = gaps[j])
      /\ \A j \in Ids : ("torn" \in gaps'[j] <=> "torn" \in gaps[j]) /\ (Counted(j)' <=> Counted(j))
      /\ "staleWrite" \notin gaps'[i] => task[i] = snap["tick"]
      /\ "revived" \in gaps'[i] => \/ "revived" \in gaps[i]
                                   \/ task[i].state \in Finished /\ new.state \notin Finished
    BY <1>1, <1>3, PutFacts DEF Shape, StoreTypes, HistoryTypes
<1>5. HalfWay'
    <2>1. ASSUME NEW j \in Ids, Clean(j)'
          PROVE  Half(j)'
        <3>1. Half(j)
            BY <1>4, <2>1 DEF Rest, HalfWay, Half, Clean
        <3>2. task'[j].state = task[j].state
            BY <1>3, <1>4, <2>1 DEF Clean
        <3>3. on["tick"] # j
            BY <1>1 DEF Shape, Working, Busy, Procedures
        <3>. QED  BY <1>1, <3>1, <3>2, <3>3, HalfElsewhere
    <2>2. \A j \in Ids : Clean(j)' => Half(j)'
        BY <2>1
    <2>. QED  BY <2>2 DEF HalfWay, Half
<1>6. CheckedStart' /\ CheckedCycle'
    BY <1>1 DEF Rest, CheckedStart, CheckedCycle, Others
<1>7. RoomKept' /\ LimitHolds'
    <2>1. NoGaps' => NoGaps
        BY <1>4 DEF NoGaps
    <2>2. (\E u \in Threads : at'[u] \in {"startPut", "startInsert"}) =>
            \E u \in Threads : at[u] \in {"startPut", "startInsert"}
        BY <1>1 DEF Others
    <2>. QED  BY <1>1, <2>1, <2>2 DEF Rest, RoomKept, LimitHolds, NoGaps
<1>8. Counting'
    <2>1. /\ dangling => "torn" \in gaps[i]
          /\ \A j \in running : Counted(j) => fails[j] < MaxFailures /\ streak[j] <= fails[j]
        BY <1>1, <1>2 DEF Rest, Counting
    <2>2. running \subseteq Ids /\ fails \in [Ids -> Nat] /\ streak \in [Ids -> Nat]
        BY DEF Shape, StoreTypes, HistoryTypes
    <2>3. \A j \in Ids : streak'[j] = IF j = i THEN IF Failed(o) THEN streak[i] + 1 ELSE 0 ELSE streak[j]
        BY <1>1, <1>2, <2>2
    <2>4. dangling' = dangling /\ cyc' = i
        BY <1>1, <1>2
    <2>5. dangling' => "torn" \in gaps'[cyc']
        BY <1>4, <2>1, <2>4
    <2>6. ASSUME NEW j \in running, Counted(j)'
          PROVE  /\ fails[j] < MaxFailures
                 /\ streak'[j] <= IF cyc' = j THEN IF Failed(o) THEN fails[j] + 1 ELSE 0 ELSE fails[j]
        <3>1. j \in Ids /\ fails[j] < MaxFailures /\ streak[j] <= fails[j] /\ fails[j] \in Nat /\ streak[j] \in Nat
            BY <1>4, <2>1, <2>2, <2>6
        <3>. QED  BY <2>3, <2>4, <3>1
    <2>. QED  BY <1>1, <2>5, <2>6 DEF Counting
<1>9. CyclesAreCounted'
    <2>1. ASSUME NEW j \in Ids, "staleWrite" \notin gaps'[j]
          PROVE  /\ task'[j].iterations <= cycles'[j] /\ task'[j].iterations <= MaxIterations
                 /\ "threw" \notin gaps'[j] => task'[j].iterations = cycles'[j]
        <3>1. /\ task[j].iterations <= cycles[j] /\ task[j].iterations <= MaxIterations
              /\ "threw" \notin gaps'[j] => task[j].iterations = cycles[j]
            BY <1>4, <2>1 DEF Rest, CyclesAreCounted
        <3>2. CASE j = i
            <4>1. task[i].iterations < MaxIterations /\ task[i].iterations \in Nat
                BY <1>1, <1>4, <2>1, <3>2 DEF Rest, CheckedCycle, Tasks
            <4>2. cycles' = [cycles EXCEPT ![i] = @ + 1] /\ cycles \in [Ids -> Nat]
                BY <1>1, <1>2 DEF Shape, HistoryTypes
            <4>3. cycles'[i] = cycles[i] + 1 /\ task'[i].iterations = task[i].iterations + 1
                BY <1>3, <1>4, <2>1, <3>2, <4>2
            <4>4. cycles[i] \in Nat
                BY <4>2
            <4>. QED  BY <3>1, <3>2, <4>1, <4>3, <4>4, SadhanaAssumption
        <3>3. CASE j # i
            BY <1>1, <1>2, <1>4, <3>1, <3>3 DEF Shape, HistoryTypes
        <3>. QED  BY <3>2, <3>3
    <2>. QED  BY <2>1 DEF CyclesAreCounted
<1>10. StoppedUnlessOverwritten'
    BY <1>3, <1>4 DEF Rest, StoppedUnlessOverwritten
<1>. QED  BY <1>5, <1>6, <1>7, <1>8, <1>9, <1>10 DEF Rest

\* A cycle that throws leaves the store and the table alone, and is on record.
LEMMA ThrowRest ==
    ASSUME Shape, Rest, CycleThrows
    PROVE  Rest'
<1>1. PICK i \in Ids : i = cyc
    BY DEF CycleThrows, Shape, Working, CycleTypes, Busy, Procedures
<1>2. /\ at["tick"] = "think" /\ at'["tick"] = "idle" /\ Others("tick") /\ on' = on
      /\ task' = task /\ running' = running /\ fails' = fails /\ "tick" \in Threads
      /\ gaps' = [gaps EXCEPT ![i] = @ \cup {"threw"}]
      /\ cycles' = [cycles EXCEPT ![i] = IF "threw" \in gaps[i] THEN @ ELSE @ + 1]
      /\ streak' = [streak EXCEPT ![i] = UpTo(@, MaxFailures)]
    BY <1>1 DEF CycleThrows, TickOver, Shape, ThreadTypes, Goto, Others, Threads, table
<1>3. /\ \A j \in Ids : j # i => gaps'[j] = gaps[j] /\ cycles'[j] = cycles[j] /\ streak'[j] = streak[j]
      /\ gaps'[i] = gaps[i] \cup {"threw"} /\ cycles[i] \in Nat
      /\ cycles'[i] = IF "threw" \in gaps[i] THEN cycles[i] ELSE cycles[i] + 1
    BY <1>2 DEF Shape, HistoryTypes
<1>4. HalfWay'
    <2>1. ASSUME NEW j \in Ids, Clean(j)'
          PROVE  Half(j)'
        <3>1. Half(j)
            BY <1>3, <2>1 DEF Rest, HalfWay, Half, Clean
        <3>2. on["tick"] # j
            BY <1>2 DEF Shape, Working, Busy, Procedures
        <3>. QED  BY <1>2, <3>1, <3>2, HalfElsewhere
    <2>2. \A j \in Ids : Clean(j)' => Half(j)'
        BY <2>1
    <2>. QED  BY <2>2 DEF HalfWay, Half
<1>5. CheckedStart' /\ CheckedCycle'
    BY <1>2 DEF Rest, CheckedStart, CheckedCycle, Others
<1>6. RoomKept' /\ LimitHolds'
    <2>1. NoGaps' => NoGaps
        BY <1>3 DEF NoGaps
    <2>2. (\E u \in Threads : at'[u] \in {"startPut", "startInsert"}) =>
            \E u \in Threads : at[u] \in {"startPut", "startInsert"}
        BY <1>2 DEF Others
    <2>. QED  BY <1>2, <2>1, <2>2 DEF Rest, RoomKept, LimitHolds, NoGaps
<1>7. Counting'
    <2>1. \A j \in running : Counted(j) => fails[j] < MaxFailures /\ streak[j] <= fails[j]
        BY <1>2 DEF Rest, Counting
    <2>2. \A j \in Ids : Counted(j)' => Counted(j) /\ streak'[j] = streak[j]
        BY <1>3 DEF Counted
    <2>3. running \subseteq Ids
        BY DEF Shape, StoreTypes
    <2>. QED  BY <1>2, <2>1, <2>2, <2>3 DEF Counting
<1>8. CyclesAreCounted'
    <2>1. ASSUME NEW j \in Ids, "staleWrite" \notin gaps'[j]
          PROVE  /\ task'[j].iterations <= cycles'[j] /\ task'[j].iterations <= MaxIterations
                 /\ "threw" \notin gaps'[j] => task'[j].iterations = cycles'[j]
        <3>1. /\ task[j].iterations <= cycles[j] /\ task[j].iterations <= MaxIterations
              /\ "threw" \notin gaps[j] => task[j].iterations = cycles[j]
            BY <1>3, <2>1 DEF Rest, CyclesAreCounted
        <3>2. task[j].iterations \in Nat /\ cycles[j] \in Nat
            BY DEF Shape, StoreTypes, HistoryTypes, Tasks
        <3>. QED  BY <1>2, <1>3, <3>1, <3>2
    <2>. QED  BY <2>1 DEF CyclesAreCounted
<1>9. StoppedUnlessOverwritten'
    BY <1>2, <1>3 DEF Rest, StoppedUnlessOverwritten
<1>. QED  BY <1>4, <1>5, <1>6, <1>7, <1>8, <1>9 DEF Rest

LEMMA JudgeRest ==
    ASSUME Shape, Rest, JudgeFailed \/ JudgeBlocked \/ JudgeAchieved \/ JudgeContinue
    PROVE  Rest'
<1>1. /\ at["tick"] = "judge" /\ Others("tick") /\ UNCHANGED <<task, running, due, snap, cycle, history>>
      /\ at'["tick"] \in {"pauseErase", "spawn", "complete", "delay"} /\ "tick" \in Threads
      /\ Judge /\ (on' = on \/ (at'["tick"] = "pauseErase" /\ on'["tick"] = cyc))
    <2>1. at \in [Threads -> Busy \cup TickPlaces] /\ on \in [Threads -> Ids \cup {NoId}]
        BY DEF Shape, ThreadTypes
    <2>2. CASE JudgeFailed \/ JudgeBlocked
        BY <2>1, <2>2 DEF JudgeFailed, JudgeBlocked, Judge, Call, Goto, Others, Threads
    <2>3. CASE JudgeAchieved \/ JudgeContinue
        BY <2>1, <2>3 DEF JudgeAchieved, JudgeContinue, Judge, Goto, Others, Threads
    <2>. QED  BY <2>2, <2>3
<1>2. gaps' = gaps /\ cycles' = cycles /\ streak' = streak /\ dangling' = dangling /\ cyc' = cyc /\ out' = out
      /\ task' = task /\ running' = running
    BY <1>1 DEF cycle, history
<1>3. PICK i \in Ids : i = cyc
    BY <1>1 DEF Shape, Working, CycleTypes, Busy, Procedures
<1>4. HalfWay'
    <2>1. ASSUME NEW j \in Ids, Clean(j)'
          PROVE  Half(j)'
        <3>1. Half(j)
            BY <1>2, <2>1 DEF Rest, HalfWay, Half, Clean
        <3>. QED  BY <1>1, <1>2, <3>1 DEF Half, Others, Taken
    <2>2. \A j \in Ids : Clean(j)' => Half(j)'
        BY <2>1
    <2>. QED  BY <2>2 DEF HalfWay, Half
<1>5. CheckedStart' /\ CheckedCycle'
    BY <1>1 DEF Rest, CheckedStart, CheckedCycle, Others
<1>6. RoomKept' /\ LimitHolds'
    <2>1. (\E u \in Threads : at'[u] \in {"startPut", "startInsert"}) =>
            \E u \in Threads : at[u] \in {"startPut", "startInsert"}
        BY <1>1 DEF Others
    <2>. QED  BY <1>2, <2>1 DEF Rest, RoomKept, LimitHolds, NoGaps
<1>7. Counting'
    <2>1. /\ dangling => "torn" \in gaps[i]
          /\ \A j \in running : Counted(j) =>
                /\ fails[j] < MaxFailures
                /\ streak[j] <= IF i = j THEN IF Failed(out) THEN fails[j] + 1 ELSE 0 ELSE fails[j]
        BY <1>1, <1>3 DEF Rest, Counting
    <2>2. running \subseteq Ids /\ fails \in [Ids -> Nat] /\ streak \in [Ids -> Nat] /\ MaxFailures \in Nat \ {0}
        BY SadhanaAssumption DEF Shape, StoreTypes, HistoryTypes
    <2>3. /\ \A j \in Ids : j # i => fails'[j] = fails[j]
          /\ ~dangling => fails'[i] = IF Failed(out) THEN fails[i] + 1 ELSE 0
        BY <1>1, <1>3, <2>2 DEF Judge, Count
    <2>4. /\ ~dangling /\ at'["tick"] # "pauseErase" => fails'[i] < MaxFailures
          /\ ~dangling /\ at'["tick"] = "pauseErase" => fails'[i] < MaxFailures \/ on'["tick"] = i
        <3>1. CASE JudgeFailed
            BY <1>3, <3>1 DEF JudgeFailed, Call, Goto, Shape, ThreadTypes, Threads
        <3>2. CASE JudgeBlocked \/ JudgeAchieved
            BY <2>2, <2>3, <3>2 DEF JudgeBlocked, JudgeAchieved, Failed
        <3>3. CASE JudgeContinue
            <4>1. CASE Failed(out)
                BY <1>3, <3>3, <4>1 DEF JudgeContinue
            <4>2. CASE ~Failed(out)
                BY <2>2, <2>3, <4>2
            <4>. QED  BY <4>1, <4>2
        <3>. QED  BY <3>1, <3>2, <3>3
    <2>5. ASSUME NEW j \in running, Counted(j)'
          PROVE  \/ at'["tick"] = "pauseErase" /\ on'["tick"] = j
                 \/ fails'[j] < MaxFailures /\ streak'[j] <= fails'[j]
        <3>1. CASE j = i
            BY <1>2, <2>1, <2>2, <2>3, <2>4, <2>5, <3>1 DEF Counted
        <3>2. CASE j # i
            BY <1>2, <2>1, <2>2, <2>3, <2>5, <3>2 DEF Counted
        <3>. QED  BY <3>1, <3>2
    <2>. QED  BY <1>1, <1>2, <2>5 DEF Counting
<1>8. CyclesAreCounted' /\ StoppedUnlessOverwritten'
    BY <1>2 DEF Rest, CyclesAreCounted, StoppedUnlessOverwritten
<1>. QED  BY <1>4, <1>5, <1>6, <1>7, <1>8 DEF Rest

LEMMA StartInsertRest ==
    ASSUME Shape, Rest, NEW t \in Threads, StartInsert(t)
    PROVE  Rest'
<1>1. PICK i \in Ids : on[t] = i
    BY DEF Shape, Working, StartInsert, Busy, Procedures
<1>2. /\ at[t] = "startInsert" /\ Others(t) /\ at'[t] = back[t] /\ on'[t] = NoId
      /\ back[t] \in {"idle", "next", "delay", "complete"}
      /\ UNCHANGED <<task, cycle, cycles>> /\ running' = running \cup {i}
      /\ fails' = [fails EXCEPT ![i] = 0] /\ streak' = [streak EXCEPT ![i] = 0]
      /\ gaps' = [gaps EXCEPT ![i] = @ \cup Races(t, i)]
    BY <1>1 DEF StartInsert, Return, Goto, Others, Shape, ThreadTypes
<1>3. /\ \A j \in Ids : gaps[j] \subseteq gaps'[j] /\ (j # i => gaps'[j] = gaps[j])
      /\ \A j \in Ids : ("torn" \in gaps'[j] <=> "torn" \in gaps[j]) /\ (Counted(j)' <=> Counted(j))
      /\ \A j \in Ids : "revived" \in gaps'[j] <=> "revived" \in gaps[j]
      /\ \A j \in Ids : "staleWrite" \in gaps'[j] <=> "staleWrite" \in gaps[j]
      /\ "overlap" \notin gaps'[i] => \A u \in Threads \ {t} : on[u] # i
      /\ "crowded" \notin gaps'[i] => \A u \in Threads \ {t} : at[u] \notin {"startPut", "startInsert"}
    <2>1. gaps'[i] = gaps[i] \cup Races(t, i) /\ \A j \in Ids : j # i => gaps'[j] = gaps[j]
        BY <1>2 DEF Shape, HistoryTypes
    <2>2. Races(t, i) \subseteq {"overlap", "crowded"}
        BY DEF Races
    <2>3. "overlap" \notin Races(t, i) => \A u \in Threads \ {t} : on[u] # i
        BY DEF Races
    <2>4. "crowded" \notin Races(t, i) => \A u \in Threads \ {t} : at[u] \notin {"startPut", "startInsert"}
        BY <1>2 DEF Races
    <2>. QED  BY <2>1, <2>2, <2>3, <2>4 DEF Counted
<1>4. t = "rpc" => at'["tick"] = at["tick"] /\ on'["tick"] = on["tick"] /\ snap'["tick"] = snap["tick"]
    BY <1>2 DEF Others, Threads
<1>5. dangling' = dangling /\ cyc' = cyc /\ out' = out
    BY <1>2 DEF cycle
<1>6. HalfWay'
    <2>1. ASSUME NEW j \in Ids, Clean(j)', j # i
          PROVE  Half(j)'
        <3>1. Half(j)
            BY <1>3, <2>1 DEF Rest, HalfWay, Half, Clean
        <3>2. on[t] # j /\ on'[t] # j
            BY <1>1, <1>2, <2>1 DEF NoId, Ids
        <3>3. (j \in running' <=> j \in running) /\ task' = task
            BY <1>2, <2>1
        <3>. QED  BY <1>2, <3>1, <3>2, <3>3, HalfElsewhere
    <2>2. ASSUME Clean(i)'
          PROVE  Half(i)'
        <3>1. Clean(i) /\ \A u \in Threads \ {t} : on[u] # i
            BY <1>3, <2>2 DEF Clean
        <3>2. task[i].state = "running"
            BY <1>1, <1>2, <3>1 DEF Rest, HalfWay
        <3>3. \A u \in Threads : on'[u] # i
            BY <1>2, <3>1 DEF Others, NoId, Ids
        <3>. QED  BY <1>2, <3>2, <3>3 DEF Half
    <2>3. \A j \in Ids : Clean(j)' => Half(j)'
        BY <2>1, <2>2
    <2>. QED  BY <2>3 DEF HalfWay, Half
<1>7. CheckedStart'
    BY <1>2 DEF Rest, CheckedStart, Others
<1>8. CheckedCycle'
    BY <1>2, <1>4 DEF Rest, CheckedCycle, Threads
<1>9. RoomKept' /\ LimitHolds'
    <2>. SUFFICES ASSUME NoGaps'
                  PROVE  /\ \A u \in Threads : at'[u] \notin {"startPut", "startInsert"}
                         /\ Cardinality(running') <= MaxConcurrent
        BY DEF RoomKept, LimitHolds, NoGaps
    <2>1. NoGaps
        BY <1>3 DEF NoGaps
    <2>2. Cardinality(running) < MaxConcurrent
        BY <1>2, <2>1 DEF Rest, RoomKept
    <2>3. Cardinality(running') <= Cardinality(running) + 1 /\ Cardinality(running) \in Nat
          /\ Cardinality(running') \in Nat
        BY <1>2, OneMoreRuns DEF Shape, StoreTypes
    <2>4. "crowded" \notin gaps'[i]
        BY DEF NoGaps
    <2>5. \A u \in Threads : at'[u] \notin {"startPut", "startInsert"}
        BY <1>2, <1>3, <2>4 DEF Others
    <2>. QED  BY <2>2, <2>3, <2>5, SadhanaAssumption
<1>10. Counting'
    <2>1. running \subseteq Ids /\ fails \in [Ids -> Nat] /\ streak \in [Ids -> Nat] /\ MaxFailures \in Nat \ {0}
          /\ (cyc \in Ids \/ at["tick"] \notin {"think", "judge"})
        BY SadhanaAssumption DEF Shape, StoreTypes, HistoryTypes, Working, CycleTypes, Busy, Procedures
    <2>2. (at'["tick"] \in {"think", "judge"} <=> at["tick"] \in {"think", "judge"})
          /\ (at'["tick"] = "judge" <=> at["tick"] = "judge")
          /\ (at["tick"] = "pauseErase" => at'["tick"] = "pauseErase" /\ on'["tick"] = on["tick"])
        BY <1>2, <1>4 DEF Threads
    <2>3. at'["tick"] \in {"think", "judge"} /\ dangling' => "torn" \in gaps'[cyc']
        BY <1>3, <1>5, <2>1, <2>2 DEF Rest, Counting
    <2>4. fails'[i] = 0 /\ streak'[i] = 0 /\ \A j \in Ids : j # i => fails'[j] = fails[j] /\ streak'[j] = streak[j]
        BY <1>2, <2>1
    <2>5. ASSUME NEW j \in running', Counted(j)'
          PROVE  \/ at'["tick"] = "pauseErase" /\ on'["tick"] = j
                 \/ /\ fails'[j] < MaxFailures
                    /\ streak'[j] <= IF at'["tick"] = "judge" /\ cyc' = j
                                     THEN IF Failed(out') THEN fails'[j] + 1 ELSE 0
                                     ELSE fails'[j]
        <3>1. CASE j = i
            BY <2>1, <2>4, <3>1
        <3>2. CASE j # i
            <4>1. j \in running /\ Counted(j) /\ j \in Ids /\ fails'[j] = fails[j] /\ streak'[j] = streak[j]
                BY <1>2, <1>3, <2>1, <2>4, <2>5, <3>2
            <4>. QED  BY <1>5, <2>2, <4>1 DEF Rest, Counting
        <3>. QED  BY <3>1, <3>2
    <2>6. \A j \in running' : Counted(j)' =>
            \/ at'["tick"] = "pauseErase" /\ on'["tick"] = j
            \/ /\ fails'[j] < MaxFailures
               /\ streak'[j] <= IF at'["tick"] = "judge" /\ cyc' = j
                                THEN IF Failed(out') THEN fails'[j] + 1 ELSE 0
                                ELSE fails'[j]
        BY <2>5
    <2>. QED  BY <2>3, <2>6 DEF Counting, Failed
<1>11. CyclesAreCounted'
    BY <1>2, <1>3 DEF Rest, CyclesAreCounted
<1>12. StoppedUnlessOverwritten'
    BY <1>3 DEF Rest, StoppedUnlessOverwritten
<1>. QED  BY <1>6, <1>7, <1>8, <1>9, <1>10, <1>11, <1>12 DEF Rest

\* pause of a scheduled agent, and stop.
LEMMA EraseRest ==
    ASSUME Shape, Rest, NEW t \in Threads, StopErase(t) \/ (PauseErase(t) /\ on[t] \in running)
    PROVE  Rest'
<1>1. PICK i \in Ids : on[t] = i
    BY DEF Shape, Working, StopErase, PauseErase, Busy, Procedures
<1>2. /\ Others(t) /\ on' = on /\ snap' = snap /\ UNCHANGED <<task, fails, cycles, streak>>
      /\ Erase(i) /\ cyc' = cyc /\ out' = out
      /\ \/ at[t] = "stopErase" /\ at'[t] = "stopGet"
         \/ at[t] = "pauseErase" /\ at'[t] = "pauseGet" /\ i \in running
    BY <1>1 DEF StopErase, PauseErase, Goto, Others, Shape, ThreadTypes
<1>3. /\ running' = running \ {i} /\ dangling' = (dangling \/ (i \in running /\ InCycle(i)))
      /\ \A j \in Ids : gaps[j] \subseteq gaps'[j] /\ gaps'[j] \subseteq gaps[j] \cup {"torn"}
      /\ i \in running /\ InCycle(i) => "torn" \in gaps'[i]
    BY <1>2 DEF Erase, Shape, HistoryTypes
<1>4. HalfWay'
    <2>1. ASSUME NEW j \in Ids, Clean(j)'
          PROVE  Half(j)
        BY <1>3, <2>1 DEF Rest, HalfWay, Half, Clean
    <2>2. ASSUME NEW j \in Ids, Clean(j)', j # i
          PROVE  Half(j)'
        <3>1. Half(j) /\ on[t] # j /\ on'[t] # j /\ (j \in running' <=> j \in running) /\ task' = task
            BY <1>1, <1>2, <1>3, <2>1, <2>2
        <3>. QED  BY <1>2, <3>1, HalfElsewhere
    <2>3. ASSUME Clean(i)'
          PROVE  Half(i)'
        <3>1. Half(i)
            BY <2>1, <2>3
        <3>2. i \notin running' /\ task' = task /\ on'[t] = i /\ at'[t] \in Taken
            BY <1>1, <1>2, <1>3 DEF Taken
        <3>3. i \in running => task[i].state = "running"
            BY <3>1 DEF Half, Taken
        <3>4. \A u \in Threads :
                u # t /\ on'[u] = i /\ at'[u] \in {"startInsert", "pauseGet", "pausePut"} => task'[i].state = "running"
            BY <1>2, <3>1, <3>2 DEF Half, Others
        <3>5. at'[t] \in {"startInsert", "pauseGet", "pausePut"} => task'[i].state = "running"
            BY <1>2, <3>2, <3>3
        <3>. QED  BY <3>2, <3>4, <3>5 DEF Half
    <2>4. \A j \in Ids : Clean(j)' => Half(j)'
        BY <2>2, <2>3
    <2>. QED  BY <2>4 DEF HalfWay, Half
<1>5. CheckedStart' /\ CheckedCycle'
    BY <1>2 DEF Rest, CheckedStart, CheckedCycle, Others, Threads
<1>6. RoomKept' /\ LimitHolds'
    <2>1. NoGaps' => NoGaps
        BY <1>3 DEF NoGaps
    <2>2. (\E u \in Threads : at'[u] \in {"startPut", "startInsert"}) =>
            \E u \in Threads : at[u] \in {"startPut", "startInsert"}
        BY <1>2 DEF Others
    <2>3. Cardinality(running') <= Cardinality(running) /\ Cardinality(running') \in Nat /\ Cardinality(running) \in Nat
        BY <1>3, FewerRun DEF Shape, StoreTypes
    <2>. QED  BY <2>1, <2>2, <2>3, SadhanaAssumption DEF Rest, RoomKept, LimitHolds, NoGaps
<1>7. Counting'
    <2>1. (at'["tick"] \in {"think", "judge"} <=> at["tick"] \in {"think", "judge"})
          /\ (at'["tick"] = "judge" <=> at["tick"] = "judge")
          /\ (at["tick"] = "pauseErase" => at'["tick"] = "pauseErase" \/ on["tick"] = i)
        BY <1>1, <1>2 DEF Others, Threads
    <2>2. running \subseteq Ids /\ (cyc \in Ids \/ at["tick"] \notin {"think", "judge"})
        BY DEF Shape, StoreTypes, Working, CycleTypes, Busy, Procedures
    <2>3. at'["tick"] \in {"think", "judge"} /\ dangling' => "torn" \in gaps'[cyc']
        BY <1>2, <1>3, <2>1, <2>2 DEF Rest, Counting, InCycle
    <2>4. \A j \in running' : j \in running /\ j # i /\ (Counted(j)' => Counted(j))
        BY <1>3, <2>2 DEF Counted
    <2>5. \A j \in running' : Counted(j)' =>
            \/ at'["tick"] = "pauseErase" /\ on'["tick"] = j
            \/ /\ fails'[j] < MaxFailures
               /\ streak'[j] <= IF at'["tick"] = "judge" /\ cyc' = j
                                THEN IF Failed(out') THEN fails'[j] + 1 ELSE 0
                                ELSE fails'[j]
        BY <1>2, <2>1, <2>4 DEF Rest, Counting
    <2>. QED  BY <2>3, <2>5 DEF Counting, Failed
<1>8. CyclesAreCounted' /\ StoppedUnlessOverwritten'
    BY <1>2, <1>3 DEF Rest, CyclesAreCounted, StoppedUnlessOverwritten
<1>. QED  BY <1>4, <1>5, <1>6, <1>7, <1>8 DEF Rest

LEMMA ResetRest ==
    ASSUME Shape, Rest, Restart \/ RestartPaused
    PROVE  Rest'
<1>1. /\ fails' = [i \in Ids |-> 0] /\ streak' = [i \in Ids |-> 0] /\ cycles' = cycles
      /\ at' = [t \in Threads |-> "idle"] /\ on' = [t \in Threads |-> NoId]
      /\ dangling' = FALSE
      /\ gaps' = [i \in Ids |-> gaps[i] \cup (IF Settled(i) THEN {} ELSE {"interrupted"})]
    BY DEF Restart, RestartPaused, Reset
<1>2. /\ task \in [Ids -> Tasks] /\ running \subseteq Ids
      /\ gaps \in [Ids -> SUBSET {"staleWrite", "overlap", "crowded", "interrupted", "torn", "revived", "threw"}]
    BY DEF Shape, StoreTypes, HistoryTypes
<1>3. /\ running' \subseteq Ids
      /\ \A i \in Ids : (i \in running' <=> task'[i].state = "running") /\ task'[i].iterations = task[i].iterations
      /\ running' = Recorded \/ running' = {}
    <2>1. CASE Restart
        BY <1>2, <2>1 DEF Restart, Recorded
    <2>2. CASE RestartPaused
        <3>1. \A i \in Ids : [task[i] EXCEPT !.state = "paused"].state = "paused"
                             /\ [task[i] EXCEPT !.state = "paused"].iterations = task[i].iterations
            BY <1>2 DEF Tasks
        <3>2. /\ task' = [i \in Ids |-> IF i \in Recorded THEN [task[i] EXCEPT !.state = "paused"] ELSE task[i]]
              /\ running' = {}
            BY <2>2 DEF RestartPaused
        <3>. QED  BY <1>2, <3>1, <3>2 DEF Recorded
    <2>. QED  BY <2>1, <2>2
<1>4. HalfWay'
    <2>1. \A i \in Ids : \A t \in Threads : on'[t] # i
        BY <1>1 DEF NoId, Ids
    <2>. QED  BY <1>3, <2>1 DEF HalfWay
<1>5. CheckedStart' /\ CheckedCycle' /\ RoomKept'
    BY <1>1 DEF CheckedStart, CheckedCycle, RoomKept, Threads
<1>6. LimitHolds'
    <2>. SUFFICES ASSUME NoGaps'
                  PROVE  Cardinality(running') <= MaxConcurrent
        BY DEF LimitHolds, NoGaps
    <2>1. NoGaps /\ \A i \in Ids : Settled(i) /\ Clean(i)
        BY <1>1, <1>2 DEF NoGaps, Clean
    <2>2. \A i \in Ids : i \in running <=> task[i].state = "running"
        BY <2>1 DEF Rest, HalfWay, Settled
    <2>3. running' \subseteq running
        BY <1>2, <1>3, <2>2 DEF Recorded
    <2>4. Cardinality(running) <= MaxConcurrent
        BY <2>1 DEF Rest, LimitHolds, NoGaps
    <2>. QED  BY <1>2, <2>3, <2>4, FewerRun, SadhanaAssumption
<1>7. Counting'
    BY <1>1, <1>3, SadhanaAssumption DEF Counting, Threads
<1>8. CyclesAreCounted' /\ StoppedUnlessOverwritten'
    BY <1>1, <1>2, <1>3 DEF Rest, CyclesAreCounted, StoppedUnlessOverwritten
<1>. QED  BY <1>4, <1>5, <1>6, <1>7, <1>8 DEF Rest

LEMMA RestKept ==
    ASSUME Shape, Rest, [Next]_vars
    PROVE  Rest'
<1>1. ASSUME NEW t \in Threads, Procedure(t)
      PROVE  Rest'
    <2>1. \/ StartGet(t) \/ StartRoom(t) \/ PauseGet(t) \/ StopGet(t) \/ (PauseErase(t) /\ on[t] \notin running)
          \/ StartPut(t) \/ PausePut(t) \/ StopPut(t)
          \/ StartInsert(t) \/ StopErase(t) \/ (PauseErase(t) /\ on[t] \in running)
        BY <1>1 DEF Procedure
    <2>. QED  BY <2>1, ProcedureStill, StillKeeps, PutsRest, StartInsertRest, EraseRest
<1>2. CASE SetPut \/ CheckpointPut
    BY <1>2, PutsRest DEF Threads
<1>3. CASE Cycle
    <2>1. CASE \/ Pick \/ BatchDone \/ Lookup \/ \E i \in Ids : BeginCycle(i) \/ AutoPause(i)
               \/ Spawn \/ SpawnFails \/ Complete \/ Delay
        BY <2>1, CycleStill, StillKeeps DEF Threads
    <2>2. CASE \E o \in Outcomes : Persist(o)
        BY <2>2, PersistRest
    <2>4. CASE CycleThrows
        BY <2>4, ThrowRest
    <2>3. CASE JudgeFailed \/ JudgeBlocked \/ JudgeAchieved \/ JudgeContinue
        BY <2>3, JudgeRest
    <2>. QED  BY <1>3, <2>1, <2>2, <2>3, <2>4 DEF Cycle
<1>4. CASE Tools
    BY <1>4, ToolsStill, StillKeeps DEF Threads
<1>5. CASE (\E i \in Ids : Elapse(i)) \/ UNCHANGED vars
    <2>1. UNCHANGED <<task, running, fails, thread, cycle, history>>
        BY <1>5 DEF Elapse, vars, table
    <2>2. Still("tick")
        BY <2>1 DEF Still, Others, thread, cycle, history, Rest, CheckedStart, CheckedCycle, Threads
    <2>. QED  BY <2>2, StillKeeps DEF Threads
<1>6. CASE Restart \/ RestartPaused
    BY <1>6, ResetRest
<1>7. CASE RpcStep \/ TickStep
    BY <1>1, <1>2, <1>3, <1>7 DEF RpcStep, TickStep, Threads
<1>. QED  BY <1>4, <1>5, <1>6, <1>7 DEF Next

-------------------------------------------------------------------------------
(* The theorems.                                                           *)

LEMMA InitInv == Init => IInv
<1>. SUFFICES ASSUME Init  PROVE IInv
    OBVIOUS
<1>1. PICK first \in {NoTask, [NewTask EXCEPT !.state = "running"]} :
        task = [i \in Ids |-> IF i = 1 THEN first ELSE NoTask]
    BY DEF Init
<1>2. first \in Tasks /\ first.iterations = 0 /\ (first.state = "running" \/ first = NoTask)
    <2>1. [NewTask EXCEPT !.state = "running"] \in Tasks
          /\ [NewTask EXCEPT !.state = "running"].iterations = 0
          /\ [NewTask EXCEPT !.state = "running"].state = "running"
        BY TasksFacts DEF Tasks, States
    <2>. QED  BY <2>1, TasksFacts
<1>3. /\ task \in [Ids -> Tasks] /\ \A i \in Ids : task[i].iterations = 0
      /\ \A i \in Ids : task[i].state # "running" => task[i] = NoTask
      /\ \A i \in Ids : i # 1 => task[i] = NoTask
    BY <1>1, <1>2, TasksFacts
<1>4. /\ running = Recorded /\ due = Recorded /\ fails = [i \in Ids |-> 0]
      /\ at = [t \in Threads |-> "idle"] /\ back = [t \in Threads |-> "idle"]
      /\ on = [t \in Threads |-> NoId] /\ snap = [t \in Threads |-> NoTask]
      /\ batch = {} /\ cyc = NoId /\ out = "none" /\ dangling = FALSE
      /\ gaps = [i \in Ids |-> {}] /\ cycles = [i \in Ids |-> 0] /\ streak = [i \in Ids |-> 0]
      /\ ops = 0 /\ restarts = 0
    BY DEF Init
<1>5. Shape
    <2>1. StoreTypes /\ HistoryTypes /\ CycleTypes
        <3>1. StoreTypes
            BY <1>3, <1>4 DEF StoreTypes, Recorded
        <3>2. HistoryTypes
            BY <1>4, SadhanaAssumption DEF HistoryTypes
        <3>3. CycleTypes
            BY <1>4 DEF CycleTypes
        <3>. QED  BY <3>1, <3>2, <3>3
    <2>2. ThreadTypes
        BY <1>4, TasksFacts DEF ThreadTypes, Threads, Busy, TickPlaces, RpcPlaces, Procedures
    <2>3. Working
        <3>1. \A t \in Threads : on[t] \notin Ids /\ at[t] \notin Busy
            BY <1>4 DEF NoId, Ids, Busy, Procedures
        <3>. QED  BY <1>4, <3>1 DEF Working, Threads
    <2>4. Existing
        BY <1>3, <1>4 DEF Existing, Exists, Recorded, NoId, Ids
    <2>. QED  BY <2>1, <2>2, <2>3, <2>4 DEF Shape
<1>6. HalfWay
    <2>1. \A i \in Ids : \A t \in Threads : on[t] # i
        BY <1>4 DEF NoId, Ids
    <2>. QED  BY <1>4, <2>1 DEF HalfWay, Recorded
<1>7. CheckedStart /\ CheckedCycle /\ RoomKept
    BY <1>4 DEF CheckedStart, CheckedCycle, RoomKept, Threads
<1>8. Counting
    BY <1>4, SadhanaAssumption DEF Counting, Threads, Recorded
<1>9. CyclesAreCounted /\ StoppedUnlessOverwritten
    BY <1>3, <1>4, SadhanaAssumption DEF CyclesAreCounted, StoppedUnlessOverwritten
<1>10. LimitHolds
    <2>1. running \subseteq {1}
        BY <1>3, <1>4, TasksFacts DEF Recorded
    <2>2. IsFiniteSet({1}) /\ Cardinality({1}) = 1
        BY FS_Singleton
    <2>3. Cardinality(running) <= 1 /\ Cardinality(running) \in Nat
        BY <2>1, <2>2, FS_Subset, FS_CardinalityType
    <2>. QED  BY <2>3, SadhanaAssumption DEF LimitHolds
<1>. QED  BY <1>5, <1>6, <1>7, <1>8, <1>9, <1>10 DEF IInv, Rest

\* The invariant is inductive.
THEOREM Inductive == Spec => []IInv
<1>1. IInv /\ [Next]_vars => IInv'
    BY ShapeKept, RestKept DEF IInv
<1>. QED  BY InitInv, <1>1, PTL DEF Spec

\* Type correctness.
THEOREM TypeCorrect == Spec => []TypeOK
<1>1. IInv => TypeOK
    BY DEF IInv, Shape, StoreTypes, HistoryTypes, ThreadTypes, CycleTypes, TypeOK, Tasks
<1>. QED  BY Inductive, <1>1, PTL

\* The table of running agents and the record in the store agree, unless a stale copy
\* was written or a tool and the tick met on one agent; and while one of them is in
\* between, the invariant says which half it has made.
THEOREM RecordKept == Spec => []RecordMatchesSchedule
<1>1. IInv => RecordMatchesSchedule
    BY DEF IInv, Rest, HalfWay, RecordMatchesSchedule, Settled, Clean
<1>. QED  BY Inductive, <1>1, PTL

\* The circuit breaker sees every cycle that comes to its end, and never more than there
\* were: only cycles that throw run uncounted, and only a stale copy undoes the count.
THEOREM CyclesCounted == Spec => []CyclesAreCounted
<1>1. IInv => CyclesAreCounted
    BY DEF IInv, Rest
<1>. QED  BY Inductive, <1>1, PTL

\* A stopped or finished agent is not put back to work, but by a stale copy or a race.
THEOREM StoppedStays == Spec => []StoppedUnlessOverwritten
<1>1. IInv => StoppedUnlessOverwritten
    BY DEF IInv, Rest
<1>. QED  BY Inductive, <1>1, PTL

\* The limit on concurrent agents, checked in one section of the mutex and used in
\* another, holds across calls, cycles and restarts that are not cut short.
THEOREM LimitKept == Spec => []LimitHolds
<1>1. IInv => LimitHolds
    BY DEF IInv, Rest
<1>. QED  BY Inductive, <1>1, PTL

\* Failures in a row take an agent off the schedule.  The failures the breaker never
\* sees are those of cycles that throw, and those counted in an entry that was erased.
THEOREM FailingPaused == Spec => []FailingIsPaused
<1>1. IInv => FailingIsPaused
    <2>. SUFFICES ASSUME IInv, NEW i \in Ids, Counted(i), i \in running, streak[i] >= MaxFailures,
                         at["tick"] \notin {"judge", "pauseErase"}
                  PROVE  FALSE
        BY DEF FailingIsPaused, Counted
    <2>1. streak[i] \in Nat /\ fails[i] \in Nat /\ MaxFailures \in Nat
        BY SadhanaAssumption DEF IInv, Shape, StoreTypes, HistoryTypes
    <2>2. fails[i] < MaxFailures /\ streak[i] <= fails[i]
        BY DEF IInv, Rest, Counting
    <2>. QED  BY <2>1, <2>2
<1>. QED  BY Inductive, <1>1, PTL
===============================================================================
