---------------------------- MODULE SadhanaManager -----------------------------
(***************************************************************************)
(* The manager of autonomous agents (sadhana_manager.cpp) and its tools    *)
(* (field_misc_sadhana.cpp).  An agent is a task whose payload, kept in    *)
(* the store, is read and written back as a whole, and, while it runs, an  *)
(* entry of running_, kept in memory under mutex_.  Nothing makes the two  *)
(* change together.                                                        *)
(*                                                                         *)
(* Two threads use the manager.  "tick" is the maintenance loop: it runs   *)
(* the cycles of due agents one after the other, each up to ten minutes.   *)
(* "rpc" is whichever worker holds the global write lock, which is on by   *)
(* default and serialises the tools among themselves, not with the tick.   *)
(* Every step below is one access to the store or one section of mutex_;   *)
(* on, snap and back are a thread's argument, local copy and return point. *)
(*                                                                         *)
(* goal stands for every field the tools can set (goal, model, interval,   *)
(* turns).  create_brain has no null result, so the branches for one are   *)
(* left out; tasks are never deleted, so get finds what was created.       *)
(***************************************************************************)
EXTENDS Integers, FiniteSets

CONSTANTS
    MaxAgents,       \* bound: tasks that are created
    Dreams,          \* those of them that are dreams
    Brittle,         \* those of them whose cycles may throw
    MaxConcurrent,   \* SadhanaConfig::max_concurrent
    MaxIterations,   \* SadhanaConfig::max_iterations
    MaxFailures,     \* SadhanaConfig::max_consecutive_failures
    MaxOps,          \* bound: tool calls
    MaxRestarts      \* bound: daemon restarts

ASSUME SadhanaAssumption ==
    /\ MaxAgents \in Nat /\ MaxConcurrent \in Nat \ {0} /\ MaxIterations \in Nat \ {0}
    /\ MaxFailures \in Nat \ {0} /\ MaxOps \in Nat /\ MaxRestarts \in Nat

Threads == {"tick", "rpc"}

\* create numbers tasks by time and a counter: in the order they are made.
Ids == 1 .. MaxAgents
NoId == 0

States == {"none", "pending", "running", "paused", "done", "failed"}
Finished == {"done", "failed"}

NoTask == [state |-> "none", goal |-> 0, iterations |-> 0]
NewTask == [NoTask EXCEPT !.state = "pending"]

VARIABLES
    task,       \* payloads in the store
    running,    \* keys of running_
    due,        \* those of them with next_run_at <= now
    fails,      \* consecutive_failures of their entries
    at, on, snap, back,   \* the two threads
    batch,      \* to_run
    cyc, out,   \* the agent of the cycle, and what think returned
    dangling,   \* run_cycle's pointers are into an entry that was erased
    gaps,       \* history: the races each agent went through
    cycles,     \* history: cycles that ran (of those that threw only the first)
    streak,     \* history: failed cycles in a row since the entry was made
    ops, restarts

table == <<running, due, fails>>
thread == <<at, on, snap, back>>
cycle == <<batch, cyc, out, dangling>>
history == <<gaps, cycles, streak>>
vars == <<task, table, thread, cycle, history, ops, restarts>>

TypeOK ==
    /\ task \in [Ids -> [state : States, goal : 0 .. 1, iterations : Nat]]
    /\ running \subseteq Ids /\ due \subseteq running /\ fails \in [Ids -> Nat]
    /\ on \in [Threads -> Ids \cup {NoId}]
    /\ batch \subseteq Ids /\ cyc \in Ids \cup {NoId} /\ dangling \in BOOLEAN
    /\ gaps \in [Ids -> SUBSET {"staleWrite", "overlap", "crowded", "interrupted", "torn",
                              "revived", "threw"}]
    /\ cycles \in [Ids -> Nat] /\ streak \in [Ids -> Nat]
    /\ ops \in 0 .. MaxOps /\ restarts \in 0 .. MaxRestarts

\* The daemon starts with an empty store, or with an agent that was left running.
Recorded == {i \in Ids : task[i].state = "running"}

Init ==
    /\ \E first \in {NoTask, [NewTask EXCEPT !.state = "running"]} :
        task = [i \in Ids |-> IF i = 1 THEN first ELSE NoTask]
    /\ running = Recorded /\ due = Recorded /\ fails = [i \in Ids |-> 0]
    /\ at = [t \in Threads |-> "idle"] /\ back = [t \in Threads |-> "idle"]
    /\ on = [t \in Threads |-> NoId] /\ snap = [t \in Threads |-> NoTask]
    /\ batch = {} /\ cyc = NoId /\ out = "none" /\ dangling = FALSE
    /\ gaps = [i \in Ids |-> {}]
    /\ cycles = [i \in Ids |-> 0] /\ streak = [i \in Ids |-> 0]
    /\ ops = 0 /\ restarts = 0

Goto(t, pc) == at' = [at EXCEPT ![t] = pc]
Return(t) ==
    /\ Goto(t, back[t])
    /\ on' = [on EXCEPT ![t] = NoId] /\ snap' = [snap EXCEPT ![t] = NoTask]

\* A procedure is entered for agent i, to return to ret.
Call(t, pc, i, ret) ==
    /\ Goto(t, pc)
    /\ on' = [on EXCEPT ![t] = i]
    /\ back' = [back EXCEPT ![t] = ret]

\* get: the thread's copy of the payload.
Get(t) == snap' = [snap EXCEPT ![t] = task[on[t]]]

\* Another thread is in the middle of starting, pausing or stopping agent i; or of
\* starting any agent, past its check of the limit.
Races(t, i) ==
    (IF \E u \in Threads \ {t} : on[u] = i THEN {"overlap"} ELSE {}) \cup
    (IF at[t] \in {"startPut", "startInsert"}
        /\ \E u \in Threads \ {t} : at[u] \in {"startPut", "startInsert"}
     THEN {"crowded"} ELSE {})

Revives(i, new) ==
    IF task[i].state \in Finished /\ new.state \notin Finished THEN {"revived"} ELSE {}

\* task_update_payload writes the whole copy back, over anything written since.
Put(t, i, new, old) ==
    /\ task' = [task EXCEPT ![i] = new]
    /\ gaps' = [gaps EXCEPT ![i] = @ \cup Races(t, i)
                                     \cup (IF task[i] = old THEN {} ELSE {"staleWrite"})
                                     \cup Revives(i, new)]

\* running_.erase destroys the entry, and with it what a cycle in flight points to.
InCycle(i) == at["tick"] \in {"think", "judge"} /\ cyc = i
Erase(i) ==
    /\ running' = running \ {i} /\ due' = due \ {i}
    /\ dangling' = (dangling \/ (i \in running /\ InCycle(i)))
    /\ gaps' = IF i \in running /\ InCycle(i) THEN [gaps EXCEPT ![i] = @ \cup {"torn"}] ELSE gaps

-------------------------------------------------------------------------------
(* start, also resume.                                                     *)

\* Mutant: only a running agent is refused.
StartableWhenDone == States \ {"running"}

Startable == {"pending", "paused"}

StartGet(t) ==
    /\ at[t] = "startGet"
    /\ IF task[on[t]].state \in Startable
       THEN Get(t) /\ Goto(t, "startRoom") /\ UNCHANGED on ELSE Return(t)
    /\ UNCHANGED <<task, table, back, cycle, history, ops, restarts>>

\* Mutant: the limit admits one more.
RoomForOneMore == Cardinality(running) <= MaxConcurrent

Room == Cardinality(running) < MaxConcurrent

StartRoom(t) ==
    /\ at[t] = "startRoom"
    /\ IF Room THEN Goto(t, "startPut") /\ UNCHANGED <<on, snap>> ELSE Return(t)
    /\ UNCHANGED <<task, table, back, cycle, history, ops, restarts>>

StartPut(t) ==
    /\ at[t] = "startPut"
    /\ Put(t, on[t], [snap[t] EXCEPT !.state = "running"], snap[t])
    /\ Goto(t, "startInsert")
    /\ UNCHANGED <<table, on, snap, back, cycle, cycles, streak, ops, restarts>>

StartInsert(t) ==
    /\ at[t] = "startInsert"
    /\ running' = running \cup {on[t]} /\ due' = due \cup {on[t]}
    /\ fails' = [fails EXCEPT ![on[t]] = 0]
    /\ streak' = [streak EXCEPT ![on[t]] = 0]
    /\ gaps' = [gaps EXCEPT ![on[t]] = @ \cup Races(t, on[t])]
    /\ Return(t)
    /\ UNCHANGED <<task, back, cycle, cycles, ops, restarts>>

-------------------------------------------------------------------------------
(* pause and stop.                                                         *)

\* Mutant: pause records the new state and leaves the entry.
PauseKeepEntry(t) ==
    /\ at[t] = "pauseErase"
    /\ IF on[t] \in running THEN Goto(t, "pauseGet") /\ UNCHANGED <<on, snap>> ELSE Return(t)
    /\ UNCHANGED <<task, table, back, cycle, history, ops, restarts>>

PauseErase(t) ==
    /\ at[t] = "pauseErase"
    /\ IF on[t] \in running THEN Goto(t, "pauseGet") /\ UNCHANGED <<on, snap>> ELSE Return(t)
    /\ Erase(on[t])
    /\ UNCHANGED <<task, fails, back, batch, cyc, out,
                   cycles, streak, ops, restarts>>

PauseGet(t) ==
    /\ at[t] = "pauseGet"
    /\ Get(t) /\ Goto(t, "pausePut")
    /\ UNCHANGED <<task, table, on, back, cycle, history, ops, restarts>>

PausePut(t) ==
    /\ at[t] = "pausePut"
    /\ Put(t, on[t], [snap[t] EXCEPT !.state = "paused"], snap[t])
    /\ Return(t)
    /\ UNCHANGED <<table, back, cycle, cycles, streak, ops, restarts>>

StopErase(t) ==
    /\ at[t] = "stopErase"
    /\ Erase(on[t])
    /\ Goto(t, "stopGet")
    /\ UNCHANGED <<task, fails, on, snap, back, batch, cyc, out,
                   cycles, streak, ops, restarts>>

StopGet(t) ==
    /\ at[t] = "stopGet"
    /\ Get(t) /\ Goto(t, "stopPut")
    /\ UNCHANGED <<task, table, on, back, cycle, history, ops, restarts>>

StopPut(t) ==
    /\ at[t] = "stopPut"
    /\ \E f \in IF t = "tick" THEN {"done"} ELSE Finished :
        Put(t, on[t], [snap[t] EXCEPT !.state = f], snap[t])
    /\ Return(t)
    /\ UNCHANGED <<table, back, cycle, cycles, streak, ops, restarts>>

-------------------------------------------------------------------------------
(* The tools.                                                              *)

Exists(i) == task[i].state # "none"
Fresh(i) == ~Exists(i) /\ \A j \in Ids : j < i => Exists(j)

Tool ==
    /\ at["rpc"] = "idle" /\ ops < MaxOps
    /\ ops' = ops + 1

\* sadhana_start, dream_start, think_wander, impl_start: create, then start.
ToolStart ==
    /\ Tool
    /\ \E i \in Ids :
        /\ Fresh(i)
        /\ task' = [task EXCEPT ![i] = NewTask]
        /\ Call("rpc", "startGet", i, "idle")
    /\ UNCHANGED <<table, snap, cycle, history, restarts>>

ToolResume ==
    /\ Tool
    /\ \E i \in Ids : Exists(i) /\ Call("rpc", "startGet", i, "idle")
    /\ UNCHANGED <<task, table, snap, cycle, history, restarts>>

ToolPause ==
    /\ Tool
    /\ \E i \in Ids : Exists(i) /\ Call("rpc", "pauseErase", i, "idle")
    /\ UNCHANGED <<task, table, snap, cycle, history, restarts>>

\* sadhana_stop, dream_cancel, dream_force_woke.
ToolStop ==
    /\ Tool
    /\ \E i \in Ids : Exists(i) /\ Call("rpc", "stopErase", i, "idle")
    /\ UNCHANGED <<task, table, snap, cycle, history, restarts>>

\* sadhana_set_goal, _set_model, _set_interval, _set_max_turns.
ToolSet ==
    /\ Tool
    /\ \E i \in Ids :
        /\ Exists(i) /\ Call("rpc", "setPut", i, "idle")
        /\ snap' = [snap EXCEPT !["rpc"] = task[i]]
    /\ UNCHANGED <<task, table, cycle, history, restarts>>

SetPut ==
    /\ at["rpc"] = "setPut"
    /\ Put("rpc", on["rpc"], [snap["rpc"] EXCEPT !.goal = 1], snap["rpc"])
    /\ Return("rpc")
    /\ UNCHANGED <<table, back, cycle, cycles, streak, ops, restarts>>

\* sadhana_checkpoint changes nothing but last_action, and writes all the rest back.
ToolCheckpoint ==
    /\ Tool
    /\ \E i \in Ids :
        /\ Exists(i) /\ Call("rpc", "checkpointPut", i, "idle")
        /\ snap' = [snap EXCEPT !["rpc"] = task[i]]
    /\ UNCHANGED <<task, table, cycle, history, restarts>>

CheckpointPut ==
    /\ at["rpc"] = "checkpointPut"
    /\ Put("rpc", on["rpc"], snap["rpc"], snap["rpc"])
    /\ Return("rpc")
    /\ UNCHANGED <<table, back, cycle, cycles, streak, ops, restarts>>

-------------------------------------------------------------------------------
(* tick and run_cycle.                                                     *)

\* Mutant: next_run_at lies so far ahead that it is never reached.
NeverDue(i) == FALSE /\ UNCHANGED vars

\* The interval of an agent elapses.
Elapse(i) ==
    /\ i \in running \ due
    /\ due' = due \cup {i}
    /\ UNCHANGED <<task, running, fails, thread, cycle, history, ops, restarts>>

Pick ==
    /\ at["tick"] = "idle" /\ due # {}
    /\ batch' = due
    /\ Goto("tick", "next")
    /\ UNCHANGED <<task, table, on, snap, back, cyc, out, dangling, history, ops, restarts>>

\* The tick ends, with its locals: the batch, the payload it read and the cycle.
TickOver ==
    /\ Goto("tick", "idle") /\ back' = [back EXCEPT !["tick"] = "idle"]
    /\ snap' = [snap EXCEPT !["tick"] = NoTask]
    /\ batch' = {} /\ cyc' = NoId /\ out' = "none" /\ dangling' = FALSE

BatchDone ==
    /\ at["tick"] = "next" /\ batch = {}
    /\ TickOver
    /\ UNCHANGED <<task, table, on, history, ops, restarts>>

IterationsTripped(s) == s.iterations >= MaxIterations

\* The next agent of the batch: its payload is read, and is what the cycle will write.
NextAgent(i) ==
    /\ at["tick"] = "next" /\ i \in batch
    /\ batch' = batch \ {i}
    /\ cyc' = i
    /\ snap' = [snap EXCEPT !["tick"] = task[i]]

BeginCycle(i) ==
    /\ NextAgent(i) /\ ~IterationsTripped(task[i])
    /\ Goto("tick", "lookup")
    /\ UNCHANGED <<task, table, on, back, out, dangling, history, ops, restarts>>

\* Too many iterations, or too old.
AutoPause(i) ==
    /\ NextAgent(i)
    /\ Call("tick", "pauseErase", i, "next")
    /\ UNCHANGED <<task, table, out, dangling, history, ops, restarts>>

Lookup ==
    /\ at["tick"] = "lookup"
    /\ Goto("tick", IF cyc \in running THEN "think" ELSE "next")
    /\ dangling' = FALSE
    /\ UNCHANGED <<task, table, on, snap, back, batch, cyc, out, history, ops, restarts>>

\* What think may return.  "unreachable" is exit code -1 without output: the status
\* stays progressed, but the cycle counts as failed.  "other" is any other status.
Outcomes == {"progressed", "unreachable", "error", "achieved", "blocked", "other"}
Failed(o) == o \in {"unreachable", "error"}

\* Mutant: the cycle's iteration is not counted.
PersistUncounted(o) ==
    /\ at["tick"] = "think"
    /\ out' = o
    /\ Put("tick", cyc, snap["tick"], snap["tick"])
    /\ cycles' = [cycles EXCEPT ![cyc] = @ + 1]
    /\ streak' = [streak EXCEPT ![cyc] = IF Failed(o) THEN @ + 1 ELSE 0]
    /\ Goto("tick", "judge")
    /\ UNCHANGED <<table, on, snap, back, batch, cyc, dangling, ops, restarts>>

\* think returns: the payload read before it is written back with one more iteration.
Persist(o) ==
    /\ at["tick"] = "think"
    /\ out' = o
    /\ Put("tick", cyc, [snap["tick"] EXCEPT !.iterations = @ + 1], snap["tick"])
    /\ cycles' = [cycles EXCEPT ![cyc] = @ + 1]
    /\ streak' = [streak EXCEPT ![cyc] = IF Failed(o) THEN @ + 1 ELSE 0]
    /\ Goto("tick", "judge")
    /\ UNCHANGED <<table, on, snap, back, batch, cyc, dangling, ops, restarts>>

\* Cycles that throw may go on for ever: the histories count only the first of them, and
\* their failures only up to the limit.
UpTo(n, max) == IF n < max THEN n + 1 ELSE n

\* run_cycle throws before it has stored anything: in think, where a status or summary is
\* no string, or in payload.dump() when output_tail or error was cut within a
\* character.  Only the maintenance loop catches: the tick is over, with the rest of
\* its batch, and neither iteration nor failure is counted nor next_run_at moved.
CycleThrows ==
    /\ at["tick"] = "think" /\ cyc \in Brittle
    /\ TickOver
    /\ gaps' = [gaps EXCEPT ![cyc] = @ \cup {"threw"}]
    /\ cycles' = [cycles EXCEPT ![cyc] = IF "threw" \in gaps[cyc] THEN @ ELSE @ + 1]
    /\ streak' = [streak EXCEPT ![cyc] = UpTo(@, MaxFailures)]
    /\ UNCHANGED <<task, table, on, ops, restarts>>

\* Mutant: any outcome resets the counter.
CountAlwaysReset == {0}

\* *consecutive_failures after the cycle.  Through a dangling pointer the update may
\* hit nothing, or the entry that has taken the old one's place.
Count ==
    LET counted == IF Failed(out) THEN fails[cyc] + 1 ELSE 0
    IN  IF dangling THEN {counted, fails[cyc]} ELSE {counted}

Judge ==
    /\ at["tick"] = "judge"
    /\ \E f \in Count : fails' = [fails EXCEPT ![cyc] = f]

JudgeFailed ==
    /\ Judge /\ Failed(out)
    /\ dangling \/ fails'[cyc] >= MaxFailures
    /\ Call("tick", "pauseErase", cyc, "delay")
    /\ UNCHANGED <<task, running, due, snap, cycle, history, ops, restarts>>

JudgeBlocked ==
    /\ Judge /\ out = "blocked"
    /\ Call("tick", "pauseErase", cyc, "delay")
    /\ UNCHANGED <<task, running, due, snap, cycle, history, ops, restarts>>

JudgeAchieved ==
    /\ Judge /\ out = "achieved"
    /\ Goto("tick", IF cyc \in Dreams THEN "spawn" ELSE "complete")
    /\ UNCHANGED <<task, running, due, on, snap, back, cycle, history, ops, restarts>>

JudgeContinue ==
    /\ Judge /\ out \notin {"achieved", "blocked"}
    /\ Failed(out) => dangling \/ fails'[cyc] < MaxFailures
    /\ Goto("tick", "delay")
    /\ UNCHANGED <<task, running, due, on, snap, back, cycle, history, ops, restarts>>

\* A dream that ends starts a dream_dedup agent; create may fail.
Spawn ==
    /\ at["tick"] = "spawn"
    /\ \E i \in Ids :
        /\ Fresh(i)
        /\ task' = [task EXCEPT ![i] = NewTask]
        /\ Call("tick", "startGet", i, "complete")
    /\ UNCHANGED <<table, snap, cycle, history, ops, restarts>>

SpawnFails ==
    /\ at["tick"] = "spawn"
    /\ Goto("tick", "complete")
    /\ UNCHANGED <<task, table, on, snap, back, cycle, history, ops, restarts>>

Complete ==
    /\ at["tick"] = "complete"
    /\ Call("tick", "stopErase", cyc, "delay")
    /\ UNCHANGED <<task, table, snap, cycle, history, ops, restarts>>

\* An agent that progressed is due again at once.
Delay ==
    /\ at["tick"] = "delay"
    /\ due' = IF out \in {"progressed", "unreachable"} THEN due ELSE due \ {cyc}
    /\ Goto("tick", "next")
    /\ cyc' = NoId /\ out' = "none" /\ dangling' = FALSE
    /\ snap' = [snap EXCEPT !["tick"] = NoTask]
    /\ UNCHANGED <<task, running, fails, on, back, batch, history, ops, restarts>>

-------------------------------------------------------------------------------
(* The daemon restarts, at any point; a use of freed memory is one.        *)

\* No thread is in the middle of a change to agent i.
Settled(i) == \A t \in Threads : on[t] # i

Reset ==
    /\ restarts < MaxRestarts /\ restarts' = restarts + 1
    /\ fails' = [i \in Ids |-> 0] /\ streak' = [i \in Ids |-> 0]
    /\ at' = [t \in Threads |-> "idle"] /\ back' = [t \in Threads |-> "idle"]
    /\ snap' = [t \in Threads |-> NoTask]
    /\ on' = [t \in Threads |-> NoId] /\ batch' = {}
    /\ cyc' = NoId /\ out' = "none" /\ dangling' = FALSE
    /\ gaps' = [i \in Ids |-> gaps[i] \cup (IF Settled(i) THEN {} ELSE {"interrupted"})]
    /\ UNCHANGED <<cycles, ops>>

\* The constructor puts every agent recorded as running back into running_.
Restart ==
    /\ Reset
    /\ running' = Recorded /\ due' = Recorded
    /\ UNCHANGED task

\* With --no-autonomous they are paused before anything else runs.
RestartPaused ==
    /\ Reset
    /\ running' = {} /\ due' = {}
    /\ task' = [i \in Ids |-> IF i \in Recorded THEN [task[i] EXCEPT !.state = "paused"] ELSE task[i]]

-------------------------------------------------------------------------------
Procedure(t) ==
    \/ StartGet(t) \/ StartRoom(t) \/ StartPut(t) \/ StartInsert(t)
    \/ PauseErase(t) \/ PauseGet(t) \/ PausePut(t)
    \/ StopErase(t) \/ StopGet(t) \/ StopPut(t)

Cycle ==
    \/ Pick \/ BatchDone \/ Lookup
    \/ \E i \in Ids : BeginCycle(i) \/ AutoPause(i)
    \/ (\E o \in Outcomes : Persist(o)) \/ CycleThrows
    \/ JudgeFailed \/ JudgeBlocked \/ JudgeAchieved \/ JudgeContinue
    \/ Spawn \/ SpawnFails \/ Complete \/ Delay

RpcStep == Procedure("rpc") \/ SetPut \/ CheckpointPut
TickStep == Procedure("tick") \/ Cycle
Tools == ToolStart \/ ToolResume \/ ToolPause \/ ToolStop \/ ToolSet \/ ToolCheckpoint

Next ==
    \/ RpcStep \/ TickStep \/ Tools
    \/ \E i \in Ids : Elapse(i)
    \/ Restart \/ RestartPaused

Spec == Init /\ [][Next]_vars

\* The maintenance loop and the worker go on; think has a time limit; time passes, so
\* that an agent whose turn comes again and again is once found older than
\* max_runtime_hours, even if none of its cycles is ever counted.
FairSpec ==
    /\ Spec
    /\ WF_vars(RpcStep) /\ WF_vars(TickStep)
    /\ WF_vars(\E i \in Ids : Elapse(i))
    /\ \A i \in Brittle : SF_vars(AutoPause(i))

-------------------------------------------------------------------------------
\* The scheduler's table and the record in the store agree on who is running.  They
\* come apart only when a copy of the payload was written over a later change, or
\* when the tick and a tool start, pause or stop the same agent at the same time.
RecordMatchesSchedule ==
    \A i \in Ids : Settled(i) /\ gaps[i] \cap {"staleWrite", "overlap"} = {} => (i \in running <=> task[i].state = "running")

\* Every cycle that ran is counted towards max_iterations, unless run_cycle threw before
\* it stored the result: such cycles run uncounted, as many as there are ticks.  They
\* never make the count exceed the cycles or the limit; only a tool that wrote an older
\* payload back can do that.
CyclesAreCounted ==
    \A i \in Ids : "staleWrite" \notin gaps[i] =>
        /\ task[i].iterations <= cycles[i] /\ task[i].iterations <= MaxIterations
        /\ "threw" \notin gaps[i] => task[i].iterations = cycles[i]

\* "Stop the underlying sadhana so it doesn't keep ticking after cancel.": a stopped or
\* finished agent is not put back to work by a tool, the tick or a restart.  The only
\* ways back are a copy of its payload, read before the stop and written after it, and
\* a pause by the tick that the stop overtook between its two steps.
StoppedUnlessOverwritten ==
    \A i \in Ids : "revived" \in gaps[i] => gaps[i] \cap {"staleWrite", "overlap"} # {}

\* The limit on concurrent agents holds although it is checked in one section of
\* mutex_ and the agent inserted in another.  Two starts between the two at once, a
\* tool's and that of the agent a finished dream spawns, exceed it, and so does a
\* restart between the two steps of a pause.
LimitHolds ==
    (\A i \in Ids : gaps[i] \subseteq {"torn", "threw"}) => Cardinality(running) <= MaxConcurrent

\* Five failures in a row take an agent off the schedule, unless its entry was replaced
\* under a running cycle, when the count goes to freed memory, or one of its cycles
\* threw: that failure never reaches the breaker, and the agent is due again at once.
FailingIsPaused ==
    \A i \in Ids :
        gaps[i] \cap {"torn", "threw"} = {} /\ i \in running /\ streak[i] >= MaxFailures =>
            at["tick"] \in {"judge", "pauseErase"}

\* No agent holds the schedule for ever: failures, limits or its own result take it
\* off; if all its cycles throw, only its age does.
EveryAgentRests == \A i \in Ids : []<>(i \notin running)
===============================================================================
