----------------------------- MODULE RemoteCalls -----------------------------
(***************************************************************************)
(* What the daemon and its clients promise about a remote call, wherever   *)
(* its request and its answer may be.  A call is executed once, and not    *)
(* after its answer; an answer is taken by one call, and tells whether the *)
(* call it belongs to was executed.                                        *)
(*                                                                         *)
(* Two things weaken the promise.  A shutdown makes clients repeat the     *)
(* calls it cuts off, which may execute them a second time.  And once a    *)
(* call was given up, its answer may be taken for that of another one,     *)
(* whose own may then be taken for that of a third.                        *)
(***************************************************************************)
EXTENDS Naturals, Sequences

CONSTANTS
    Calls,     \* the numbers calls may have
    Offered,   \* the kinds of call
    Frames     \* the answers

VARIABLES
    calls,     \* the kinds of the calls made, by number
    runs,      \* by call: how often it was executed
    got,       \* by call: the answer taken for it
    abandoned, \* calls given up
    cut        \* calls a shutdown has cut off

callVars == <<calls, runs, got, abandoned, cut>>

NoAnswer == [q |-> 0, ans |-> "none"]

Init ==
    /\ calls = <<>>
    /\ runs = [q \in Calls |-> 0]
    /\ got = [q \in Calls |-> NoAnswer]
    /\ abandoned = {} /\ cut = {}

Made == 1 .. Len(calls)
Open == {q \in Made : got[q] = NoAnswer /\ q \notin abandoned}

\* Calls that were given the answer of another one.
Overtaken == {q \in Made : got[q].q \notin {0, q}}

\* Nobody has the answer of call q.
Untaken(q) == \A p \in Made : got[p].q # q

\* Calls that may be executed.
Due == {q \in Made : Untaken(q) /\ (runs[q] = 0 \/ (runs[q] = 1 /\ q \in cut))}

\* What an answer says of the call it belongs to.
Tells(frame) ==
    IF frame.ans = "refused" THEN runs[frame.q] = 0 \/ frame.q \in cut
    ELSE runs[frame.q] > 0 \/ calls[frame.q] = "health"

Make(k) ==
    /\ calls' = Append(calls, k)
    /\ UNCHANGED <<runs, got, abandoned, cut>>

Execute(Q) == runs' = [q \in Calls |-> IF q \in Q THEN runs[q] + 1 ELSE runs[q]]

Run(q) ==
    /\ q \in Due
    /\ Execute({q})
    /\ UNCHANGED <<calls, got, abandoned, cut>>

Answer(q, frame) ==
    /\ q \in Open
    /\ frame.q \in {q} \cup abandoned \cup Overtaken
    /\ Untaken(frame.q)
    /\ Tells(frame)
    /\ got' = [got EXCEPT ![q] = frame]
    /\ UNCHANGED <<calls, runs, abandoned, cut>>

GiveUp(q) ==
    /\ q \in Open
    /\ abandoned' = abandoned \cup {q}
    /\ UNCHANGED <<calls, runs, got, cut>>

Shutdown ==
    /\ \E Q \in SUBSET Open : cut' = cut \cup Q
    /\ \E Q \in SUBSET Due : Execute(Q)
    /\ UNCHANGED <<calls, got, abandoned>>

Next ==
    \/ \E k \in Offered : Make(k)
    \/ \E q \in Calls : Run(q) \/ GiveUp(q) \/ \E frame \in Frames : Answer(q, frame)
    \/ Shutdown

Spec == Init /\ [][Next]_callVars
===============================================================================
