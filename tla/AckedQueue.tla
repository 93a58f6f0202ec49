------------------------------ MODULE AckedQueue ------------------------------
(***************************************************************************)
(* What the daemon promises a hook for the lines it queues, whatever       *)
(* files it keeps.  Only what a hook wrote is applied.  An answered write  *)
(* is durable in the store, or was replaced by another one, and is never   *)
(* applied again; a crash takes back no more than the unsynced end of the  *)
(* store, and nothing that was answered.                                   *)
(*                                                                         *)
(* One promise has an exception, and `twins' remembers that it was met: a  *)
(* save may be taken for replaced when there is no other.                  *)
(***************************************************************************)
EXTENDS Naturals, Sequences

CONSTANTS
    Lines,     \* what hooks may write
    Saves,     \* the lines that replace one another
    Once       \* the lines that are not applied after their answer

VARIABLES
    accepted,  \* the lines written
    log,       \* what was applied, in order
    synced,    \* how much of it a crash cannot take
    replaced,  \* saves that need not be applied any more
    answered,  \* the lines answered for
    twins

queueVars == <<accepted, log, synced, replaced, answered, twins>>

Init == accepted = {} /\ log = <<>> /\ synced = 0 /\ replaced = {} /\ answered = {} /\ twins = FALSE

Durable == {log[k] : k \in 1 .. synced}

Accept(i) ==
    /\ i \notin accepted
    /\ accepted' = accepted \cup {i}
    /\ UNCHANGED <<log, synced, replaced, answered, twins>>

Apply(i) ==
    /\ i \in accepted \ (answered \cap Once)
    /\ log' = Append(log, i)
    /\ UNCHANGED <<accepted, synced, replaced, answered, twins>>

Sync ==
    /\ synced' = Len(log)
    /\ UNCHANGED <<accepted, log, replaced, answered, twins>>

Replace(i) ==
    /\ i \in (accepted \cap Saves) \ answered
    /\ replaced' = replaced \cup {i}
    /\ twins' \in BOOLEAN /\ (twins => twins')
    /\ twins' \/ accepted \cap Saves # {i}
    /\ UNCHANGED <<accepted, log, synced, answered>>

Answer(i) ==
    /\ i \in accepted
    /\ i \in Once => i \in Durable \cup replaced
    /\ answered' = answered \cup {i}
    /\ UNCHANGED <<accepted, log, synced, replaced, twins>>

Crash ==
    /\ synced' \in synced .. Len(log)
    /\ log' = SubSeq(log, 1, synced')
    /\ UNCHANGED <<accepted, replaced, answered, twins>>

Next == Sync \/ Crash \/ \E i \in Lines : Accept(i) \/ Apply(i) \/ Replace(i) \/ Answer(i)

Spec == Init /\ [][Next]_queueVars
===============================================================================
