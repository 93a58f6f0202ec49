------------------------------- MODULE Revisions -------------------------------
(***************************************************************************)
(* What the task ledger promises about the capsules of each key, wherever  *)
(* it keeps them: a register that is written by comparing and setting its  *)
(* revision.  A write follows the newest version of its key and replaces   *)
(* the one its writer had read.  A crash takes back the newest versions of *)
(* a key, but none that was acknowledged; a writer that had read one of    *)
(* those cannot tell it from the version that has its number next.         *)
(***************************************************************************)
EXTENDS Naturals

VARIABLES
    versions,   \* the versions written and not taken back
    lost,       \* the ids of those taken back
    acked       \* the ids of those acknowledged

revisionVars == <<versions, lost, acked>>

Init == versions = {} /\ lost = {} /\ acked = {}

Of(k) == {v \in versions : v.key = k}

\* The first version of a key, or the next one.
Follows(v) ==
    \/ v.revision = 1 /\ Of(v.key) = {}
    \/ \E w \in Of(v.key) :
         /\ \A u \in Of(v.key) : u.revision <= w.revision
         /\ v.revision = w.revision + 1
         /\ v.base = w.id \/ v.base \in lost

Write ==
    \E v \in versions' :
        /\ \A w \in versions : w.id # v.id
        /\ Follows(v)
        /\ versions' = versions \cup {v}
        /\ UNCHANGED <<lost, acked>>

Acknowledge ==
    \E v \in versions :
        /\ acked' = acked \cup {v.id}
        /\ UNCHANGED <<versions, lost>>

TakeBack ==
    /\ versions' \subseteq versions
    /\ \A v, w \in versions :
         v.key = w.key /\ v.revision < w.revision /\ w \in versions' => v \in versions'
    /\ \A v \in versions : v.id \in acked => v \in versions'
    /\ lost' = lost \cup {v.id : v \in versions \ versions'}
    /\ UNCHANGED acked

Next == Write \/ Acknowledge \/ TakeBack

Spec == Init /\ [][Next]_revisionVars
===============================================================================
