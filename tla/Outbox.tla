-------------------------------- MODULE Outbox --------------------------------
(***************************************************************************)
(* What the runtime ledger promises its readers, whatever files it keeps:  *)
(* the bytes hooks produce reach the durable ledger in order and once; an  *)
(* acknowledged prefix is never lost again; only unacknowledged bytes may  *)
(* fall back (a host crash before fsync) and are then delivered again.     *)
(***************************************************************************)
EXTENDS Naturals

VARIABLES
    produced,   \* bytes the hooks have written to the local tail
    sent,       \* length of the tail prefix that the durable ledger holds
    acked       \* length of the tail prefix the daemon will never resend

outboxVars == <<produced, sent, acked>>

Init == produced = 0 /\ sent = 0 /\ acked = 0

Produce == produced' = produced + 1 /\ UNCHANGED <<sent, acked>>

Deliver == sent < produced /\ sent' = sent + 1 /\ UNCHANGED <<produced, acked>>

Acknowledge == acked' \in (acked + 1) .. sent /\ UNCHANGED <<produced, sent>>

FallBack == sent' \in acked .. sent /\ UNCHANGED <<produced, acked>>

Next == Produce \/ Deliver \/ Acknowledge \/ FallBack

Spec == Init /\ [][Next]_outboxVars
===============================================================================
