----------------------------- MODULE MCEmbedQueue -----------------------------
(* TLC instances of EmbedQueue. *)
EXTENDS EmbedQueue

\* A duplicate node that is evicted takes four calls in legacy mode.
FewCalls == [m \in Modes |-> IF m = "legacy" THEN 4 ELSE 3]
===============================================================================
