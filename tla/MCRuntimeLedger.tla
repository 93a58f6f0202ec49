---------------------------- MODULE MCRuntimeLedger ----------------------------
(* TLC instances of RuntimeLedger. *)
EXTENDS RuntimeLedger
===============================================================================
