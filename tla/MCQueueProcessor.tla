---------------------------- MODULE MCQueueProcessor ----------------------------
(* TLC instances of QueueProcessor. *)
EXTENDS QueueProcessor
===============================================================================
