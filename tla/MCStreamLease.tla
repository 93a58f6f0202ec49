----------------------------- MODULE MCStreamLease -----------------------------
(* TLC instances of StreamLease. *)
EXTENDS StreamLease, TLC

Symmetric == Permutations(Sessions) \cup Permutations(Streams)
===============================================================================
