------------------------------- MODULE MCCapsule -------------------------------
EXTENDS Capsule, TLC

SaveStatesMC == {"complete"}
Symmetry == Permutations(Sessions) \cup Permutations(CodeStates)
===============================================================================
