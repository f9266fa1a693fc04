------------------------------ MODULE MCAgent ------------------------------
(* Agent with messages that stand for each other: no property names one.   *)
EXTENDS Agent, TLC

Symmetry == Permutations(Msgs)
=============================================================================
