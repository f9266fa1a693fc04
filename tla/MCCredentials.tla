---------------------------- MODULE MCCredentials ----------------------------
(* Credentials with processes, and providers, that stand for each other.    *)
EXTENDS Credentials, TLC

Symmetry == Permutations(Procs) \cup Permutations(Providers)
=============================================================================
