--------------------------- MODULE MCSessionFile ---------------------------
(* SessionFile on a few paths, which are interchangeable.                  *)
EXTENDS SessionFile, TLC

Symmetry == Permutations(Files)
=============================================================================
