--------------------------- MODULE MCSessionTree ---------------------------
(* SessionTree on a few ids, which are interchangeable.                    *)
EXTENDS SessionTree, TLC

Symmetry == Permutations(Ids)
=============================================================================
