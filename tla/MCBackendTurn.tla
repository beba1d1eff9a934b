---------------------------- MODULE MCBackendTurn ----------------------------
(* BackendTurn on small instances. *)
EXTENDS BackendTurn, TLC

\* The emitters run the same code: exchanging them changes nothing.
Symmetry == Permutations(Emitters)
=============================================================================
