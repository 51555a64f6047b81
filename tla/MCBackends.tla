----------------------------- MODULE MCBackends -----------------------------
(* Model-checking instances of BackendManager. *)
EXTENDS BackendManagerProofs, TLC

CONSTANTS h1, h2

HashSymmetry == Permutations(Hashes)
=============================================================================
