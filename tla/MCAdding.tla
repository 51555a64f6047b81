------------------------------- MODULE MCAdding -------------------------------
(* Model-checking instance of Adding. *)
EXTENDS Adding

CONSTANTS root, file, note, pipe

\* The root with a file and a named pipe; then another file, and the first again.
TwoTargets == <<<<root, file, pipe>>, <<note, file>>>>

Types == (root :> "dir") @@ (pipe :> "other") @@ (file :> "file") @@ (note :> "file")

AboveThem == [p \in {root, file, note, pipe} |-> IF p = note THEN {} ELSE {root}]
=============================================================================
