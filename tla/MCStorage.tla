------------------------------ MODULE MCStorage ------------------------------
(* Model-checking instance of RepositoryFile. *)
EXTENDS RepositoryFile

CONSTANTS b1, b2, p1, p2, none

\* Any adapter on one backend, a directory or a bucket on the other.
AnyAndPlain == (b1 :> Kinds) @@ (b2 :> {"local"})

\* A bucket at Backblaze.
Backblaze == [b \in {b1} |-> {"backblaze"}]

\* Passwords are interchangeable.
SymmetricPasswords == Permutations(Passwords)
=============================================================================
