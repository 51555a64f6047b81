---------------------------- MODULE MCRepository ----------------------------
(* Model-checking instances of KnoxiteRepository. *)
EXTENDS PackProofs, FiniteSets, TLC

CONSTANTS p1, p2, v1, v2, s1, s2, h1, h2, b1, b2

\* Hashes, snapshot ids and backends are interchangeable.
DataSymmetry ==
  Permutations(Hashes) \cup Permutations(Snapshots) \cup Permutations(Backends)

\* --tolerance 0 and --tolerance 1, with two backends.
Tolerance0 == [data |-> 1, parity |-> 0]
Tolerance1 == [data |-> 1, parity |-> 1]
OneShape   == {Tolerance1}
TwoShapes  == {Tolerance0, Tolerance1}

\* Where commands may die.
Everywhere        == CommandNames \X Labels
BetweenItsSaves   == {<<"remove", "saveRepository">>, <<"volremove", "saveRepository">>}
WhereItIsHarmless == Everywhere \ BetweenItsSaves
WhileStoring      == {"store", "clone"} \X {"opened", "storeChunk", "saveSnapshot",
                                           "saveIndex", "saveRepository"}
Nowhere           == {}
=============================================================================
