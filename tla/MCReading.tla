------------------------------- MODULE MCReading -------------------------------
(* Model-checking instance of Reading. *)
EXTENDS Reading, TLC

CONSTANTS a, b, r1, r2

Chunk(n, h) == [num |-> n, hash |-> h]

File(chunks) == [type |-> "file", chunks |-> chunks]

Dir == [type |-> "dir", chunks |-> <<>>]

\* A directory with a file whose chunks arrived out of order, then that file
\* after it changed, then two files of which one lacks a chunk in the middle.
ThreeSnapshots ==
  <<(<<"d">> :> Dir) @@ (<<"d", "f">> :> File(<<Chunk(1, b), Chunk(0, a)>>)),
    (<<"d", "f">> :> File(<<Chunk(0, b)>>)),
    (<<"g">> :> File(<<Chunk(2, a), Chunk(0, b), Chunk(1, b)>>))
      @@ (<<"h">> :> File(<<Chunk(0, b), Chunk(2, a)>>))>>

Lengths == (a :> 2) @@ (b :> 1)

\* Longer than any file of the snapshots.
OldFile == [i \in 1 .. 6 |-> <<None, i>>]
=============================================================================
