----------------------------- MODULE ChunkStream -----------------------------
(***************************************************************************)
(* What Snapshot.Add takes for granted of chunkFile: a channel on which    *)
(* every chunk of the file that could be read arrives once, in any order,  *)
(* some of them as errors, and that is closed after the last.              *)
(***************************************************************************)
EXTENDS Naturals

CONSTANT
  NumChunks  \* chunks of the file

VARIABLES
  pending,   \* chunks that will be delivered, unless reading them fails, and
             \* NumChunks as long as reading may fail
  consumer,  \* the consumer, as in ChunkPipeline
  archive    \* chunks that have been stored and added to the archive

streamVars == <<pending, consumer, archive>>

-----------------------------------------------------------------------------
Chunks == 0 .. NumChunks - 1

Init ==
  /\ pending = Chunks \cup {NumChunks}
  /\ consumer.pc = "receive" /\ ~consumer.error
  /\ archive = {}

TakeChunk ==
  /\ consumer.pc = "receive"
  /\ \E n \in pending \cap Chunks :
       /\ pending' = pending \ {n}
       /\ consumer' = [consumer EXCEPT !.pc = "store", !.chunk = n]
  /\ UNCHANGED archive

\* One chunk is lost or, when reading fails, all that have not been read yet.
TakeError ==
  /\ consumer.pc = "receive"
  /\ \/ \E n \in pending \cap Chunks : pending' = pending \ {n}
     \/ /\ NumChunks \in pending
        /\ \E n \in 0 .. NumChunks : pending' = {m \in pending : m < n}
  /\ consumer' = [consumer EXCEPT !.pc = IF consumer.pedantic THEN "stop" ELSE "receive"]
  /\ UNCHANGED archive

StoreChunk ==
  /\ consumer.pc = "store"
  /\ archive' = archive \cup {consumer.chunk}
  /\ consumer' = [consumer EXCEPT !.pc = "receive"]
  /\ UNCHANGED pending

StoreChunkFails ==
  /\ consumer.pc = "store"
  /\ consumer' = [consumer EXCEPT !.pc = IF consumer.pedantic THEN "stop" ELSE "receive",
                                  !.error = TRUE]
  /\ UNCHANGED <<pending, archive>>

\* The whole file has been read.
EndOfFile ==
  /\ NumChunks \in pending
  /\ pending' = pending \ {NumChunks}
  /\ UNCHANGED <<consumer, archive>>

EndOfChunks ==
  /\ consumer.pc = "receive"
  /\ pending = {}
  /\ consumer' = [consumer EXCEPT !.pc = "end"]
  /\ UNCHANGED <<pending, archive>>

Next ==
  \/ TakeChunk \/ TakeError \/ EndOfFile
  \/ StoreChunk \/ StoreChunkFails \/ EndOfChunks

Spec == Init /\ [][Next]_streamVars
=============================================================================
