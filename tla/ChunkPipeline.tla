---------------------------- MODULE ChunkPipeline ----------------------------
(***************************************************************************)
(* chunkFile and the loop of Snapshot.Add that consumes its results: how   *)
(* one file becomes chunks.  A reader goroutine cuts the file into chunks  *)
(* and hands them to worker goroutines, which compress, encrypt and        *)
(* encode them; the consumer stores what they deliver.  A closer goroutine *)
(* waits for all of them with a WaitGroup and closes both channels.        *)
(*                                                                         *)
(* Both channels are unbuffered: sending and receiving are one step of two *)
(* goroutines.                                                             *)
(***************************************************************************)
EXTENDS Naturals, FiniteSets

CONSTANTS
  Workers,   \* worker goroutines
  NumChunks  \* chunks of the file

ASSUME PipelineOK == NumChunks \in Nat /\ IsFiniteSet(Workers)

VARIABLES
  reader,    \* the reader goroutine: where it is, and the next chunk's number
  worker,    \* the workers: where they are, the chunk they have, if it is good
  closer,    \* where the closer goroutine is
  consumer,  \* the consumer: where it is, the chunk it has, if it has reported an
             \* error to store, and if it is to give up on the first (pedantic)
  wg,        \* the counter of the WaitGroup
  delivered, \* chunk -> how often a result for it has been received
  archive    \* chunks that have been stored and added to the archive

vars == <<reader, worker, closer, consumer, wg, delivered, archive>>

-----------------------------------------------------------------------------
Chunks == 0 .. NumChunks - 1

jobsClosed   == closer \in {"closeResults", "end"}
chunksClosed == closer = "end"

\* Wrong variant: the reader goroutine is not counted.
InitUncounted ==
  /\ reader = [pc |-> "read", next |-> 0]
  /\ worker = [w \in Workers |-> [pc |-> "receive", chunk |-> 0, good |-> TRUE]]
  /\ closer = "wait"
  /\ \E pedantic \in BOOLEAN :
       consumer = [pc |-> "receive", chunk |-> 0, error |-> FALSE,
                   pedantic |-> pedantic]
  /\ wg = 0
  /\ delivered = [n \in Chunks |-> 0]
  /\ archive = {}

\* The file is open and all goroutines are started; the reader counts.
Init ==
  /\ reader = [pc |-> "read", next |-> 0]
  /\ worker = [w \in Workers |-> [pc |-> "receive", chunk |-> 0, good |-> TRUE]]
  /\ closer = "wait"
  /\ \E pedantic \in BOOLEAN :
       consumer = [pc |-> "receive", chunk |-> 0, error |-> FALSE,
                   pedantic |-> pedantic]
  /\ wg = 1
  /\ delivered = [n \in Chunks |-> 0]
  /\ archive = {}

-----------------------------------------------------------------------------
(* The consumer, when it is given a result.                                *)

\* After an error a pedantic consumer returns at once, and nobody receives
\* from the channel any more.
AfterError == IF consumer.pedantic THEN "stop" ELSE "receive"

\* The result is an error.  What is reported is not cd.Error but the err of
\* chunkFile, which is nil: store does not take it for an error.
TakeError ==
  /\ consumer.pc = "receive"
  /\ consumer' = [consumer EXCEPT !.pc = AfterError]

TakeChunk(n) ==
  /\ consumer.pc = "receive"
  /\ consumer' = [consumer EXCEPT !.pc = "store", !.chunk = n]

-----------------------------------------------------------------------------
(* The reader goroutine.                                                   *)

\* Wrong variant: the chunk is not counted.
ReadChunkUncounted ==
  /\ reader.pc = "read"
  /\ reader.next < NumChunks
  /\ reader' = [reader EXCEPT !.pc = "send"]
  /\ UNCHANGED <<worker, closer, consumer, wg, delivered, archive>>

\* The chunk is counted before it is handed over.
ReadChunk ==
  /\ reader.pc = "read"
  /\ reader.next < NumChunks
  /\ wg' = wg + 1
  /\ reader' = [reader EXCEPT !.pc = "send"]
  /\ UNCHANGED <<worker, closer, consumer, delivered, archive>>

SendJob(w) ==
  /\ reader.pc = "send"
  /\ worker[w].pc = "receive"
  /\ reader' = [pc |-> "read", next |-> reader.next + 1]
  /\ worker' = [worker EXCEPT ![w] =
                  [pc |-> "process", chunk |-> reader.next, good |-> TRUE]]
  /\ UNCHANGED <<closer, consumer, wg, delivered, archive>>

ReadEOF ==
  /\ reader.pc = "read"
  /\ reader.next = NumChunks
  /\ wg' = wg - 1
  /\ reader' = [reader EXCEPT !.pc = "end"]
  /\ UNCHANGED <<worker, closer, consumer, delivered, archive>>

ReadFails ==
  /\ reader.pc = "read"
  /\ reader' = [reader EXCEPT !.pc = "error"]
  /\ UNCHANGED <<worker, closer, consumer, wg, delivered, archive>>

DeliverReadError ==
  /\ reader.pc = "error"
  /\ TakeError
  /\ reader' = [reader EXCEPT !.pc = "reported"]
  /\ UNCHANGED <<worker, closer, wg, delivered, archive>>

EndReader ==
  /\ reader.pc = "reported"
  /\ wg' = wg - 1
  /\ reader' = [reader EXCEPT !.pc = "end"]
  /\ UNCHANGED <<worker, closer, consumer, delivered, archive>>

-----------------------------------------------------------------------------
(* The workers: processChunk.                                              *)

Process(w) ==
  /\ worker[w].pc = "process"
  /\ \E good \in BOOLEAN :
       worker' = [worker EXCEPT ![w] = [pc |-> "deliver",
                                        chunk |-> worker[w].chunk, good |-> good]]
  /\ UNCHANGED <<reader, closer, consumer, wg, delivered, archive>>

\* Wrong variant: a chunk is not handed to the consumer if it is a bad one.
DeliverGoodOnly(w) ==
  /\ worker[w].pc = "deliver"
  /\ IF worker[w].good
       THEN /\ TakeChunk(worker[w].chunk)
            /\ delivered' = [delivered EXCEPT ![worker[w].chunk] =
                               delivered[worker[w].chunk] + 1]
       ELSE UNCHANGED <<consumer, delivered>>
  /\ worker' = [worker EXCEPT ![w].pc = "done"]
  /\ UNCHANGED <<reader, closer, wg, archive>>

Deliver(w) ==
  /\ worker[w].pc = "deliver"
  /\ IF worker[w].good THEN TakeChunk(worker[w].chunk) ELSE TakeError
  /\ delivered' = [delivered EXCEPT ![worker[w].chunk] =
                     delivered[worker[w].chunk] + 1]
  /\ worker' = [worker EXCEPT ![w].pc = "done"]
  /\ UNCHANGED <<reader, closer, wg, archive>>

\* Wrong variant: after an error the worker goes on without wg.Done.
DoneIfGood(w) ==
  /\ worker[w].pc = "done"
  /\ wg' = IF worker[w].good THEN wg - 1 ELSE wg
  /\ worker' = [worker EXCEPT ![w].pc = "receive"]
  /\ UNCHANGED <<reader, closer, consumer, delivered, archive>>

\* The chunk is not counted any more once its result has been received.
Done(w) ==
  /\ worker[w].pc = "done"
  /\ wg' = wg - 1
  /\ worker' = [worker EXCEPT ![w].pc = "receive"]
  /\ UNCHANGED <<reader, closer, consumer, delivered, archive>>

EndWorker(w) ==
  /\ worker[w].pc = "receive"
  /\ jobsClosed
  /\ worker' = [worker EXCEPT ![w].pc = "end"]
  /\ UNCHANGED <<reader, closer, consumer, wg, delivered, archive>>

-----------------------------------------------------------------------------
(* The closer goroutine.                                                   *)

Wait ==
  /\ closer = "wait"
  /\ wg = 0
  /\ closer' = "closeJobs"
  /\ UNCHANGED <<reader, worker, consumer, wg, delivered, archive>>

CloseJobs ==
  /\ closer = "closeJobs"
  /\ closer' = "closeResults"
  /\ UNCHANGED <<reader, worker, consumer, wg, delivered, archive>>

CloseResults ==
  /\ closer = "closeResults"
  /\ closer' = "end"
  /\ UNCHANGED <<reader, worker, consumer, wg, delivered, archive>>

-----------------------------------------------------------------------------
(* The consumer: the loop of Snapshot.Add over the results.                *)

StoreChunk ==
  /\ consumer.pc = "store"
  /\ archive' = archive \cup {consumer.chunk}
  /\ consumer' = [consumer EXCEPT !.pc = "receive"]
  /\ UNCHANGED <<reader, worker, closer, wg, delivered>>

StoreChunkFails ==
  /\ consumer.pc = "store"
  /\ consumer' = [consumer EXCEPT !.pc = AfterError, !.error = TRUE]
  /\ UNCHANGED <<reader, worker, closer, wg, delivered, archive>>

EndOfChunks ==
  /\ consumer.pc = "receive"
  /\ chunksClosed
  /\ consumer' = [consumer EXCEPT !.pc = "end"]
  /\ UNCHANGED <<reader, worker, closer, wg, delivered, archive>>

-----------------------------------------------------------------------------
Reader == ReadChunk \/ ReadEOF \/ ReadFails \/ DeliverReadError \/ EndReader

Worker(w) == SendJob(w) \/ Process(w) \/ Deliver(w) \/ Done(w) \/ EndWorker(w)

Closer == Wait \/ CloseJobs \/ CloseResults

Consumer == StoreChunk \/ StoreChunkFails \/ EndOfChunks

Next == Reader \/ (\E w \in Workers : Worker(w)) \/ Closer \/ Consumer

\* A goroutine that can run is run some time: no step can be taken forever,
\* so it is enough that some step is taken as long as one is possible.
Spec == Init /\ [][Next]_vars /\ WF_vars(Next)

-----------------------------------------------------------------------------
(* Properties.                                                             *)

\* Type invariant.
TypeOK ==
  /\ reader \in [pc : {"read", "send", "error", "reported", "end"},
                 next : 0 .. NumChunks]
  /\ worker \in [Workers -> [pc : {"receive", "process", "deliver", "done", "end"},
                             chunk : Chunks \cup {0}, good : BOOLEAN]]
  /\ closer \in {"wait", "closeJobs", "closeResults", "end"}
  /\ consumer \in [pc : {"receive", "store", "stop", "end"}, chunk : Chunks \cup {0},
                   error : BOOLEAN, pedantic : BOOLEAN]
  /\ wg \in Nat
  /\ delivered \in [Chunks -> Nat]
  /\ archive \subseteq Chunks

\* Nobody is about to send on a channel that is closed, which would panic.
\* This is what the WaitGroup is for: chunkFile counts the reader and every
\* chunk before it is sent and until its result is received.
NoSendOnClosed ==
  /\ jobsClosed => reader.pc # "send"
  /\ chunksClosed => /\ reader.pc # "error"
                     /\ \A w \in Workers : worker[w].pc # "deliver"

\* However the goroutines are scheduled, no chunk is delivered twice, and when
\* the consumer sees the end of the channel it has received a result for every
\* chunk that was read.
DeliveredOnce ==
  /\ \A n \in Chunks : delivered[n] <= 1
  /\ consumer.pc = "end" => \A n \in 0 .. reader.next - 1 : delivered[n] = 1

\* "exit on first error": a pedantic store that has not been told of an error
\* has the whole file.
PedanticMeansComplete ==
  consumer.pedantic /\ consumer.pc \in {"stop", "end"} /\ ~consumer.error =>
    archive = Chunks

\* The consumer comes to the end of the channel, unless it gives up, and then
\* no goroutine is left.
Ends ==
  <>(\/ consumer.pc = "stop"
     \/ /\ consumer.pc = "end"
        /\ reader.pc = "end"
        /\ closer = "end"
        /\ \A w \in Workers : worker[w].pc = "end")

-----------------------------------------------------------------------------
(* The abstract specification.                                             *)

ReaderIsDone == reader.pc \in {"reported", "end"}

\* The chunks of which a result is still to come, and the end of the file.
Pending == {n \in Chunks : delivered[n] = 0 /\ (ReaderIsDone => n < reader.next)}
             \cup (IF ReaderIsDone THEN {} ELSE {NumChunks})

Stream == INSTANCE ChunkStream WITH pending <- Pending

\* To its consumer the pipeline looks like a channel on which the chunks of
\* the file arrive, each of them once, before it is closed.
ImplementsStream == Stream!Spec
=============================================================================
