-------------------------- MODULE ChunkPipelineProofs --------------------------
(***************************************************************************)
(* Proofs about ChunkPipeline, for any number of workers and of chunks:    *)
(* the goroutines send on no closed channel, every chunk is delivered once,*)
(* and together they implement the channel that Snapshot.Add reads.        *)
(***************************************************************************)
EXTENDS ChunkPipeline, FiniteSetTheorems, TLAPS

-----------------------------------------------------------------------------
(* The inductive invariant.                                                *)

ReaderType == reader \in [pc : {"read", "send", "error", "reported", "end"},
                          next : 0 .. NumChunks]

WorkerType == worker \in [Workers -> [pc : {"receive", "process", "deliver", "done", "end"},
                                      chunk : Chunks \cup {0}, good : BOOLEAN]]

ConsumerType ==
  consumer \in [pc : {"receive", "store", "stop", "end"}, chunk : Chunks \cup {0},
                error : BOOLEAN, pedantic : BOOLEAN]

\* A worker that has a chunk whose result has not been received.
Holds(w) == worker[w].pc \in {"process", "deliver"}

\* The reader has a chunk to send only if the file has one.
ReaderInv == reader.pc = "send" => reader.next < NumChunks

\* Workers hold chunks that have been read and not been delivered, ...
HoldersInv ==
  \A w \in Workers : Holds(w) => /\ worker[w].chunk \in Chunks
                                 /\ worker[w].chunk < reader.next
                                 /\ delivered[worker[w].chunk] = 0

\* ... no two of them the same.
DistinctInv ==
  \A v, w \in Workers :
    Holds(v) /\ Holds(w) /\ worker[v].chunk = worker[w].chunk => v = w

\* A chunk has been delivered once, or is held by a worker, or is still to be read.
DeliveredInv ==
  /\ delivered \in [Chunks -> {0, 1}]
  /\ \A n \in Chunks :
       /\ n >= reader.next => delivered[n] = 0
       /\ n < reader.next /\ delivered[n] = 0 =>
            \E w \in Workers : Holds(w) /\ worker[w].chunk = n

\* Workers that count: wg.Done is still to come.
Busy == {w \in Workers : worker[w].pc \in {"process", "deliver", "done"}}

\* What the reader counts for: itself, and a chunk it has not sent yet.
ReaderCount == CASE reader.pc = "send" -> 2 [] reader.pc = "end" -> 0 [] OTHER -> 1

\* The counter of the WaitGroup is the number of all that are not done.
CountInv == wg = ReaderCount + Cardinality(Busy)

\* The closer goes on when nobody is left to send.
CloserInv ==
  /\ closer \in {"wait", "closeJobs", "closeResults", "end"}
  /\ closer # "wait" => reader.pc = "end" /\ Busy = {}
  /\ consumer.pc = "end" => chunksClosed

IInv ==
  /\ ReaderType /\ WorkerType /\ ConsumerType
  /\ archive \subseteq Chunks
  /\ consumer.pc = "store" => consumer.chunk \in Chunks
  /\ ReaderInv /\ HoldersInv /\ DistinctInv /\ DeliveredInv /\ CountInv /\ CloserInv

-----------------------------------------------------------------------------
(* The workers that count.                                                 *)

\* Only finitely many workers count.
LEMMA BusyFinite == IsFiniteSet(Busy) /\ Cardinality(Busy) \in Nat
<1>1. Busy \subseteq Workers
  BY DEF Busy
<1>2. IsFiniteSet(Workers)
  BY PipelineOK DEF PipelineOK
<1> QED
  BY <1>1, <1>2, FS_Subset, FS_CardinalityType

\* A step of the reader, the closer or the consumer leaves alone what the
\* workers hold.
LEMMA SameWorkers ==
  ASSUME worker' = worker
  PROVE  Busy' = Busy /\ \A w \in Workers : Holds(w)' <=> Holds(w)
BY DEF Busy, Holds

\* A worker that is given a chunk counts from then on (SendJob).
LEMMA OneMoreBusy ==
  ASSUME NEW w \in Workers, w \notin Busy, Busy' = Busy \cup {w}
  PROVE  Cardinality(Busy') = Cardinality(Busy) + 1
BY BusyFinite, FS_AddElement

\* wg.Done: a worker that counted does so no more.
LEMMA OneLessBusy ==
  ASSUME NEW w \in Workers, w \in Busy, Busy' = Busy \ {w}
  PROVE  /\ Cardinality(Busy') = Cardinality(Busy) - 1
         /\ Cardinality(Busy) > 0
<1>1. Cardinality(Busy') = Cardinality(Busy) - 1
  BY BusyFinite, FS_RemoveElement
<1>2. Busy # {}
  OBVIOUS
<1>3. Cardinality(Busy) # 0
  BY <1>2, BusyFinite, FS_EmptySet
<1> QED
  BY <1>1, <1>3, BusyFinite

-----------------------------------------------------------------------------
(* Every step preserves the invariant.                                     *)

\* At first the reader counts and nobody else does.
LEMMA InvInit == Init => IInv
<1> SUFFICES ASSUME Init PROVE IInv
  OBVIOUS
<1>1. NumChunks \in Nat
  BY PipelineOK DEF PipelineOK
<1>2. ReaderType /\ WorkerType /\ ConsumerType
  BY <1>1 DEF Init, ReaderType, WorkerType, ConsumerType
<1>3. \A w \in Workers : ~Holds(w)
  BY DEF Init, Holds
<1>4. HoldersInv /\ DistinctInv
  BY <1>3 DEF HoldersInv, DistinctInv
<1>5. DeliveredInv
  BY <1>1 DEF Init, DeliveredInv, Chunks
<1>6. Busy = {}
  BY DEF Init, Busy
<1>7. CountInv
  <2>1. Cardinality(Busy) = 0
    BY <1>6, FS_EmptySet
  <2>2. ReaderCount = 1 /\ wg = 1
    BY DEF Init, ReaderCount
  <2> QED
    BY <2>1, <2>2 DEF CountInv
<1> QED
  BY <1>2, <1>4, <1>5, <1>7 DEF IInv, Init, ReaderInv, CloserInv

\* The steps of the reader that hand nothing over.
LEMMA InvReader ==
  ASSUME IInv, ReadChunk \/ ReadEOF \/ ReadFails \/ EndReader
  PROVE  IInv'
<1>1. /\ worker' = worker /\ closer' = closer /\ consumer' = consumer
      /\ delivered' = delivered /\ archive' = archive /\ reader'.next = reader.next
      /\ reader.pc \notin {"send", "end"}
  BY DEF ReadChunk, ReadEOF, ReadFails, EndReader, IInv, ReaderType
<1>2. Busy' = Busy /\ \A w \in Workers : Holds(w)' <=> Holds(w)
  BY <1>1, SameWorkers
<1>3. ReaderType' /\ ReaderInv'
  BY DEF ReadChunk, ReadEOF, ReadFails, EndReader, IInv, ReaderType, ReaderInv
<1>4. WorkerType' /\ ConsumerType' /\ (archive \subseteq Chunks)'
  BY <1>1 DEF IInv, WorkerType, ConsumerType
<1>5. HoldersInv' /\ DistinctInv' /\ DeliveredInv'
  BY <1>1, <1>2 DEF IInv, HoldersInv, DistinctInv, DeliveredInv
<1>6. CountInv'
  <2>1. wg = ReaderCount + Cardinality(Busy) /\ Cardinality(Busy) \in Nat
    BY BusyFinite DEF IInv, CountInv
  <2>2. wg' - wg = ReaderCount' - ReaderCount
    BY <2>1, BusyFinite DEF ReadChunk, ReadEOF, ReadFails, EndReader, IInv, ReaderType, ReaderCount
  <2>3. ReaderCount \in Nat /\ ReaderCount' \in Nat
    BY DEF ReaderCount
  <2>4. wg' \in Int
    BY <2>1, <2>3 DEF ReadChunk, ReadEOF, ReadFails, EndReader
  <2> HIDE DEF Busy, ReaderCount
  <2> QED
    BY <2>1, <2>2, <2>3, <2>4, <1>2 DEF CountInv
<1>7. CloserInv'
  BY <1>1, <1>2 DEF IInv, CloserInv, chunksClosed
<1> QED
  BY <1>1, <1>3, <1>4, <1>5, <1>6, <1>7 DEF IInv

\* SendJob: the chunk passes from the reader, which counted for it, to a worker
\* that counts from now on.
LEMMA InvSendJob ==
  ASSUME IInv, NEW w \in Workers, SendJob(w)
  PROVE  IInv'
<1>1. NumChunks \in Nat /\ reader.next \in Chunks /\ reader.next \in Nat /\ reader.pc = "send"
  BY PipelineOK DEF SendJob, IInv, ReaderType, ReaderInv, PipelineOK, Chunks
<1>2. reader'.pc = "read" /\ reader'.next = reader.next + 1
  BY DEF SendJob
<1>3. /\ worker'[w].pc = "process" /\ worker'[w].chunk = reader.next
      /\ \A v \in Workers : v # w => worker'[v] = worker[v]
  BY DEF SendJob, IInv, WorkerType
<1>4. /\ closer' = closer /\ consumer' = consumer /\ wg' = wg
      /\ delivered' = delivered /\ archive' = archive
  BY DEF SendJob
<1>5. /\ Holds(w)' /\ ~Holds(w)
      /\ \A v \in Workers : v # w => (Holds(v)' <=> Holds(v))
  BY <1>3 DEF Holds, SendJob
<1>6. ReaderType' /\ ReaderInv'
  BY <1>1, <1>2 DEF SendJob, ReaderType, ReaderInv, Chunks
<1>7. WorkerType' /\ ConsumerType' /\ (archive \subseteq Chunks)'
  BY <1>1, <1>4 DEF SendJob, IInv, WorkerType, ConsumerType
<1>8. HoldersInv'
  <2>1. delivered[reader.next] = 0
    BY <1>1 DEF IInv, DeliveredInv
  <2> SUFFICES ASSUME NEW v \in Workers, Holds(v)'
               PROVE  /\ worker'[v].chunk \in Chunks
                      /\ worker'[v].chunk < reader'.next
                      /\ delivered'[worker'[v].chunk] = 0
    BY DEF HoldersInv, Chunks
  <2>2. CASE v = w
    BY <2>1, <2>2, <1>1, <1>2, <1>3, <1>4
  <2>3. CASE v # w
    <3>1. /\ worker[v].chunk \in Chunks /\ worker[v].chunk < reader.next
          /\ delivered[worker[v].chunk] = 0
      BY <2>3, <1>5 DEF IInv, HoldersInv
    <3> QED
      BY <3>1, <2>3, <1>1, <1>2, <1>3, <1>4 DEF Chunks
  <2> QED
    BY <2>2, <2>3
<1>9. DistinctInv'
  <2>1. \A v \in Workers : v # w /\ Holds(v) => worker[v].chunk # reader.next
    BY <1>1 DEF IInv, HoldersInv, Chunks
  <2> QED
    BY <2>1, <1>3, <1>5 DEF IInv, DistinctInv
<1>10. DeliveredInv'
  <2>1. delivered' \in [Chunks -> {0, 1}]
    BY <1>4 DEF IInv, DeliveredInv
  <2> SUFFICES ASSUME NEW n \in Chunks
               PROVE  /\ n >= reader'.next => delivered'[n] = 0
                      /\ n < reader'.next /\ delivered'[n] = 0 =>
                           \E v \in Workers : Holds(v)' /\ worker'[v].chunk = n
    BY <2>1 DEF DeliveredInv, Chunks
  <2>2. n >= reader'.next => delivered'[n] = 0
    BY <1>1, <1>2, <1>4 DEF IInv, DeliveredInv, Chunks
  <2>3. ASSUME n < reader'.next, delivered'[n] = 0
        PROVE  \E v \in Workers : Holds(v)' /\ worker'[v].chunk = n
    <3>1. CASE n = reader.next
      BY <3>1, <1>3, <1>5
    <3>2. CASE n # reader.next
      <4>1. n < reader.next /\ delivered[n] = 0
        BY <3>2, <2>3, <1>1, <1>2, <1>4 DEF Chunks
      <4>2. PICK v \in Workers : Holds(v) /\ worker[v].chunk = n
        BY <4>1 DEF IInv, DeliveredInv
      <4>3. v # w
        BY <4>2, <1>5
      <4> QED
        BY <4>2, <4>3, <1>3, <1>5
    <3> QED
      BY <3>1, <3>2
  <2> QED
    BY <2>2, <2>3
<1>11. w \notin Busy /\ Busy' = Busy \cup {w}
  BY <1>3 DEF Busy, SendJob
<1>12. CountInv'
  <2>1. wg = ReaderCount + Cardinality(Busy) /\ Cardinality(Busy) \in Nat
    BY BusyFinite DEF IInv, CountInv
  <2>2. ReaderCount = 2 /\ ReaderCount' = 1
    BY <1>1, <1>2 DEF ReaderCount
  <2>3. Cardinality(Busy') = Cardinality(Busy) + 1
    BY <1>11, OneMoreBusy
  <2> HIDE DEF Busy, ReaderCount
  <2> QED
    BY <2>1, <2>2, <2>3, <1>4 DEF CountInv
<1>13. CloserInv'
  BY <1>1, <1>4 DEF IInv, CloserInv, chunksClosed
<1> QED
  BY <1>4, <1>6, <1>7, <1>8, <1>9, <1>10, <1>12, <1>13 DEF IInv

\* Process: the worker has the same chunk as before.
LEMMA InvProcess ==
  ASSUME IInv, NEW w \in Workers, Process(w)
  PROVE  IInv'
<1>1. /\ worker'[w].pc = "deliver" /\ worker'[w].chunk = worker[w].chunk
      /\ worker[w].pc = "process"
      /\ \A v \in Workers : v # w => worker'[v] = worker[v]
  BY DEF Process, IInv, WorkerType
<1>2. /\ reader' = reader /\ closer' = closer /\ consumer' = consumer /\ wg' = wg
      /\ delivered' = delivered /\ archive' = archive
  BY DEF Process
<1>3. \A v \in Workers : (Holds(v)' <=> Holds(v)) /\ worker'[v].chunk = worker[v].chunk
  BY <1>1 DEF Holds
<1>4. Busy' = Busy
  BY <1>1 DEF Busy
<1>5. WorkerType'
  BY DEF Process, IInv, WorkerType
<1>6. HoldersInv' /\ DistinctInv' /\ DeliveredInv'
  BY <1>2, <1>3 DEF IInv, HoldersInv, DistinctInv, DeliveredInv
<1>7. CountInv' /\ CloserInv'
  BY <1>2, <1>4 DEF IInv, CountInv, ReaderCount, CloserInv, chunksClosed
<1> QED
  BY <1>2, <1>5, <1>6, <1>7 DEF IInv, ReaderType, ConsumerType, ReaderInv

\* The consumer's record keeps its type when it takes what is delivered.
LEMMA ConsumerTakes ==
  ASSUME IInv, TakeError \/ \E n \in Chunks : TakeChunk(n)
  PROVE  /\ ConsumerType' /\ (consumer.pc = "store" => consumer.chunk \in Chunks)'
         /\ consumer.pc = "receive" /\ consumer'.pc # "end"
<1>1. CASE TakeError
  BY <1>1 DEF TakeError, AfterError, IInv, ConsumerType
<1>2. CASE \E n \in Chunks : TakeChunk(n)
  <2>1. PICK n \in Chunks : TakeChunk(n)
    BY <1>2
  <2> QED
    BY <2>1 DEF TakeChunk, IInv, ConsumerType
<1> QED
  BY <1>1, <1>2

\* Deliver: the chunk is the consumer's, and no other worker has it.
LEMMA InvDeliver ==
  ASSUME IInv, NEW w \in Workers, Deliver(w)
  PROVE  IInv'
<1> DEFINE c == worker[w].chunk
<1>1. /\ worker'[w].pc = "done" /\ worker[w].pc = "deliver"
      /\ \A v \in Workers : v # w => worker'[v] = worker[v]
  BY DEF Deliver, IInv, WorkerType
<1>2. reader' = reader /\ closer' = closer /\ wg' = wg /\ archive' = archive
  BY DEF Deliver
<1>3. Holds(w) /\ ~Holds(w)' /\ \A v \in Workers : v # w => (Holds(v)' <=> Holds(v))
  BY <1>1 DEF Holds
<1>4. c \in Chunks /\ c < reader.next /\ delivered[c] = 0
  BY <1>3 DEF IInv, HoldersInv
<1>5. delivered' = [delivered EXCEPT ![c] = 1]
  BY <1>4 DEF Deliver
<1>6. ConsumerType' /\ (consumer.pc = "store" => consumer.chunk \in Chunks)'
        /\ consumer.pc = "receive" /\ consumer'.pc # "end"
  <2>1. TakeError \/ TakeChunk(c)
    BY DEF Deliver
  <2>2. TakeError \/ \E n \in Chunks : TakeChunk(n)
    BY <2>1, <1>4
  <2> QED
    BY <2>2, ConsumerTakes
<1>7. WorkerType'
  BY DEF Deliver, IInv, WorkerType
<1>8. HoldersInv'
  <2> SUFFICES ASSUME NEW v \in Workers, Holds(v)'
               PROVE  /\ worker'[v].chunk \in Chunks
                      /\ worker'[v].chunk < reader'.next
                      /\ delivered'[worker'[v].chunk] = 0
    BY DEF HoldersInv, Chunks
  <2>1. v # w /\ Holds(v) /\ worker'[v] = worker[v]
    BY <1>1, <1>3
  <2>2. worker[v].chunk # c
    BY <2>1, <1>3 DEF IInv, DistinctInv
  <2>3. /\ worker[v].chunk \in Chunks /\ worker[v].chunk < reader.next
        /\ delivered[worker[v].chunk] = 0
    BY <2>1 DEF IInv, HoldersInv
  <2> QED
    BY <2>1, <2>2, <2>3, <1>2, <1>5 DEF IInv, DeliveredInv
<1>9. DistinctInv'
  BY <1>1, <1>3 DEF IInv, DistinctInv
<1>10. DeliveredInv'
  <2>1. delivered' \in [Chunks -> {0, 1}]
    BY <1>5 DEF IInv, DeliveredInv
  <2> SUFFICES ASSUME NEW n \in Chunks
               PROVE  /\ n >= reader'.next => delivered'[n] = 0
                      /\ n < reader'.next /\ delivered'[n] = 0 =>
                           \E v \in Workers : Holds(v)' /\ worker'[v].chunk = n
    BY <2>1 DEF DeliveredInv, Chunks
  <2>2. CASE n = c
    <3>1. delivered'[n] = 1 /\ n < reader'.next
      BY <2>2, <1>2, <1>4, <1>5 DEF IInv, DeliveredInv
    <3>2. ~(n >= reader'.next)
      BY <3>1, <1>2 DEF IInv, ReaderType, Chunks
    <3> QED
      BY <3>1, <3>2
  <2>3. CASE n # c
    <3>1. delivered'[n] = delivered[n]
      BY <2>3, <1>5 DEF IInv, DeliveredInv
    <3>2. n >= reader'.next => delivered'[n] = 0
      BY <3>1, <1>2 DEF IInv, DeliveredInv
    <3>3. ASSUME n < reader'.next, delivered'[n] = 0
          PROVE  \E v \in Workers : Holds(v)' /\ worker'[v].chunk = n
      <4>1. PICK v \in Workers : Holds(v) /\ worker[v].chunk = n
        BY <3>1, <3>3, <1>2 DEF IInv, DeliveredInv
      <4> QED
        BY <4>1, <2>3, <1>1, <1>3
    <3> QED
      BY <3>2, <3>3
  <2> QED
    BY <2>2, <2>3
<1>11. Busy' = Busy
  BY <1>1 DEF Busy
<1>12. CountInv'
  BY <1>2, <1>11 DEF IInv, CountInv, ReaderCount
<1>13. CloserInv'
  BY <1>2, <1>6, <1>11 DEF IInv, CloserInv, chunksClosed
<1> QED
  BY <1>2, <1>6, <1>7, <1>8, <1>9, <1>10, <1>12, <1>13 DEF IInv, ReaderType, ReaderInv

\* The worker's wg.Done.
LEMMA InvDone ==
  ASSUME IInv, NEW w \in Workers, Done(w)
  PROVE  IInv'
<1>1. /\ worker'[w].pc = "receive" /\ worker[w].pc = "done" /\ wg' = wg - 1
      /\ \A v \in Workers : v # w => worker'[v] = worker[v]
  BY DEF Done, IInv, WorkerType
<1>2. /\ reader' = reader /\ closer' = closer /\ consumer' = consumer
      /\ delivered' = delivered /\ archive' = archive
  BY DEF Done
<1>3. \A v \in Workers : (Holds(v)' <=> Holds(v)) /\ (Holds(v) => worker'[v] = worker[v])
  BY <1>1 DEF Holds
<1>4. w \in Busy /\ Busy' = Busy \ {w}
  BY <1>1 DEF Busy
<1>5. WorkerType'
  BY DEF Done, IInv, WorkerType
<1>6. HoldersInv' /\ DistinctInv' /\ DeliveredInv'
  BY <1>2, <1>3 DEF IInv, HoldersInv, DistinctInv, DeliveredInv
<1>7. CountInv'
  <2>1. /\ Cardinality(Busy') = Cardinality(Busy) - 1
        /\ Cardinality(Busy) \in Nat /\ ReaderCount' = ReaderCount
    BY <1>2, <1>4, OneLessBusy, BusyFinite DEF ReaderCount
  <2>2. ReaderCount \in Nat /\ wg = ReaderCount + Cardinality(Busy)
    BY DEF ReaderCount, IInv, CountInv
  <2> HIDE DEF Busy, ReaderCount
  <2> QED
    BY <2>1, <2>2, <1>1 DEF CountInv
<1>8. CloserInv'
  BY <1>2, <1>4 DEF IInv, CloserInv, chunksClosed
<1> QED
  BY <1>2, <1>5, <1>6, <1>7, <1>8 DEF IInv, ReaderType, ConsumerType, ReaderInv

\* A worker ends, with no chunk.
LEMMA InvEndWorker ==
  ASSUME IInv, NEW w \in Workers, EndWorker(w)
  PROVE  IInv'
<1>1. /\ worker'[w].pc = "end" /\ worker[w].pc = "receive"
      /\ \A v \in Workers : v # w => worker'[v] = worker[v]
  BY DEF EndWorker, IInv, WorkerType
<1>2. /\ reader' = reader /\ closer' = closer /\ consumer' = consumer /\ wg' = wg
      /\ delivered' = delivered /\ archive' = archive
  BY DEF EndWorker
<1>3. \A v \in Workers : (Holds(v)' <=> Holds(v)) /\ (Holds(v) => worker'[v] = worker[v])
  BY <1>1 DEF Holds
<1>4. Busy' = Busy
  BY <1>1 DEF Busy
<1>5. WorkerType'
  BY DEF EndWorker, IInv, WorkerType
<1>6. HoldersInv' /\ DistinctInv' /\ DeliveredInv'
  BY <1>2, <1>3 DEF IInv, HoldersInv, DistinctInv, DeliveredInv
<1>7. CountInv' /\ CloserInv'
  BY <1>2, <1>4 DEF IInv, CountInv, ReaderCount, CloserInv, chunksClosed
<1> QED
  BY <1>2, <1>5, <1>6, <1>7 DEF IInv, ReaderType, ConsumerType, ReaderInv

\* A reader that reports an error still counts.
LEMMA InvDeliverReadError ==
  ASSUME IInv, DeliverReadError
  PROVE  IInv'
<1>1. /\ worker' = worker /\ closer' = closer /\ wg' = wg
      /\ delivered' = delivered /\ archive' = archive
      /\ reader'.next = reader.next /\ reader'.pc = "reported" /\ reader.pc = "error"
  BY DEF DeliverReadError, IInv, ReaderType
<1>2. Busy' = Busy /\ \A w \in Workers : Holds(w)' <=> Holds(w)
  BY <1>1, SameWorkers
<1>3. ReaderType' /\ ReaderInv'
  BY DEF DeliverReadError, IInv, ReaderType, ReaderInv
<1>4. ConsumerType' /\ (consumer.pc = "store" => consumer.chunk \in Chunks)'
        /\ consumer.pc = "receive" /\ consumer'.pc # "end"
  BY ConsumerTakes DEF DeliverReadError
<1>5. HoldersInv' /\ DistinctInv' /\ DeliveredInv'
  BY <1>1, <1>2 DEF IInv, HoldersInv, DistinctInv, DeliveredInv
<1>6. CountInv'
  BY <1>1, <1>2 DEF IInv, CountInv, ReaderCount
<1>7. CloserInv'
  BY <1>1, <1>4 DEF IInv, CloserInv, chunksClosed
<1> QED
  BY <1>1, <1>3, <1>4, <1>5, <1>6, <1>7 DEF IInv, WorkerType

\* The closer goes on when the counter is 0: then nobody is left that sends.
LEMMA InvCloser ==
  ASSUME IInv, Closer
  PROVE  IInv'
<1>1. /\ reader' = reader /\ worker' = worker /\ consumer' = consumer /\ wg' = wg
      /\ delivered' = delivered /\ archive' = archive
  BY DEF Closer, Wait, CloseJobs, CloseResults
<1>2. Busy' = Busy /\ \A w \in Workers : Holds(w)' <=> Holds(w)
  BY <1>1, SameWorkers
<1>3. reader.pc = "end" /\ Busy = {}
  <2>1. CASE Wait
    <3>1. /\ ReaderCount \in Nat /\ Cardinality(Busy) \in Nat
          /\ ReaderCount + Cardinality(Busy) = 0
      BY <2>1, BusyFinite DEF Wait, IInv, CountInv, ReaderCount
    <3>2. ReaderCount = 0 /\ Cardinality(Busy) = 0
      <4> HIDE DEF Busy, ReaderCount
      <4> QED
        BY <3>1
    <3>3. reader.pc = "end"
      BY <3>2 DEF ReaderCount
    <3>4. Busy = {}
      BY <3>2, BusyFinite, FS_EmptySet
    <3> QED
      BY <3>3, <3>4
  <2>2. CASE CloseJobs \/ CloseResults
    BY <2>2 DEF CloseJobs, CloseResults, IInv, CloserInv
  <2> QED
    BY <2>1, <2>2 DEF Closer
<1>4. CloserInv'
  BY <1>1, <1>2, <1>3 DEF Closer, Wait, CloseJobs, CloseResults, IInv, CloserInv, chunksClosed
<1>5. HoldersInv' /\ DistinctInv' /\ DeliveredInv'
  BY <1>1, <1>2 DEF IInv, HoldersInv, DistinctInv, DeliveredInv
<1>6. CountInv'
  BY <1>1, <1>2 DEF IInv, CountInv, ReaderCount
<1> QED
  BY <1>1, <1>4, <1>5, <1>6 DEF IInv, ReaderType, WorkerType, ConsumerType, ReaderInv

\* The consumer ends only when the channel is closed.
LEMMA InvConsumer ==
  ASSUME IInv, Consumer
  PROVE  IInv'
<1>1. /\ reader' = reader /\ worker' = worker /\ closer' = closer /\ wg' = wg
      /\ delivered' = delivered
  BY DEF Consumer, StoreChunk, StoreChunkFails, EndOfChunks
<1>2. Busy' = Busy /\ \A w \in Workers : Holds(w)' <=> Holds(w)
  BY <1>1, SameWorkers
<1>3. ConsumerType' /\ consumer'.pc # "store"
  BY DEF Consumer, StoreChunk, StoreChunkFails, EndOfChunks, AfterError, IInv, ConsumerType
<1>4. (archive \subseteq Chunks)'
  BY <1>1 DEF Consumer, StoreChunk, StoreChunkFails, EndOfChunks, IInv, Chunks
<1>5. CloserInv'
  <2>1. consumer'.pc = "end" => chunksClosed
    BY DEF Consumer, StoreChunk, StoreChunkFails, EndOfChunks, AfterError, IInv, ConsumerType
  <2> QED
    BY <2>1, <1>1, <1>2 DEF IInv, CloserInv, chunksClosed
<1>6. HoldersInv' /\ DistinctInv' /\ DeliveredInv'
  BY <1>1, <1>2 DEF IInv, HoldersInv, DistinctInv, DeliveredInv
<1>7. CountInv'
  BY <1>1, <1>2 DEF IInv, CountInv, ReaderCount
<1> QED
  BY <1>1, <1>3, <1>4, <1>5, <1>6, <1>7 DEF IInv, ReaderType, WorkerType, ReaderInv

\* A step that changes nothing.
LEMMA InvStutter == IInv /\ UNCHANGED vars => IInv'
BY DEF IInv, vars, ReaderType, WorkerType, ConsumerType, ReaderInv, HoldersInv, DistinctInv,
       Holds, DeliveredInv, CountInv, ReaderCount, Busy, CloserInv, chunksClosed

\* The invariant holds in every reachable state.
THEOREM Invariant == Spec => []IInv
<1>1. Init => IInv
  BY InvInit
<1>2. IInv /\ [Next]_vars => IInv'
  <2> SUFFICES ASSUME IInv, [Next]_vars PROVE IInv'
    OBVIOUS
  <2>1. ASSUME Reader PROVE IInv'
    BY <2>1, InvReader, InvDeliverReadError DEF Reader
  <2>2. ASSUME NEW w \in Workers, Worker(w) PROVE IInv'
    BY <2>2, InvSendJob, InvProcess, InvDeliver, InvDone, InvEndWorker DEF Worker
  <2>3. ASSUME Closer PROVE IInv'
    BY <2>3, InvCloser
  <2>4. ASSUME Consumer PROVE IInv'
    BY <2>4, InvConsumer
  <2>5. ASSUME UNCHANGED vars PROVE IInv'
    BY <2>5, InvStutter
  <2> QED
    BY <2>1, <2>2, <2>3, <2>4, <2>5 DEF Next
<1> QED
  BY <1>1, <1>2, PTL DEF Spec

-----------------------------------------------------------------------------
(* What follows from it.                                                   *)

\* Type correctness of the goroutines of chunkFile and their consumer.
THEOREM TypeCorrect == Spec => []TypeOK
<1>1. IInv => TypeOK
  <2> SUFFICES ASSUME IInv PROVE TypeOK
    OBVIOUS
  <2>1. wg \in Nat
    <3>1. wg = ReaderCount + Cardinality(Busy) /\ Cardinality(Busy) \in Nat
      BY BusyFinite DEF IInv, CountInv
    <3>2. ReaderCount \in Nat
      BY DEF ReaderCount
    <3> HIDE DEF Busy, ReaderCount
    <3> QED
      BY <3>1, <3>2
  <2>2. delivered \in [Chunks -> Nat]
    BY DEF IInv, DeliveredInv
  <2> QED
    BY <2>1, <2>2 DEF IInv, ReaderType, WorkerType, ConsumerType, CloserInv, TypeOK
<1> QED
  BY <1>1, Invariant, PTL

\* However many workers there are: chunkFile's WaitGroup keeps the closer from
\* closing a channel on which a goroutine is about to send.
THEOREM SendsAreSafe == Spec => []NoSendOnClosed
<1>1. IInv => NoSendOnClosed
  BY DEF IInv, CloserInv, Busy, NoSendOnClosed, jobsClosed, chunksClosed
<1> QED
  BY <1>1, Invariant, PTL

\* However the goroutines of chunkFile are scheduled, no chunk is delivered twice,
\* and at the end of the channel each chunk that was read has been delivered.
THEOREM Delivery == Spec => []DeliveredOnce
<1>1. IInv => DeliveredOnce
  <2> SUFFICES ASSUME IInv PROVE DeliveredOnce
    OBVIOUS
  <2>1. \A n \in Chunks : delivered[n] \in {0, 1}
    BY DEF IInv, DeliveredInv
  <2>2. ASSUME consumer.pc = "end", NEW n \in 0 .. reader.next - 1
        PROVE  delivered[n] = 1
    <3>1. \A w \in Workers : ~Holds(w)
      BY <2>2 DEF IInv, CloserInv, chunksClosed, Busy, Holds
    <3>2. n \in Chunks /\ n < reader.next
      BY PipelineOK DEF PipelineOK, IInv, ReaderType, Chunks
    <3> QED
      BY <2>1, <3>1, <3>2 DEF IInv, DeliveredInv
  <2> QED
    BY <2>1, <2>2 DEF DeliveredOnce
<1> QED
  BY <1>1, Invariant, PTL

-----------------------------------------------------------------------------
(* The pipeline implements the channel that Snapshot.Add reads.            *)

\* The file's chunks and its end have different numbers.
LEMMA PendingIs ==
  /\ \A n \in Chunks : n \in Pending <=> (delivered[n] = 0 /\ (ReaderIsDone => n < reader.next))
  /\ NumChunks \in Pending <=> ~ReaderIsDone
  /\ NumChunks \notin Chunks
  /\ Pending \subseteq Chunks \cup {NumChunks}
BY PipelineOK DEF PipelineOK, Pending, Chunks

\* A step that delivers nothing and does not end the reader changes nothing for
\* the consumer.
LEMMA SamePending ==
  ASSUME delivered' = delivered,
         \/ ~ReaderIsDone /\ ~ReaderIsDone'
         \/ (ReaderIsDone <=> ReaderIsDone') /\ reader'.next = reader.next
  PROVE  Pending' = Pending
BY DEF Pending, Chunks

\* Nobody has been told of a chunk or of the end of the file.
LEMMA StreamInit == Init => Stream!Init
<1> SUFFICES ASSUME Init PROVE Stream!Init
  OBVIOUS
<1>1. Pending = Chunks \cup {NumChunks}
  BY DEF Init, Pending, ReaderIsDone, Chunks
<1> QED
  BY <1>1 DEF Init, Stream!Init, Stream!Chunks, Chunks

\* The reader comes to the end of the file.
LEMMA StreamReadEOF ==
  ASSUME IInv, ReadEOF
  PROVE  Stream!EndOfFile
<1>1. ~ReaderIsDone /\ ReaderIsDone'
  BY DEF ReadEOF, ReaderIsDone, IInv, ReaderType
<1>2. delivered' = delivered /\ reader'.next = NumChunks
  BY DEF ReadEOF, IInv, ReaderType
<1>3. Pending' = {n \in Chunks : delivered[n] = 0}
  BY <1>1, <1>2, PipelineOK DEF Pending, PipelineOK, Chunks
<1>4. Pending = {n \in Chunks : delivered[n] = 0} \cup {NumChunks}
  BY <1>1 DEF Pending
<1>5. NumChunks \notin Chunks
  BY PendingIs
<1> QED
  BY <1>3, <1>4, <1>5 DEF ReadEOF, Stream!EndOfFile

\* Reading fails: the chunks from the next one on are lost.
LEMMA StreamReadError ==
  ASSUME IInv, DeliverReadError
  PROVE  Stream!TakeError
<1>1. ~ReaderIsDone /\ ReaderIsDone'
  BY DEF DeliverReadError, ReaderIsDone, IInv, ReaderType
<1>2. delivered' = delivered /\ reader'.next = reader.next /\ reader.next \in 0 .. NumChunks
  BY DEF DeliverReadError, IInv, ReaderType
<1>3. Pending' = {n \in Chunks : delivered[n] = 0 /\ n < reader.next}
  BY <1>1, <1>2 DEF Pending, Chunks
<1>4. Pending = {n \in Chunks : delivered[n] = 0} \cup {NumChunks}
  BY <1>1 DEF Pending
<1>5. Pending' = {m \in Pending : m < reader.next}
  <2>1. ~(NumChunks < reader.next)
    BY <1>2, PipelineOK DEF PipelineOK
  <2> QED
    BY <2>1, <1>3, <1>4
<1>6. NumChunks \in Pending
  BY <1>4
<1>7. /\ consumer.pc = "receive" /\ archive' = archive
      /\ consumer' = [consumer EXCEPT !.pc = IF consumer.pedantic THEN "stop" ELSE "receive"]
  BY DEF DeliverReadError, TakeError, AfterError
<1> QED
  BY <1>2, <1>5, <1>6, <1>7 DEF Stream!TakeError

\* A result of a worker arrives, good or bad.
LEMMA StreamDeliver ==
  ASSUME IInv, NEW w \in Workers, Deliver(w)
  PROVE  Stream!TakeChunk \/ Stream!TakeError
<1> DEFINE c == worker[w].chunk
<1>1. c \in Chunks /\ c < reader.next /\ delivered[c] = 0
  BY DEF Deliver, IInv, HoldersInv, Holds
<1>2. /\ delivered' = [delivered EXCEPT ![c] = 1]
      /\ delivered \in [Chunks -> {0, 1}]
      /\ reader' = reader /\ archive' = archive /\ consumer.pc = "receive"
  BY <1>1 DEF Deliver, TakeChunk, TakeError, IInv, DeliveredInv
<1>3. ReaderIsDone' <=> ReaderIsDone
  BY <1>2 DEF ReaderIsDone
<1>4. c \in Pending
  BY <1>1, PendingIs
<1>5. Pending' = Pending \ {c}
  <2>1. \A n \in Chunks : delivered'[n] = 0 <=> (delivered[n] = 0 /\ n # c)
    BY <1>2
  <2>2. c # NumChunks
    BY <1>1, PendingIs
  <2> QED
    BY <2>1, <2>2, <1>2, <1>3 DEF Pending, Chunks
<1>6. c \in Pending \cap Stream!Chunks
  BY <1>1, <1>4 DEF Stream!Chunks, Chunks
<1>7. CASE worker[w].good
  <2>1. consumer' = [consumer EXCEPT !.pc = "store", !.chunk = c]
    BY <1>7 DEF Deliver, TakeChunk
  <2> QED
    BY <2>1, <1>2, <1>5, <1>6 DEF Stream!TakeChunk
<1>8. CASE ~worker[w].good
  <2>1. consumer' = [consumer EXCEPT !.pc = IF consumer.pedantic THEN "stop" ELSE "receive"]
    BY <1>8 DEF Deliver, TakeError, AfterError
  <2> QED
    BY <2>1, <1>2, <1>5, <1>6 DEF Stream!TakeError
<1> QED
  BY <1>7, <1>8

\* What the consumer does with a chunk does not touch the channel.
LEMMA StreamStore ==
  ASSUME StoreChunk \/ StoreChunkFails
  PROVE  Stream!StoreChunk \/ Stream!StoreChunkFails
<1>1. Pending' = Pending
  BY DEF StoreChunk, StoreChunkFails, Pending, ReaderIsDone, Chunks
<1> QED
  BY <1>1 DEF StoreChunk, StoreChunkFails, AfterError, Stream!StoreChunk, Stream!StoreChunkFails

\* The consumer sees the end of the channel when nothing is left to arrive.
LEMMA StreamEnd ==
  ASSUME IInv, EndOfChunks
  PROVE  Stream!EndOfChunks
<1>1. reader.pc = "end" /\ Busy = {}
  BY DEF EndOfChunks, chunksClosed, IInv, CloserInv
<1>2. \A w \in Workers : ~Holds(w)
  BY <1>1 DEF Busy, Holds
<1>3. Pending = {}
  BY <1>1, <1>2 DEF Pending, ReaderIsDone, IInv, DeliveredInv
<1>4. Pending' = Pending
  BY DEF EndOfChunks, Pending, ReaderIsDone, Chunks
<1> QED
  BY <1>3, <1>4 DEF EndOfChunks, Stream!EndOfChunks

\* All other steps are the goroutines' own business.
LEMMA StreamStutter ==
  ASSUME IInv,
         \/ ReadChunk \/ ReadFails \/ EndReader \/ Closer \/ UNCHANGED vars
         \/ \E w \in Workers : SendJob(w) \/ Process(w) \/ Done(w) \/ EndWorker(w)
  PROVE  UNCHANGED Stream!streamVars
<1>1. delivered' = delivered /\ consumer' = consumer /\ archive' = archive
  BY DEF ReadChunk, ReadFails, EndReader, Closer, Wait, CloseJobs, CloseResults, vars,
         SendJob, Process, Done, EndWorker
<1>2. \/ ~ReaderIsDone /\ ~ReaderIsDone'
      \/ (ReaderIsDone <=> ReaderIsDone') /\ reader'.next = reader.next
  BY DEF ReadChunk, ReadFails, EndReader, Closer, Wait, CloseJobs, CloseResults, vars,
         SendJob, Process, Done, EndWorker, ReaderIsDone, IInv, ReaderType
<1>3. Pending' = Pending
  BY <1>1, <1>2, SamePending
<1> QED
  BY <1>1, <1>3 DEF Stream!streamVars

\* To Snapshot.Add the goroutines of chunkFile look like a channel on which each
\* chunk of the file that could be read arrives once, before it is closed.
THEOREM Implementation == Spec => ImplementsStream
<1>1. Init => Stream!Init
  BY StreamInit
<1>2. IInv /\ [Next]_vars => [Stream!Next]_(Stream!streamVars)
  <2> SUFFICES ASSUME IInv, [Next]_vars
               PROVE  Stream!Next \/ UNCHANGED Stream!streamVars
    OBVIOUS
  <2>1. ASSUME Reader PROVE Stream!Next \/ UNCHANGED Stream!streamVars
    BY <2>1, StreamReadEOF, StreamReadError, StreamStutter DEF Reader, Stream!Next
  <2>2. ASSUME NEW w \in Workers, Worker(w) PROVE Stream!Next \/ UNCHANGED Stream!streamVars
    BY <2>2, StreamDeliver, StreamStutter DEF Worker, Stream!Next
  <2>3. ASSUME Closer \/ UNCHANGED vars PROVE UNCHANGED Stream!streamVars
    BY <2>3, StreamStutter
  <2>4. ASSUME Consumer PROVE Stream!Next
    BY <2>4, StreamStore, StreamEnd DEF Consumer, Stream!Next
  <2> QED
    BY <2>1, <2>2, <2>3, <2>4 DEF Next
<1> QED
  BY <1>1, <1>2, Invariant, PTL DEF Spec, ImplementsStream, Stream!Spec
=============================================================================
