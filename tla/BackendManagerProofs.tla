------------------------ MODULE BackendManagerProofs ------------------------
(***************************************************************************)
(* Proofs about BackendManager, for any number of backends, tries, faults  *)
(* and saves, and any tolerances that store accepts.                       *)
(***************************************************************************)
EXTENDS BackendManager, FiniteSetTheorems, TLAPS

-----------------------------------------------------------------------------
(* Type correctness.                                                       *)

\* TypeOK is not inductive: the parts and the found parts of a chunk stay in
\* range because loops end at the last part and at DataParts.
CallInv ==
  /\ call.op \in {"store", "load", "delete"} =>
       call.chunk \in Chunks /\ call.part < NumParts(call.chunk)
  /\ Running("load") => call.found < call.chunk.data

TypeInv == TypeOK /\ CallInv

LEMMA ChunkFacts ==
  ASSUME NEW k \in Chunks
  PROVE  /\ k.hash \in Hashes
         /\ k.parity \in Nat
         /\ k.data \in 1 .. NumBackends
         /\ NumParts(k) \in 1 .. NumBackends
         /\ NumParts(k) = k.data + k.parity
  <1>1. PICK h \in Hashes, t \in Tolerances : k = Chunk(h, t)
    BY DEF Chunks
  <1>2. t \in 0 .. NumBackends - 1 /\ NumBackends \in Nat \ {0}
    BY BackendsOK
  <1> QED
    BY <1>1, <1>2 DEF Chunk, NumParts

LEMMA BackendFacts ==
  /\ NumBackends \in Nat \ {0}
  /\ Retries \in Nat \ {0}
  /\ MaxSaves \in Nat
  /\ 0 \in Backends
  /\ 0 \in 0 .. Retries - 1
  BY BackendsOK DEF Backends

\* Operations start at the first part, backend and try.
LEMMA StartCall ==
  ASSUME NEW op \in Operations, NEW k \in Chunks \cup {NoChunk},
         NEW version \in 0 .. MaxSaves, Start(op, k, version)
  PROVE  /\ call' \in Calls
         /\ call'.op = op
         /\ call'.chunk = k
         /\ call'.version = version
         /\ call'.part = 0
         /\ call'.backend = 0
         /\ call'.try = 0
         /\ call'.found = 0
  BY BackendFacts DEF Start, Done, Calls

LEMMA ReturnCall ==
  ASSUME call \in Calls, NEW error \in BOOLEAN, Return(error)
  PROVE  /\ call' \in Calls
         /\ call'.op = "none"
         /\ call'.last = call.op
         /\ call'.error = error
         /\ call'.version = call.version
  <1>1. call.op \in Operations \cup {"none"} /\ call.version \in 0 .. MaxSaves
    BY DEF Calls
  <1> QED
    BY <1>1, BackendFacts DEF Return, Done, Calls

\* The call with another part, backend and try, as the loops go on.
LEMMA LoopCall ==
  ASSUME call \in Calls, NEW part \in Backends, NEW backend \in Backends,
         NEW try \in 0 .. Retries - 1, NEW found \in Backends,
         call' = [call EXCEPT !.found = found, !.part = part,
                              !.backend = backend, !.try = try]
  PROVE  /\ call' \in Calls
         /\ call'.op = call.op
         /\ call'.chunk = call.chunk
         /\ call'.version = call.version
         /\ call'.part = part
         /\ call'.backend = backend
         /\ call'.found = found
  BY DEF Calls

LEMMA SameCall ==
  ASSUME call \in Calls
  PROVE  /\ call.part \in Backends
         /\ call.backend \in Backends
         /\ call.try \in 0 .. Retries - 1
         /\ call.found \in Backends
         /\ call.op \in Operations \cup {"none"}
         /\ call.chunk \in Chunks \cup {NoChunk}
         /\ call.version \in 0 .. MaxSaves
         /\ [call EXCEPT !.try = call.try + 1] =
              [call EXCEPT !.found = call.found, !.part = call.part,
                           !.backend = call.backend, !.try = call.try + 1]
         /\ [call EXCEPT !.backend = call.backend + 1, !.try = 0] =
              [call EXCEPT !.found = call.found, !.part = call.part,
                           !.backend = call.backend + 1, !.try = 0]
         /\ [call EXCEPT !.part = call.part + 1, !.backend = 0, !.try = 0] =
              [call EXCEPT !.found = call.found, !.part = call.part + 1,
                           !.backend = 0, !.try = 0]
  BY DEF Calls

LEMMA InitType == Init => TypeInv
  <1> SUFFICES ASSUME Init PROVE TypeInv
    OBVIOUS
  <1>1. call \in Calls /\ call.op = "none"
    BY BackendFacts DEF Init, Done, Calls
  <1>2. chunkIndex \in UNION {[D -> Chunks] : D \in SUBSET Hashes}
    <2>1. chunkIndex \in [{} -> Chunks]
      BY DEF Init, Empty
    <2> QED
      BY <2>1
  <1>3. /\ files \in [Backends -> SUBSET Files]
        /\ versions \in [Backends -> 0 .. MaxSaves]
    BY BackendFacts DEF Init
  <1>4. faults \in 0 .. MaxFaults /\ newest \in 0 .. MaxSaves
    BY BackendsOK DEF Init
  <1>5. committed \in 0 .. MaxSaves /\ lastUsed \in Backends /\ archived \subseteq Chunks
    BY BackendFacts DEF Init
  <1>6. CallInv
    BY <1>1 DEF CallInv, Running
  <1> QED
    BY <1>1, <1>2, <1>3, <1>4, <1>5, <1>6 DEF TypeInv, TypeOK

\* What each of the ways to go on makes of the call.
LEMMA TryAgain ==
  ASSUME TypeInv, call.try + 1 < Retries,
         call' = [call EXCEPT !.try = call.try + 1]
  PROVE  /\ call' \in Calls
         /\ CallInv'
         /\ call'.op = call.op
         /\ call'.chunk = call.chunk
         /\ call'.version = call.version
         /\ call'.part = call.part
         /\ call'.backend = call.backend
  <1>1. call \in Calls
    BY DEF TypeInv, TypeOK
  <1>2. call.try + 1 \in 0 .. Retries - 1
    BY <1>1, SameCall, BackendFacts
  <1>3. /\ call' \in Calls
        /\ call'.op = call.op
        /\ call'.chunk = call.chunk
        /\ call'.version = call.version
        /\ call'.part = call.part
        /\ call'.backend = call.backend
        /\ call'.found = call.found
    BY <1>1, <1>2 DEF Calls
  <1> QED
    BY <1>3 DEF TypeInv, CallInv, Running, NumParts

LEMMA NextBackend ==
  ASSUME TypeInv, ~LastBackend, AskNextBackend
  PROVE  /\ call' \in Calls
         /\ CallInv'
         /\ call'.op = call.op
         /\ call'.chunk = call.chunk
         /\ call'.version = call.version
         /\ call'.part = call.part
         /\ call'.backend = call.backend + 1
  <1>1. call \in Calls
    BY DEF TypeInv, TypeOK
  <1>2. call.backend + 1 \in Backends
    BY <1>1, SameCall, BackendFacts DEF LastBackend, Backends
  <1>3. /\ call' \in Calls
        /\ call'.op = call.op
        /\ call'.chunk = call.chunk
        /\ call'.version = call.version
        /\ call'.part = call.part
        /\ call'.backend = call.backend + 1
        /\ call'.found = call.found
    BY <1>1, <1>2, BackendFacts DEF AskNextBackend, Calls
  <1> QED
    BY <1>3 DEF TypeInv, CallInv, Running, NumParts

LEMMA NextPartCall ==
  ASSUME TypeInv, call.op \in {"store", "load", "delete"}, ~LastPart,
         NEW found \in Backends,
         call.op = "load" => found < call.chunk.data,
         call' = [call EXCEPT !.found = found, !.part = call.part + 1,
                              !.backend = 0, !.try = 0]
  PROVE  /\ call' \in Calls
         /\ CallInv'
         /\ call'.op = call.op
         /\ call'.chunk = call.chunk
         /\ call'.version = call.version
         /\ call'.part = call.part + 1
         /\ call'.backend = 0
  <1>1. call \in Calls
    BY DEF TypeInv, TypeOK
  <1>2. call.chunk \in Chunks /\ call.part < NumParts(call.chunk)
    BY DEF TypeInv, CallInv
  <1>3. call.part + 1 \in Backends /\ call.part + 1 < NumParts(call.chunk)
    BY <1>1, <1>2, SameCall, ChunkFacts, BackendFacts DEF LastPart, Backends
  <1>4. /\ call' \in Calls
        /\ call'.op = call.op
        /\ call'.chunk = call.chunk
        /\ call'.version = call.version
        /\ call'.part = call.part + 1
        /\ call'.backend = 0
        /\ call'.found = found
    BY <1>1, <1>3, BackendFacts, LoopCall
  <1> QED
    BY <1>2, <1>3, <1>4 DEF CallInv, Running, NumParts

LEMMA NextPart ==
  ASSUME TypeInv, call.op \in {"store", "load", "delete"}, ~LastPart, GoToNextPart
  PROVE  /\ call' \in Calls
         /\ CallInv'
         /\ call'.op = call.op
         /\ call'.chunk = call.chunk
         /\ call'.version = call.version
         /\ call'.part = call.part + 1
         /\ call'.backend = 0
  <1>1. call \in Calls /\ (call.op = "load" => call.found < call.chunk.data)
    BY DEF TypeInv, TypeOK, CallInv, Running
  <1>2. /\ call.found \in Backends
        /\ call' = [call EXCEPT !.found = call.found, !.part = call.part + 1,
                                !.backend = 0, !.try = 0]
    BY <1>1, SameCall DEF GoToNextPart
  <1> QED
    BY <1>1, <1>2, NextPartCall

\* Once nothing is running, CallInv says nothing.
LEMMA ReturnInv ==
  ASSUME TypeInv, NEW error \in BOOLEAN, Return(error)
  PROVE  /\ call' \in Calls
         /\ CallInv'
         /\ call'.op = "none"
         /\ call'.last = call.op
         /\ call'.error = error
         /\ call'.version = call.version
  <1>1. call \in Calls
    BY DEF TypeInv, TypeOK
  <1> QED
    BY <1>1, ReturnCall DEF CallInv, Running

LEMMA StartInv ==
  ASSUME NEW op \in Operations, NEW k \in Chunks \cup {NoChunk},
         NEW version \in 0 .. MaxSaves, Start(op, k, version),
         op \in {"store", "load", "delete"} => k \in Chunks
  PROVE  call' \in Calls /\ CallInv'
  <1>1. /\ call' \in Calls
        /\ call'.op = op
        /\ call'.chunk = k
        /\ call'.part = 0
        /\ call'.found = 0
    BY StartCall
  <1>2. op \in {"store", "load", "delete"} => k.data > 0 /\ NumParts(k) > 0
    BY ChunkFacts, BackendFacts
  <1> QED
    BY <1>1, <1>2 DEF CallInv, Running, NumParts

-----------------------------------------------------------------------------
LEMMA StoringType ==
  ASSUME TypeInv,
         \/ \E k \in Chunks : StoreChunk(k)
         \/ StorePart
         \/ StorePartFails
  PROVE  TypeInv'
  <1>1. /\ files \in [Backends -> SUBSET Files]
        /\ lastUsed \in Backends
        /\ call \in Calls
        /\ chunkIndex \in UNION {[D -> Chunks] : D \in SUBSET Hashes}
    BY DEF TypeInv, TypeOK
  <1>2. NextUsed \in Backends
    BY <1>1, BackendFacts DEF NextUsed, Backends
  <1>3. CASE \E k \in Chunks : StoreChunk(k)
    <2>1. PICK k \in Chunks : StoreChunk(k)
      BY <1>3
    <2>2. call' \in Calls /\ CallInv'
      BY <2>1, StartInv, BackendFacts DEF StoreChunk, Operations
    <2> QED
      BY <1>2, <2>1, <2>2 DEF StoreChunk, TypeInv, TypeOK
  <1>4. CASE StorePart
    <2>1. call.chunk \in Chunks /\ call.op = "store"
      BY <1>4 DEF StorePart, Running, TypeInv, CallInv
    <2>2. files' \in [Backends -> SUBSET Files]
      <3>1. PartFile \in Files
        BY <1>1, <2>1, SameCall DEF PartFile, Files, Backends
      <3> QED
        BY <1>1, <1>4, <3>1 DEF StorePart
    <2>3. CASE LastPart
      <3>1. call' \in Calls /\ CallInv'
        BY <1>4, <2>3, ReturnInv DEF StorePart
      <3>2. Indexed(call.chunk) \in UNION {[D -> Chunks] : D \in SUBSET Hashes}
        <4>1. PICK D \in SUBSET Hashes : chunkIndex \in [D -> Chunks]
          BY <1>1
        <4>2. call.chunk.hash \in Hashes
          BY <2>1, ChunkFacts
        <4> DEFINE E == D \cup {call.chunk.hash}
        <4>3. Indexed(call.chunk) \in [E -> Chunks]
          BY <2>1, <4>1 DEF Indexed
        <4> QED
          BY <4>2, <4>3
      <3> QED
        BY <1>4, <2>1, <2>2, <2>3, <3>1, <3>2 DEF StorePart, TypeInv, TypeOK
    <2>4. CASE ~LastPart
      <3>1. call' \in Calls /\ CallInv'
        BY <1>4, <2>1, <2>4, NextPart DEF StorePart
      <3> QED
        BY <1>2, <1>4, <2>2, <2>4, <3>1 DEF StorePart, TypeInv, TypeOK
    <2> QED
      BY <2>3, <2>4
  <1>5. CASE StorePartFails
    <2>1. files' \in [Backends -> SUBSET Files]
      <3>1. PartFile \in Files
        <4>1. call.chunk \in Chunks
          BY <1>5 DEF StorePartFails, Running, TypeInv, CallInv
        <4> QED
          BY <1>1, <4>1, SameCall DEF PartFile, Files, Backends
      <3> QED
        BY <1>1, <1>5, <3>1 DEF StorePartFails
    <2>2. call' \in Calls /\ CallInv'
      BY <1>5, ReturnInv, TryAgain DEF StorePartFails, Retry
    <2>3. faults' \in 0 .. MaxFaults
      BY <1>5, BackendsOK DEF StorePartFails, Fault, TypeInv, TypeOK
    <2> QED
      BY <1>5, <2>1, <2>2, <2>3 DEF StorePartFails, TypeInv, TypeOK
  <1> QED
    BY <1>3, <1>4, <1>5

LEMMA LoadingType ==
  ASSUME TypeInv,
         \/ \E k \in Chunks : LoadChunk(k)
         \/ LoadPart
         \/ LoadPartFails
  PROVE  TypeInv'
  <1>1. call \in Calls
    BY DEF TypeInv, TypeOK
  <1>2. CASE \E k \in Chunks : LoadChunk(k)
    <2>1. PICK k \in Chunks : LoadChunk(k)
      BY <1>2
    <2>2. call' \in Calls /\ CallInv'
      BY <2>1, StartInv, BackendFacts DEF LoadChunk, Operations
    <2> QED
      BY <2>1, <2>2 DEF LoadChunk, TypeInv, TypeOK
  <1>3. CASE LoadPart
    <2>1. /\ call.chunk \in Chunks
          /\ call.op = "load"
          /\ call.found < call.chunk.data
      BY <1>3 DEF LoadPart, Running, TypeInv, CallInv
    <2>2. CASE \E error \in BOOLEAN : Return(error)
      BY <1>3, <2>2, ReturnInv DEF LoadPart, TypeInv, TypeOK
    <2>3. CASE ~\E error \in BOOLEAN : Return(error)
      <3>1. call.found + 1 # call.chunk.data /\ ~LastPart
        BY <1>3, <2>3 DEF LoadPart
      <3>2. call.found + 1 \in Backends /\ call.found + 1 < call.chunk.data
        BY <1>1, <2>1, <3>1, SameCall, ChunkFacts, BackendFacts DEF Backends
      <3>3. call' = [call EXCEPT !.found = call.found + 1, !.part = call.part + 1,
                                 !.backend = 0, !.try = 0]
        BY <1>3, <3>1 DEF LoadPart
      <3>4. call' \in Calls /\ CallInv'
        BY <2>1, <3>1, <3>2, <3>3, NextPartCall
      <3> QED
        BY <1>3, <3>4 DEF LoadPart, TypeInv, TypeOK
    <2> QED
      BY <2>2, <2>3
  <1>4. CASE LoadPartFails
    <2>1. call.op = "load"
      BY <1>4 DEF LoadPartFails, Running
    <2>2. call' \in Calls /\ CallInv'
      BY <1>4, <2>1, ReturnInv, TryAgain, NextBackend, NextPart
      DEF LoadPartFails, Retry
    <2>3. faults' \in 0 .. MaxFaults
      BY <1>4, BackendsOK DEF LoadPartFails, Fault, TypeInv, TypeOK
    <2> QED
      BY <1>4, <2>2, <2>3 DEF LoadPartFails, TypeInv, TypeOK
  <1> QED
    BY <1>2, <1>3, <1>4

LEMMA DeletingType ==
  ASSUME TypeInv,
         \/ \E h \in Hashes : DeleteChunk(h)
         \/ DeletePart
         \/ DeletePartFails
  PROVE  TypeInv'
  <1>1. /\ files \in [Backends -> SUBSET Files]
        /\ chunkIndex \in UNION {[D -> Chunks] : D \in SUBSET Hashes}
        /\ archived \subseteq Chunks
    BY DEF TypeInv, TypeOK
  <1>2. PICK D \in SUBSET Hashes : chunkIndex \in [D -> Chunks]
    BY <1>1
  <1>3. CASE \E h \in Hashes : DeleteChunk(h)
    <2>1. PICK h \in Hashes : DeleteChunk(h)
      BY <1>3
    <2>2. chunkIndex[h] \in Chunks
      BY <1>2, <2>1 DEF DeleteChunk
    <2>3. call' \in Calls /\ CallInv'
      BY <2>1, <2>2, StartInv, BackendFacts DEF DeleteChunk, Operations
    <2>4. archived' \subseteq Chunks
      BY <1>1, <2>1 DEF DeleteChunk
    <2> QED
      BY <2>1, <2>3, <2>4 DEF DeleteChunk, TypeInv, TypeOK
  <1>4. CASE DeletePart
    <2>1. call.op = "delete"
      BY <1>4 DEF DeletePart, Running
    <2>2. files' \in [Backends -> SUBSET Files]
      BY <1>1, <1>4 DEF DeletePart
    <2>3. call' \in Calls /\ CallInv'
      BY <1>4, <2>1, ReturnInv, NextPart DEF DeletePart
    <2>4. chunkIndex' \in UNION {[E -> Chunks] : E \in SUBSET Hashes}
      <3> DEFINE E == D \ {call.chunk.hash}
      <3>1. Restrict(chunkIndex, E) \in [E -> Chunks]
        BY <1>2 DEF Restrict
      <3>2. chunkIndex' = Restrict(chunkIndex, E) \/ chunkIndex' = chunkIndex
        BY <1>2, <1>4 DEF DeletePart
      <3> QED
        BY <1>1, <3>1, <3>2
    <2> QED
      BY <1>4, <2>2, <2>3, <2>4 DEF DeletePart, TypeInv, TypeOK
  <1>5. CASE DeletePartFails
    <2>1. files' \in [Backends -> SUBSET Files]
      BY <1>1, <1>5 DEF DeletePartFails
    <2>2. call' \in Calls /\ CallInv'
      BY <1>5, ReturnInv, TryAgain, NextBackend DEF DeletePartFails, Retry
    <2>3. faults' \in 0 .. MaxFaults
      BY <1>5, BackendsOK DEF DeletePartFails, Fault, TypeInv, TypeOK
    <2> QED
      BY <1>5, <2>1, <2>2, <2>3 DEF DeletePartFails, TypeInv, TypeOK
  <1> QED
    BY <1>3, <1>4, <1>5

LEMMA SavingType ==
  ASSUME TypeInv, SaveRepository \/ SaveOn \/ SaveOnFails
  PROVE  TypeInv'
  <1>1. /\ call \in Calls
        /\ versions \in [Backends -> 0 .. MaxSaves]
        /\ newest \in 0 .. MaxSaves
    BY DEF TypeInv, TypeOK
  <1>2. CASE SaveRepository
    <2>1. newest + 1 \in 0 .. MaxSaves
      BY <1>1, <1>2, BackendFacts DEF SaveRepository
    <2>2. call' \in Calls /\ CallInv'
      BY <1>2, <2>1, StartInv DEF SaveRepository, Operations
    <2> QED
      BY <1>2, <2>1, <2>2 DEF SaveRepository, TypeInv, TypeOK
  <1>3. CASE SaveOn
    <2>1. versions' \in [Backends -> 0 .. MaxSaves]
      BY <1>1, <1>3, SameCall DEF SaveOn
    <2>2. call' \in Calls /\ CallInv'
      BY <1>3, ReturnInv, NextBackend DEF SaveOn
    <2>3. committed' \in 0 .. MaxSaves
      BY <1>1, <1>3, SameCall DEF SaveOn, TypeInv, TypeOK
    <2> QED
      BY <1>3, <2>1, <2>2, <2>3 DEF SaveOn, TypeInv, TypeOK
  <1>4. CASE SaveOnFails
    <2>1. versions' \in [Backends -> 0 .. MaxSaves]
      BY <1>1, <1>4, SameCall DEF SaveOnFails
    <2>2. call' \in Calls /\ CallInv'
      BY <1>4, ReturnInv, TryAgain DEF SaveOnFails, Retry
    <2>3. faults' \in 0 .. MaxFaults
      BY <1>4, BackendsOK DEF SaveOnFails, Fault, TypeInv, TypeOK
    <2> QED
      BY <1>4, <2>1, <2>2, <2>3 DEF SaveOnFails, TypeInv, TypeOK
  <1> QED
    BY <1>2, <1>3, <1>4

LEMMA ReadingType ==
  ASSUME TypeInv, LoadRepository \/ LoadFrom \/ LoadFromFails \/ Restart
  PROVE  TypeInv'
  <1>1. call \in Calls /\ versions \in [Backends -> 0 .. MaxSaves]
    BY DEF TypeInv, TypeOK
  <1>2. CASE LoadRepository
    <2>1. call' \in Calls /\ CallInv'
      BY <1>2, StartInv, BackendFacts DEF LoadRepository, Operations
    <2> QED
      BY <1>2, <2>1 DEF LoadRepository, TypeInv, TypeOK
  <1>3. CASE LoadFrom
    <2>1. versions[call.backend] \in 0 .. MaxSaves
      BY <1>1, SameCall
    <2>2. call' \in Calls /\ call'.op = "none"
      BY <1>3, <2>1, BackendFacts DEF LoadFrom, Done, Calls, Operations
    <2> QED
      BY <1>3, <2>2 DEF LoadFrom, TypeInv, TypeOK, CallInv, Running
  <1>4. CASE LoadFromFails
    <2>1. call' \in Calls /\ CallInv'
      BY <1>4, ReturnInv, TryAgain, NextBackend DEF LoadFromFails, Retry
    <2>2. faults' \in 0 .. MaxFaults
      BY <1>4, BackendsOK DEF LoadFromFails, Fault, TypeInv, TypeOK
    <2> QED
      BY <1>4, <2>1, <2>2 DEF LoadFromFails, TypeInv, TypeOK
  <1>5. CASE Restart
    <2>1. call' \in Calls /\ call'.op = "none"
      BY <1>5, BackendFacts DEF Restart, Done, Calls
    <2> QED
      BY <1>5, <2>1, BackendFacts DEF Restart, TypeInv, TypeOK, CallInv, Running
  <1> QED
    BY <1>2, <1>3, <1>4, <1>5

LEMMA StepType == TypeInv /\ [Next]_vars => TypeInv'
  <1> SUFFICES ASSUME TypeInv, [Next]_vars PROVE TypeInv'
    OBVIOUS
  <1>1. CASE UNCHANGED vars
    BY <1>1 DEF vars, TypeInv, TypeOK, CallInv, Running
  <1>2. CASE Next
    BY <1>2, StoringType, LoadingType, DeletingType, SavingType, ReadingType DEF Next
  <1> QED
    BY <1>1, <1>2

\* Every variable keeps its type, however many backends there are and calls fail.
THEOREM TypeCorrect == Spec => []TypeOK
  <1>1. TypeInv => TypeOK
    BY DEF TypeInv
  <1> QED
    BY <1>1, InitType, StepType, PTL DEF Spec

-----------------------------------------------------------------------------
(* Loads never go back.                                                    *)

\* While the newest version is being saved, exactly the backends before the
\* current one are known to have it; the others have some earlier version, and
\* what has been committed is on all of them.
VersionInv ==
  /\ newest \in 0 .. MaxSaves
  /\ \A b \in Backends : committed <= versions[b] /\ versions[b] <= newest
  /\ EarlierIsNewer
  /\ Running("save") =>
       /\ call.version = newest
       /\ \A b \in Backends : b < call.backend => versions[b] = newest
  /\ LoadsCommitted

SavedInv == TypeInv /\ VersionInv

\* What the actions that touch no version leave alone.
LEMMA VersionsUnchanged ==
  ASSUME SavedInv, UNCHANGED <<versions, newest, committed>>,
         \/ UNCHANGED call
         \/ call'.op \notin {"none", "save"}
         \/ call'.op = "none" /\ call'.last # "read"
         \/ call'.op = "none" /\ call'.error
         \/ /\ Running("save")
            /\ call'.op = "save"
            /\ call'.version = call.version
            /\ call'.backend = call.backend
  PROVE  VersionInv'
  BY DEF SavedInv, VersionInv, EarlierIsNewer, LoadsCommitted, Running, Ready

\* Version v = newest is written on the current backend.
LEMMA VersionWritten ==
  ASSUME SavedInv, Running("save"), UNCHANGED newest,
         versions' = [versions EXCEPT ![call.backend] = call.version]
  PROVE  /\ \A b \in Backends : committed <= versions'[b] /\ versions'[b] <= newest'
         /\ EarlierIsNewer'
         /\ \A b \in Backends : b <= call.backend => versions'[b] = newest
         /\ call.version = newest
  <1>1. /\ versions \in [Backends -> 0 .. MaxSaves]
        /\ call \in Calls
        /\ newest \in 0 .. MaxSaves
        /\ committed \in 0 .. MaxSaves
    BY DEF SavedInv, TypeInv, TypeOK
  <1>2. call.backend \in Backends
    BY <1>1, SameCall
  <1>3. call.version = newest
    BY DEF SavedInv, VersionInv
  <1>4. \A b \in Backends :
          versions'[b] = IF b = call.backend THEN newest ELSE versions[b]
    BY <1>1, <1>2, <1>3
  <1>5. Backends \subseteq Nat
    BY DEF Backends
  <1>6. /\ \A b \in Backends : versions[b] \in Nat
        /\ \A b \in Backends : committed <= versions[b] /\ versions[b] <= newest
        /\ \A b \in Backends : b < call.backend => versions[b] = newest
        /\ \A a, b \in Backends : a < b => versions[a] >= versions[b]
    BY <1>1 DEF SavedInv, VersionInv, EarlierIsNewer
  <1>7. \A b \in Backends : committed <= versions'[b] /\ versions'[b] <= newest
    BY <1>1, <1>2, <1>4, <1>6
  <1>8. \A b \in Backends : b <= call.backend => versions'[b] = newest
    <2> SUFFICES ASSUME NEW b \in Backends, b <= call.backend
                 PROVE  versions'[b] = newest
      OBVIOUS
    <2>1. b = call.backend \/ b < call.backend
      BY <1>2 DEF Backends
    <2> QED
      BY <1>4, <1>6, <2>1
  <1>9. \A a, b \in Backends : a < b => versions'[a] >= versions'[b]
    BY <1>1, <1>2, <1>4, <1>5, <1>6
  <1> QED
    BY <1>3, <1>7, <1>8, <1>9 DEF EarlierIsNewer

LEMMA InitVersions == Init => SavedInv
  <1> SUFFICES ASSUME Init PROVE SavedInv
    OBVIOUS
  <1>1. \A b \in Backends : versions[b] = 0
    BY DEF Init
  <1>2. call.op = "none" /\ call.last = "none"
    BY DEF Init, Done
  <1>3. newest = 0 /\ committed = 0
    BY DEF Init
  <1>4. LoadsCommitted /\ ~Running("save")
    BY <1>2 DEF LoadsCommitted, Running
  <1>5. EarlierIsNewer
    BY <1>1 DEF EarlierIsNewer
  <1> QED
    BY <1>1, <1>3, <1>4, <1>5, InitType, BackendFacts DEF SavedInv, VersionInv

LEMMA StepVersions == SavedInv /\ [Next]_vars => SavedInv'
  <1> SUFFICES ASSUME SavedInv, [Next]_vars PROVE VersionInv'
    BY StepType DEF SavedInv
  <1>1. /\ TypeInv
        /\ call \in Calls
        /\ newest \in 0 .. MaxSaves
        /\ versions \in [Backends -> 0 .. MaxSaves]
    BY DEF SavedInv, TypeInv, TypeOK
  <1>2. CASE UNCHANGED vars
    BY <1>2, VersionsUnchanged DEF vars
  <1>3. CASE \E k \in Chunks : StoreChunk(k) \/ LoadChunk(k)
    <2>1. PICK k \in Chunks : StoreChunk(k) \/ LoadChunk(k)
      BY <1>3
    <2>2. call'.op \in {"store", "load"}
      BY <2>1, StartCall, BackendFacts DEF StoreChunk, LoadChunk, Operations
    <2> QED
      BY <2>1, <2>2, VersionsUnchanged DEF StoreChunk, LoadChunk
  <1>4. CASE \E h \in Hashes : DeleteChunk(h)
    <2>1. PICK h \in Hashes : DeleteChunk(h)
      BY <1>4
    <2>2. chunkIndex[h] \in Chunks
      BY <2>1 DEF DeleteChunk, SavedInv, TypeInv, TypeOK
    <2>3. call'.op = "delete"
      BY <2>1, <2>2, StartCall, BackendFacts DEF DeleteChunk, Operations
    <2> QED
      BY <2>1, <2>3, VersionsUnchanged DEF DeleteChunk
  <1>5. CASE StorePart \/ StorePartFails
    <2>1. call.op = "store"
      BY <1>5 DEF StorePart, StorePartFails, Running
    <2>2. call'.op = "store" \/ (call'.op = "none" /\ call'.last = "store")
      BY <1>1, <1>5, <2>1, ReturnInv, NextPart, TryAgain
      DEF StorePart, StorePartFails, Retry
    <2> QED
      BY <1>5, <2>2, VersionsUnchanged DEF StorePart, StorePartFails
  <1>6. CASE LoadPart \/ LoadPartFails
    <2>1. call.op = "load" /\ call.found < call.chunk.data /\ call.chunk \in Chunks
      BY <1>5, <1>6 DEF LoadPart, LoadPartFails, Running, SavedInv, TypeInv, CallInv
    <2>2. CASE LoadPart
      <3>1. call'.op = "load" \/ (call'.op = "none" /\ call'.last = "load")
        <4>1. CASE \E error \in BOOLEAN : Return(error)
          BY <1>1, <2>1, <4>1, ReturnInv
        <4>2. CASE ~\E error \in BOOLEAN : Return(error)
          BY <1>1, <2>1, <2>2, <4>2 DEF LoadPart, Calls
        <4> QED
          BY <4>1, <4>2
      <3> QED
        BY <2>2, <3>1, VersionsUnchanged DEF LoadPart
    <2>3. CASE LoadPartFails
      <3>1. call'.op = "load" \/ (call'.op = "none" /\ call'.last = "load")
        BY <1>1, <2>1, <2>3, ReturnInv, NextPart, NextBackend, TryAgain
        DEF LoadPartFails, Retry
      <3> QED
        BY <2>3, <3>1, VersionsUnchanged DEF LoadPartFails
    <2> QED
      BY <1>6, <2>2, <2>3
  <1>7. CASE DeletePart \/ DeletePartFails
    <2>1. call.op = "delete"
      BY <1>7 DEF DeletePart, DeletePartFails, Running
    <2>2. call'.op = "delete" \/ (call'.op = "none" /\ call'.last = "delete")
      BY <1>1, <1>7, <2>1, ReturnInv, NextPart, NextBackend, TryAgain
      DEF DeletePart, DeletePartFails, Retry
    <2> QED
      BY <1>7, <2>2, VersionsUnchanged DEF DeletePart, DeletePartFails
  <1>8. CASE SaveRepository
    <2>1. newest + 1 \in 0 .. MaxSaves
      BY <1>1, <1>8, BackendFacts DEF SaveRepository
    <2>2. call'.op = "save" /\ call'.version = newest + 1 /\ call'.backend = 0
      BY <1>8, <2>1, StartCall DEF SaveRepository, Operations
    <2>3. UNCHANGED <<versions, committed>> /\ newest' = newest + 1
      BY <1>8 DEF SaveRepository
    <2>4. \A b \in Backends : committed <= versions[b] /\ versions[b] <= newest + 1
      BY <1>1 DEF SavedInv, VersionInv
    <2>5. \A b \in Backends : ~(b < 0)
      BY DEF Backends
    <2> QED
      BY <2>1, <2>2, <2>3, <2>4, <2>5
      DEF SavedInv, VersionInv, EarlierIsNewer, LoadsCommitted, Running, Ready
  <1>9. CASE SaveOn
    <2>1. /\ Running("save")
          /\ UNCHANGED newest
          /\ versions' = [versions EXCEPT ![call.backend] = call.version]
      BY <1>9 DEF SaveOn
    <2>2. /\ \A b \in Backends : committed <= versions'[b] /\ versions'[b] <= newest'
          /\ EarlierIsNewer'
          /\ \A b \in Backends : b <= call.backend => versions'[b] = newest
          /\ call.version = newest
      BY <2>1, VersionWritten
    <2>3. CASE LastBackend
      <3>1. committed' = newest /\ call'.op = "none" /\ call'.last = "save"
        BY <1>1, <1>9, <2>1, <2>2, <2>3, ReturnInv DEF SaveOn, Running
      <3>2. \A b \in Backends : versions'[b] = newest
        BY <1>1, <2>2, <2>3, BackendFacts DEF LastBackend, Backends
      <3> QED
        BY <1>1, <2>1, <2>2, <3>1, <3>2 DEF VersionInv, LoadsCommitted, Running
    <2>4. CASE ~LastBackend
      <3>1. /\ UNCHANGED committed
            /\ call'.op = "save"
            /\ call'.version = newest
            /\ call'.backend = call.backend + 1
        BY <1>1, <1>9, <2>1, <2>2, <2>4, NextBackend DEF SaveOn, Running
      <3>2. \A b \in Backends : b < call.backend + 1 => versions'[b] = newest
        BY <1>1, <2>2, SameCall DEF Backends
      <3> QED
        BY <1>1, <2>1, <2>2, <3>1, <3>2 DEF VersionInv, LoadsCommitted, Running, Ready
    <2> QED
      BY <2>3, <2>4
  <1>10. CASE SaveOnFails
    <2>1. Running("save") /\ UNCHANGED <<newest, committed>>
      BY <1>10 DEF SaveOnFails
    <2>2. \/ call'.op = "none" /\ call'.last = "save"
          \/ /\ call'.op = "save"
             /\ call'.version = call.version
             /\ call'.backend = call.backend
      BY <1>1, <1>10, <2>1, ReturnInv, TryAgain DEF SaveOnFails, Retry, Running
    <2>3. CASE UNCHANGED versions
      BY <2>1, <2>2, <2>3, VersionsUnchanged
    <2>4. CASE versions' = [versions EXCEPT ![call.backend] = call.version]
      <3>1. /\ \A b \in Backends : committed <= versions'[b] /\ versions'[b] <= newest'
            /\ EarlierIsNewer'
            /\ \A b \in Backends : b <= call.backend => versions'[b] = newest
            /\ call.version = newest
        BY <2>1, <2>4, VersionWritten
      <3>2. \A b \in Backends : b < call.backend => versions'[b] = newest
        BY <1>1, <3>1, SameCall DEF Backends
      <3> QED
        BY <1>1, <2>1, <2>2, <3>1, <3>2 DEF VersionInv, LoadsCommitted, Running, Ready
    <2> QED
      BY <1>10, <2>3, <2>4 DEF SaveOnFails
  <1>11. CASE LoadRepository
    <2>1. call'.op = "read"
      BY <1>11, StartCall, BackendFacts DEF LoadRepository, Operations
    <2> QED
      BY <1>11, <2>1, VersionsUnchanged DEF LoadRepository
  <1>12. CASE LoadFrom
    <2>1. /\ call'.op = "none"
          /\ call'.version = versions[call.backend]
          /\ UNCHANGED <<versions, newest, committed>>
      BY <1>12 DEF LoadFrom, Done
    <2>2. committed <= versions[call.backend]
      BY <1>1, SameCall DEF SavedInv, VersionInv
    <2>3. versions[call.backend] \in Nat /\ committed \in Nat
      BY <1>1, SameCall DEF TypeInv, TypeOK
    <2> QED
      BY <2>1, <2>2, <2>3
      DEF SavedInv, VersionInv, EarlierIsNewer, LoadsCommitted, Running, Ready
  <1>13. CASE LoadFromFails
    <2>1. call.op = "read"
      BY <1>13 DEF LoadFromFails, Running
    <2>2. call'.op = "read" \/ (call'.op = "none" /\ call'.error)
      BY <1>1, <1>13, <2>1, ReturnInv, NextBackend, TryAgain DEF LoadFromFails, Retry
    <2> QED
      BY <1>13, <2>2, VersionsUnchanged DEF LoadFromFails
  <1>14. CASE Restart
    <2>1. call'.op = "none" /\ call'.last = "none"
      BY <1>14 DEF Restart, Done
    <2> QED
      BY <1>14, <2>1, VersionsUnchanged DEF Restart
  <1> QED
    BY <1>2, <1>3, <1>4, <1>5, <1>6, <1>7, <1>8, <1>9, <1>10, <1>11, <1>12,
       <1>13, <1>14 DEF Next

\* A load returns what was last saved with success, or something newer.
THEOREM LoadsNeverGoBack == Spec => []LoadsCommitted
  <1>1. SavedInv => LoadsCommitted
    BY DEF SavedInv, VersionInv
  <1> QED
    BY <1>1, InitVersions, StepVersions, PTL DEF Spec

\* No backend is ahead of one that is asked before it.
THEOREM SavesAreOrdered == Spec => []EarlierIsNewer
  <1>1. SavedInv => EarlierIsNewer
    BY DEF SavedInv, VersionInv
  <1> QED
    BY <1>1, InitVersions, StepVersions, PTL DEF Spec

-----------------------------------------------------------------------------
(* Chunks survive the loss of backends.                                    *)

\* The parts of a chunk are on backends of their own.
Placement(k) == 0 .. NumParts(k) - 1

PlacedOn(k, place) ==
  /\ \A i, j \in Placement(k) : place[i] = place[j] => i = j
  /\ \A i \in Placement(k) : File(k, i) \in files[place[i]]

Placed(k) == \E place \in [Placement(k) -> Backends] : PlacedOn(k, place)

\* The backend that part j of the chunk being stored went to, or goes to:
\* counting backwards from lastUsed, all around.
PlaceOf(j) ==
  IF call.part - j <= lastUsed
    THEN lastUsed - (call.part - j)
    ELSE lastUsed + NumBackends - (call.part - j)

\* What is stored so far of a chunk is on the last backends in turn, and what
\* is deleted belongs to no archive.
PlacedInv ==
  /\ \A k \in archived : Placed(k)
  /\ Running("store") =>
       \A j \in 0 .. call.part - 1 : File(call.chunk, j) \in files[PlaceOf(j)]
  /\ Running("delete") => \A k \in archived : k.hash # call.chunk.hash
  /\ \A h \in DOMAIN chunkIndex : chunkIndex[h].hash = h

StoredInv == TypeInv /\ PlacedInv

\* Losing n backends loses n parts of a chunk at most.
LEMMA PlacedIsTolerant ==
  ASSUME NEW k \in Chunks, Placed(k),
         NEW gone \in SUBSET Backends, Cardinality(gone) <= k.parity
  PROVE  Cardinality(PartsOn(k, Backends \ gone)) >= k.data
  <1> DEFINE P    == Placement(k)
             kept == PartsOn(k, Backends \ gone)
  <1>1. PICK place \in [Placement(k) -> Backends] : PlacedOn(k, place)
    BY DEF Placed
  <1> DEFINE lost == {i \in P : place[i] \in gone}
             f    == [i \in lost |-> place[i]]
  <1>2. IsFiniteSet(P) /\ Cardinality(P) = NumParts(k)
    <2>1. NumParts(k) \in Int /\ NumParts(k) > 0
      BY ChunkFacts, BackendFacts
    <2> DEFINE last == NumParts(k) - 1
    <2>2. 0 \in Int /\ last \in Int /\ ~(0 > last) /\ last - 0 + 1 = NumParts(k)
      BY <2>1
    <2> HIDE DEF last
    <2>3. IsFiniteSet(0 .. last) /\ Cardinality(0 .. last) = NumParts(k)
      BY <2>2, FS_Interval
    <2> QED
      BY <2>3 DEF Placement, last
  <1>3. IsFiniteSet(gone)
    <2>1. IsFiniteSet(Backends)
      BY BackendFacts, FS_Interval DEF Backends
    <2> QED
      BY <2>1, FS_Subset
  <1>4. Cardinality(lost) <= Cardinality(gone)
    <2>1. f \in Injection(lost, gone)
      BY <1>1 DEF PlacedOn, Injection, IsInjective
    <2> QED
      BY <1>3, <2>1, FS_Injection
  <1>5. IsFiniteSet(lost) /\ IsFiniteSet(kept) /\ kept \subseteq P
    BY <1>2, FS_Subset DEF PartsOn, Placement
  <1>6. P \ lost \subseteq kept
    BY <1>1 DEF PlacedOn, PartsOn, Placement
  <1>7. Cardinality(P \ lost) = NumParts(k) - Cardinality(lost)
    <2>1. P \cap lost = lost
      OBVIOUS
    <2>2. Cardinality(P \ lost) = Cardinality(P) - Cardinality(P \cap lost)
      <3> HIDE DEF P, lost
      <3> QED
        BY <1>2, FS_Difference
    <2> QED
      BY <1>2, <2>1, <2>2
  <1>8. Cardinality(P \ lost) <= Cardinality(kept)
    BY <1>5, <1>6, FS_Subset
  <1>9. /\ Cardinality(lost) \in Nat
        /\ Cardinality(gone) \in Nat
        /\ Cardinality(kept) \in Nat
    BY <1>3, <1>5, FS_CardinalityType
  <1>10. k.data \in Nat /\ k.parity \in Nat /\ NumParts(k) = k.data + k.parity
    BY ChunkFacts
  <1> HIDE DEF P, kept, lost, f
  <1>11. Cardinality(kept) >= k.data
    BY <1>4, <1>7, <1>8, <1>9, <1>10
  <1> QED
    BY <1>11 DEF kept

\* The last part goes to lastUsed, and no two parts to one backend.
LEMMA PlacesDiffer ==
  ASSUME lastUsed \in Backends, call.part \in Backends,
         NEW i \in 0 .. call.part, NEW j \in 0 .. call.part
  PROVE  /\ PlaceOf(i) \in Backends
         /\ PlaceOf(call.part) = lastUsed
         /\ PlaceOf(i) = PlaceOf(j) => i = j
  BY BackendFacts DEF PlaceOf, Backends

\* Going on to the next part and backend, the parts stored stay where they are.
LEMMA PlacesStay ==
  ASSUME lastUsed \in Backends, call.part \in Backends, call'.part \in Backends,
         lastUsed' = NextUsed, call'.part = call.part + 1,
         NEW j \in 0 .. call.part
  PROVE  PlaceOf(j)' = PlaceOf(j)
  BY BackendFacts DEF PlaceOf, NextUsed, Backends

\* A chunk none of whose parts is deleted stays where it is.
LEMMA StaysPlaced ==
  ASSUME NEW k, Placed(k),
         \A b \in Backends : \A i \in Placement(k) :
           File(k, i) \in files[b] => File(k, i) \in files'[b]
  PROVE  Placed(k)'
  <1>1. PICK place \in [Placement(k) -> Backends] : PlacedOn(k, place)
    BY DEF Placed
  <1>2. PlacedOn(k, place)'
    BY <1>1 DEF PlacedOn, Placement, NumParts, File
  <1> QED
    BY <1>2 DEF Placed, Placement, NumParts

LEMMA InitStored == Init => StoredInv
  BY InitType, BackendFacts DEF Init, Done, Empty, StoredInv, PlacedInv, Running

\* What the actions that touch no file and no archive leave alone.
LEMMA StoredUnchanged ==
  ASSUME StoredInv, UNCHANGED <<files, archived, chunkIndex>>,
         \/ UNCHANGED <<call, lastUsed>>
         \/ call'.op \notin {"store", "delete"}
         \/ /\ call'.op = call.op
            /\ call'.chunk = call.chunk
            /\ call.op = "delete"
         \/ /\ call'.op = call.op
            /\ call'.chunk = call.chunk
            /\ call'.part = call.part
            /\ UNCHANGED lastUsed
  PROVE  PlacedInv'
  BY DEF StoredInv, PlacedInv, Placed, PlacedOn, PlaceOf, Placement, NumParts,
         File, Running

LEMMA StoringPlaces ==
  ASSUME StoredInv, StorePart \/ StorePartFails
  PROVE  PlacedInv'
  <1>1. /\ TypeInv
        /\ files \in [Backends -> SUBSET Files]
        /\ lastUsed \in Backends
        /\ call \in Calls
        /\ call.part \in Backends
        /\ call.op = "store"
        /\ call.chunk \in Chunks
        /\ call.part < NumParts(call.chunk)
    BY SameCall DEF StoredInv, TypeInv, TypeOK, CallInv, Running, StorePart, StorePartFails
  <1>2. \A b \in Backends : files[b] \subseteq files'[b]
    BY <1>1 DEF StorePart, StorePartFails
  <1>3. \A k \in archived : Placed(k)'
    <2> SUFFICES ASSUME NEW k \in archived PROVE Placed(k)'
      OBVIOUS
    <2>1. Placed(k)
      BY DEF StoredInv, PlacedInv
    <2> QED
      BY <1>2, <2>1, StaysPlaced
  <1>4. \A j \in 0 .. call.part - 1 :
          j \in 0 .. call.part /\ File(call.chunk, j) \in files[PlaceOf(j)]
    BY <1>1 DEF StoredInv, PlacedInv, Running, Backends
  <1>5. \A j \in 0 .. call.part - 1 : File(call.chunk, j) \in files'[PlaceOf(j)]
    BY <1>1, <1>2, <1>4, PlacesDiffer
  <1>6. CASE StorePart
    <2>1. PartFile \in files'[lastUsed]
      BY <1>1, <1>6 DEF StorePart
    <2>2. \A j \in 0 .. call.part : File(call.chunk, j) \in files'[PlaceOf(j)]
      <3> SUFFICES ASSUME NEW j \in 0 .. call.part
                   PROVE  File(call.chunk, j) \in files'[PlaceOf(j)]
        OBVIOUS
      <3>1. j = call.part \/ j \in 0 .. call.part - 1
        BY <1>1 DEF Backends
      <3>2. call.part \in 0 .. call.part
        BY <1>1 DEF Backends
      <3> QED
        BY <1>1, <1>5, <2>1, <3>1, <3>2, PlacesDiffer DEF PartFile
    <2>3. CASE LastPart
      <3>1. call'.op = "none"
        BY <1>1, <1>6, <2>3, ReturnInv DEF StorePart
      <3> DEFINE place == [i \in Placement(call.chunk) |-> PlaceOf(i)]
      <3>2. Placement(call.chunk) = 0 .. call.part
        BY <1>1, <2>3, ChunkFacts DEF LastPart, Placement
      <3>3. place \in [Placement(call.chunk) -> Backends]
        BY <1>1, <3>2, PlacesDiffer
      <3>4. \A i, j \in Placement(call.chunk) : place[i] = place[j] => i = j
        BY <1>1, <3>2, PlacesDiffer
      <3>5. \A i \in Placement(call.chunk) : File(call.chunk, i) \in files'[place[i]]
        BY <2>2, <3>2
      <3> HIDE DEF place
      <3>6. \A k : k = call.chunk => Placed(k)'
        <4> SUFFICES ASSUME NEW k, k = call.chunk PROVE Placed(k)'
          OBVIOUS
        <4>1. place \in [Placement(k) -> Backends]
          BY <3>3
        <4>2. /\ \A i, j \in Placement(k) : place[i] = place[j] => i = j
              /\ \A i \in Placement(k) : File(k, i) \in files'[place[i]]
          BY <3>4, <3>5
        <4> QED
          BY <4>1, <4>2 DEF Placed, PlacedOn, Placement, NumParts, File
      <3>7. \A k \in archived' : Placed(k)'
        BY <1>3, <1>6, <2>3, <3>6 DEF StorePart
      <3>8. \A h \in DOMAIN chunkIndex' : chunkIndex'[h].hash = h
        BY <1>6, <2>3 DEF StorePart, Indexed, StoredInv, PlacedInv
      <3> QED
        BY <3>1, <3>7, <3>8 DEF PlacedInv, Running
    <2>4. CASE ~LastPart
      <3>1. /\ call' \in Calls
            /\ call'.op = "store"
            /\ call'.chunk = call.chunk
            /\ call'.part = call.part + 1
            /\ lastUsed' = NextUsed
            /\ UNCHANGED <<archived, chunkIndex>>
        BY <1>1, <1>6, <2>4, NextPart DEF StorePart
      <3>2. call'.part \in Backends
        BY <3>1, SameCall DEF Calls
      <3>3. \A j \in 0 .. call.part : PlaceOf(j)' = PlaceOf(j)
        BY <1>1, <3>1, <3>2, PlacesStay
      <3>4. \A j \in 0 .. call'.part - 1 : j \in 0 .. call.part
        BY <1>1, <3>1 DEF Backends
      <3>5. \A j \in 0 .. call'.part - 1 :
              File(call'.chunk, j) \in files'[PlaceOf(j)']
        BY <2>2, <3>1, <3>3, <3>4
      <3>6. /\ \A k \in archived' : Placed(k)'
            /\ \A h \in DOMAIN chunkIndex' : chunkIndex'[h].hash = h
        BY <1>3, <3>1 DEF StoredInv, PlacedInv
      <3> QED
        BY <3>1, <3>5, <3>6 DEF PlacedInv, Running, File
    <2> QED
      BY <2>3, <2>4
  <1>7. CASE StorePartFails
    <2>1. UNCHANGED <<lastUsed, archived, chunkIndex>>
      BY <1>7 DEF StorePartFails
    <2>2. \/ call'.op = "none"
          \/ /\ call'.op = "store"
             /\ call'.chunk = call.chunk
             /\ call'.part = call.part
      BY <1>1, <1>7, ReturnInv, TryAgain DEF StorePartFails, Retry
    <2>3. /\ \A k \in archived' : Placed(k)'
          /\ \A h \in DOMAIN chunkIndex' : chunkIndex'[h].hash = h
      BY <1>3, <2>1 DEF StoredInv, PlacedInv
    <2>4. CASE call'.op = "none"
      BY <2>3, <2>4 DEF PlacedInv, Running
    <2>5. CASE /\ call'.op = "store"
               /\ call'.chunk = call.chunk
               /\ call'.part = call.part
      <3>1. \A j \in 0 .. call'.part - 1 :
              File(call'.chunk, j) \in files'[PlaceOf(j)']
        BY <1>5, <2>1, <2>5 DEF PlaceOf
      <3> QED
        BY <2>3, <2>5, <3>1 DEF PlacedInv, Running, File
    <2> QED
      BY <2>2, <2>4, <2>5
  <1> QED
    BY <1>6, <1>7

LEMMA DeletingPlaces ==
  ASSUME StoredInv, DeletePart \/ DeletePartFails
  PROVE  PlacedInv'
  <1>1. /\ TypeInv
        /\ files \in [Backends -> SUBSET Files]
        /\ call \in Calls
        /\ call.backend \in Backends
        /\ call.op = "delete"
    BY SameCall DEF StoredInv, TypeInv, TypeOK, Running, DeletePart, DeletePartFails
  <1>2. UNCHANGED archived
    BY DEF DeletePart, DeletePartFails
  <1>3. \A b \in Backends : \A x \in files[b] : x # PartFile => x \in files'[b]
    BY <1>1 DEF DeletePart, DeletePartFails
  <1>4. \A k \in archived : k.hash # call.chunk.hash /\ Placed(k)
    BY <1>1 DEF StoredInv, PlacedInv, Running
  <1>5. \A k \in archived' : Placed(k)'
    <2> SUFFICES ASSUME NEW k \in archived PROVE Placed(k)'
      BY <1>2
    <2>1. \A i \in Placement(k) : File(k, i) # PartFile
      BY <1>4 DEF PartFile, File
    <2>2. \A b \in Backends : \A i \in Placement(k) :
            File(k, i) \in files[b] => File(k, i) \in files'[b]
      BY <1>3, <2>1
    <2> QED
      BY <1>4, <2>2, StaysPlaced
  <1>6. \/ call'.op = "none"
        \/ call'.op = "delete" /\ call'.chunk = call.chunk
    BY <1>1, ReturnInv, NextPart, NextBackend, TryAgain
    DEF DeletePart, DeletePartFails, Retry
  <1>7. \A h \in DOMAIN chunkIndex' : chunkIndex'[h].hash = h
    <2>1. \/ UNCHANGED chunkIndex
          \/ chunkIndex' = [h \in DOMAIN chunkIndex \ {call.chunk.hash} |-> chunkIndex[h]]
      BY DEF DeletePart, DeletePartFails, Restrict
    <2>2. \A h \in DOMAIN chunkIndex : chunkIndex[h].hash = h
      BY DEF StoredInv, PlacedInv
    <2> QED
      BY <2>1, <2>2
  <1> QED
    BY <1>2, <1>4, <1>5, <1>6, <1>7 DEF PlacedInv, Running

LEMMA StepStored == StoredInv /\ [Next]_vars => StoredInv'
  <1> SUFFICES ASSUME StoredInv, [Next]_vars PROVE PlacedInv'
    BY StepType DEF StoredInv
  <1>1. TypeInv /\ call \in Calls
    BY DEF StoredInv, TypeInv, TypeOK
  <1>2. CASE UNCHANGED vars
    BY <1>2, StoredUnchanged DEF vars
  <1>3. CASE \E k \in Chunks : StoreChunk(k)
    <2>1. PICK k \in Chunks : StoreChunk(k)
      BY <1>3
    <2>2. call'.op = "store" /\ call'.part = 0
      BY <2>1, StartCall, BackendFacts DEF StoreChunk, Operations
    <2>3. 0 .. call'.part - 1 = {}
      BY <2>2
    <2>4. UNCHANGED <<files, archived, chunkIndex>>
      BY <2>1 DEF StoreChunk
    <2>5. \A x \in archived : Placed(x)'
      BY <2>4 DEF StoredInv, PlacedInv, Placed, PlacedOn, Placement, NumParts, File
    <2> QED
      BY <2>2, <2>3, <2>4, <2>5 DEF StoredInv, PlacedInv, Running
  <1>4. CASE \E k \in Chunks : LoadChunk(k)
    <2>1. PICK k \in Chunks : LoadChunk(k)
      BY <1>4
    <2>2. call'.op = "load"
      BY <2>1, StartCall, BackendFacts DEF LoadChunk, Operations
    <2> QED
      BY <2>1, <2>2, StoredUnchanged DEF LoadChunk
  <1>5. CASE \E h \in Hashes : DeleteChunk(h)
    <2>1. PICK h \in Hashes : DeleteChunk(h)
      BY <1>5
    <2>2. chunkIndex[h] \in Chunks
      BY <2>1 DEF DeleteChunk, StoredInv, TypeInv, TypeOK
    <2>3. call'.op = "delete" /\ call'.chunk = chunkIndex[h]
      BY <2>1, <2>2, StartCall, BackendFacts DEF DeleteChunk, Operations
    <2>4. chunkIndex[h].hash = h
      BY <2>1 DEF DeleteChunk, StoredInv, PlacedInv
    <2>5. archived' = {k \in archived : k.hash # h} /\ UNCHANGED <<files, chunkIndex>>
      BY <2>1 DEF DeleteChunk
    <2>6. \A x \in archived' : Placed(x)'
      BY <2>5 DEF StoredInv, PlacedInv, Placed, PlacedOn, Placement, NumParts, File
    <2> QED
      BY <2>3, <2>4, <2>5, <2>6 DEF StoredInv, PlacedInv, Running
  <1>6. CASE StorePart \/ StorePartFails
    BY <1>6, StoringPlaces
  <1>7. CASE LoadPart \/ LoadPartFails
    <2>1. call.op = "load" /\ UNCHANGED <<files, archived, chunkIndex, lastUsed>>
      BY <1>7 DEF LoadPart, LoadPartFails, Running
    <2>2. call'.op \in {"load", "none"}
      <3>1. CASE LoadPart
        <4>1. CASE \E error \in BOOLEAN : Return(error)
          BY <1>1, <4>1, ReturnInv
        <4>2. CASE ~\E error \in BOOLEAN : Return(error)
          BY <1>1, <2>1, <3>1, <4>2 DEF LoadPart, Calls
        <4> QED
          BY <4>1, <4>2
      <3>2. CASE LoadPartFails
        BY <1>1, <2>1, <3>2, ReturnInv, NextPart, NextBackend, TryAgain
        DEF LoadPartFails, Retry
      <3> QED
        BY <1>7, <3>1, <3>2
    <2> QED
      BY <2>1, <2>2, StoredUnchanged
  <1>8. CASE DeletePart \/ DeletePartFails
    BY <1>8, DeletingPlaces
  <1>9. CASE SaveRepository
    <2>1. newest + 1 \in 0 .. MaxSaves
      BY <1>9, BackendFacts DEF SaveRepository, StoredInv, TypeInv, TypeOK
    <2>2. call'.op = "save"
      BY <1>9, <2>1, StartCall DEF SaveRepository, Operations
    <2> QED
      BY <1>9, <2>2, StoredUnchanged DEF SaveRepository
  <1>10. CASE SaveOn \/ SaveOnFails
    <2>1. call.op = "save" /\ UNCHANGED <<files, archived, chunkIndex>>
      BY <1>10 DEF SaveOn, SaveOnFails, Running
    <2>2. call'.op \in {"save", "none"}
      BY <1>1, <1>10, <2>1, ReturnInv, NextBackend, TryAgain
      DEF SaveOn, SaveOnFails, Retry
    <2> QED
      BY <2>1, <2>2, StoredUnchanged
  <1>11. CASE LoadRepository
    <2>1. call'.op = "read"
      BY <1>11, StartCall, BackendFacts DEF LoadRepository, Operations
    <2> QED
      BY <1>11, <2>1, StoredUnchanged DEF LoadRepository
  <1>12. CASE LoadFrom \/ LoadFromFails
    <2>1. call.op = "read" /\ UNCHANGED <<files, archived, chunkIndex>>
      BY <1>12 DEF LoadFrom, LoadFromFails, Running
    <2>2. call'.op \in {"read", "none"}
      <3>1. CASE LoadFrom
        BY <3>1 DEF LoadFrom, Done
      <3>2. CASE LoadFromFails
        BY <1>1, <2>1, <3>2, ReturnInv, NextBackend, TryAgain DEF LoadFromFails, Retry
      <3> QED
        BY <1>12, <3>1, <3>2
    <2> QED
      BY <2>1, <2>2, StoredUnchanged
  <1>13. CASE Restart
    <2>1. call'.op = "none"
      BY <1>13 DEF Restart, Done
    <2> QED
      BY <1>13, <2>1, StoredUnchanged DEF Restart
  <1> QED
    BY <1>2, <1>3, <1>4, <1>5, <1>6, <1>7, <1>8, <1>9, <1>10, <1>11, <1>12,
       <1>13 DEF Next

\* A chunk in an archive survives the loss of as many backends as it was
\* stored to tolerate, whatever has failed and been deleted.
THEOREM Tolerant == Spec => []TolerantOfFailures
  <1>1. StoredInv => TolerantOfFailures
    BY PlacedIsTolerant DEF StoredInv, TypeInv, TypeOK, PlacedInv, TolerantOfFailures
  <1> QED
    BY <1>1, InitStored, StepStored, PTL DEF Spec

-----------------------------------------------------------------------------
(* As many tries as calls may fail are enough.                             *)

\* A call has been tried as often as it failed; and as long as fewer calls have
\* failed than each is tried, no part of the chunk being loaded is passed over:
\* some backend that is still to be asked has it.
TriesInv ==
  /\ RetriesSuffice
  /\ call.op \in {"store", "save", "read"} => call.try <= faults
  /\ Running("read") => committed > 0
  /\ Running("load") => call.chunk \in archived
  /\ Running("load") /\ faults < Retries =>
       /\ call.found = call.part
       /\ \E b \in Backends : call.backend <= b /\ PartFile \in files[b]
       /\ PartFile \in files[call.backend] => call.try <= faults

EnoughInv == StoredInv /\ SavedInv /\ TriesInv

\* Every part of an archived chunk is on some backend.
LEMMA PartIsSomewhere ==
  ASSUME StoredInv, NEW k \in archived, NEW i \in Nat, i < NumParts(k)
  PROVE  \E b \in Backends : 0 <= b /\ File(k, i) \in files[b]
  <1>1. Placed(k) /\ k \in Chunks
    BY DEF StoredInv, PlacedInv, TypeInv, TypeOK
  <1>2. PICK place \in [Placement(k) -> Backends] : PlacedOn(k, place)
    BY <1>1 DEF Placed
  <1>3. i \in Placement(k)
    BY <1>1, ChunkFacts DEF Placement
  <1>4. place[i] \in Backends /\ 0 <= place[i]
    BY <1>2, <1>3 DEF Backends
  <1> QED
    BY <1>2, <1>3, <1>4 DEF PlacedOn

\* An operation that ends well, and a deletion however it ends, is no failure.
LEMMA EndedWell ==
  ASSUME call'.op = "none", ~call'.error \/ call'.last = "delete"
  PROVE  TriesInv'
  BY DEF TriesInv, RetriesSuffice, Running

\* An operation may end badly once so many calls have failed.
LEMMA EndedBadly ==
  ASSUME call'.op = "none", faults' >= Retries
  PROVE  TriesInv'
  BY DEF TriesInv, RetriesSuffice, Running

\* An operation begins: nothing has been tried.
LEMMA BeginTries ==
  ASSUME EnoughInv, UNCHANGED <<faults, files, archived, committed>>,
         NEW op \in Operations, NEW k \in Chunks \cup {NoChunk},
         NEW version \in 0 .. MaxSaves, Start(op, k, version),
         op = "load" => k \in archived,
         op = "read" => committed > 0
  PROVE  TriesInv'
  <1>1. call'.op = op /\ call'.chunk = k /\ call'.part = 0 /\ call'.backend = 0
        /\ call'.try = 0 /\ call'.found = 0
    BY StartCall
  <1>2. op # "none" /\ faults \in Nat
    BY BackendsOK DEF Operations, EnoughInv, StoredInv, TypeInv, TypeOK
  <1>3. op = "load" => \E b \in Backends : 0 <= b /\ File(k, 0) \in files[b]
    <2> SUFFICES ASSUME op = "load" PROVE \E b \in Backends : 0 <= b /\ File(k, 0) \in files[b]
      OBVIOUS
    <2>1. k \in archived /\ k \in Chunks
      BY DEF EnoughInv, StoredInv, TypeInv, TypeOK
    <2>2. 0 < NumParts(k)
      BY <2>1, ChunkFacts, BackendFacts
    <2> QED
      BY <2>1, <2>2, PartIsSomewhere DEF EnoughInv
  <1> QED
    BY <1>1, <1>2, <1>3 DEF TriesInv, RetriesSuffice, Ready, Running, PartFile

\* The steps of a store, a save or the load of a file.
LEMMA OneTry ==
  ASSUME EnoughInv, call.op \in {"store", "save", "read"},
         UNCHANGED <<committed>>, faults' = faults + 1,
         Retry(\/ Return(TRUE)
               \/ ~LastBackend /\ AskNextBackend)
  PROVE  TriesInv'
  <1>1. call \in Calls /\ TypeInv /\ faults \in Nat /\ Retries \in Nat
    BY BackendsOK DEF EnoughInv, StoredInv, TypeInv, TypeOK
  <1>2. call.try \in Nat /\ call.try <= faults
    BY <1>1, SameCall DEF EnoughInv, TriesInv
  <1>3. CASE call.try + 1 < Retries
    <2>1. call'.op = call.op /\ call'.try = call.try + 1
      BY <1>1, <1>3 DEF Retry, Calls
    <2>2. call'.try <= faults'
      BY <1>1, <1>2, <2>1
    <2> QED
      BY <2>1, <2>2 DEF EnoughInv, TriesInv, RetriesSuffice, Ready, Running
  <1>4. CASE ~(call.try + 1 < Retries)
    <2>1. faults' >= Retries
      BY <1>1, <1>2, <1>4
    <2>2. CASE Return(TRUE)
      <3>1. call'.op = "none"
        BY <1>1, <2>2, ReturnCall
      <3> QED
        BY <2>1, <3>1, EndedBadly
    <2>3. CASE ~LastBackend /\ AskNextBackend
      <3>1. call'.op = call.op /\ call'.try = 0
        BY <1>1, <2>3 DEF AskNextBackend, Calls
      <3> QED
        BY <1>1, <3>1 DEF EnoughInv, TriesInv, RetriesSuffice, Ready, Running
    <2> QED
      BY <1>4, <2>2, <2>3 DEF Retry
  <1> QED
    BY <1>3, <1>4

\* The backend has the part that is asked for.
LEMMA PartLoaded ==
  ASSUME EnoughInv, LoadPart
  PROVE  TriesInv'
  <1>1. call \in Calls /\ TypeInv /\ faults \in Nat /\ call.op = "load"
    BY BackendsOK DEF EnoughInv, StoredInv, TypeInv, TypeOK, LoadPart, Running
  <1>2. call.chunk \in archived /\ call.chunk \in Chunks
    BY <1>1 DEF EnoughInv, TriesInv, TypeInv, TypeOK, Running
  <1>3. /\ call.part \in Nat /\ call.part < NumParts(call.chunk)
        /\ call.found \in Nat /\ call.found < call.chunk.data
    BY <1>1, SameCall DEF TypeInv, CallInv, Running, Backends
  <1>4. call.chunk.data \in Nat /\ call.chunk.parity \in Nat
        /\ NumParts(call.chunk) = call.chunk.data + call.chunk.parity
    BY <1>2, ChunkFacts
  <1>5. faults < Retries => call.found = call.part
    BY <1>1 DEF EnoughInv, TriesInv, Running
  <1>6. CASE call.found + 1 = call.chunk.data
    BY <1>1, <1>6, ReturnCall, EndedWell DEF LoadPart
  <1>7. CASE call.found + 1 # call.chunk.data /\ LastPart
    <2>1. call'.op = "none"
      BY <1>1, <1>7, ReturnCall DEF LoadPart
    <2>2. ~(faults < Retries)
      BY <1>3, <1>4, <1>5, <1>7 DEF LastPart
    <2>3. faults' >= Retries
      BY <1>1, <2>2, BackendFacts DEF LoadPart
    <2> QED
      BY <2>1, <2>3, EndedBadly
  <1>8. CASE call.found + 1 # call.chunk.data /\ ~LastPart
    <2>1. /\ call'.op = "load" /\ call'.chunk = call.chunk /\ call'.part = call.part + 1
          /\ call'.found = call.found + 1 /\ call'.backend = 0 /\ call'.try = 0
      BY <1>1, <1>8 DEF LoadPart, Calls
    <2>2. call.part + 1 < NumParts(call.chunk)
      BY <1>3, <1>4, <1>8 DEF LastPart
    <2>3. \E b \in Backends : 0 <= b /\ File(call.chunk, call.part + 1) \in files[b]
      BY <1>2, <1>3, <2>2, PartIsSomewhere DEF EnoughInv
    <2>4. UNCHANGED <<files, archived, faults, committed>>
      BY DEF LoadPart
    <2> QED
      BY <1>1, <1>2, <1>5, <2>1, <2>3, <2>4
      DEF TriesInv, RetriesSuffice, Ready, Running, PartFile
  <1> QED
    BY <1>6, <1>7, <1>8

\* It has not, or does not answer.
LEMMA PartNotLoaded ==
  ASSUME EnoughInv, LoadPartFails
  PROVE  TriesInv'
  <1>1. call \in Calls /\ TypeInv /\ faults \in Nat /\ call.op = "load"
    BY BackendsOK DEF EnoughInv, StoredInv, TypeInv, TypeOK, LoadPartFails, Running
  <1>2. UNCHANGED <<files, archived, committed>>
    BY DEF LoadPartFails
  <1>3. faults' \in Nat /\ faults' >= faults /\ Retries \in Nat
        /\ (PartFile \in files[call.backend] => faults' = faults + 1)
    BY <1>1, BackendFacts DEF LoadPartFails, Fault
  <1>4. call.chunk \in archived
    BY <1>1 DEF EnoughInv, TriesInv, Running
  <1>5. call.try \in Nat /\ call.backend \in Backends
    BY <1>1, SameCall
  <1>6. ASSUME faults' < Retries
        PROVE  /\ call.found = call.part
               /\ \E b \in Backends : call.backend <= b /\ PartFile \in files[b]
               /\ PartFile \in files[call.backend] => call.try + 1 < Retries
    <2>1. faults < Retries
      BY <1>1, <1>3, <1>6
    <2>2. PartFile \in files[call.backend] => call.try <= faults
      BY <1>1, <2>1 DEF EnoughInv, TriesInv, Running
    <2> QED
      BY <1>1, <1>3, <1>5, <1>6, <2>1, <2>2 DEF EnoughInv, TriesInv, Running
  <1>7. CASE call.try + 1 < Retries
    <2>1. call' = [call EXCEPT !.try = call.try + 1]
      BY <1>7 DEF LoadPartFails, Retry
    <2>2. /\ call'.op = "load" /\ call'.chunk = call.chunk /\ call'.part = call.part
          /\ call'.found = call.found /\ call'.backend = call.backend /\ call'.try = call.try + 1
      BY <1>1, <2>1 DEF Calls
    <2>3. PartFile' = PartFile
      BY <2>2 DEF PartFile, File
    <2>4. faults' < Retries /\ PartFile \in files[call.backend] => call.try + 1 <= faults'
      <3>1. faults' < Retries => faults < Retries
        BY <1>1, <1>3
      <3>2. faults < Retries /\ PartFile \in files[call.backend] => call.try <= faults
        BY <1>1 DEF EnoughInv, TriesInv, Running
      <3> QED
        BY <1>1, <1>3, <1>5, <3>1, <3>2
    <2> QED
      BY <1>2, <1>4, <1>6, <2>2, <2>3, <2>4 DEF TriesInv, RetriesSuffice, Ready, Running
  <1>8. CASE ~(call.try + 1 < Retries)
    <2>1. CASE ~LastBackend
      <3>1. AskNextBackend
        BY <1>8, <2>1 DEF LoadPartFails, Retry
      <3>2. /\ call'.op = "load" /\ call'.chunk = call.chunk /\ call'.part = call.part
            /\ call'.found = call.found /\ call'.backend = call.backend + 1 /\ call'.try = 0
        BY <1>1, <3>1 DEF AskNextBackend, Calls
      <3>3. PartFile' = PartFile
        BY <3>2 DEF PartFile, File
      <3>4. faults' < Retries =>
              \E b \in Backends : call.backend + 1 <= b /\ PartFile \in files[b]
        BY <1>5, <1>6, <1>8 DEF Backends
      <3> QED
        BY <1>2, <1>3, <1>4, <1>6, <3>2, <3>3, <3>4
        DEF TriesInv, RetriesSuffice, Ready, Running
    <2>2. CASE LastBackend
      <3>1. ~(faults' < Retries)
        <4> SUFFICES ASSUME faults' < Retries PROVE FALSE
          OBVIOUS
        <4>1. PICK b \in Backends : call.backend <= b /\ PartFile \in files[b]
          BY <1>6
        <4>2. b = call.backend
          BY <1>5, <2>2, <4>1, BackendFacts DEF LastBackend, Backends
        <4> QED
          BY <1>6, <1>8, <4>1, <4>2
      <3>2. faults' >= Retries
        BY <1>3, <3>1
      <3>3. CASE ~LastPart
        <4>1. GoToNextPart
          BY <1>8, <2>2, <3>3 DEF LoadPartFails, Retry
        <4>2. call'.op = "load" /\ call'.chunk = call.chunk
          BY <1>1, <4>1 DEF GoToNextPart, Calls
        <4> QED
          BY <1>2, <1>4, <3>1, <4>2 DEF TriesInv, RetriesSuffice, Ready, Running
      <3>4. CASE LastPart
        <4>1. Return(TRUE)
          BY <1>8, <2>2, <3>4 DEF LoadPartFails, Retry
        <4> QED
          BY <1>1, <3>2, <4>1, ReturnCall, EndedBadly
      <3> QED
        BY <3>3, <3>4
    <2> QED
      BY <2>1, <2>2
  <1> QED
    BY <1>7, <1>8

\* A repository that was saved with success is on every backend.
LEMMA NoVersionMissing ==
  ASSUME EnoughInv, Running("read")
  PROVE  versions[call.backend] # 0
  <1>1. committed \in Nat /\ committed > 0
    BY BackendFacts DEF EnoughInv, TriesInv, SavedInv, TypeInv, TypeOK
  <1>2. call.backend \in Backends
    BY SameCall DEF EnoughInv, SavedInv, TypeInv, TypeOK
  <1>3. committed <= versions[call.backend]
    BY <1>2 DEF EnoughInv, SavedInv, VersionInv
  <1> QED
    BY <1>1, <1>3

\* Nothing has been tried.
LEMMA InitTries == Init => EnoughInv
  <1> SUFFICES ASSUME Init PROVE TriesInv
    BY InitStored, InitVersions DEF EnoughInv
  <1>1. call.op = "none" /\ ~call.error
    BY DEF Init, Done
  <1> QED
    BY <1>1 DEF TriesInv, RetriesSuffice, Running

\* Every step keeps it.
LEMMA StepTries == EnoughInv /\ [Next]_vars => EnoughInv'
  <1> SUFFICES ASSUME EnoughInv, [Next]_vars PROVE TriesInv'
    BY StepStored, StepVersions DEF EnoughInv
  <1>1. TypeInv /\ call \in Calls /\ faults \in Nat
    BY BackendsOK DEF EnoughInv, StoredInv, TypeInv, TypeOK
  <1>2. CASE UNCHANGED vars
    BY <1>2 DEF vars, EnoughInv, TriesInv, RetriesSuffice, Ready, Running, PartFile, File
  <1>3. CASE \E k \in Chunks : StoreChunk(k)
    <2>1. PICK k \in Chunks : StoreChunk(k)
      BY <1>3
    <2> QED
      BY <2>1, BeginTries, BackendFacts DEF StoreChunk, Operations
  <1>4. CASE \E k \in Chunks : LoadChunk(k)
    <2>1. PICK k \in Chunks : LoadChunk(k)
      BY <1>4
    <2> QED
      BY <2>1, BeginTries, BackendFacts DEF LoadChunk, Operations
  <1>5. CASE \E h \in Hashes : DeleteChunk(h)
    <2>1. PICK h \in Hashes : DeleteChunk(h)
      BY <1>5
    <2>2. chunkIndex[h] \in Chunks
      BY <2>1 DEF DeleteChunk, EnoughInv, StoredInv, TypeInv, TypeOK
    <2>3. call'.op = "delete"
      BY <2>1, <2>2, StartCall, BackendFacts DEF DeleteChunk, Operations
    <2> QED
      BY <2>3 DEF TriesInv, RetriesSuffice, Ready, Running
  <1>6. CASE StorePart
    <2>1. CASE LastPart
      BY <1>1, <1>6, <2>1, ReturnCall, EndedWell DEF StorePart
    <2>2. CASE ~LastPart
      <3>1. call'.op = "store" /\ call'.try = 0
        BY <1>1, <1>6, <2>2 DEF StorePart, Running, GoToNextPart, Calls
      <3> QED
        BY <1>1, <1>6, <3>1 DEF StorePart, TriesInv, RetriesSuffice, Ready, Running
    <2> QED
      BY <2>1, <2>2
  <1>7. CASE StorePartFails
    BY <1>7, OneTry DEF StorePartFails, Running, Fault, Retry
  <1>8. CASE LoadPart
    BY <1>8, PartLoaded
  <1>9. CASE LoadPartFails
    BY <1>9, PartNotLoaded
  <1>10. CASE DeletePart \/ DeletePartFails
    <2>1. call.op = "delete"
      BY <1>10 DEF DeletePart, DeletePartFails, Running
    <2>2. call'.op = "delete" \/ (call'.op = "none" /\ call'.last = "delete")
      <3>1. CASE \E error \in BOOLEAN : Return(error)
        BY <1>1, <2>1, <3>1, ReturnCall
      <3>2. CASE ~\E error \in BOOLEAN : Return(error)
        BY <1>1, <1>10, <2>1, <3>2
        DEF DeletePart, DeletePartFails, Retry, GoToNextPart, AskNextBackend, Calls
      <3> QED
        BY <3>1, <3>2
    <2> QED
      BY <2>2, EndedWell DEF TriesInv, RetriesSuffice, Ready, Running
  <1>11. CASE SaveRepository
    <2>1. newest + 1 \in 0 .. MaxSaves
      BY <1>11, BackendFacts DEF SaveRepository, EnoughInv, StoredInv, TypeInv, TypeOK
    <2> QED
      BY <1>11, <2>1, BeginTries DEF SaveRepository, Operations
  <1>12. CASE SaveOn
    <2>1. CASE LastBackend
      BY <1>1, <1>12, <2>1, ReturnCall, EndedWell DEF SaveOn
    <2>2. CASE ~LastBackend
      <3>1. call'.op = "save" /\ call'.try = 0
        BY <1>1, <1>12, <2>2 DEF SaveOn, Running, AskNextBackend, Calls
      <3> QED
        BY <1>1, <1>12, <3>1 DEF SaveOn, TriesInv, RetriesSuffice, Ready, Running
    <2> QED
      BY <2>1, <2>2
  <1>13. CASE SaveOnFails
    BY <1>13, OneTry DEF SaveOnFails, Running, Fault, Retry
  <1>14. CASE LoadRepository
    BY <1>14, BeginTries, BackendFacts DEF LoadRepository, Operations
  <1>15. CASE LoadFrom
    <2>1. call'.op = "none" /\ ~call'.error
      BY <1>15 DEF LoadFrom, Done
    <2> QED
      BY <2>1, EndedWell
  <1>16. CASE LoadFromFails
    <2>1. versions[call.backend] # 0
      BY <1>16, NoVersionMissing DEF LoadFromFails
    <2>2. faults' = faults + 1 /\ UNCHANGED committed /\ call.op = "read"
      BY <1>16, <2>1 DEF LoadFromFails, Fault, Running
    <2>3. Retry(Return(TRUE) \/ (~LastBackend /\ AskNextBackend))
      BY <1>16 DEF LoadFromFails, Retry
    <2> QED
      BY <2>2, <2>3, OneTry
  <1>17. CASE Restart
    <2>1. call'.op = "none" /\ ~call'.error
      BY <1>17 DEF Restart, Done
    <2> QED
      BY <2>1, EndedWell
  <1> QED
    BY <1>2, <1>3, <1>4, <1>5, <1>6, <1>7, <1>8, <1>9, <1>10, <1>11, <1>12,
       <1>13, <1>14, <1>15, <1>16, <1>17 DEF Next

\* As long as fewer calls have failed than each of them is tried (the loops up
\* to retries), no store, load or save fails, on however many backends, whatever
\* was stored, saved and deleted before and however often there was a restart.
THEOREM TriesAreEnough == Spec => []RetriesSuffice
  <1>1. EnoughInv => RetriesSuffice
    BY DEF EnoughInv, TriesInv
  <1> QED
    BY <1>1, InitTries, StepTries, PTL DEF Spec
=============================================================================
