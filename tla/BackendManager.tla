--------------------------- MODULE BackendManager ---------------------------
(***************************************************************************)
(* BackendManager: one process stores, loads and deletes chunks, and saves *)
(* and loads the repository file, on several storage backends.             *)
(*                                                                         *)
(* The parts of a chunk go to the backends in turn; loading and deleting   *)
(* ask the backends in order; a file of the repository (repository file,   *)
(* chunk-index or snapshot: the code is the same) is saved on all of them. *)
(* Every call to a backend is tried Retries times.  One action is one call *)
(* to one backend.  A call may fail with or without effect, and the        *)
(* process may die between any two calls.                                  *)
(***************************************************************************)
EXTENDS Naturals, FiniteSets, Functions

CONSTANTS
  NumBackends,  \* storage backends of the repository
  Retries,      \* how often a call to a backend is tried
  Hashes,       \* contents of chunks
  Tolerances,   \* failure tolerances that are asked for
  MaxFaults,    \* bound: how many calls fail
  MaxSaves      \* bound: how many times the repository file is saved

ASSUME BackendsOK ==
  /\ NumBackends \in Nat \ {0}
  /\ Retries \in Nat \ {0}
  /\ Tolerances \subseteq 0 .. NumBackends - 1  \* else ErrRedundancyAmount
  /\ MaxFaults \in Nat
  /\ MaxSaves \in Nat

VARIABLES
  files,        \* backend -> files of chunk parts on it
  versions,     \* backend -> version of the repository file on it (0: none)
  lastUsed,     \* lastUsedBackend
  call,         \* the operation that is running, or the outcome of the last one
  archived,     \* chunks that archives of snapshots are made of
  chunkIndex,   \* hash -> the chunk the index has under it
  newest,       \* the version last saved, with success or without
  committed,    \* the version last saved with success
  faults        \* calls that have failed

vars == <<files, versions, lastUsed, call, archived, chunkIndex, newest,
          committed, faults>>

-----------------------------------------------------------------------------
Backends == 0 .. NumBackends - 1

\* The chunk that store makes for a tolerance: without parity it is in one
\* piece, otherwise it has a part for every backend.
Chunk(h, t) ==
  [hash |-> h, parity |-> t, data |-> IF t = 0 THEN 1 ELSE NumBackends - t]

Chunks == {Chunk(h, t) : h \in Hashes, t \in Tolerances}

NumParts(k) == k.data + k.parity

\* The file name of a part: hash, number, and number of data parts.
File(k, i) == <<k.hash, i, k.data>>

Files == {File(k, i) : k \in Chunks, i \in 0 .. NumBackends - 1}

Empty == [h \in {} |-> {}]

\* ChunkIndex.AddArchive: the first chunk with a hash is the one that is kept.
Indexed(k) ==
  [h \in DOMAIN chunkIndex \cup {k.hash} |->
     IF h \in DOMAIN chunkIndex THEN chunkIndex[h] ELSE k]

NoChunk == [hash |-> {}, parity |-> 0, data |-> 0]

Operations == {"store", "load", "delete", "save", "read"}

\* No operation is running; op was the last one.
Done(op, error, version) ==
  [op |-> "none", last |-> op, error |-> error, chunk |-> NoChunk, part |-> 0,
   backend |-> 0, try |-> 0, found |-> 0, version |-> version]

Calls ==
  [op : Operations \cup {"none"}, last : Operations \cup {"none"},
   error : BOOLEAN, chunk : Chunks \cup {NoChunk}, part : Backends,
   backend : Backends, try : 0 .. Retries - 1, found : Backends,
   version : 0 .. MaxSaves]

Ready == call.op = "none"

Running(op) == call.op = op

Start(op, k, version) ==
  /\ Ready
  /\ call' = [Done("none", FALSE, version) EXCEPT !.op = op, !.chunk = k]

\* The operation ends.
Return(error) == call' = Done(call.op, error, call.version)

Init ==
  /\ files = [b \in Backends |-> {}]
  /\ versions = [b \in Backends |-> 0]
  /\ lastUsed = 0
  /\ call = Done("none", FALSE, 0)
  /\ archived = {}
  /\ chunkIndex = Empty
  /\ newest = 0
  /\ committed = 0
  /\ faults = 0

-----------------------------------------------------------------------------
(* How a call to a backend ends, and what comes after it.                  *)

Fault == faults < MaxFaults /\ faults' = faults + 1

\* Wrong variant: one try too few.
RetryOffByOne(afterwards) ==
  IF call.try + 2 < Retries
    THEN call' = [call EXCEPT !.try = call.try + 1]
    ELSE afterwards

\* Another try, or what comes after the last one.
Retry(afterwards) ==
  IF call.try + 1 < Retries
    THEN call' = [call EXCEPT !.try = call.try + 1]
    ELSE afterwards

LastBackend == call.backend = NumBackends - 1

AskNextBackend == call' = [call EXCEPT !.backend = call.backend + 1, !.try = 0]

LastPart == call.part = NumParts(call.chunk) - 1

GoToNextPart ==
  call' = [call EXCEPT !.part = call.part + 1, !.backend = 0, !.try = 0]

\* The part that is being handled, as a file.
PartFile == File(call.chunk, call.part)

-----------------------------------------------------------------------------
(* StoreChunk.                                                             *)

\* Wrong variants: the wrap is missing, or comes before the last backend.
NextUsedNoWrap == lastUsed + 1
NextUsedSkipsLast == IF lastUsed + 2 >= NumBackends THEN 0 ELSE lastUsed + 1

NextUsed == IF lastUsed + 1 = NumBackends THEN 0 ELSE lastUsed + 1

StoreChunk(k) ==
  /\ Start("store", k, 0)
  /\ lastUsed' = NextUsed
  /\ UNCHANGED <<files, versions, archived, chunkIndex, newest, committed, faults>>

StorePart ==
  /\ Running("store")
  /\ files' = [files EXCEPT ![lastUsed] = files[lastUsed] \cup {PartFile}]
  /\ IF LastPart
       THEN /\ Return(FALSE)
            /\ archived' = archived \cup {call.chunk}
            /\ chunkIndex' = Indexed(call.chunk)
            /\ UNCHANGED lastUsed
       ELSE /\ GoToNextPart
            /\ lastUsed' = NextUsed
            /\ UNCHANGED <<archived, chunkIndex>>
  /\ UNCHANGED <<versions, newest, committed, faults>>

\* The archive goes without the chunk; what has been stored of it stays.
StorePartFails ==
  /\ Running("store")
  /\ Fault
  /\ \/ UNCHANGED files
     \/ files' = [files EXCEPT ![lastUsed] = files[lastUsed] \cup {PartFile}]
  /\ Retry(Return(TRUE))
  /\ UNCHANGED <<versions, lastUsed, archived, chunkIndex, newest, committed>>

-----------------------------------------------------------------------------
(* loadChunk and LoadChunk.                                                *)

LoadChunk(k) ==
  /\ k \in archived
  /\ Start("load", k, 0)
  /\ UNCHANGED <<files, versions, lastUsed, archived, chunkIndex, newest,
                 committed, faults>>

\* The backend has the part.  As many parts as there were data parts are
\* enough to put the chunk together again; fewer are a DataReconstructionError.
LoadPart ==
  /\ Running("load")
  /\ PartFile \in files[call.backend]
  /\ IF call.found + 1 = call.chunk.data
       THEN Return(FALSE)
       ELSE IF LastPart
              THEN Return(TRUE)
              ELSE call' = [call EXCEPT !.found = call.found + 1,
                                        !.part = call.part + 1,
                                        !.backend = 0, !.try = 0]
  /\ UNCHANGED <<files, versions, lastUsed, archived, chunkIndex, newest,
                 committed, faults>>

\* It does not, or the call fails: the next backend, the next part.
LoadPartFails ==
  /\ Running("load")
  /\ IF PartFile \in files[call.backend] THEN Fault ELSE UNCHANGED faults
  /\ Retry(IF ~LastBackend THEN AskNextBackend
           ELSE IF ~LastPart THEN GoToNextPart
           ELSE Return(TRUE))
  /\ UNCHANGED <<files, versions, lastUsed, archived, chunkIndex, newest, committed>>

-----------------------------------------------------------------------------
(* Pack of one chunk: DeleteChunk of each part of the chunk in the index.  *)

\* All snapshots that refer to the chunk have been removed.
DeleteChunk(h) ==
  /\ h \in DOMAIN chunkIndex
  /\ Start("delete", chunkIndex[h], 0)
  /\ archived' = {k \in archived : k.hash # h}
  /\ UNCHANGED <<files, versions, lastUsed, chunkIndex, newest, committed, faults>>

DeletePart ==
  /\ Running("delete")
  /\ PartFile \in files[call.backend]
  /\ files' = [files EXCEPT ![call.backend] = files[call.backend] \ {PartFile}]
  /\ IF LastPart
       THEN /\ Return(FALSE)
            /\ chunkIndex' = Restrict(chunkIndex, DOMAIN chunkIndex \ {call.chunk.hash})
       ELSE GoToNextPart /\ UNCHANGED chunkIndex
  /\ UNCHANGED <<versions, lastUsed, archived, newest, committed, faults>>

\* ErrDeleteChunkFailed after the last backend: Pack gives up.
DeletePartFails ==
  /\ Running("delete")
  /\ IF PartFile \in files[call.backend]
       THEN /\ Fault
            /\ \/ UNCHANGED files
               \/ files' = [files EXCEPT
                              ![call.backend] = files[call.backend] \ {PartFile}]
       ELSE UNCHANGED <<faults, files>>
  /\ Retry(IF ~LastBackend THEN AskNextBackend ELSE Return(TRUE))
  /\ UNCHANGED <<versions, lastUsed, archived, chunkIndex, newest, committed>>

-----------------------------------------------------------------------------
(* SaveRepository and LoadRepository, and likewise for the chunk-index and *)
(* for snapshots.                                                          *)

SaveRepository ==
  /\ newest < MaxSaves
  /\ newest' = newest + 1
  /\ Start("save", NoChunk, newest + 1)
  /\ UNCHANGED <<files, versions, lastUsed, archived, chunkIndex, committed, faults>>

SaveOn ==
  /\ Running("save")
  /\ versions' = [versions EXCEPT ![call.backend] = call.version]
  /\ IF LastBackend
       THEN Return(FALSE) /\ committed' = call.version
       ELSE AskNextBackend /\ UNCHANGED committed
  /\ UNCHANGED <<files, lastUsed, archived, chunkIndex, newest, faults>>

\* Wrong variant: the next backend is asked and the failure forgotten.
SaveOnFailsGoesOn ==
  /\ Running("save")
  /\ Fault
  /\ \/ UNCHANGED versions
     \/ versions' = [versions EXCEPT ![call.backend] = call.version]
  /\ IF LastBackend
       THEN Return(FALSE) /\ committed' = call.version
       ELSE Retry(AskNextBackend) /\ UNCHANGED committed
  /\ UNCHANGED <<files, lastUsed, archived, chunkIndex, newest>>

\* The backends after the one that failed are not asked any more.
SaveOnFails ==
  /\ Running("save")
  /\ Fault
  /\ \/ UNCHANGED versions
     \/ versions' = [versions EXCEPT ![call.backend] = call.version]
  /\ Retry(Return(TRUE))
  /\ UNCHANGED <<files, lastUsed, archived, chunkIndex, newest, committed>>

LoadRepository ==
  /\ committed > 0
  /\ Start("read", NoChunk, 0)
  /\ UNCHANGED <<files, versions, lastUsed, archived, chunkIndex, newest,
                 committed, faults>>

\* The first backend that answers is believed.
LoadFrom ==
  /\ Running("read")
  /\ versions[call.backend] # 0
  /\ call' = Done("read", FALSE, versions[call.backend])
  /\ UNCHANGED <<files, versions, lastUsed, archived, chunkIndex, newest,
                 committed, faults>>

LoadFromFails ==
  /\ Running("read")
  /\ IF versions[call.backend] # 0 THEN Fault ELSE UNCHANGED faults
  /\ Retry(IF ~LastBackend THEN AskNextBackend ELSE Return(TRUE))
  /\ UNCHANGED <<files, versions, lastUsed, archived, chunkIndex, newest, committed>>

\* The process ends, in the middle of an operation or not, and a new one
\* starts.
Restart ==
  /\ call' = Done("none", FALSE, 0)
  /\ lastUsed' = 0
  /\ UNCHANGED <<files, versions, archived, chunkIndex, newest, committed, faults>>

-----------------------------------------------------------------------------
Next ==
  \/ \E k \in Chunks : StoreChunk(k) \/ LoadChunk(k)
  \/ \E h \in Hashes : DeleteChunk(h)
  \/ StorePart \/ StorePartFails
  \/ LoadPart \/ LoadPartFails
  \/ DeletePart \/ DeletePartFails
  \/ SaveRepository \/ SaveOn \/ SaveOnFails
  \/ LoadRepository \/ LoadFrom \/ LoadFromFails
  \/ Restart

Spec == Init /\ [][Next]_vars

-----------------------------------------------------------------------------
(* Properties.                                                             *)

\* Type invariant.
TypeOK ==
  /\ files \in [Backends -> SUBSET Files]
  /\ versions \in [Backends -> 0 .. MaxSaves]
  /\ lastUsed \in Backends
  /\ call \in Calls
  /\ archived \subseteq Chunks
  /\ chunkIndex \in UNION {[D -> Chunks] : D \in SUBSET Hashes}
  /\ newest \in 0 .. MaxSaves
  /\ committed \in 0 .. MaxSaves
  /\ faults \in 0 .. MaxFaults

\* The parts of a chunk that some of the given backends have.
PartsOn(k, available) ==
  {i \in 0 .. NumParts(k) - 1 : \E b \in available : File(k, i) \in files[b]}

\* "Failure tolerance against n backend failures": every chunk in an archive
\* can be put together without any n of the backends, n being the tolerance
\* it was stored with.  This depends on StoreChunk giving no two parts of a
\* chunk to one backend, whatever was stored before and whatever failed.
TolerantOfFailures ==
  \A k \in archived : \A gone \in SUBSET Backends :
    Cardinality(gone) <= k.parity =>
      Cardinality(PartsOn(k, Backends \ gone)) >= k.data

\* As long as fewer calls have failed than a call is tried, no store, load or
\* save fails.  (A delete may: when the answer to it is lost, the next try
\* finds no file and takes that for a failure.)
RetriesSuffice ==
  Ready /\ call.error /\ call.last # "delete" => faults >= Retries

\* A load never returns anything older than what was last saved with success,
\* from whichever backend it comes and however many saves have stopped
\* half-way since.
LoadsCommitted ==
  Ready /\ call.last = "read" /\ ~call.error => call.version >= committed

\* A save that stops half-way leaves newer versions only on backends that are
\* asked earlier: no backend is ahead of one before it.
EarlierIsNewer ==
  \A a, b \in Backends : a < b => versions[a] >= versions[b]

\* When Pack has deleted a chunk that no snapshot refers to, no backend has a
\* part of it left.
PackDeletesAllCopies ==
  [][call.op = "delete" /\ call'.op = "none" /\ call'.last = "delete" /\ ~call'.error =>
       \A b \in Backends : \A x \in files'[b] : x[1] # call.chunk.hash]_vars
=============================================================================
