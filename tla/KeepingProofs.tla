---------------------------- MODULE KeepingProofs ----------------------------
(***************************************************************************)
(* Theorems about KnoxiteRepository used without repo pack, or without     *)
(* removals, and otherwise in any way: any number of processes at the same *)
(* time, clones, and commands that end anywhere.                           *)
(***************************************************************************)
EXTENDS KnoxiteRepositoryProofs

-----------------------------------------------------------------------------
(* Without removals no reference is taken back, so no chunk that is in an  *)
(* index is ever without one, and pack has nothing to do.                  *)

NoRemoval == Commands \cap {"remove", "volremove"} = {}

Referenced(index) == Unreferenced(index) = {}

\* x is the memory of a process.
RefInv(x) ==
  /\ Referenced(x.index)
  /\ x.pc = "deleteChunk" => x.todo = {}

RefsInv ==
  /\ indexFile # None => Referenced(indexFile)
  /\ \A p \in Procs : RefInv(proc[p])

LEMMA IdleRefs == RefInv(Idle)
  BY DEF Idle, Empty, RefInv, Referenced, Unreferenced

\* ChunkIndex.AddArchive gives references and takes none.
LEMMA IndexArchiveReferenced ==
  ASSUME NEW x \in ChunkIndexes, NEW cs, NEW s, Referenced(x)
  PROVE  Referenced(IndexArchive(x, cs, s))
  <1> DEFINE y == IndexArchive(x, cs, s)
  <1>1. ASSUME NEW h \in DOMAIN y
        PROVE  y[h].snapshots # {}
    <2>1. CASE h \in DOMAIN x
      <3> DEFINE new == IF h \in {c.hash : c \in cs} THEN {s} ELSE {}
      <3>1. y[h] = [x[h] EXCEPT !.snapshots = x[h].snapshots \cup new]
        BY <2>1 DEF IndexArchive
      <3>2. x[h].snapshots # {} /\ x[h] \in Entries
        BY <2>1, IndexType DEF Referenced, Unreferenced
      <3> HIDE DEF y, new
      <3> QED
        BY <3>1, <3>2 DEF Entries
    <2>2. CASE h \notin DOMAIN x
      BY <2>2 DEF IndexArchive
    <2> QED
      BY <2>1, <2>2
  <1> HIDE DEF y
  <1> QED
    BY <1>1 DEF Referenced, Unreferenced, y

\* ChunkIndex.reindex makes entries for references.
LEMMA ReindexReferenced ==
  ASSUME NEW r, NEW first \in Firsts(r)
  PROVE  Referenced(Reindex(r, first))
  <1> SUFFICES ASSUME NEW h \in DOMAIN first
               PROVE  \E s \in Listed(r) : \E c \in ChunksOf(snapshotFiles[s]) : c.hash = h
    BY DEF Referenced, Unreferenced, Reindex
  <1>1. first[h] \in ListedChunks(r, h)
    BY DEF Firsts
  <1> QED
    BY <1>1 DEF ListedChunks

\* One process takes a step to x.
LEMMA RefsStep ==
  ASSUME TypeInv, RefsInv, NEW p \in Procs, NEW x, Become(p, x), RefInv(x),
         indexFile' = indexFile \/ Referenced(indexFile')
  PROVE  RefsInv'
  <1>1. \A q \in Procs : proc'[q] = x \/ proc'[q] = proc[q]
    BY BecomeProc DEF TypeInv, TypeOK
  <1>2. \A q \in Procs : RefInv(proc'[q])
    BY <1>1 DEF RefsInv
  <1> QED
    BY <1>2 DEF RefsInv, RefInv, Referenced, Unreferenced

\* A step that leaves the indexes alone, and is not the beginning of a pack.
LEMMA RefsSameIndex ==
  ASSUME TypeInv, RefsInv, NEW p \in Procs, NEW x, Become(p, x),
         x.index = proc[p].index, x.pc # "deleteChunk", indexFile' = indexFile
  PROVE  RefsInv'
  <1>1. RefInv(x)
    BY DEF RefsInv, RefInv
  <1> QED
    BY <1>1, RefsStep

LEMMA RefsBegin ==
  ASSUME TypeInv, RefsInv, NEW p \in Procs, Begin(p)
  PROVE  RefsInv'
  <1>1. PICK x : Become(p, x) /\ x.index = Idle.index /\ x.pc # "deleteChunk"
    <2>1. ASSUME NEW v \in Volumes, VolumeInit(p, v)
          PROVE  \E x : Become(p, x) /\ x.index = Idle.index /\ x.pc # "deleteChunk"
      <3> WITNESS [Idle EXCEPT !.pc = "saveRepository", !.command = "volinit",
                               !.repository = Put(repositoryFile, v, {})]
      <3> QED
        BY <2>1 DEF VolumeInit, Idle
    <2>2. ASSUME NEW v \in Volumes, NEW s \in Snapshots,
               NEW shape \in Shapes, Store(p, v, s, shape)
          PROVE  \E x : Become(p, x) /\ x.index = Idle.index /\ x.pc # "deleteChunk"
      <3> WITNESS [Idle EXCEPT !.pc = "openIndex", !.command = "store",
                               !.repository = repositoryFile, !.volume = v, !.id = s, !.shape = shape]
      <3> QED
        BY <2>2 DEF Store, Idle
    <2>3. ASSUME NEW v \in Volumes, NEW old \in Snapshots, NEW s \in Snapshots,
                 NEW shape \in Shapes, Clone(p, v, old, s, shape)
          PROVE  \E x : Become(p, x) /\ x.index = Idle.index /\ x.pc # "deleteChunk"
      <3> WITNESS [Idle EXCEPT !.pc = "openIndex", !.command = "clone",
                               !.repository = repositoryFile, !.volume = v, !.id = s, !.shape = shape,
                               !.archives = snapshotFiles[old]]
      <3> QED
        BY <2>3 DEF Clone, Idle
    <2>4. ASSUME NEW command \in Commands, OpenRepository(p, command)
          PROVE  \E x : Become(p, x) /\ x.index = Idle.index /\ x.pc # "deleteChunk"
      <3> WITNESS [Idle EXCEPT !.pc = "openIndex", !.command = command,
                               !.repository = repositoryFile]
      <3> QED
        BY <2>4 DEF OpenRepository, Idle
    <2> QED
      BY <2>1, <2>2, <2>3, <2>4 DEF Begin
  <1>2. RefInv(x)
    BY <1>1, IdleRefs DEF RefInv
  <1>3. indexFile' = indexFile
    BY DEF Begin, VolumeInit, Store, Clone, OpenRepository
  <1> QED
    BY <1>1, <1>2, <1>3, RefsStep

LEMMA RefsOpenChunkIndex ==
  ASSUME TypeInv, RefsInv, NEW p \in Procs, OpenChunkIndex(p)
  PROVE  RefsInv'
  <1>1. proc[p] \in Processes /\ RefInv(proc[p])
    BY ProcessType DEF RefsInv
  <1>2. CASE LoadIndex(p)
    <2> DEFINE x == [proc[p] EXCEPT !.pc = "opened", !.index = indexFile]
    <2>1. x.pc = "opened" /\ x.index = indexFile /\ indexFile # None /\ indexFile' = indexFile
      BY <1>1, <1>2 DEF LoadIndex, Processes
    <2>2. Become(p, x)
      BY <1>2 DEF LoadIndex
    <2> HIDE DEF x
    <2> QED
      BY <2>1, <2>2, RefsStep DEF RefsInv, RefInv
  <1>3. CASE RebuildIndex(p)
    <2> PICK first \in Firsts(proc[p].repository) :
               Become(p, [proc[p] EXCEPT
                            !.pc = "saveReindexed",
                            !.index = Reindex(proc[p].repository, first)])
      BY <1>3 DEF RebuildIndex
    <2> DEFINE y == Reindex(proc[p].repository, first)
               x == [proc[p] EXCEPT !.pc = "saveReindexed", !.index = y]
    <2>1. Become(p, x) /\ indexFile' = indexFile
      BY <1>3 DEF RebuildIndex
    <2>2. Referenced(y)
      BY ReindexReferenced
    <2> HIDE DEF y
    <2>3. x.pc = "saveReindexed" /\ x.index = y
      BY <1>1 DEF Processes
    <2> HIDE DEF x
    <2> QED
      BY <2>1, <2>2, <2>3, RefsStep DEF RefInv
  <1>4. CASE SaveReindexed(p)
    <2> DEFINE x == [proc[p] EXCEPT !.pc = "opened"]
    <2>1. Become(p, x) /\ indexFile' = proc[p].index
      BY <1>4 DEF SaveReindexed
    <2>2. x.pc = "opened" /\ x.index = proc[p].index
      BY <1>1 DEF Processes
    <2>3. Referenced(indexFile')
      BY <1>1, <2>1 DEF RefInv
    <2> HIDE DEF x
    <2> QED
      BY <1>1, <2>1, <2>2, <2>3, RefsStep DEF RefInv
  <1> QED
    BY <1>2, <1>3, <1>4 DEF OpenChunkIndex

LEMMA RefsAdd ==
  ASSUME TypeInv, RefsInv, NEW p \in Procs, Add(p)
  PROVE  RefsInv'
  <1>1. proc[p] \in Processes /\ RefInv(proc[p])
    BY ProcessType DEF RefsInv
  <1>2. indexFile' = indexFile
    BY DEF Add, BeginArchive, StoreChunk, StoreChunkFails, AddArchive, EndTargets
  <1>3. ASSUME NEW f \in Paths, NEW hashes \in SUBSET Hashes, BeginArchive(p, f, hashes)
        PROVE  RefsInv'
    <2> DEFINE x == [proc[p] EXCEPT !.pc = "storeChunk", !.path = f,
                                    !.chunks = {},
                                    !.todo = [hash : hashes, shape : {proc[p].shape}]]
    <2>1. Become(p, x)
      BY <1>3 DEF BeginArchive
    <2>2. x.pc = "storeChunk" /\ x.index = proc[p].index
      BY <1>1 DEF Processes
    <2> HIDE DEF x
    <2> QED
      BY <1>2, <2>1, <2>2, RefsSameIndex
  <1>4. ASSUME NEW c \in Chunks, NEW b \in Backends, StoreChunk(p, c, b)
        PROVE  RefsInv'
    <2> DEFINE cs == proc[p].chunks \cup (IF LastPart(p, c) THEN {c} ELSE {})
               n == NextPart(p, c)
               x == [n EXCEPT !.chunks = cs]
    <2>1. Become(p, x) /\ proc[p].pc = "storeChunk"
      BY <1>4 DEF StoreChunk, At
    <2>2. n \in Processes
      BY <1>4, NextPartType DEF StoreChunk
    <2>3. n.pc = proc[p].pc /\ n.index = proc[p].index
      BY <1>1, NextPartFields
    <2> HIDE DEF n, cs
    <2>4. x.pc = n.pc /\ x.index = n.index
      BY <2>2, ChunksOnly
    <2> HIDE DEF x
    <2> QED
      BY <1>2, <2>1, <2>3, <2>4, RefsSameIndex
  <1>5. ASSUME NEW c \in Chunks, StoreChunkFails(p, c)
        PROVE  RefsInv'
    <2> DEFINE x == [proc[p] EXCEPT !.todo = proc[p].todo \ {c}, !.chunk = None, !.part = 0]
    <2>1. Become(p, x) /\ proc[p].pc = "storeChunk"
      BY <1>5 DEF StoreChunkFails, At
    <2>2. x.pc = "storeChunk" /\ x.index = proc[p].index
      BY <1>1, <2>1 DEF Processes
    <2> HIDE DEF x
    <2> QED
      BY <1>2, <2>1, <2>2, RefsSameIndex
  <1>6. CASE AddArchive(p)
    <2> DEFINE a == Put(proc[p].archives, proc[p].path, proc[p].chunks)
               y == IndexArchive(proc[p].index, proc[p].chunks, proc[p].id)
               x == [proc[p] EXCEPT !.pc = "opened", !.archives = a, !.index = y,
                                    !.path = None, !.chunks = {}]
    <2>1. Become(p, x)
      BY <1>6 DEF AddArchive
    <2>2. Referenced(y)
      BY <1>1, ProcessType, IndexArchiveReferenced DEF RefInv
    <2> HIDE DEF a, y
    <2>3. x.pc = "opened" /\ x.index = y
      BY <1>1 DEF Processes
    <2> HIDE DEF x
    <2> QED
      BY <1>2, <2>1, <2>2, <2>3, RefsStep DEF RefInv
  <1>7. CASE EndTargets(p)
    <2> DEFINE x == [proc[p] EXCEPT !.pc = "saveSnapshot"]
    <2>1. Become(p, x)
      BY <1>7 DEF EndTargets
    <2>2. x.pc = "saveSnapshot" /\ x.index = proc[p].index
      BY <1>1 DEF Processes
    <2> HIDE DEF x
    <2> QED
      BY <1>2, <2>1, <2>2, RefsSameIndex
  <1> QED
    BY <1>3, <1>4, <1>5, <1>6, <1>7 DEF Add

\* With no reference gone, no chunk is packed.
LEMMA RefsPack ==
  ASSUME TypeInv, RefsInv, NEW p \in Procs, Pack(p)
  PROVE  RefsInv'
  <1>1. proc[p] \in Processes /\ RefInv(proc[p])
    BY ProcessType DEF RefsInv
  <1>2. CASE BeginPack(p)
    <2> DEFINE x == [proc[p] EXCEPT !.pc = "deleteChunk",
                                    !.todo = ToDelete(proc[p].index)]
    <2>1. Become(p, x) /\ indexFile' = indexFile
      BY <1>2 DEF BeginPack
    <2>2. x.index = proc[p].index /\ x.todo = ToDelete(proc[p].index)
      BY <1>1 DEF Processes
    <2> HIDE DEF x
    <2> QED
      BY <1>1, <2>1, <2>2, RefsStep DEF RefInv, Referenced, ToDelete
  <1>3. ASSUME NEW c \in Chunks,
               (\E b \in Backends : DeleteChunk(p, c, b)) \/ DeleteChunkFails(p, c)
        PROVE  FALSE
    BY <1>1, <1>3 DEF DeleteChunk, DeleteChunkFails, IsNextChunk, At, RefInv
  <1>4. CASE EndPack(p)
    <2> DEFINE y == Restrict(proc[p].index,
                             DOMAIN proc[p].index \ Unreferenced(proc[p].index))
               x == [proc[p] EXCEPT !.pc = "saveIndex", !.index = y]
    <2>1. Become(p, x) /\ indexFile' = indexFile
      BY <1>4 DEF EndPack
    <2>2. Referenced(y)
      BY DEF Restrict, Referenced, Unreferenced
    <2> HIDE DEF y
    <2>3. x.pc = "saveIndex" /\ x.index = y
      BY <1>1 DEF Processes
    <2> HIDE DEF x
    <2> QED
      BY <2>1, <2>2, <2>3, RefsStep DEF RefInv
  <1> QED
    BY <1>2, <1>3, <1>4 DEF Pack

LEMMA RefsSave ==
  ASSUME TypeInv, RefsInv, NEW p \in Procs, Save(p)
  PROVE  RefsInv'
  <1>1. proc[p] \in Processes /\ RefInv(proc[p])
    BY ProcessType DEF RefsInv
  <1>2. CASE SaveSnapshot(p)
    <2> DEFINE r == AddSnapshot(proc[p].repository, proc[p].volume, proc[p].id)
               x == [proc[p] EXCEPT !.pc = "saveIndex", !.repository = r]
    <2>1. Become(p, x) /\ indexFile' = indexFile
      BY <1>2 DEF SaveSnapshot
    <2> HIDE DEF r
    <2>2. x.pc = "saveIndex" /\ x.index = proc[p].index
      BY <1>1 DEF Processes
    <2> HIDE DEF x
    <2> QED
      BY <2>1, <2>2, RefsSameIndex
  <1>3. CASE SaveIndex(p)
    <2> DEFINE x == [proc[p] EXCEPT !.pc = "saveRepository"]
    <2>1. Become(p, x) \/ Become(p, Idle)
      BY <1>3 DEF SaveIndex, Return
    <2>2. Referenced(indexFile')
      BY <1>1, <1>3 DEF SaveIndex, RefInv
    <2>3. x.pc = "saveRepository" /\ x.index = proc[p].index
      BY <1>1 DEF Processes
    <2> HIDE DEF x
    <2>4. RefInv(x)
      BY <1>1, <2>3 DEF RefInv
    <2> QED
      BY <2>1, <2>2, <2>4, IdleRefs, RefsStep
  <1>4. CASE SaveRepository(p)
    BY <1>4, IdleRefs, RefsStep DEF SaveRepository, Return
  <1> QED
    BY <1>2, <1>3, <1>4 DEF Save

LEMMA RefsNext ==
  ASSUME NoRemoval
  PROVE  TypeInv /\ RefsInv /\ [Next]_vars => RefsInv'
  <1> SUFFICES ASSUME TypeInv, RefsInv, [Next]_vars
               PROVE  RefsInv'
    OBVIOUS
  <1>1. CASE Next
    <2> PICK p \in Procs : Step(p)
      BY <1>1 DEF Next
    <2>1. ~Remove(p) \/ RefsInv'
      <3>1. proc[p].command \in Commands \cup {None}
        BY ProcessType DEF Processes
      <3>2. proc[p].command \notin {"remove", "volremove"}
        BY <3>1, ConstantsOK DEF NoRemoval, CommandNames
      <3> QED
        BY <3>2 DEF Remove, BeginRemove, BeginVolumeRemove, RemoveNotFound
    <2>2. CASE Abort(p)
      BY <2>2, IdleRefs, RefsStep DEF Abort, Return
    <2> QED
      BY <2>1, <2>2, RefsBegin, RefsOpenChunkIndex, RefsAdd, RefsPack, RefsSave DEF Step
  <1>2. CASE UNCHANGED vars
    BY <1>2 DEF vars, RefsInv, RefInv, Referenced, Unreferenced
  <1> QED
    BY <1>1, <1>2

LEMMA RefsInit == Init => RefsInv
  BY IdleRefs DEF Init, RefsInv

-----------------------------------------------------------------------------
(* The inductive invariant.  Snapshot files and chunks only get more: what *)
(* they would be deleted by does not run, or has nothing to do.  So what   *)
(* one process relies on no other one can take away; what is left to see   *)
(* is that every process does its own steps in the right order.            *)

\* All chunks of some archives are in storage.
AllStored(archives) == \A c \in ChunksOf(archives) : Stored(c)

\* Every snapshot file that was ever saved, listed or not, can be restored.
Intact == \A s \in DOMAIN snapshotFiles : AllStored(snapshotFiles[s])

\* The parts that StoreChunk has passed are in storage.
StoreLoop(x) ==
  x.pc = "storeChunk" =>
    /\ \A c \in x.chunks : Stored(c)
    /\ \A i \in 0 .. x.part - 1 : IsThere(x.chunk, i)
    /\ x.part # 0 => x.chunk \in x.todo

\* x is the memory of a process.
OrderInv(x) ==
  /\ x.pc = "deleteChunk" => x.command = "pack"
  /\ x.pc # "storeChunk" => x.part = 0
  /\ Listed(x.repository) \subseteq DOMAIN snapshotFiles
  /\ AllStored(x.archives)
  /\ StoreLoop(x)

KeepInv ==
  /\ TypeInv
  /\ Listed(repositoryFile) \subseteq DOMAIN snapshotFiles
  /\ Intact
  /\ \A p \in Procs : OrderInv(proc[p])

\* What a process has in memory stays right as storage grows.
Grows ==
  /\ DOMAIN snapshotFiles \subseteq DOMAIN snapshotFiles'
  /\ chunkFiles \subseteq chunkFiles'

LEMMA OrderInvStays ==
  ASSUME Grows, NEW q \in Procs, OrderInv(proc[q]), proc'[q] = proc[q]
  PROVE  OrderInv(proc[q])'
  <1>1. /\ \A c, i : IsThere(c, i) => IsThere(c, i)'
        /\ \A c : Stored(c) => Stored(c)'
    BY DEF Grows, Stored, IsThere
  <1>2. /\ AllStored(proc[q].archives)'
        /\ StoreLoop(proc[q])'
    BY <1>1 DEF OrderInv, AllStored, StoreLoop, Grows
  <1> QED
    BY <1>2 DEF OrderInv, Grows

LEMMA IdleOrder == OrderInv(Idle)
  BY DEF Idle, Empty, OrderInv, AllStored, StoreLoop, Listed, ChunksOf

\* One process takes a step to x, and what is in storage only gets more.
LEMMA KeepStep ==
  ASSUME KeepInv, NEW p \in Procs, NEW x, Become(p, x), TypeInv', Grows,
         OrderInv(proc[p])',
         Listed(repositoryFile') \subseteq DOMAIN snapshotFiles',
         Intact'
  PROVE  KeepInv'
  <1>1. \A q \in Procs : q # p => proc'[q] = proc[q]
    BY BecomeProc DEF KeepInv, TypeInv, TypeOK
  <1>2. \A q \in Procs : OrderInv(proc[q])'
    BY <1>1, OrderInvStays DEF KeepInv
  <1> QED
    BY <1>2 DEF KeepInv

\* A step in memory.
LEMMA KeepInMemory ==
  ASSUME KeepInv, NEW p \in Procs, NEW x, Become(p, x), OrderInv(x), TypeInv',
         UNCHANGED <<repositoryFile, snapshotFiles, indexFile, chunkFiles>>
  PROVE  KeepInv'
  <1>1. proc'[p] = x
    BY BecomeProc DEF KeepInv, TypeInv, TypeOK
  <1>2. OrderInv(proc[p])'
    BY <1>1 DEF OrderInv, AllStored, StoreLoop, Stored, IsThere
  <1>3. Grows /\ Listed(repositoryFile') \subseteq DOMAIN snapshotFiles'
    BY DEF KeepInv, Grows
  <1>4. Intact'
    BY DEF KeepInv, Intact, AllStored, Stored, IsThere
  <1> QED
    BY <1>2, <1>3, <1>4, KeepStep

LEMMA KeepOfProcess ==
  ASSUME KeepInv, NEW p \in Procs
  PROVE  /\ OrderInv(proc[p])
         /\ proc[p] \in Processes
         /\ StoringOK(proc[p])
         /\ proc[p].repository \in Repositories
         /\ proc[p].archives \in Archives
         /\ proc[p].chunks \in SUBSET Chunks
         /\ proc[p].part \in Nat
  BY ProcessType DEF KeepInv

LEMMA KeepBegin ==
  ASSUME KeepInv, NEW p \in Procs, Begin(p), TypeInv'
  PROVE  KeepInv'
  <1>1. /\ Idle \in Processes
        /\ OrderInv(Idle)
        /\ repositoryFile \in Repositories
        /\ Listed(repositoryFile) \subseteq DOMAIN snapshotFiles
    BY IdleType, IdleOrder DEF KeepInv, TypeInv, TypeOK
  <1>2. ASSUME NEW v \in Volumes, VolumeInit(p, v)
        PROVE  KeepInv'
    <2> DEFINE r == Put(repositoryFile, v, {})
    <2> DEFINE x == [Idle EXCEPT !.pc = "saveRepository", !.command = "volinit",
                                 !.repository = r]
    <2>1. Listed(r) = Listed(repositoryFile)
      BY <1>1, <1>2, PutVolume DEF VolumeInit
    <2>2. Become(p, x)
      BY <1>2 DEF VolumeInit
    <2> HIDE DEF r
    <2>3. OrderInv(x)
      BY <1>1, <2>1 DEF Idle, OrderInv, StoreLoop
    <2> QED
      BY <1>2, <2>2, <2>3, KeepInMemory DEF VolumeInit
  <1>3. ASSUME NEW v \in Volumes, NEW s \in Snapshots,
               NEW shape \in Shapes, Store(p, v, s, shape)
        PROVE  KeepInv'
    <2> DEFINE x == [Idle EXCEPT !.pc = "openIndex", !.command = "store",
                                 !.repository = repositoryFile,
                                 !.volume = v, !.id = s, !.shape = shape]
    <2>1. OrderInv(x)
      BY <1>1 DEF Idle, OrderInv, StoreLoop
    <2> QED
      BY <1>3, <2>1, KeepInMemory DEF Store
  <1>4. ASSUME NEW v \in Volumes, NEW old \in Snapshots, NEW s \in Snapshots,
               NEW shape \in Shapes, Clone(p, v, old, s, shape)
        PROVE  KeepInv'
    <2> DEFINE x == [Idle EXCEPT !.pc = "openIndex", !.command = "clone",
                                 !.repository = repositoryFile,
                                 !.volume = v, !.id = s, !.shape = shape,
                                 !.archives = snapshotFiles[old]]
    <2>1. AllStored(snapshotFiles[old])
      BY <1>4 DEF Clone, KeepInv, Intact
    <2>2. OrderInv(x)
      BY <1>1, <2>1 DEF Idle, OrderInv, StoreLoop
    <2> QED
      BY <1>4, <2>2, KeepInMemory DEF Clone
  <1>5. ASSUME NEW command \in Commands, OpenRepository(p, command)
        PROVE  KeepInv'
    <2> DEFINE x == [Idle EXCEPT !.pc = "openIndex", !.command = command,
                                 !.repository = repositoryFile]
    <2>1. OrderInv(x)
      BY <1>1 DEF Idle, OrderInv, StoreLoop
    <2> QED
      BY <1>5, <2>1, KeepInMemory DEF OpenRepository
  <1> QED
    BY <1>2, <1>3, <1>4, <1>5 DEF Begin

LEMMA KeepOpenChunkIndex ==
  ASSUME KeepInv, NEW p \in Procs, OpenChunkIndex(p), TypeInv'
  PROVE  KeepInv'
  <1>1. OrderInv(proc[p]) /\ proc[p] \in Processes
    BY KeepOfProcess
  <1>2. PICK x : /\ Become(p, x)
                 /\ x.pc \in {"saveReindexed", "opened"}
                 /\ x.command = proc[p].command
                 /\ x.repository = proc[p].repository
                 /\ x.archives = proc[p].archives
                 /\ x.part = proc[p].part
    <2>1. CASE LoadIndex(p)
      <3> DEFINE x == [proc[p] EXCEPT !.pc = "opened", !.index = indexFile]
      <3> WITNESS x
      <3> QED
        BY <1>1, <2>1 DEF LoadIndex, Processes
    <2>2. CASE RebuildIndex(p)
      <3> PICK first \in Firsts(proc[p].repository) :
                 Become(p, [proc[p] EXCEPT
                              !.pc = "saveReindexed",
                              !.index = Reindex(proc[p].repository, first)])
        BY <2>2 DEF RebuildIndex
      <3> DEFINE y == Reindex(proc[p].repository, first)
      <3> DEFINE x == [proc[p] EXCEPT !.pc = "saveReindexed", !.index = y]
      <3>1. Become(p, x)
        BY <2>2 DEF RebuildIndex
      <3> HIDE DEF y
      <3> WITNESS x
      <3> QED
        BY <1>1, <3>1 DEF Processes
    <2>3. CASE SaveReindexed(p)
      <3> DEFINE x == [proc[p] EXCEPT !.pc = "opened"]
      <3> WITNESS x
      <3> QED
        BY <1>1, <2>3 DEF SaveReindexed, Processes
    <2> QED
      BY <2>1, <2>2, <2>3 DEF OpenChunkIndex
  <1>3. proc[p].pc \in {"openIndex", "saveReindexed"}
    BY DEF OpenChunkIndex, LoadIndex, RebuildIndex, SaveReindexed, At
  <1>4. UNCHANGED <<repositoryFile, snapshotFiles, chunkFiles>>
    BY DEF OpenChunkIndex, LoadIndex, RebuildIndex, SaveReindexed
  <1>5. proc'[p] = x
    BY <1>2, BecomeProc DEF KeepInv, TypeInv, TypeOK
  <1>6. OrderInv(proc[p])'
    BY <1>1, <1>2, <1>3, <1>4, <1>5 DEF OrderInv, AllStored, StoreLoop, Stored, IsThere
  <1>7. Grows /\ Listed(repositoryFile') \subseteq DOMAIN snapshotFiles' /\ Intact'
    BY <1>4 DEF KeepInv, Grows, Intact, AllStored, Stored, IsThere
  <1> QED
    BY <1>2, <1>6, <1>7, KeepStep

LEMMA KeepAdd ==
  ASSUME KeepInv, NEW p \in Procs, Add(p), TypeInv'
  PROVE  KeepInv'
  <1>1. /\ OrderInv(proc[p])
        /\ proc[p] \in Processes
        /\ StoringOK(proc[p])
        /\ proc[p].archives \in Archives
        /\ proc[p].chunks \in SUBSET Chunks
        /\ proc[p].part \in Nat
    BY KeepOfProcess
  <1>3. ASSUME NEW f \in Paths, NEW hashes \in SUBSET Hashes,
               BeginArchive(p, f, hashes)
        PROVE  KeepInv'
    <2> DEFINE x == [proc[p] EXCEPT !.pc = "storeChunk", !.path = f,
                                    !.chunks = {},
                                    !.todo = [hash : hashes, shape : {proc[p].shape}]]
    <2>1. Become(p, x) /\ proc[p].part = 0
      BY <1>1, <1>3 DEF BeginArchive, At, OrderInv
    <2>2. /\ x.pc = "storeChunk" /\ x.command = proc[p].command
          /\ x.repository = proc[p].repository
          /\ x.archives = proc[p].archives /\ x.chunks = {} /\ x.part = 0
      BY <1>1, <2>1 DEF Processes
    <2> HIDE DEF x
    <2>3. OrderInv(x)
      BY <1>1, <2>2 DEF OrderInv, StoreLoop
    <2> QED
      BY <1>3, <2>1, <2>3, KeepInMemory DEF BeginArchive
  <1>4. ASSUME NEW c \in Chunks, NEW b \in Backends, StoreChunk(p, c, b)
        PROVE  KeepInv'
    <2> DEFINE cs == proc[p].chunks \cup (IF LastPart(p, c) THEN {c} ELSE {})
    <2> DEFINE x == [NextPart(p, c) EXCEPT !.chunks = cs]
    <2>1. /\ proc[p].pc = "storeChunk" /\ c \in proc[p].todo
          /\ proc[p].part # 0 => c = proc[p].chunk
          /\ \A d \in proc[p].chunks : Stored(d)
          /\ \A i \in 0 .. proc[p].part - 1 : IsThere(proc[p].chunk, i)
      BY <1>1, <1>4 DEF StoreChunk, IsNextChunk, At, OrderInv, StoreLoop
    <2>2. UNCHANGED <<repositoryFile, snapshotFiles, indexFile>>
      BY <1>4 DEF StoreChunk
    <2>3. chunkFiles' = chunkFiles \cup {PartFile(c, proc[p].part, b)}
      BY <1>4 DEF StoreChunk
    <2>4. \A d : Stored(d) => Stored(d)'
      BY <2>3 DEF Stored, IsThere
    <2>5. \A i \in 0 .. proc[p].part : IsIn(c, i, chunkFiles')
      <3>1. \A i \in 0 .. proc[p].part : i \in 0 .. proc[p].part - 1 \/ i = proc[p].part
        BY <1>1
      <3>2. \A i \in 0 .. proc[p].part - 1 : proc[p].part # 0
        BY <1>1
      <3>3. IsIn(c, proc[p].part, chunkFiles')
        BY <2>3 DEF IsIn
      <3>4. \A i \in 0 .. proc[p].part - 1 : IsIn(c, i, chunkFiles')
        BY <2>1, <2>3, <3>2 DEF IsThere, IsIn
      <3> QED
        BY <3>1, <3>3, <3>4
    <2>6. LastPart(p, c) => Stored(c)'
      <3>1. LastPart(p, c) => Parts(c) = 0 .. proc[p].part
        BY <1>1, ChunkSize DEF Parts, LastPart
      <3> QED
        BY <2>5, <3>1 DEF Stored, IsThere, IsIn
    <2>7. Become(p, x) /\ proc'[p] = x
      BY <1>4, BecomeProc DEF StoreChunk, KeepInv, TypeInv, TypeOK
    <2>8. NextPart(p, c) \in Processes
      BY <1>4, NextPartType DEF KeepInv, StoreChunk
    <2>9. /\ x.pc = "storeChunk" /\ x.command = proc[p].command
          /\ x.repository = proc[p].repository
          /\ x.archives = proc[p].archives /\ x.chunks = cs
          /\ LastPart(p, c) => x.part = 0
          /\ ~LastPart(p, c) => /\ x.part = proc[p].part + 1
                             /\ x.chunk = c
                             /\ x.todo = proc[p].todo
      BY <1>1, <2>1, <2>8, NextPartFields DEF Processes
    <2>10. \A d \in cs : Stored(d)'
      BY <2>1, <2>4, <2>6
    <2> HIDE DEF cs, x
    <2>11. \A i \in 0 .. x.part - 1 : IsIn(x.chunk, i, chunkFiles')
      <3>1. x.part # 0 => x.chunk = c /\ 0 .. x.part - 1 = 0 .. proc[p].part
        BY <1>1, <2>9
      <3>2. x.part = 0 => 0 .. x.part - 1 = {}
        OBVIOUS
      <3> QED
        BY <2>5, <3>1, <3>2
    <2>12. StoreLoop(proc[p])' /\ AllStored(proc[p].archives)'
      BY <1>1, <2>1, <2>4, <2>7, <2>9, <2>10, <2>11
         DEF StoreLoop, AllStored, OrderInv, IsThere, IsIn
    <2>13. OrderInv(proc[p])'
      BY <1>1, <2>2, <2>7, <2>9, <2>12 DEF OrderInv
    <2>14. Grows /\ Listed(repositoryFile') \subseteq DOMAIN snapshotFiles' /\ Intact'
      BY <2>2, <2>3, <2>4 DEF KeepInv, Grows, Intact, AllStored
    <2> QED
      BY <2>7, <2>13, <2>14, KeepStep
  <1>5. ASSUME NEW c \in Chunks, StoreChunkFails(p, c)
        PROVE  KeepInv'
    <2> DEFINE x == [proc[p] EXCEPT !.todo = proc[p].todo \ {c},
                                    !.chunk = None, !.part = 0]
    <2>1. Become(p, x) /\ proc[p].pc = "storeChunk"
      BY <1>5 DEF StoreChunkFails, At
    <2>2. /\ x.pc = "storeChunk" /\ x.command = proc[p].command
          /\ x.repository = proc[p].repository
          /\ x.archives = proc[p].archives
          /\ x.chunks = proc[p].chunks /\ x.part = 0
      BY <1>1, <2>1 DEF Processes
    <2> HIDE DEF x
    <2>3. OrderInv(x)
      BY <1>1, <2>1, <2>2 DEF OrderInv, StoreLoop
    <2> QED
      BY <1>5, <2>1, <2>3, KeepInMemory DEF StoreChunkFails
  <1>6. CASE AddArchive(p)
    <2> DEFINE a == Put(proc[p].archives, proc[p].path, proc[p].chunks)
    <2> DEFINE y == IndexArchive(proc[p].index, proc[p].chunks, proc[p].id)
    <2> DEFINE x == [proc[p] EXCEPT !.pc = "opened", !.archives = a, !.index = y,
                                    !.path = None, !.chunks = {}]
    <2>1. /\ proc[p].path \in Paths
          /\ \A d \in proc[p].chunks : Stored(d)
          /\ proc[p].todo = {}
      BY <1>1, <1>6 DEF AddArchive, At, OrderInv, StoreLoop, StoringOK
    <2>2. ChunksOf(a) \subseteq ChunksOf(proc[p].archives) \cup proc[p].chunks
      BY <1>1, <2>1, PutArchive
    <2>3. AllStored(a)
      BY <1>1, <2>1, <2>2 DEF OrderInv, AllStored
    <2>4. Become(p, x)
      BY <1>6 DEF AddArchive
    <2> HIDE DEF a, y
    <2>5. /\ x.pc = "opened" /\ x.command = proc[p].command
          /\ x.repository = proc[p].repository
          /\ x.archives = a /\ x.part = proc[p].part
      BY <1>1 DEF Processes
    <2> HIDE DEF x
    <2>6. x.part = 0
      BY <1>1, <1>6, <2>5 DEF AddArchive, At, OrderInv, StoreLoop
    <2>7. OrderInv(x)
      BY <1>1, <2>3, <2>5, <2>6 DEF OrderInv, StoreLoop
    <2> QED
      BY <1>6, <2>4, <2>7, KeepInMemory DEF AddArchive
  <1>7. CASE EndTargets(p)
    <2> DEFINE x == [proc[p] EXCEPT !.pc = "saveSnapshot"]
    <2>1. Become(p, x) /\ proc[p].part = 0
      BY <1>1, <1>7 DEF EndTargets, At, OrderInv
    <2>2. /\ x.pc = "saveSnapshot" /\ x.command = proc[p].command
          /\ x.repository = proc[p].repository
          /\ x.archives = proc[p].archives /\ x.part = 0
      BY <1>1, <2>1 DEF Processes
    <2> HIDE DEF x
    <2>3. OrderInv(x)
      BY <1>1, <2>2 DEF OrderInv, StoreLoop
    <2> QED
      BY <1>7, <2>1, <2>3, KeepInMemory DEF EndTargets
  <1> QED
    BY <1>3, <1>4, <1>5, <1>6, <1>7 DEF Add

LEMMA KeepRemove ==
  ASSUME KeepInv, NEW p \in Procs, Remove(p), TypeInv'
  PROVE  KeepInv'
  <1>1. /\ OrderInv(proc[p])
        /\ proc[p] \in Processes
        /\ proc[p].repository \in Repositories
    BY KeepOfProcess
  <1>2. proc[p].pc = "opened" /\ proc[p].part = 0
    BY <1>1 DEF Remove, BeginRemove, BeginVolumeRemove, RemoveNotFound, At, OrderInv
  <1>3. ASSUME NEW s \in Snapshots, BeginRemove(p, s)
        PROVE  KeepInv'
    <2> DEFINE r == RemoveSnapshot(proc[p].repository, s)
    <2> DEFINE y == IndexRemove(proc[p].index, {s})
    <2> DEFINE x == [proc[p] EXCEPT !.pc = "saveIndex", !.repository = r, !.index = y]
    <2>1. Listed(r) \subseteq Listed(proc[p].repository)
      BY <1>1, RemoveSnapshotListed
    <2>2. Become(p, x)
      BY <1>3 DEF BeginRemove
    <2> HIDE DEF r, y
    <2>3. /\ x.pc = "saveIndex" /\ x.command = proc[p].command
          /\ x.repository = r /\ x.archives = proc[p].archives /\ x.part = 0
      BY <1>1, <1>2 DEF Processes
    <2> HIDE DEF x
    <2>4. OrderInv(x)
      BY <1>1, <2>1, <2>3 DEF OrderInv, StoreLoop
    <2> QED
      BY <1>3, <2>2, <2>4, KeepInMemory DEF BeginRemove
  <1>4. ASSUME NEW v \in Volumes, BeginVolumeRemove(p, v)
        PROVE  KeepInv'
    <2> DEFINE r == RemoveVolume(proc[p].repository, v)
    <2> DEFINE y == IndexRemove(proc[p].index, proc[p].repository[v])
    <2> DEFINE x == [proc[p] EXCEPT !.pc = "saveIndex", !.repository = r, !.index = y]
    <2>1. Listed(r) \subseteq Listed(proc[p].repository)
      BY <1>1, <1>4, RemoveVolumeListed DEF BeginVolumeRemove
    <2>2. Become(p, x)
      BY <1>4 DEF BeginVolumeRemove
    <2> HIDE DEF r, y
    <2>3. /\ x.pc = "saveIndex" /\ x.command = proc[p].command
          /\ x.repository = r /\ x.archives = proc[p].archives /\ x.part = 0
      BY <1>1, <1>2 DEF Processes
    <2> HIDE DEF x
    <2>4. OrderInv(x)
      BY <1>1, <2>1, <2>3 DEF OrderInv, StoreLoop
    <2> QED
      BY <1>4, <2>2, <2>4, KeepInMemory DEF BeginVolumeRemove
  <1>5. CASE RemoveNotFound(p)
    BY <1>5, IdleOrder, KeepInMemory DEF RemoveNotFound, Return
  <1> QED
    BY <1>3, <1>4, <1>5 DEF Remove

LEMMA KeepSave ==
  ASSUME KeepInv, NEW p \in Procs, Save(p), TypeInv'
  PROVE  KeepInv'
  <1>1. /\ OrderInv(proc[p])
        /\ proc[p] \in Processes
        /\ StoringOK(proc[p])
        /\ proc[p].repository \in Repositories
        /\ proc[p].archives \in Archives
    BY KeepOfProcess
  <1>2. \A c : UNCHANGED chunkFiles => (Stored(c)' <=> Stored(c))
    BY DEF Stored, IsThere
  <1>3. CASE SaveSnapshot(p)
    <2> DEFINE s == proc[p].id
    <2> DEFINE v == proc[p].volume
    <2> DEFINE a == proc[p].archives
    <2> DEFINE r == AddSnapshot(proc[p].repository, v, s)
    <2> DEFINE x == [proc[p] EXCEPT !.pc = "saveIndex", !.repository = r]
    <2>1. /\ s \in Snapshots /\ v \in DOMAIN proc[p].repository
          /\ proc[p].part = 0
      BY <1>1, <1>3 DEF SaveSnapshot, At, OrderInv, StoringOK
    <2>2. Listed(r) = Listed(proc[p].repository) \cup {s}
      BY <1>1, <2>1, AddSnapshotListed
    <2>3. Become(p, x) /\ proc'[p] = x
      BY <1>3, BecomeProc DEF SaveSnapshot, KeepInv, TypeInv, TypeOK
    <2>4. /\ UNCHANGED <<repositoryFile, indexFile, chunkFiles>>
          /\ snapshotFiles' = Put(snapshotFiles, s, a)
      BY <1>3 DEF SaveSnapshot
    <2> HIDE DEF s, a, r
    <2>5. /\ DOMAIN snapshotFiles' = DOMAIN snapshotFiles \cup {s}
          /\ snapshotFiles'[s] = a
          /\ \A t \in DOMAIN snapshotFiles : t # s => snapshotFiles'[t] = snapshotFiles[t]
      BY <2>4 DEF Put
    <2>6. /\ x.pc = "saveIndex" /\ x.command = proc[p].command
          /\ x.repository = r /\ x.archives = a /\ x.part = 0
      BY <1>1, <2>1 DEF Processes, a
    <2> HIDE DEF x
    <2>7. \A c \in ChunksOf(a) : Stored(c)'
      BY <1>1, <1>2, <2>4 DEF OrderInv, AllStored, a
    <2>8. OrderInv(proc[p])'
      BY <1>1, <2>2, <2>3, <2>5, <2>6, <2>7 DEF OrderInv, AllStored, StoreLoop
    <2>9. Grows /\ Listed(repositoryFile') \subseteq DOMAIN snapshotFiles'
      BY <2>4, <2>5 DEF KeepInv, Grows
    <2>10. Intact'
      BY <1>2, <2>4, <2>5, <2>7 DEF KeepInv, Intact, AllStored
    <2> QED
      BY <2>3, <2>8, <2>9, <2>10, KeepStep
  <1>4. CASE SaveIndex(p)
    <2> DEFINE y == [proc[p] EXCEPT !.pc = "saveRepository"]
    <2>1. PICK x \in {y, Idle} : Become(p, x)
      BY <1>4 DEF SaveIndex, Return
    <2>2. proc'[p] = x
      BY <2>1, BecomeProc DEF KeepInv, TypeInv, TypeOK
    <2>3. OrderInv(x)
      <3>1. /\ y.pc = "saveRepository" /\ y.part = 0
            /\ y.repository = proc[p].repository /\ y.archives = proc[p].archives
        BY <1>1, <1>4 DEF SaveIndex, At, OrderInv, Processes
      <3> HIDE DEF y
      <3>2. OrderInv(y)
        BY <1>1, <3>1 DEF OrderInv, StoreLoop
      <3> QED
        BY <3>2, IdleOrder
    <2> HIDE DEF y
    <2>4. UNCHANGED <<repositoryFile, snapshotFiles, chunkFiles>>
      BY <1>4 DEF SaveIndex
    <2>5. OrderInv(proc[p])'
      BY <1>2, <2>2, <2>3, <2>4 DEF OrderInv, AllStored, StoreLoop, IsThere
    <2>6. Grows /\ Listed(repositoryFile') \subseteq DOMAIN snapshotFiles' /\ Intact'
      BY <1>2, <2>4 DEF KeepInv, Grows, Intact, AllStored
    <2> QED
      BY <2>1, <2>5, <2>6, KeepStep
  <1>5. CASE SaveRepository(p)
    <2>1. Become(p, Idle) /\ proc'[p] = Idle
      BY <1>5, BecomeProc DEF SaveRepository, Return, KeepInv, TypeInv, TypeOK
    <2>2. /\ UNCHANGED <<snapshotFiles, chunkFiles>>
          /\ repositoryFile' = proc[p].repository
      BY <1>5 DEF SaveRepository
    <2>3. OrderInv(proc[p])'
      BY <1>2, <2>1, <2>2, IdleOrder DEF OrderInv, AllStored, StoreLoop, IsThere
    <2>4. Grows /\ Listed(repositoryFile') \subseteq DOMAIN snapshotFiles' /\ Intact'
      BY <1>1, <1>2, <2>2 DEF KeepInv, OrderInv, Grows, Intact, AllStored
    <2> QED
      BY <2>1, <2>3, <2>4, KeepStep
  <1> QED
    BY <1>3, <1>4, <1>5 DEF Save

\* A pack that has nothing to delete deletes nothing.
LEMMA KeepPack ==
  ASSUME KeepInv, RefsInv, NEW p \in Procs, Pack(p), TypeInv'
  PROVE  KeepInv'
  <1>1. OrderInv(proc[p]) /\ proc[p] \in Processes /\ RefInv(proc[p])
    BY KeepOfProcess DEF RefsInv
  <1>2. ASSUME NEW c \in Chunks,
               (\E b \in Backends : DeleteChunk(p, c, b)) \/ DeleteChunkFails(p, c)
        PROVE  FALSE
    BY <1>1, <1>2 DEF DeleteChunk, DeleteChunkFails, IsNextChunk, At, RefInv
  <1>3. CASE BeginPack(p)
    <2> DEFINE x == [proc[p] EXCEPT !.pc = "deleteChunk",
                                    !.todo = ToDelete(proc[p].index)]
    <2>1. Become(p, x) /\ proc[p].pc = "opened" /\ proc[p].command = "pack"
      BY <1>3 DEF BeginPack, At
    <2>2. /\ x.pc = "deleteChunk" /\ x.command = "pack" /\ x.part = 0
          /\ x.repository = proc[p].repository /\ x.archives = proc[p].archives
      BY <1>1, <2>1 DEF Processes, OrderInv
    <2> HIDE DEF x
    <2>3. OrderInv(x)
      BY <1>1, <2>2 DEF OrderInv, StoreLoop
    <2> QED
      BY <1>3, <2>1, <2>3, KeepInMemory DEF BeginPack
  <1>4. CASE EndPack(p)
    <2> DEFINE y == Restrict(proc[p].index,
                             DOMAIN proc[p].index \ Unreferenced(proc[p].index))
               x == [proc[p] EXCEPT !.pc = "saveIndex", !.index = y]
    <2>1. Become(p, x) /\ proc[p].pc = "deleteChunk"
      BY <1>4 DEF EndPack, At
    <2> HIDE DEF y
    <2>2. /\ x.pc = "saveIndex" /\ x.part = 0
          /\ x.repository = proc[p].repository /\ x.archives = proc[p].archives
      BY <1>1, <2>1 DEF Processes, OrderInv
    <2> HIDE DEF x
    <2>3. OrderInv(x)
      BY <1>1, <2>2 DEF OrderInv, StoreLoop
    <2> QED
      BY <1>4, <2>1, <2>3, KeepInMemory DEF EndPack
  <1> QED
    BY <1>2, <1>3, <1>4 DEF Pack

\* Who packs is among those who may.
LEMMA WhoPacks ==
  ASSUME TypeInv, NEW p \in Procs, Pack(p), "pack" \notin Commands, OrderInv(proc[p])
  PROVE  FALSE
  <1>1. proc[p].command \in Commands \cup {None}
    BY ProcessType DEF Processes
  <1>2. proc[p].command # "pack"
    BY <1>1, ConstantsOK DEF CommandNames
  <1> QED
    BY <1>2 DEF Pack, BeginPack, DeleteChunk, DeleteChunkFails, EndPack, At, OrderInv

LEMMA KeepNext ==
  ASSUME "pack" \notin Commands \/ NoRemoval
  PROVE  KeepInv /\ (NoRemoval => RefsInv) /\ [Next]_vars => KeepInv'
  <1> SUFFICES ASSUME KeepInv, NoRemoval => RefsInv, [Next]_vars
               PROVE  KeepInv'
    OBVIOUS
  <1>1. TypeInv'
    BY NextType DEF KeepInv
  <1>2. CASE Next
    <2> PICK p \in Procs : Step(p)
      BY <1>2 DEF Next
    <2>1. CASE Pack(p)
      <3>1. NoRemoval
        BY <2>1, WhoPacks DEF KeepInv
      <3> QED
        BY <1>1, <2>1, <3>1, KeepPack
    <2>2. CASE Abort(p)
      BY <1>1, <2>2, IdleOrder, KeepInMemory DEF Abort, Return
    <2> QED
      BY <1>1, <2>1, <2>2, KeepBegin, KeepOpenChunkIndex, KeepAdd,
         KeepRemove, KeepSave DEF Step
  <1>3. CASE UNCHANGED vars
    BY <1>1, <1>3 DEF vars, KeepInv, Intact, OrderInv, AllStored, StoreLoop, Stored, IsThere
  <1> QED
    BY <1>2, <1>3

LEMMA KeepInit == Init => KeepInv
  <1> SUFFICES ASSUME Init
               PROVE  KeepInv
    OBVIOUS
  <1>1. Listed(repositoryFile) = {}
    BY DEF Init, Empty, Listed
  <1>2. Intact
    BY DEF Init, Empty, Intact
  <1> QED
    BY <1>1, <1>2, InitType, IdleOrder DEF Init, KeepInv

LEMMA KeepInvariant ==
  ASSUME "pack" \notin Commands \/ NoRemoval
  PROVE  Spec => []KeepInv
  <1>1. CASE NoRemoval
    <2>1. KeepInv /\ RefsInv /\ [Next]_vars => KeepInv' /\ RefsInv'
      BY <1>1, KeepNext, RefsNext DEF KeepInv
    <2> QED
      BY <2>1, KeepInit, RefsInit, PTL DEF Spec
  <1>2. CASE ~NoRemoval
    <2>1. KeepInv /\ [Next]_vars => KeepInv'
      BY <1>2, KeepNext
    <2> QED
      BY <2>1, KeepInit, PTL DEF Spec
  <1> QED
    BY <1>1, <1>2

LEMMA KeptIsRecoverable == KeepInv => Recoverable
  BY DEF KeepInv, Recoverable, Used, Intact, AllStored

-----------------------------------------------------------------------------
(* Snapshot files are written once, whatever runs.                         *)

MakesSnapshot(x) == x.command \in {"store", "clone"}

\* x is the memory of a process that has not saved its snapshot.
Unsaved(x) ==
  /\ MakesSnapshot(x)
  /\ x.pc \in {"openIndex", "saveReindexed", "opened", "storeChunk", "saveSnapshot"}

IdInv ==
  /\ \A p \in Procs : Unsaved(proc[p]) => proc[p].id \notin DOMAIN snapshotFiles
  /\ \A p, q \in Procs :
       MakesSnapshot(proc[p]) /\ MakesSnapshot(proc[q]) /\ p # q => proc[p].id # proc[q].id

\* A process that goes on, or has nothing to do with new snapshots.
LEMMA IdStep ==
  ASSUME TypeInv, IdInv, NEW p \in Procs, NEW x, Become(p, x), snapshotFiles' = snapshotFiles,
         \/ ~MakesSnapshot(x)
         \/ x.command = proc[p].command /\ x.id = proc[p].id /\ (Unsaved(x) => Unsaved(proc[p]))
  PROVE  IdInv'
  <1>1. \A q \in Procs : proc'[q] = IF q = p THEN x ELSE proc[q]
    BY BecomeProc DEF TypeInv, TypeOK
  <1>2. ASSUME NEW q \in Procs, MakesSnapshot(proc'[q])
        PROVE  /\ MakesSnapshot(proc[q]) /\ proc'[q].id = proc[q].id
               /\ Unsaved(proc'[q]) => Unsaved(proc[q])
    BY <1>1, <1>2 DEF MakesSnapshot
  <1>3. \A q \in Procs : Unsaved(proc'[q]) => proc'[q].id \notin DOMAIN snapshotFiles
    BY <1>2 DEF IdInv, Unsaved
  <1>4. \A q, r \in Procs :
          MakesSnapshot(proc'[q]) /\ MakesSnapshot(proc'[r]) /\ q # r => proc'[q].id # proc'[r].id
    BY <1>2 DEF IdInv
  <1> QED
    BY <1>3, <1>4 DEF IdInv, Unsaved, MakesSnapshot

\* A process that gets the id of a new snapshot.
LEMMA IdNew ==
  ASSUME TypeInv, IdInv, NEW p \in Procs, NEW x, Become(p, x), snapshotFiles' = snapshotFiles,
         Fresh(x.id)
  PROVE  IdInv'
  <1>1. \A q \in Procs : proc'[q] = IF q = p THEN x ELSE proc[q]
    BY BecomeProc DEF TypeInv, TypeOK
  <1>2. \A q \in Procs : Unsaved(proc'[q]) => proc'[q].id \notin DOMAIN snapshotFiles
    BY <1>1 DEF IdInv, Fresh
  <1>3. \A q, r \in Procs :
          MakesSnapshot(proc'[q]) /\ MakesSnapshot(proc'[r]) /\ q # r => proc'[q].id # proc'[r].id
    BY <1>1 DEF IdInv, Fresh
  <1> QED
    BY <1>2, <1>3 DEF IdInv, Unsaved, MakesSnapshot

LEMMA IdIdle == ~MakesSnapshot(Idle)
  BY ConstantsOK DEF Idle, MakesSnapshot, CommandNames

LEMMA IdBegin ==
  ASSUME TypeInv, IdInv, NEW p \in Procs, Begin(p)
  PROVE  IdInv'
  <1>0. snapshotFiles' = snapshotFiles
    BY DEF Begin, VolumeInit, Store, Clone, OpenRepository
  <1>1. ASSUME NEW v \in Volumes, VolumeInit(p, v)
        PROVE  IdInv'
    <2> DEFINE x == [Idle EXCEPT !.pc = "saveRepository", !.command = "volinit",
                                 !.repository = Put(repositoryFile, v, {})]
    <2>1. Become(p, x)
      BY <1>1 DEF VolumeInit
    <2>2. ~MakesSnapshot(x)
      BY DEF Idle, MakesSnapshot
    <2> HIDE DEF x
    <2> QED
      BY <1>0, <2>1, <2>2, IdStep
  <1>2. ASSUME NEW v \in Volumes, NEW s \in Snapshots,
               NEW shape \in Shapes, Store(p, v, s, shape)
        PROVE  IdInv'
    <2> DEFINE x == [Idle EXCEPT !.pc = "openIndex", !.command = "store",
                                 !.repository = repositoryFile, !.volume = v, !.id = s, !.shape = shape]
    <2>1. Become(p, x) /\ Fresh(s)
      BY <1>2 DEF Store
    <2>2. x.id = s
      BY DEF Idle
    <2> HIDE DEF x
    <2> QED
      BY <1>0, <2>1, <2>2, IdNew
  <1>3. ASSUME NEW v \in Volumes, NEW old \in Snapshots, NEW s \in Snapshots,
               NEW shape \in Shapes, Clone(p, v, old, s, shape)
        PROVE  IdInv'
    <2> DEFINE x == [Idle EXCEPT !.pc = "openIndex", !.command = "clone",
                                 !.repository = repositoryFile, !.volume = v, !.id = s, !.shape = shape,
                                 !.archives = snapshotFiles[old]]
    <2>1. Become(p, x) /\ Fresh(s)
      BY <1>3 DEF Clone
    <2>2. x.id = s
      BY DEF Idle
    <2> HIDE DEF x
    <2> QED
      BY <1>0, <2>1, <2>2, IdNew
  <1>4. ASSUME NEW command \in Commands, OpenRepository(p, command)
        PROVE  IdInv'
    <2> DEFINE x == [Idle EXCEPT !.pc = "openIndex", !.command = command,
                                 !.repository = repositoryFile]
    <2>1. Become(p, x) /\ command \in {"remove", "volremove", "pack"}
      BY <1>4 DEF OpenRepository
    <2>2. ~MakesSnapshot(x)
      BY <2>1 DEF Idle, MakesSnapshot
    <2> HIDE DEF x
    <2> QED
      BY <1>0, <2>1, <2>2, IdStep
  <1> QED
    BY <1>1, <1>2, <1>3, <1>4 DEF Begin

\* From then on a command keeps its id, and its place before or behind its save.
LEMMA IdGoesOn ==
  ASSUME TypeInv, IdInv, NEW p \in Procs,
         OpenChunkIndex(p) \/ Add(p) \/ Remove(p) \/ Pack(p) \/ SaveIndex(p)
           \/ SaveRepository(p) \/ Abort(p)
  PROVE  IdInv'
  <1>1. proc[p] \in Processes
    BY ProcessType
  <1>2. snapshotFiles' = snapshotFiles
    <2>1. OpenChunkIndex(p) \/ Add(p) => snapshotFiles' = snapshotFiles
      BY DEF OpenChunkIndex, LoadIndex, RebuildIndex, SaveReindexed,
             Add, BeginArchive, StoreChunk, StoreChunkFails, AddArchive, EndTargets
    <2>2. Remove(p) \/ Pack(p) => snapshotFiles' = snapshotFiles
      BY DEF Remove, BeginRemove, BeginVolumeRemove, RemoveNotFound,
             Pack, BeginPack, DeleteChunk, DeleteChunkFails, EndPack
    <2>3. SaveIndex(p) \/ SaveRepository(p) \/ Abort(p) => snapshotFiles' = snapshotFiles
      BY DEF SaveIndex, SaveRepository, Abort
    <2> QED
      BY <2>1, <2>2, <2>3
  <1> DEFINE Follows(x) ==
        /\ Become(p, x)
        /\ \/ ~MakesSnapshot(x)
           \/ x.command = proc[p].command /\ x.id = proc[p].id /\ (Unsaved(x) => Unsaved(proc[p]))
  <1>3. ASSUME NEW x, Follows(x)
        PROVE  IdInv'
    BY <1>2, <1>3, IdStep
  <1>4. ASSUME Return(p)
        PROVE  IdInv'
    BY <1>3, <1>4, IdIdle DEF Return
  <1>5. CASE OpenChunkIndex(p)
    <2>1. CASE LoadIndex(p)
      <3> DEFINE x == [proc[p] EXCEPT !.pc = "opened", !.index = indexFile]
      <3>1. Follows(x)
        BY <1>1, <2>1 DEF LoadIndex, At, Processes, Unsaved, MakesSnapshot
      <3> HIDE DEF x, Follows
      <3> QED
        BY <1>3, <3>1
    <2>2. CASE RebuildIndex(p)
      <3> PICK first \in Firsts(proc[p].repository) :
                 Become(p, [proc[p] EXCEPT
                              !.pc = "saveReindexed",
                              !.index = Reindex(proc[p].repository, first)])
        BY <2>2 DEF RebuildIndex
      <3> DEFINE y == Reindex(proc[p].repository, first)
                 x == [proc[p] EXCEPT !.pc = "saveReindexed", !.index = y]
      <3>1. Become(p, x) /\ proc[p].pc = "openIndex"
        BY <2>2 DEF RebuildIndex, At
      <3> HIDE DEF y
      <3>2. Follows(x)
        BY <1>1, <3>1 DEF Processes, Unsaved, MakesSnapshot
      <3> HIDE DEF x, Follows
      <3> QED
        BY <1>3, <3>2
    <2>3. CASE SaveReindexed(p)
      <3> DEFINE x == [proc[p] EXCEPT !.pc = "opened"]
      <3>1. Follows(x)
        BY <1>1, <2>3 DEF SaveReindexed, At, Processes, Unsaved, MakesSnapshot
      <3> HIDE DEF x, Follows
      <3> QED
        BY <1>3, <3>1
    <2> QED
      BY <1>5, <2>1, <2>2, <2>3 DEF OpenChunkIndex
  <1>6. CASE Add(p)
    <2>1. ASSUME NEW f \in Paths, NEW hashes \in SUBSET Hashes, BeginArchive(p, f, hashes)
          PROVE  IdInv'
      <3> DEFINE x == [proc[p] EXCEPT !.pc = "storeChunk", !.path = f,
                                      !.chunks = {},
                                      !.todo = [hash : hashes, shape : {proc[p].shape}]]
      <3>1. Follows(x)
        BY <1>1, <2>1 DEF BeginArchive, At, Processes, Unsaved, MakesSnapshot
      <3> HIDE DEF x, Follows
      <3> QED
        BY <1>3, <3>1
    <2>2. ASSUME NEW c \in Chunks, NEW b \in Backends, StoreChunk(p, c, b)
          PROVE  IdInv'
      <3> DEFINE cs == proc[p].chunks \cup (IF LastPart(p, c) THEN {c} ELSE {})
                 n == NextPart(p, c)
                 x == [n EXCEPT !.chunks = cs]
      <3>1. Become(p, x)
        BY <2>2 DEF StoreChunk
      <3>2. n \in Processes
        BY <2>2, NextPartType DEF StoreChunk
      <3>3. n.pc = proc[p].pc /\ n.command = proc[p].command /\ n.id = proc[p].id
        BY <1>1, NextPartFields
      <3> HIDE DEF n, cs
      <3>4. x.pc = n.pc /\ x.command = n.command /\ x.id = n.id
        BY <3>2, ChunksOnly
      <3> HIDE DEF x
      <3>5. Follows(x)
        BY <3>1, <3>3, <3>4 DEF Unsaved, MakesSnapshot
      <3> HIDE DEF Follows
      <3> QED
        BY <1>3, <3>5
    <2>3. ASSUME NEW c \in Chunks, StoreChunkFails(p, c)
          PROVE  IdInv'
      <3> DEFINE x == [proc[p] EXCEPT !.todo = proc[p].todo \ {c}, !.chunk = None, !.part = 0]
      <3>1. Follows(x)
        BY <1>1, <2>3 DEF StoreChunkFails, Processes, Unsaved, MakesSnapshot
      <3> HIDE DEF x, Follows
      <3> QED
        BY <1>3, <3>1
    <2>4. CASE AddArchive(p)
      <3> DEFINE a == Put(proc[p].archives, proc[p].path, proc[p].chunks)
                 y == IndexArchive(proc[p].index, proc[p].chunks, proc[p].id)
                 x == [proc[p] EXCEPT !.pc = "opened", !.archives = a, !.index = y,
                                      !.path = None, !.chunks = {}]
      <3>1. Become(p, x) /\ proc[p].pc = "storeChunk"
        BY <2>4 DEF AddArchive, At
      <3> HIDE DEF a, y
      <3>2. Follows(x)
        BY <1>1, <3>1 DEF Processes, Unsaved, MakesSnapshot
      <3> HIDE DEF x, Follows
      <3> QED
        BY <1>3, <3>2
    <2>5. CASE EndTargets(p)
      <3> DEFINE x == [proc[p] EXCEPT !.pc = "saveSnapshot"]
      <3>1. Follows(x)
        BY <1>1, <2>5 DEF EndTargets, At, Processes, Unsaved, MakesSnapshot
      <3> HIDE DEF x, Follows
      <3> QED
        BY <1>3, <3>1
    <2> QED
      BY <1>6, <2>1, <2>2, <2>3, <2>4, <2>5 DEF Add
  <1>7. ASSUME NEW x, Become(p, x), x.command = proc[p].command,
               proc[p].command \in {"remove", "volremove", "pack"}
        PROVE  IdInv'
    BY <1>3, <1>7 DEF MakesSnapshot
  <1>8. CASE Remove(p)
    <2>1. ASSUME NEW r, NEW y,
                 Become(p, [proc[p] EXCEPT !.pc = "saveIndex", !.repository = r, !.index = y]),
                 proc[p].command \in {"remove", "volremove"}
          PROVE  IdInv'
      <3> DEFINE x == [proc[p] EXCEPT !.pc = "saveIndex", !.repository = r, !.index = y]
      <3>1. x.command = proc[p].command
        BY <1>1 DEF Processes
      <3>2. Become(p, x)
        BY <2>1
      <3> HIDE DEF x, Follows
      <3> QED
        BY <1>7, <2>1, <3>1, <3>2
    <2>2. ASSUME NEW s \in Snapshots, BeginRemove(p, s)
          PROVE  IdInv'
      BY <2>1, <2>2 DEF BeginRemove
    <2>3. ASSUME NEW v \in Volumes, BeginVolumeRemove(p, v)
          PROVE  IdInv'
      BY <2>1, <2>3 DEF BeginVolumeRemove
    <2>4. CASE RemoveNotFound(p)
      BY <1>4, <2>4 DEF RemoveNotFound
    <2> QED
      BY <1>8, <2>2, <2>3, <2>4 DEF Remove
  <1>9. CASE Pack(p)
    <2>1. CASE BeginPack(p)
      <3> DEFINE x == [proc[p] EXCEPT !.pc = "deleteChunk",
                                      !.todo = ToDelete(proc[p].index)]
      <3>1. x.command = proc[p].command
        BY <1>1 DEF Processes
      <3>2. Become(p, x) /\ proc[p].command = "pack"
        BY <2>1 DEF BeginPack
      <3> HIDE DEF x, Follows
      <3> QED
        BY <1>7, <3>1, <3>2
    <2>2. ASSUME NEW c \in Chunks, NEW b \in Backends, DeleteChunk(p, c, b)
          PROVE  IdInv'
      <3> DEFINE x == NextPart(p, c)
      <3>1. /\ x.command = proc[p].command /\ x.id = proc[p].id /\ x.pc = proc[p].pc
            /\ Become(p, x)
        BY <1>1, <2>2, NextPartFields DEF DeleteChunk
      <3> HIDE DEF x
      <3>2. Follows(x)
        BY <3>1 DEF Unsaved, MakesSnapshot
      <3> HIDE DEF Follows
      <3> QED
        BY <1>3, <3>2
    <2>3. ASSUME NEW c \in Chunks, DeleteChunkFails(p, c)
          PROVE  IdInv'
      BY <1>4, <2>3 DEF DeleteChunkFails
    <2>4. CASE EndPack(p)
      <3> DEFINE y == Restrict(proc[p].index,
                               DOMAIN proc[p].index \ Unreferenced(proc[p].index))
                 x == [proc[p] EXCEPT !.pc = "saveIndex", !.index = y]
      <3>1. Become(p, x)
        BY <2>4 DEF EndPack
      <3> HIDE DEF y
      <3>2. x.command = proc[p].command /\ x.id = proc[p].id /\ x.pc = "saveIndex"
        BY <1>1 DEF Processes
      <3> HIDE DEF x
      <3>3. Follows(x)
        BY <3>1, <3>2 DEF Unsaved
      <3> HIDE DEF Follows
      <3> QED
        BY <1>3, <3>3
    <2> QED
      BY <1>9, <2>1, <2>2, <2>3, <2>4 DEF Pack
  <1>10. CASE SaveIndex(p)
    <2> DEFINE x == [proc[p] EXCEPT !.pc = "saveRepository"]
    <2>1. x.command = proc[p].command /\ x.id = proc[p].id /\ x.pc = "saveRepository"
      BY <1>1 DEF Processes
    <2>2. Become(p, x) \/ Return(p)
      BY <1>10 DEF SaveIndex
    <2> HIDE DEF x
    <2>3. Become(p, x) => Follows(x)
      BY <2>1 DEF Unsaved
    <2> HIDE DEF Follows
    <2> QED
      BY <1>3, <1>4, <2>2, <2>3
  <1>11. CASE SaveRepository(p) \/ Abort(p)
    BY <1>4, <1>11 DEF SaveRepository, Abort
  <1> QED
    BY <1>5, <1>6, <1>8, <1>9, <1>10, <1>11

LEMMA IdSaveSnapshot ==
  ASSUME TypeInv, IdInv, NEW p \in Procs, SaveSnapshot(p)
  PROVE  /\ IdInv'
         /\ \A s \in DOMAIN snapshotFiles :
              s \in DOMAIN snapshotFiles' /\ snapshotFiles'[s] = snapshotFiles[s]
  <1>1. /\ proc[p] \in Processes /\ Unsaved(proc[p])
        /\ snapshotFiles' = Put(snapshotFiles, proc[p].id, proc[p].archives)
    BY ProcessType DEF SaveSnapshot, At, StoringOK, Unsaved, MakesSnapshot
  <1>2. proc[p].id \notin DOMAIN snapshotFiles
    BY <1>1 DEF IdInv
  <1> DEFINE r == AddSnapshot(proc[p].repository, proc[p].volume, proc[p].id)
             x == [proc[p] EXCEPT !.pc = "saveIndex", !.repository = r]
  <1>3. Become(p, x)
    BY DEF SaveSnapshot
  <1> HIDE DEF r
  <1>4. x.command = proc[p].command /\ x.id = proc[p].id /\ x.pc = "saveIndex"
    BY <1>1 DEF Processes
  <1> HIDE DEF x
  <1>5. \A q \in Procs : proc'[q] = IF q = p THEN x ELSE proc[q]
    BY <1>3, BecomeProc DEF TypeInv, TypeOK
  <1>6. DOMAIN snapshotFiles' = DOMAIN snapshotFiles \cup {proc[p].id}
    BY <1>1 DEF Put
  <1>7. ASSUME NEW q \in Procs, MakesSnapshot(proc'[q])
        PROVE  /\ MakesSnapshot(proc[q]) /\ proc'[q].id = proc[q].id
               /\ Unsaved(proc'[q]) => q # p /\ Unsaved(proc[q])
    BY <1>4, <1>5, <1>7 DEF MakesSnapshot, Unsaved
  <1>8. \A q \in Procs : Unsaved(proc'[q]) => proc'[q].id \notin DOMAIN snapshotFiles'
    BY <1>1, <1>6, <1>7 DEF IdInv, Unsaved
  <1>9. \A q, s \in Procs :
          MakesSnapshot(proc'[q]) /\ MakesSnapshot(proc'[s]) /\ q # s => proc'[q].id # proc'[s].id
    BY <1>7 DEF IdInv
  <1>10. IdInv'
    BY <1>8, <1>9 DEF IdInv, Unsaved, MakesSnapshot
  <1> QED
    BY <1>1, <1>2, <1>6, <1>10 DEF Put

\* No step takes a snapshot file away or writes it again.
LEMMA IdNext ==
  ASSUME TypeInv, IdInv, [Next]_vars
  PROVE  /\ IdInv'
         /\ \A s \in DOMAIN snapshotFiles :
              s \in DOMAIN snapshotFiles' /\ snapshotFiles'[s] = snapshotFiles[s]
  <1>1. CASE Next
    <2> PICK p \in Procs : Step(p)
      BY <1>1 DEF Next
    <2>1. CASE SaveSnapshot(p)
      BY <2>1, IdSaveSnapshot
    <2>2. CASE ~SaveSnapshot(p)
      <3>1. IdInv'
        BY <2>2, IdBegin, IdGoesOn DEF Step, Save
      <3>2. snapshotFiles' = snapshotFiles
        <4>1. Begin(p) \/ OpenChunkIndex(p) => snapshotFiles' = snapshotFiles
          BY DEF Begin, VolumeInit, Store, Clone, OpenRepository,
                 OpenChunkIndex, LoadIndex, RebuildIndex, SaveReindexed
        <4>2. Add(p) \/ Remove(p) => snapshotFiles' = snapshotFiles
          BY DEF Add, BeginArchive, StoreChunk, StoreChunkFails, AddArchive, EndTargets,
                 Remove, BeginRemove, BeginVolumeRemove, RemoveNotFound
        <4>3. Pack(p) \/ Abort(p) => snapshotFiles' = snapshotFiles
          BY DEF Pack, BeginPack, DeleteChunk, DeleteChunkFails, EndPack, Abort
        <4>4. Save(p) => snapshotFiles' = snapshotFiles
          BY <2>2 DEF Save, SaveIndex, SaveRepository
        <4> QED
          BY <4>1, <4>2, <4>3, <4>4 DEF Step
      <3> QED
        BY <3>1, <3>2
    <2> QED
      BY <2>1, <2>2
  <1>2. CASE UNCHANGED vars
    BY <1>2 DEF vars, IdInv, Unsaved, MakesSnapshot
  <1> QED
    BY <1>1, <1>2

LEMMA IdInit == Init => IdInv
  BY IdIdle DEF Init, IdInv, Unsaved

-----------------------------------------------------------------------------
(* Results.                                                                *)

\* Without repo pack, every snapshot that the repository file lists can be
\* restored, however many processes run whatever other commands at the same
\* time, clones among them, and wherever they end: losing a concurrent update
\* of the repository file or of the index may lose a snapshot from the list,
\* but damages none.
THEOREM NoPackStaysRecoverable ==
  ASSUME "pack" \notin Commands
  PROVE  Spec => []Recoverable
  BY KeepInvariant, KeptIsRecoverable, PTL

\* Without removals the same holds, with packs at any time: an update of the
\* chunk-index that is lost to a concurrent one takes entries with it, or
\* references beside others, but leaves no entry without any for Pack to delete.
THEOREM NoRemovalStaysRecoverable ==
  ASSUME NoRemoval
  PROVE  Spec => []Recoverable
  BY KeepInvariant, KeptIsRecoverable, PTL

\* Without removals a pack, whatever runs at the same time, deletes no chunk of a
\* listed snapshot; it deletes none at all.
THEOREM NoRemovalPackIsSafe ==
  ASSUME NoRemoval
  PROVE  Spec => OnlyUnreferencedDeleted
  <1>1. ASSUME TypeInv, RefsInv, [Next]_vars
        PROVE  chunkFiles \ chunkFiles' = {}
    <2>1. ASSUME NEW p \in Procs, NEW c \in Chunks, NEW b \in Backends, DeleteChunk(p, c, b)
          PROVE  FALSE
      BY <1>1, <2>1 DEF DeleteChunk, IsNextChunk, At, RefsInv, RefInv
    <2> QED
      BY <1>1, <2>1, OnlyPackDeletes
  <1>2. Spec => [](TypeInv /\ RefsInv)
    <2>1. TypeInv /\ RefsInv /\ [Next]_vars => (TypeInv /\ RefsInv)'
      BY NextType, RefsNext
    <2> QED
      BY <2>1, InitType, RefsInit, PTL DEF Spec
  <1>3. TypeInv /\ RefsInv /\ [Next]_vars =>
          [\A x \in chunkFiles \ chunkFiles' : x.hash \notin UsedHashes]_vars
    BY <1>1
  <1> QED
    BY <1>2, <1>3, PTL DEF Spec, OnlyUnreferencedDeleted

\* Where nothing is damaged: commands one at a time (SerialUse), or no packs, or
\* no removals.
Sparing == SerialUse \/ "pack" \notin Commands \/ NoRemoval

\* In all three cases what can be restored of a snapshot stays the same while it
\* is listed.
THEOREM SnapshotsStayTheSame ==
  ASSUME Sparing
  PROVE  Spec => SnapshotsStay
  <1> DEFINE Same == \A s \in DOMAIN backups \cap DOMAIN backups' : backups'[s] = backups[s]
  <1>1. ASSUME TypeInv, TypeInv', IdInv, Recoverable, Recoverable', [Next]_vars
        PROVE  Same
    <2>1. backups = [s \in Listed(repositoryFile) |-> snapshotFiles[s]]
      BY <1>1, RecoverableBackups
    <2>2. backups' = [s \in Listed(repositoryFile') |-> snapshotFiles'[s]]
      BY <1>1, RecoverableBackupsNext
    <2>3. \A s \in DOMAIN snapshotFiles : snapshotFiles'[s] = snapshotFiles[s]
      BY <1>1, IdNext
    <2>4. Listed(repositoryFile) \subseteq DOMAIN snapshotFiles
      BY <1>1 DEF Recoverable
    <2> HIDE DEF backups
    <2> QED
      BY <2>1, <2>2, <2>3, <2>4
  <1>2. Spec => []Recoverable
    BY StaysRecoverable, NoPackStaysRecoverable, NoRemovalStaysRecoverable DEF Sparing
  <1>3. Spec => [](TypeInv /\ IdInv)
    <2>1. TypeInv /\ IdInv /\ [Next]_vars => (TypeInv /\ IdInv)'
      BY NextType, IdNext
    <2> QED
      BY <2>1, InitType, IdInit, PTL DEF Spec
  <1>4. TypeInv /\ TypeInv' /\ IdInv /\ Recoverable /\ Recoverable' /\ [Next]_vars => [Same]_vars
    BY <1>1
  <1> QED
    BY <1>2, <1>3, <1>4, PTL DEF Spec, SnapshotsStay
=============================================================================
