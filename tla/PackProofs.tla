----------------------------- MODULE PackProofs -----------------------------
(***************************************************************************)
(* A theorem about repo pack, for any number of volumes, snapshots, paths, *)
(* hashes, shapes and backends, clones among the commands: what it deletes *)
(* is there, until a pack has ended half-way.                              *)
(***************************************************************************)
EXTENDS KnoxiteRepositoryProofs

\* One command at a time.  Where reading an index that is there may fail, so
\* that it is made again from the snapshots, these must have kept their chunks,
\* as they do in SerialUse: neither clones, nor removals that end between their
\* two saves.
OneAtATime == (\A p, q \in Procs : p = q) /\ (IndexMayFail => SerialUse)

-----------------------------------------------------------------------------
(* The inductive invariant.                                                *)

AddsSnapshot(x) == x.command \in {"store", "clone"}

\* The repository in memory is the one on file, until the command changes it;
\* only store and clone add to it.
MemoryIsFile(x) ==
  /\ \/ x.pc \in {"openIndex", "saveReindexed", "opened", "storeChunk",
                  "deleteChunk", "saveSnapshot"}
     \/ x.pc = "saveIndex" /\ x.command = "pack"
     => x.repository = repositoryFile
  /\ x.pc \in {"saveIndex", "saveRepository"} /\ ~AddsSnapshot(x) =>
       Listed(x.repository) \subseteq Listed(repositoryFile)

\* Where commands are in their loops, and that all but volume init have seen or
\* made an index.
Position(x) ==
  /\ x.pc = "deleteChunk" => x.command = "pack" /\ x.todo \subseteq ToDelete(x.index)
  /\ x.pc = "saveRepository" => x.command # "pack"
  /\ x.command = "volinit" => x.pc = "saveRepository"
  /\ x.part # 0 => x.pc \in {"storeChunk", "deleteChunk"} /\ x.chunk \in x.todo
  /\ x.pc \notin {"idle", "openIndex", "saveReindexed"} /\ x.command # "volinit" =>
       indexFile # None

\* The chunk of an entry, in the shape the index knows.
EntryChunk(index, h) == [hash |-> h, shape |-> index[h].shape]

\* The chunks of an index are in storage.
Known(index) == \A h \in DOMAIN index : Stored(EntryChunk(index, h))

\* An index that has just been made again knows only what is there, whatever
\* packs have ended before.
Rebuilt(x) == x.pc = "saveReindexed" => Known(x.index)

\* The index does not promise chunks that are not there, but for those that a
\* pack is deleting.
Finds(x) ==
  /\ x.pc \in {"opened", "storeChunk", "saveSnapshot", "saveIndex"} => Known(x.index)
  /\ x.pc = "storeChunk" =>
       /\ \A c \in x.chunks : Stored(c)
       /\ \A i \in 0 .. x.part - 1 : IsThere(x.chunk, i)
  /\ x.pc = "deleteChunk" =>
       /\ \A h \in DOMAIN x.index \ Unreferenced(x.index) : Stored(EntryChunk(x.index, h))
       /\ \A c \in x.todo : \A i \in Parts(c) :
            (x.part # 0 /\ c = x.chunk => i >= x.part) => IsThere(c, i)
  /\ ~(x.command = "pack" /\ x.pc \in {"deleteChunk", "saveIndex"}) /\ indexFile # None =>
       Known(indexFile)

ProcessInv(x) ==
  /\ MemoryIsFile(x) /\ Position(x) /\ Rebuilt(x)
  /\ ~packCut => Finds(x)

PackingInv ==
  /\ TypeInv
  /\ indexFile = None => Listed(repositoryFile) = {}
  /\ \A p \in Procs : ProcessInv(proc[p])

-----------------------------------------------------------------------------
(* Lemmas about the copies in memory.                                      *)

\* A chunk is its hash and its shape.
LEMMA ChunkOf ==
  ASSUME NEW c \in Chunks
  PROVE  c = [hash |-> c.hash, shape |-> c.shape]
  BY DEF Chunks

\* Indexing an archive whose chunks are in storage.
LEMMA IndexArchiveKnown ==
  ASSUME NEW x \in ChunkIndexes, NEW cs \in SUBSET Chunks, NEW s,
         Known(x), \A c \in cs : Stored(c)
  PROVE  Known(IndexArchive(x, cs, s))
  <1> DEFINE hashes == {c.hash : c \in cs}
             y == IndexArchive(x, cs, s)
  <1>1. DOMAIN y = DOMAIN x \cup hashes
    BY DEF IndexArchive
  <1>2. ASSUME NEW h \in DOMAIN x
        PROVE  EntryChunk(y, h) = EntryChunk(x, h)
    <2> DEFINE new == IF h \in hashes THEN {s} ELSE {}
    <2>1. y[h] = [x[h] EXCEPT !.snapshots = x[h].snapshots \cup new]
      BY DEF IndexArchive
    <2>2. x[h] \in Entries
      BY IndexType
    <2> HIDE DEF y, new
    <2>3. y[h].shape = x[h].shape
      BY <2>1, <2>2 DEF Entries
    <2> QED
      BY <2>3 DEF EntryChunk
  <1>3. ASSUME NEW h \in hashes, h \notin DOMAIN x
        PROVE  Stored(EntryChunk(y, h))
    <2> DEFINE c == WithHash(cs, h)
    <2>1. c \in cs /\ c.hash = h
      BY WithHashFinds
    <2>2. y[h] = [shape |-> c.shape, snapshots |-> {s}]
      BY <1>3 DEF IndexArchive
    <2> HIDE DEF c, y
    <2>3. EntryChunk(y, h) = c
      BY <2>1, <2>2, ChunkOf DEF EntryChunk
    <2> QED
      BY <2>1, <2>3
  <1> HIDE DEF y, hashes
  <1>4. \A h \in DOMAIN y : Stored(EntryChunk(y, h))
    BY <1>1, <1>2, <1>3 DEF Known
  <1> QED
    BY <1>4 DEF Known, y

\* Removals keep the shapes.
LEMMA IndexRemoveKnown ==
  ASSUME NEW x \in ChunkIndexes, NEW gone, Known(x)
  PROVE  Known(IndexRemove(x, gone))
  <1> DEFINE y == IndexRemove(x, gone)
  <1>1. DOMAIN y = DOMAIN x
    BY DEF IndexRemove
  <1>2. ASSUME NEW h \in DOMAIN x
        PROVE  EntryChunk(y, h) = EntryChunk(x, h)
    <2>1. y[h] = [x[h] EXCEPT !.snapshots = x[h].snapshots \ gone] /\ x[h] \in Entries
      BY IndexType DEF IndexRemove
    <2> HIDE DEF y
    <2>2. y[h].shape = x[h].shape
      BY <2>1 DEF Entries
    <2> QED
      BY <2>2 DEF EntryChunk
  <1> HIDE DEF y
  <1>3. \A h \in DOMAIN y : Stored(EntryChunk(y, h))
    BY <1>1, <1>2 DEF Known
  <1> QED
    BY <1>3 DEF Known, y

\* Pack keeps what is referred to.
LEMMA PackedKnown ==
  ASSUME NEW x, \A h \in DOMAIN x \ Unreferenced(x) : Stored(EntryChunk(x, h))
  PROVE  Known(Restrict(x, DOMAIN x \ Unreferenced(x)))
  <1> DEFINE y == Restrict(x, DOMAIN x \ Unreferenced(x))
  <1>1. DOMAIN y = DOMAIN x \ Unreferenced(x) /\ \A h \in DOMAIN y : y[h] = x[h]
    BY DEF Restrict
  <1> HIDE DEF y
  <1>2. \A h \in DOMAIN y : EntryChunk(y, h) = EntryChunk(x, h)
    BY <1>1 DEF EntryChunk
  <1>3. \A h \in DOMAIN y : Stored(EntryChunk(y, h))
    BY <1>1, <1>2
  <1> QED
    BY <1>3 DEF Known, y

\* Without snapshots there is nothing to index.  Otherwise an index that is made
\* again knows chunks of listed snapshots only.
LEMMA ReindexKnown ==
  ASSUME TypeInv, NEW first \in Firsts(repositoryFile),
         Listed(repositoryFile) = {} \/ Recoverable
  PROVE  Known(Reindex(repositoryFile, first))
  <1> DEFINE y == Reindex(repositoryFile, first)
  <1>1. DOMAIN y = DOMAIN first
    BY DEF Reindex
  <1>2. ASSUME NEW h \in DOMAIN first
        PROVE  Stored(EntryChunk(y, h))
    <2> DEFINE c == first[h]
    <2>1. c \in Chunks /\ c \in ListedChunks(repositoryFile, h)
      BY <1>2 DEF Firsts
    <2>2. c.hash = h /\ c \in UNION {ChunksOf(snapshotFiles[s]) : s \in Listed(repositoryFile)}
      BY <2>1 DEF ListedChunks
    <2>3. EntryChunk(y, h) = [hash |-> h, shape |-> c.shape]
      BY <1>2 DEF Reindex, EntryChunk
    <2> HIDE DEF c
    <2>4. Recoverable /\ Listed(repositoryFile) \subseteq DOMAIN snapshotFiles
      BY <2>2 DEF Recoverable
    <2>5. c \in Used
      BY <2>2, <2>4 DEF Used
    <2>6. EntryChunk(y, h) = c
      BY <2>1, <2>2, <2>3, ChunkOf
    <2> QED
      BY <2>4, <2>5, <2>6 DEF Recoverable
  <1> QED
    BY <1>1, <1>2 DEF Known

\* What is in storage stays there when a part is added.
LEMMA StillKnown ==
  ASSUME chunkFiles \subseteq chunkFiles'
  PROVE  /\ \A c, i : IsThere(c, i) => IsThere(c, i)'
         /\ \A c : Stored(c) => Stored(c)'
  BY DEF Stored, IsThere

-----------------------------------------------------------------------------
(* The invariant is inductive.                                             *)

\* What the invariant says of the one process.
LEMMA OfTheProcess ==
  ASSUME PackingInv, OneAtATime, NEW p \in Procs
  PROVE  /\ Procs = {p}
         /\ ProcessInv(proc[p])
         /\ proc[p] \in Processes
         /\ StoringOK(proc[p])
         /\ proc[p].repository \in Repositories
         /\ proc[p].index \in ChunkIndexes
         /\ proc[p].chunks \in SUBSET Chunks
         /\ proc[p].todo \in SUBSET Chunks
         /\ proc[p].part \in Nat
         /\ repositoryFile \in Repositories
         /\ TypeInv
  BY ProcessType DEF PackingInv, OneAtATime, TypeInv, TypeOK

\* No chunk-index is None.
LEMMA IndexIsSomething ==
  ASSUME NEW x \in ChunkIndexes
  PROVE  x # None
  BY NoneIsNoIndex

\* A step that changes no file that the invariant is about.
LEMMA StepInMemory ==
  ASSUME PackingInv, OneAtATime, NEW p \in Procs, NEW x, Become(p, x),
         MemoryIsFile(x), Position(x), Rebuilt(x), ~packCut' => Finds(x), TypeInv',
         UNCHANGED <<repositoryFile, indexFile, chunkFiles>>
  PROVE  PackingInv'
  <1>1. proc'[p] = x /\ Procs = {p}
    BY BecomeProc, OfTheProcess DEF PackingInv, TypeInv, TypeOK
  <1>2. /\ \A c, i : IsThere(c, i)' <=> IsThere(c, i)
        /\ \A c : Stored(c)' <=> Stored(c)
    BY DEF Stored, IsThere
  <1>3. MemoryIsFile(proc[p])' /\ Position(proc[p])'
    BY <1>1 DEF MemoryIsFile, Position, AddsSnapshot
  <1>4. Rebuilt(proc[p])'
    BY <1>1, <1>2 DEF Rebuilt, Known
  <1>5. ~packCut' => Finds(proc[p])'
    BY <1>1, <1>2 DEF Finds, Known
  <1>6. ProcessInv(proc[p])'
    BY <1>3, <1>4, <1>5 DEF ProcessInv
  <1> QED
    BY <1>1, <1>6 DEF PackingInv

\* A command is over.
LEMMA NothingInMemory ==
  ASSUME NEW x, x = Idle
  PROVE  /\ MemoryIsFile(x) /\ Position(x) /\ Rebuilt(x)
         /\ (indexFile # None => Known(indexFile)) => Finds(x)
  <1>1. None \notin CommandNames
    BY ConstantsOK
  <1>2. x.pc = "idle" /\ x.command = None /\ x.part = 0
    BY DEF Idle
  <1> QED
    BY <1>1, <1>2 DEF MemoryIsFile, Position, Rebuilt, Finds, AddsSnapshot, CommandNames

\* Commands begin.
LEMMA BeginPacking ==
  ASSUME PackingInv, OneAtATime, NEW p \in Procs, Begin(p), TypeInv'
  PROVE  PackingInv'
  <1>1. /\ ProcessInv(proc[p]) /\ At(p, "idle") /\ repositoryFile \in Repositories
        /\ packCut' = packCut
    BY OfTheProcess DEF Begin, VolumeInit, Store, Clone, OpenRepository
  <1>2. ~packCut' => (indexFile # None => Known(indexFile))
    BY <1>1 DEF ProcessInv, Finds, At
  <1>3. ASSUME NEW v \in Volumes, VolumeInit(p, v)
        PROVE  PackingInv'
    <2> DEFINE r == Put(repositoryFile, v, {})
               x == [Idle EXCEPT !.pc = "saveRepository", !.command = "volinit",
                                 !.repository = r]
    <2>1. Listed(r) = Listed(repositoryFile)
      BY <1>1, <1>3, PutVolume DEF VolumeInit
    <2>2. Become(p, x)
      BY <1>3 DEF VolumeInit
    <2> HIDE DEF r
    <2>3. x.pc = "saveRepository" /\ x.command = "volinit" /\ x.repository = r /\ x.part = 0
      BY DEF Idle
    <2> HIDE DEF x
    <2>4. MemoryIsFile(x) /\ Position(x) /\ Rebuilt(x)
      BY <2>1, <2>3 DEF MemoryIsFile, Position, Rebuilt, AddsSnapshot
    <2>5. ~packCut' => Finds(x)
      BY <1>2, <2>3 DEF Finds
    <2> QED
      BY <1>3, <2>2, <2>4, <2>5, StepInMemory DEF VolumeInit
  <1>4. ASSUME NEW x, Become(p, x), x.pc = "openIndex", x.part = 0, x.command # "volinit",
               x.repository = repositoryFile,
               UNCHANGED <<repositoryFile, snapshotFiles, indexFile, chunkFiles>>
        PROVE  PackingInv'
    <2>1. MemoryIsFile(x) /\ Position(x) /\ Rebuilt(x)
      BY <1>4 DEF MemoryIsFile, Position, Rebuilt, AddsSnapshot
    <2>2. ~packCut' => Finds(x)
      BY <1>2, <1>4 DEF Finds
    <2> QED
      BY <1>4, <2>1, <2>2, StepInMemory
  <1>5. ASSUME NEW v \in Volumes, NEW s \in Snapshots, NEW shape \in Shapes,
               Store(p, v, s, shape)
        PROVE  PackingInv'
    <2> DEFINE x == [Idle EXCEPT !.pc = "openIndex", !.command = "store",
                                 !.repository = repositoryFile,
                                 !.volume = v, !.id = s, !.shape = shape]
    <2>1. Become(p, x)
      BY <1>5 DEF Store
    <2>2. x.pc = "openIndex" /\ x.part = 0 /\ x.command # "volinit"
          /\ x.repository = repositoryFile
      BY DEF Idle
    <2> HIDE DEF x
    <2> QED
      BY <1>4, <1>5, <2>1, <2>2 DEF Store
  <1>6. ASSUME NEW v \in Volumes, NEW old \in Snapshots, NEW s \in Snapshots,
               NEW shape \in Shapes, Clone(p, v, old, s, shape)
        PROVE  PackingInv'
    <2> DEFINE x == [Idle EXCEPT !.pc = "openIndex", !.command = "clone",
                                 !.repository = repositoryFile,
                                 !.volume = v, !.id = s, !.shape = shape,
                                 !.archives = snapshotFiles[old]]
    <2>1. Become(p, x)
      BY <1>6 DEF Clone
    <2>2. x.pc = "openIndex" /\ x.part = 0 /\ x.command # "volinit"
          /\ x.repository = repositoryFile
      BY DEF Idle
    <2> HIDE DEF x
    <2> QED
      BY <1>4, <1>6, <2>1, <2>2 DEF Clone
  <1>7. ASSUME NEW command \in Commands, OpenRepository(p, command)
        PROVE  PackingInv'
    <2> DEFINE x == [Idle EXCEPT !.pc = "openIndex", !.command = command,
                                 !.repository = repositoryFile]
    <2>1. Become(p, x) /\ command \in {"remove", "volremove", "pack"}
      BY <1>7 DEF OpenRepository
    <2>2. x.pc = "openIndex" /\ x.part = 0 /\ x.command # "volinit"
          /\ x.repository = repositoryFile
      BY <2>1 DEF Idle
    <2> HIDE DEF x
    <2> QED
      BY <1>4, <1>7, <2>1, <2>2 DEF OpenRepository
  <1> QED
    BY <1>3, <1>5, <1>6, <1>7 DEF Begin

\* Loading the index, or making it when there is none yet.
LEMMA OpenIndexPacking ==
  ASSUME PackingInv, SerialUse => IInv, OneAtATime, NEW p \in Procs, OpenChunkIndex(p), TypeInv'
  PROVE  PackingInv'
  <1>1. /\ ProcessInv(proc[p]) /\ proc[p] \in Processes /\ Procs = {p}
    BY OfTheProcess
  <1>2. /\ proc[p].pc \in {"openIndex", "saveReindexed"} /\ proc[p].command # "volinit"
        /\ proc[p].repository = repositoryFile /\ proc[p].part = 0
    BY <1>1 DEF OpenChunkIndex, LoadIndex, RebuildIndex, SaveReindexed, At, ProcessInv,
                Position, MemoryIsFile
  <1>3. ~packCut => (indexFile # None => Known(indexFile))
    BY <1>1, <1>2 DEF ProcessInv, Finds
  <1>4. CASE LoadIndex(p)
    <2> DEFINE x == [proc[p] EXCEPT !.pc = "opened", !.index = indexFile]
    <2>1. /\ x.pc = "opened" /\ x.index = indexFile /\ x.command = proc[p].command
          /\ x.repository = repositoryFile /\ x.part = 0 /\ indexFile # None
      BY <1>1, <1>2, <1>4 DEF Processes, LoadIndex
    <2>2. Become(p, x) /\ packCut' = packCut
      BY <1>4 DEF LoadIndex
    <2> HIDE DEF x
    <2>3. MemoryIsFile(x) /\ Position(x) /\ Rebuilt(x)
      BY <1>2, <2>1 DEF MemoryIsFile, Position, Rebuilt
    <2>4. ~packCut' => Finds(x)
      BY <1>3, <2>1, <2>2 DEF Finds
    <2> QED
      BY <1>4, <2>2, <2>3, <2>4, StepInMemory DEF LoadIndex
  <1>5. CASE RebuildIndex(p)
    <2> PICK first \in Firsts(repositoryFile) :
               Become(p, [proc[p] EXCEPT !.pc = "saveReindexed",
                                         !.index = Reindex(repositoryFile, first)])
      BY <1>2, <1>5 DEF RebuildIndex
    <2> DEFINE y == Reindex(repositoryFile, first)
               x == [proc[p] EXCEPT !.pc = "saveReindexed", !.index = y]
    <2>1. Known(y)
      <3>1. Listed(repositoryFile) = {} \/ Recoverable
        BY <1>5 DEF RebuildIndex, OneAtATime, IInv, PackingInv
      <3> QED
        BY <3>1, ReindexKnown DEF PackingInv
    <2>2. Become(p, x) /\ packCut' = packCut
      BY <1>5 DEF RebuildIndex
    <2> HIDE DEF y
    <2>3. /\ x.pc = "saveReindexed" /\ x.index = y /\ x.command = proc[p].command
          /\ x.repository = repositoryFile /\ x.part = 0
      BY <1>1, <1>2 DEF Processes
    <2> HIDE DEF x
    <2>4. MemoryIsFile(x) /\ Position(x) /\ Rebuilt(x)
      BY <1>2, <2>1, <2>3 DEF MemoryIsFile, Position, Rebuilt
    <2>5. ~packCut' => Finds(x)
      BY <1>3, <2>2, <2>3 DEF Finds
    <2> QED
      BY <1>5, <2>2, <2>4, <2>5, StepInMemory DEF RebuildIndex
  <1>6. CASE SaveReindexed(p)
    <2> DEFINE x == [proc[p] EXCEPT !.pc = "opened"]
    <2>1. /\ x.pc = "opened" /\ x.index = proc[p].index /\ x.command = proc[p].command
          /\ x.repository = repositoryFile /\ x.part = 0
      BY <1>1, <1>2 DEF Processes
    <2>2. proc'[p] = x
      BY <1>6, BecomeProc DEF SaveReindexed, PackingInv, TypeInv, TypeOK
    <2> HIDE DEF x
    <2>3. Known(proc[p].index)
      BY <1>1, <1>6 DEF SaveReindexed, At, ProcessInv, Rebuilt
    <2>4. /\ indexFile' = proc[p].index /\ indexFile' # None
          /\ UNCHANGED <<repositoryFile, chunkFiles>>
      <3>1. indexFile' = proc[p].index /\ UNCHANGED <<repositoryFile, chunkFiles>>
        BY <1>6 DEF SaveReindexed
      <3> QED
        BY <3>1, IndexIsSomething, OfTheProcess
    <2>5. (MemoryIsFile(proc[p]) /\ Position(proc[p]) /\ Rebuilt(proc[p]))'
      BY <1>2, <2>1, <2>2, <2>4 DEF MemoryIsFile, Position, Rebuilt
    <2>6. Finds(proc[p])'
      <3>1. \A c : Stored(c)' <=> Stored(c)
        BY <2>4 DEF Stored, IsThere
      <3> QED
        BY <2>1, <2>2, <2>3, <2>4, <3>1 DEF Finds, Known
    <2> QED
      BY <1>1, <2>4, <2>5, <2>6 DEF PackingInv, ProcessInv
  <1> QED
    BY <1>4, <1>5, <1>6 DEF OpenChunkIndex

\* Removals keep the entries of the index.
LEMMA RemovePacking ==
  ASSUME PackingInv, OneAtATime, NEW p \in Procs, Remove(p), TypeInv'
  PROVE  PackingInv'
  <1>1. /\ ProcessInv(proc[p]) /\ proc[p] \in Processes
        /\ proc[p].repository \in Repositories /\ proc[p].index \in ChunkIndexes
    BY OfTheProcess
  <1>2. /\ proc[p].pc = "opened" /\ proc[p].command \in {"remove", "volremove"}
        /\ packCut' = packCut
    BY DEF Remove, BeginRemove, BeginVolumeRemove, RemoveNotFound, At
  <1>3. /\ proc[p].repository = repositoryFile /\ proc[p].part = 0 /\ indexFile # None
        /\ ~packCut => Known(proc[p].index) /\ Known(indexFile)
    BY <1>1, <1>2 DEF ProcessInv, MemoryIsFile, Position, Finds
  <1>4. ASSUME NEW x, NEW r, NEW gone, Become(p, x),
               x.pc = "saveIndex", x.command \in {"remove", "volremove"}, x.part = 0,
               x.repository = r, x.index = IndexRemove(proc[p].index, gone),
               Listed(r) \subseteq Listed(repositoryFile),
               UNCHANGED <<repositoryFile, snapshotFiles, indexFile, chunkFiles>>
        PROVE  PackingInv'
    <2>1. ~packCut => Known(x.index)
      BY <1>1, <1>3, <1>4, IndexRemoveKnown
    <2>2. MemoryIsFile(x) /\ Position(x) /\ Rebuilt(x)
      BY <1>3, <1>4 DEF MemoryIsFile, Position, Rebuilt
    <2>3. ~packCut' => Finds(x)
      BY <1>2, <1>3, <1>4, <2>1 DEF Finds
    <2> QED
      BY <1>4, <2>2, <2>3, StepInMemory
  <1>5. ASSUME NEW s \in Snapshots, BeginRemove(p, s)
        PROVE  PackingInv'
    <2> DEFINE r == RemoveSnapshot(proc[p].repository, s)
               y == IndexRemove(proc[p].index, {s})
               x == [proc[p] EXCEPT !.pc = "saveIndex", !.repository = r, !.index = y]
    <2>1. Listed(r) \subseteq Listed(repositoryFile)
      BY <1>1, <1>3, RemoveSnapshotListed
    <2>2. Become(p, x)
      BY <1>5 DEF BeginRemove
    <2> HIDE DEF r, y
    <2>3. /\ x.pc = "saveIndex" /\ x.command = proc[p].command
          /\ x.repository = r /\ x.index = y /\ x.part = 0
      BY <1>1, <1>3 DEF Processes
    <2> HIDE DEF x
    <2>4. x.index = IndexRemove(proc[p].index, {s})
      BY <2>3 DEF y
    <2> QED
      BY <1>2, <1>4, <1>5, <2>1, <2>2, <2>3, <2>4 DEF BeginRemove
  <1>6. ASSUME NEW v \in Volumes, BeginVolumeRemove(p, v)
        PROVE  PackingInv'
    <2> DEFINE r == RemoveVolume(proc[p].repository, v)
               y == IndexRemove(proc[p].index, proc[p].repository[v])
               x == [proc[p] EXCEPT !.pc = "saveIndex", !.repository = r, !.index = y]
    <2>1. Listed(r) \subseteq Listed(repositoryFile)
      BY <1>1, <1>3, <1>6, RemoveVolumeListed DEF BeginVolumeRemove
    <2>2. Become(p, x)
      BY <1>6 DEF BeginVolumeRemove
    <2> HIDE DEF r, y
    <2>3. /\ x.pc = "saveIndex" /\ x.command = proc[p].command
          /\ x.repository = r /\ x.index = y /\ x.part = 0
      BY <1>1, <1>3 DEF Processes
    <2> HIDE DEF x
    <2>4. x.index = IndexRemove(proc[p].index, proc[p].repository[v])
      BY <2>3 DEF y
    <2> QED
      BY <1>2, <1>4, <1>6, <2>1, <2>2, <2>3, <2>4 DEF BeginVolumeRemove
  <1>7. CASE RemoveNotFound(p)
    <2>1. Become(p, Idle)
      BY <1>7 DEF RemoveNotFound, Return
    <2>2. ~packCut' => Finds(Idle)
      BY <1>2, <1>3, NothingInMemory
    <2> QED
      BY <1>7, <2>1, <2>2, NothingInMemory, StepInMemory DEF RemoveNotFound
  <1> QED
    BY <1>5, <1>6, <1>7 DEF Remove

\* Pack deletes what its index does not refer to.
LEMMA PackPacking ==
  ASSUME PackingInv, OneAtATime, NEW p \in Procs, Pack(p), TypeInv'
  PROVE  PackingInv'
  <1>1. /\ ProcessInv(proc[p]) /\ proc[p] \in Processes /\ Procs = {p} /\ TypeInv
        /\ proc[p].index \in ChunkIndexes /\ proc[p].part \in Nat
        /\ proc[p].todo \in SUBSET Chunks
    BY OfTheProcess
  <1>2. proc[p].pc \in {"opened", "deleteChunk"} /\ proc[p].command = "pack"
    BY <1>1 DEF Pack, BeginPack, DeleteChunk, DeleteChunkFails, EndPack, At, ProcessInv, Position
  <1>3. proc[p].repository = repositoryFile /\ indexFile # None
    BY <1>1, <1>2 DEF ProcessInv, MemoryIsFile, Position
  <1>4. CASE BeginPack(p)
    <2> DEFINE x == [proc[p] EXCEPT !.pc = "deleteChunk",
                                    !.todo = ToDelete(proc[p].index)]
    <2>1. /\ proc[p].pc = "opened" /\ proc[p].part = 0
          /\ ~packCut => Known(proc[p].index)
      BY <1>1, <1>4 DEF BeginPack, At, ProcessInv, Position, Finds
    <2>2. Become(p, x) /\ packCut' = packCut
      BY <1>4 DEF BeginPack
    <2>3. /\ x.pc = "deleteChunk" /\ x.command = "pack" /\ x.part = 0
          /\ x.repository = repositoryFile /\ x.index = proc[p].index
          /\ x.todo = ToDelete(proc[p].index)
      BY <1>1, <1>2, <1>3, <2>1 DEF Processes
    <2> HIDE DEF x
    <2>4. MemoryIsFile(x) /\ Position(x) /\ Rebuilt(x)
      BY <1>3, <2>3 DEF MemoryIsFile, Position, Rebuilt
    <2>5. ASSUME ~packCut'
          PROVE  Finds(x)
      <3>1. Known(proc[p].index)
        BY <2>1, <2>2, <2>5
      <3>2. \A c \in x.todo : Stored(c)
        BY <2>3, <3>1 DEF ToDelete, Unreferenced, Known, EntryChunk
      <3> QED
        BY <2>3, <3>1, <3>2 DEF Finds, Known, Stored
    <2> QED
      BY <1>4, <2>2, <2>4, <2>5, StepInMemory DEF BeginPack
  <1>5. ASSUME NEW c \in Chunks, NEW b \in Backends, DeleteChunk(p, c, b)
        PROVE  PackingInv'
    <2> DEFINE x == NextPart(p, c)
               k == proc[p].part
    <2>1. /\ proc[p].pc = "deleteChunk" /\ c \in proc[p].todo
          /\ k # 0 => c = proc[p].chunk
          /\ proc[p].todo \subseteq ToDelete(proc[p].index)
      BY <1>1, <1>5 DEF DeleteChunk, IsNextChunk, At, ProcessInv, Position
    <2>2. /\ UNCHANGED <<repositoryFile, snapshotFiles, indexFile, packCut>>
          /\ chunkFiles' = chunkFiles \ {PartFile(c, k, b)}
      BY <1>5 DEF DeleteChunk
    <2>3. proc'[p] = x
      BY <1>5, BecomeProc DEF DeleteChunk, PackingInv, TypeInv, TypeOK
    <2>4. /\ x.pc = "deleteChunk" /\ x.command = "pack"
          /\ x.repository = repositoryFile /\ x.index = proc[p].index
          /\ LastPart(p, c) => x.todo = proc[p].todo \ {c} /\ x.part = 0
          /\ ~LastPart(p, c) => x.todo = proc[p].todo /\ x.part = k + 1 /\ x.chunk = c
      BY <1>1, <1>2, <1>3, <2>1, NextPartFields
    <2> HIDE DEF x
    <2>5. MemoryIsFile(proc[p])' /\ Position(proc[p])' /\ Rebuilt(proc[p])'
      BY <1>3, <2>1, <2>2, <2>3, <2>4 DEF MemoryIsFile, Position, Rebuilt
    <2>6. \A d, i : IsThere(d, i) /\ (d.hash # c.hash \/ i # k) => IsThere(d, i)'
      <3> SUFFICES ASSUME NEW d, NEW i, IsThere(d, i), d.hash # c.hash \/ i # k
                   PROVE  IsIn(d, i, chunkFiles')
        BY DEF IsThere, IsIn
      <3>1. PICK a \in Backends : PartFile(d, i, a) \in chunkFiles
        BY DEF IsThere
      <3>2. PartFile(d, i, a) # PartFile(c, k, b)
        BY DEF PartFile
      <3>3. PartFile(d, i, a) \in chunkFiles'
        BY <2>2, <3>1, <3>2
      <3> QED
        BY <3>3 DEF IsIn
    <2>7. ASSUME ~packCut'
          PROVE  Finds(proc[p])'
      <3>1. /\ \A h \in DOMAIN proc[p].index \ Unreferenced(proc[p].index) :
                 Stored(EntryChunk(proc[p].index, h))
            /\ \A d \in proc[p].todo : \A i \in Parts(d) :
                 (k # 0 /\ d = proc[p].chunk => i >= k) => IsThere(d, i)
        BY <1>1, <2>1, <2>2, <2>7 DEF ProcessInv, Finds
      <3>2. ASSUME NEW h \in DOMAIN x.index \ Unreferenced(x.index)
            PROVE  \A i \in Parts(EntryChunk(x.index, h)) :
                     IsIn(EntryChunk(x.index, h), i, chunkFiles')
        <4> DEFINE d == EntryChunk(x.index, h)
        <4>1. h # c.hash /\ d.hash = h /\ Stored(d)
          BY <2>1, <2>4, <3>1, <3>2 DEF ToDelete, EntryChunk
        <4> HIDE DEF d
        <4>2. \A i \in Parts(d) : IsThere(d, i)
          BY <4>1 DEF Stored
        <4>3. \A i \in Parts(d) : IsIn(d, i, chunkFiles')
          BY <2>6, <4>1, <4>2 DEF IsThere, IsIn
        <4> QED
          BY <4>3 DEF d
      <3>3. ASSUME NEW d \in x.todo, NEW i \in Parts(d),
                   x.part # 0 /\ d = x.chunk => i >= x.part
            PROVE  IsIn(d, i, chunkFiles')
        <4>1. d \in proc[p].todo
          BY <2>4, <3>3
        <4>2. CASE d = c
          <5>1. ~LastPart(p, c) /\ x.part = k + 1 /\ x.chunk = c
            BY <2>4, <3>3, <4>2
          <5>2. i >= k /\ i # k
            <6>1. k \in Nat /\ i \in Int
              BY <1>1 DEF Parts
            <6> HIDE DEF k
            <6>2. k + 1 # 0
              BY <6>1
            <6>3. i >= k + 1
              BY <3>3, <4>2, <5>1, <6>2
            <6> QED
              BY <6>1, <6>3
          <5> QED
            BY <2>6, <3>1, <3>3, <4>1, <5>2 DEF IsThere, IsIn
        <4>3. CASE d # c
          <5>1. IsThere(d, i)
            BY <2>1, <3>1, <3>3, <4>1, <4>3
          <5>2. d.hash # c.hash
            BY <2>1, <4>1, <4>3 DEF ToDelete
          <5> QED
            BY <2>6, <5>1, <5>2 DEF IsThere, IsIn
        <4> QED
          BY <4>2, <4>3
      <3>4. \A h \in DOMAIN proc'[p].index \ Unreferenced(proc'[p].index) :
              Stored(EntryChunk(proc[p].index, h))'
        BY <2>3, <3>2 DEF Stored, IsThere, IsIn, EntryChunk
      <3>5. \A d \in proc'[p].todo : \A i \in Parts(d) :
              (proc'[p].part # 0 /\ d = proc'[p].chunk => i >= proc'[p].part) =>
              IsThere(d, i)'
        BY <2>3, <3>3 DEF IsThere, IsIn
      <3>6. proc'[p].pc = "deleteChunk" /\ proc'[p].command = "pack"
        BY <2>3, <2>4
      <3> QED
        BY <3>4, <3>5, <3>6 DEF Finds, Unreferenced
    <2> QED
      BY <1>1, <2>2, <2>5, <2>7 DEF PackingInv, ProcessInv
  <1>6. ASSUME NEW c \in Chunks, DeleteChunkFails(p, c)
        PROVE  PackingInv'
    <2>1. Become(p, Idle) /\ packCut'
      BY <1>6 DEF DeleteChunkFails, Return
    <2> QED
      BY <1>6, <2>1, NothingInMemory, StepInMemory DEF DeleteChunkFails
  <1>7. CASE EndPack(p)
    <2> DEFINE y == Restrict(proc[p].index,
                             DOMAIN proc[p].index \ Unreferenced(proc[p].index))
               x == [proc[p] EXCEPT !.pc = "saveIndex", !.index = y]
    <2>1. /\ proc[p].pc = "deleteChunk" /\ proc[p].part = 0
          /\ ~packCut => \A h \in DOMAIN proc[p].index \ Unreferenced(proc[p].index) :
                           Stored(EntryChunk(proc[p].index, h))
      BY <1>1, <1>7 DEF EndPack, At, ProcessInv, Position, Finds
    <2>2. ~packCut => Known(y)
      BY <2>1, PackedKnown
    <2>3. Become(p, x) /\ packCut' = packCut
      BY <1>7 DEF EndPack
    <2> HIDE DEF y
    <2>4. /\ x.pc = "saveIndex" /\ x.command = "pack" /\ x.part = 0
          /\ x.repository = repositoryFile /\ x.index = y
      BY <1>1, <1>2, <1>3, <2>1 DEF Processes
    <2> HIDE DEF x
    <2>5. MemoryIsFile(x) /\ Position(x) /\ Rebuilt(x)
      BY <1>3, <2>4 DEF MemoryIsFile, Position, Rebuilt
    <2>6. ~packCut' => Finds(x)
      BY <2>2, <2>3, <2>4 DEF Finds
    <2> QED
      BY <1>7, <2>3, <2>5, <2>6, StepInMemory DEF EndPack
  <1> QED
    BY <1>4, <1>5, <1>6, <1>7 DEF Pack

\* Snapshot.Add and ChunkIndex.AddArchive: what is indexed is stored.
LEMMA AddPacking ==
  ASSUME PackingInv, OneAtATime, NEW p \in Procs, Add(p), TypeInv'
  PROVE  PackingInv'
  <1>1. /\ ProcessInv(proc[p]) /\ proc[p] \in Processes /\ Procs = {p}
        /\ proc[p].part \in Nat /\ proc[p].index \in ChunkIndexes
        /\ proc[p].chunks \in SUBSET Chunks
    BY OfTheProcess
  <1>2. /\ AddsSnapshot(proc[p]) /\ proc[p].pc \in {"opened", "storeChunk"}
        /\ packCut' = packCut
    BY OfTheProcess DEF Add, BeginArchive, StoreChunk, StoreChunkFails, AddArchive, EndTargets,
                        At, Storing, StoringOK, AddsSnapshot
  <1>3. /\ proc[p].repository = repositoryFile /\ indexFile # None
        /\ proc[p].part # 0 => proc[p].chunk \in proc[p].todo
        /\ ~packCut => Known(proc[p].index) /\ Known(indexFile)
    BY <1>1, <1>2 DEF ProcessInv, MemoryIsFile, Position, Finds, AddsSnapshot
  <1>4. 0 .. 0 - 1 = {}
    OBVIOUS
  <1>5. ASSUME NEW f \in Paths, NEW hashes \in SUBSET Hashes, BeginArchive(p, f, hashes)
        PROVE  PackingInv'
    <2> DEFINE x == [proc[p] EXCEPT !.pc = "storeChunk", !.path = f, !.chunks = {},
                                    !.todo = [hash : hashes, shape : {proc[p].shape}]]
    <2>1. proc[p].part = 0
      BY <1>1, <1>5 DEF BeginArchive, At, ProcessInv, Position
    <2>2. Become(p, x)
      BY <1>5 DEF BeginArchive
    <2>3. /\ x.pc = "storeChunk" /\ x.command = proc[p].command
          /\ x.repository = repositoryFile /\ x.index = proc[p].index
          /\ x.chunks = {} /\ x.part = 0
      BY <1>1, <1>3, <2>1 DEF Processes
    <2> HIDE DEF x
    <2>4. MemoryIsFile(x) /\ Position(x) /\ Rebuilt(x)
      BY <1>2, <1>3, <2>3 DEF MemoryIsFile, Position, Rebuilt, AddsSnapshot
    <2>5. ~packCut' => Finds(x)
      BY <1>2, <1>3, <1>4, <2>3 DEF Finds
    <2> QED
      BY <1>5, <2>2, <2>4, <2>5, StepInMemory DEF BeginArchive
  <1>6. ASSUME NEW c \in Chunks, NEW b \in Backends, StoreChunk(p, c, b)
        PROVE  PackingInv'
    <2> DEFINE k == proc[p].part
               cs == proc[p].chunks \cup (IF LastPart(p, c) THEN {c} ELSE {})
               n == NextPart(p, c)
               x == [n EXCEPT !.chunks = cs]
    <2>1. /\ proc[p].pc = "storeChunk" /\ c \in proc[p].todo
          /\ k # 0 => c = proc[p].chunk
      BY <1>6 DEF StoreChunk, IsNextChunk, At
    <2>2. /\ UNCHANGED <<repositoryFile, snapshotFiles, indexFile>>
          /\ chunkFiles' = chunkFiles \cup {PartFile(c, k, b)}
      BY <1>6 DEF StoreChunk
    <2>3. /\ \A d, i : IsThere(d, i) => IsThere(d, i)'
          /\ \A d : Stored(d) => Stored(d)'
      BY <2>2, StillKnown
    <2>4. proc'[p] = x
      BY <1>6, BecomeProc DEF StoreChunk, PackingInv, TypeInv, TypeOK
    <2>5. n \in Processes
      BY <1>6, NextPartType DEF PackingInv, StoreChunk
    <2>6. /\ n.pc = "storeChunk" /\ n.command = proc[p].command
          /\ n.repository = repositoryFile /\ n.index = proc[p].index
          /\ LastPart(p, c) => n.part = 0
          /\ ~LastPart(p, c) => n.part = k + 1 /\ n.chunk = c /\ n.todo = proc[p].todo
      BY <1>1, <1>3, <2>1, NextPartFields
    <2> HIDE DEF n, cs
    <2>7. /\ x.pc = n.pc /\ x.command = n.command /\ x.repository = n.repository
          /\ x.index = n.index /\ x.part = n.part /\ x.chunk = n.chunk
          /\ x.todo = n.todo /\ x.chunks = cs
      BY <2>5, ChunksOnly
    <2> HIDE DEF x
    <2>8. MemoryIsFile(proc[p])' /\ Position(proc[p])' /\ Rebuilt(proc[p])'
      BY <1>2, <1>3, <2>1, <2>2, <2>4, <2>6, <2>7
      DEF MemoryIsFile, Position, Rebuilt, AddsSnapshot
    <2>9. ASSUME ~packCut'
          PROVE  Finds(proc[p])'
      <3>1. /\ \A d \in proc[p].chunks : Stored(d)
            /\ \A i \in 0 .. k - 1 : IsThere(proc[p].chunk, i)
        BY <1>1, <1>2, <2>1, <2>9 DEF ProcessInv, Finds
      <3>2. \A i \in 0 .. k : IsIn(c, i, chunkFiles')
        <4>1. \A i \in 0 .. k : i \in 0 .. k - 1 \/ i = k
          BY <1>1
        <4>2. \A i \in 0 .. k - 1 : k # 0
          BY <1>1
        <4>3. IsIn(c, k, chunkFiles')
          BY <2>2 DEF IsIn
        <4>4. \A i \in 0 .. k - 1 : IsIn(c, i, chunkFiles')
          BY <2>1, <2>2, <3>1, <4>2 DEF IsThere, IsIn
        <4> QED
          BY <4>1, <4>3, <4>4
      <3>3. LastPart(p, c) => Stored(c)'
        <4>1. LastPart(p, c) => Parts(c) = 0 .. k
          BY <1>1, ChunkSize DEF Parts, LastPart
        <4> QED
          BY <3>2, <4>1 DEF Stored, IsThere, IsIn
      <3>4. \A d \in x.chunks : Stored(d)'
        BY <2>3, <2>7, <3>1, <3>3 DEF cs
      <3>5. \A i \in 0 .. x.part - 1 : IsIn(x.chunk, i, chunkFiles')
        <4>1. x.part # 0 => x.chunk = c /\ 0 .. x.part - 1 = 0 .. k
          BY <1>1, <2>6, <2>7
        <4> QED
          BY <1>4, <3>2, <4>1
      <3>6. Known(proc[p].index)'
        <4>1. proc'[p].index = proc[p].index
          BY <2>4, <2>6, <2>7
        <4>2. \A h \in DOMAIN proc[p].index : Stored(EntryChunk(proc[p].index, h))
          BY <1>2, <1>3, <2>9 DEF Known
        <4> QED
          BY <2>3, <4>1, <4>2 DEF Known, EntryChunk
      <3>7. Known(indexFile)'
        <4>1. \A h \in DOMAIN indexFile : Stored(EntryChunk(indexFile, h))
          BY <1>2, <1>3, <2>9 DEF Known
        <4> QED
          BY <2>2, <2>3, <4>1 DEF Known, EntryChunk
      <3>8. \A i \in 0 .. proc'[p].part - 1 : IsThere(proc[p].chunk, i)'
        BY <2>4, <3>5 DEF IsThere, IsIn
      <3>9. proc'[p].pc = "storeChunk" /\ \A d \in proc'[p].chunks : Stored(d)'
        BY <2>4, <2>6, <2>7, <3>4
      <3> QED
        BY <3>6, <3>7, <3>8, <3>9 DEF Finds
    <2> QED
      BY <1>1, <2>2, <2>8, <2>9 DEF PackingInv, ProcessInv
  <1>7. ASSUME NEW c \in Chunks, StoreChunkFails(p, c)
        PROVE  PackingInv'
    <2> DEFINE x == [proc[p] EXCEPT !.todo = proc[p].todo \ {c}, !.chunk = None, !.part = 0]
    <2>1. /\ proc[p].pc = "storeChunk"
          /\ ~packCut => \A d \in proc[p].chunks : Stored(d)
      BY <1>1, <1>7 DEF StoreChunkFails, At, ProcessInv, Finds
    <2>2. Become(p, x)
      BY <1>7 DEF StoreChunkFails
    <2>3. /\ x.pc = "storeChunk" /\ x.command = proc[p].command
          /\ x.repository = repositoryFile /\ x.index = proc[p].index
          /\ x.chunks = proc[p].chunks /\ x.part = 0
      BY <1>1, <1>3, <2>1 DEF Processes
    <2> HIDE DEF x
    <2>4. MemoryIsFile(x) /\ Position(x) /\ Rebuilt(x)
      BY <1>2, <1>3, <2>3 DEF MemoryIsFile, Position, Rebuilt, AddsSnapshot
    <2>5. ~packCut' => Finds(x)
      BY <1>2, <1>3, <1>4, <2>1, <2>3 DEF Finds
    <2> QED
      BY <1>7, <2>2, <2>4, <2>5, StepInMemory DEF StoreChunkFails
  <1>8. CASE AddArchive(p)
    <2> DEFINE y == IndexArchive(proc[p].index, proc[p].chunks, proc[p].id)
               a == Put(proc[p].archives, proc[p].path, proc[p].chunks)
               x == [proc[p] EXCEPT !.pc = "opened", !.archives = a,
                                    !.index = y, !.path = None, !.chunks = {}]
    <2>1. /\ proc[p].pc = "storeChunk" /\ proc[p].part = 0
          /\ ~packCut => \A c \in proc[p].chunks : Stored(c)
      BY <1>1, <1>3, <1>8 DEF AddArchive, At, ProcessInv, Finds
    <2>2. ~packCut => Known(y)
      BY <1>1, <1>3, <2>1, IndexArchiveKnown
    <2>3. Become(p, x)
      BY <1>8 DEF AddArchive
    <2> HIDE DEF y, a
    <2>4. /\ x.pc = "opened" /\ x.command = proc[p].command
          /\ x.repository = repositoryFile /\ x.index = y /\ x.part = 0
      BY <1>1, <1>3, <2>1 DEF Processes
    <2> HIDE DEF x
    <2>5. MemoryIsFile(x) /\ Position(x) /\ Rebuilt(x)
      BY <1>2, <1>3, <2>4 DEF MemoryIsFile, Position, Rebuilt, AddsSnapshot
    <2>6. ~packCut' => Finds(x)
      BY <1>2, <1>3, <2>2, <2>4 DEF Finds
    <2> QED
      BY <1>8, <2>3, <2>5, <2>6, StepInMemory DEF AddArchive
  <1>9. CASE EndTargets(p)
    <2> DEFINE x == [proc[p] EXCEPT !.pc = "saveSnapshot"]
    <2>1. proc[p].part = 0
      BY <1>1, <1>9 DEF EndTargets, At, ProcessInv, Position
    <2>2. Become(p, x)
      BY <1>9 DEF EndTargets
    <2>3. /\ x.pc = "saveSnapshot" /\ x.command = proc[p].command
          /\ x.repository = repositoryFile /\ x.index = proc[p].index /\ x.part = 0
      BY <1>1, <1>3, <2>1 DEF Processes
    <2> HIDE DEF x
    <2>4. MemoryIsFile(x) /\ Position(x) /\ Rebuilt(x)
      BY <1>2, <1>3, <2>3 DEF MemoryIsFile, Position, Rebuilt, AddsSnapshot
    <2>5. ~packCut' => Finds(x)
      BY <1>2, <1>3, <2>3 DEF Finds
    <2> QED
      BY <1>9, <2>2, <2>4, <2>5, StepInMemory DEF EndTargets
  <1> QED
    BY <1>5, <1>6, <1>7, <1>8, <1>9 DEF Add

\* The saves: of the snapshot, of the index, of the repository file.
LEMMA SavePacking ==
  ASSUME PackingInv, OneAtATime, NEW p \in Procs, Save(p), TypeInv'
  PROVE  PackingInv'
  <1>1. /\ ProcessInv(proc[p]) /\ proc[p] \in Processes /\ Procs = {p}
        /\ StoringOK(proc[p]) /\ repositoryFile \in Repositories
    BY OfTheProcess
  <1>2. CASE SaveSnapshot(p)
    <2> DEFINE r == AddSnapshot(proc[p].repository, proc[p].volume, proc[p].id)
               x == [proc[p] EXCEPT !.pc = "saveIndex", !.repository = r]
    <2>1. proc[p].pc = "saveSnapshot" /\ AddsSnapshot(proc[p])
      BY <1>1, <1>2 DEF SaveSnapshot, At, StoringOK, AddsSnapshot
    <2>2. /\ proc[p].repository = repositoryFile /\ proc[p].part = 0 /\ indexFile # None
          /\ ~packCut => Known(proc[p].index) /\ Known(indexFile)
      BY <1>1, <2>1 DEF ProcessInv, MemoryIsFile, Position, Finds, AddsSnapshot
    <2>3. Become(p, x) /\ UNCHANGED <<repositoryFile, indexFile, chunkFiles, packCut>>
      BY <1>2 DEF SaveSnapshot
    <2> HIDE DEF r
    <2>4. /\ x.pc = "saveIndex" /\ x.command = proc[p].command /\ x.part = 0
          /\ x.repository = r /\ x.index = proc[p].index
      BY <1>1, <2>2 DEF Processes
    <2> HIDE DEF x
    <2>5. MemoryIsFile(x) /\ Position(x) /\ Rebuilt(x)
      BY <2>1, <2>2, <2>4 DEF MemoryIsFile, Position, Rebuilt, AddsSnapshot
    <2>6. ~packCut' => Finds(x)
      BY <2>2, <2>3, <2>4 DEF Finds
    <2> QED
      BY <2>3, <2>5, <2>6, StepInMemory
  <1>3. CASE SaveIndex(p)
    <2>1. proc[p].pc = "saveIndex" /\ proc[p].part = 0
      BY <1>1, <1>3 DEF SaveIndex, At, ProcessInv, Position
    <2>2. /\ ~AddsSnapshot(proc[p]) => Listed(proc[p].repository) \subseteq Listed(repositoryFile)
          /\ ~packCut => Known(proc[p].index)
      BY <1>1, <2>1 DEF ProcessInv, MemoryIsFile, Finds
    <2>3. /\ UNCHANGED <<repositoryFile, chunkFiles, packCut>>
          /\ indexFile' = proc[p].index
      BY <1>3 DEF SaveIndex
    <2>4. indexFile' # None
      BY <2>3, IndexIsSomething, OfTheProcess
    <2>5. ~packCut' => Known(indexFile)'
      <3>1. \A c : Stored(c)' <=> Stored(c)
        BY <2>3 DEF Stored, IsThere
      <3> QED
        BY <2>2, <2>3, <3>1 DEF Known
    <2>6. CASE proc[p].command = "pack"
      <3>1. proc'[p] = Idle
        BY <1>3, <2>6, BecomeProc DEF SaveIndex, Return, PackingInv, TypeInv, TypeOK
      <3>2. proc'[p].pc = "idle" /\ proc'[p].command = None /\ proc'[p].part = 0
            /\ None \notin {"volinit", "store", "clone", "pack"}
        BY <3>1, ConstantsOK DEF Idle, CommandNames
      <3>3. MemoryIsFile(proc[p])' /\ Position(proc[p])' /\ Rebuilt(proc[p])'
        BY <3>2 DEF MemoryIsFile, Position, Rebuilt
      <3>4. ~packCut' => Finds(proc[p])'
        BY <2>5, <3>2 DEF Finds
      <3> QED
        BY <1>1, <2>4, <3>3, <3>4 DEF PackingInv, ProcessInv
    <2>7. CASE proc[p].command # "pack"
      <3> DEFINE x == [proc[p] EXCEPT !.pc = "saveRepository"]
      <3>1. proc'[p] = x
        BY <1>3, <2>7, BecomeProc DEF SaveIndex, PackingInv, TypeInv, TypeOK
      <3>2. /\ proc'[p].pc = "saveRepository" /\ proc'[p].command = proc[p].command
            /\ proc'[p].repository = proc[p].repository /\ proc'[p].part = 0
        BY <1>1, <2>1, <3>1 DEF Processes
      <3>3. MemoryIsFile(proc[p])' /\ Position(proc[p])' /\ Rebuilt(proc[p])'
        <4>1. proc[p].command # "volinit"
          BY <1>1, <2>1 DEF ProcessInv, Position
        <4> QED
          BY <2>2, <2>3, <2>4, <2>7, <3>2, <4>1
          DEF MemoryIsFile, Position, Rebuilt, AddsSnapshot
      <3>4. ~packCut' => Finds(proc[p])'
        BY <2>5, <3>2 DEF Finds
      <3> QED
        BY <1>1, <2>4, <3>3, <3>4 DEF PackingInv, ProcessInv
    <2> QED
      BY <2>6, <2>7
  <1>4. CASE SaveRepository(p)
    <2> DEFINE r == proc[p].repository
    <2>1. /\ proc[p].pc = "saveRepository" /\ proc[p].command # "pack"
          /\ ~AddsSnapshot(proc[p]) => Listed(r) \subseteq Listed(repositoryFile)
          /\ proc[p].command # "volinit" => indexFile # None
          /\ ~packCut => (indexFile # None => Known(indexFile))
      BY <1>1, <1>4 DEF SaveRepository, At, ProcessInv, MemoryIsFile, Position, Finds
    <2>2. UNCHANGED <<indexFile, chunkFiles, packCut>> /\ repositoryFile' = r
      BY <1>4 DEF SaveRepository
    <2>3. proc'[p] = Idle
      BY <1>4, BecomeProc DEF SaveRepository, Return, PackingInv, TypeInv, TypeOK
    <2>4. proc'[p].pc = "idle" /\ proc'[p].command = None /\ proc'[p].part = 0
          /\ None \notin {"volinit", "store", "clone", "pack"}
      BY <2>3, ConstantsOK DEF Idle, CommandNames
    <2>5. indexFile' = None => Listed(repositoryFile') = {}
      BY <2>1, <2>2 DEF PackingInv, AddsSnapshot
    <2>6. MemoryIsFile(proc[p])' /\ Position(proc[p])' /\ Rebuilt(proc[p])'
      BY <2>4 DEF MemoryIsFile, Position, Rebuilt
    <2>7. ~packCut' => Finds(proc[p])'
      <3>1. \A c : Stored(c)' <=> Stored(c)
        BY <2>2 DEF Stored, IsThere
      <3> QED
        BY <2>1, <2>2, <2>4, <3>1 DEF Finds, Known
    <2> QED
      BY <1>1, <2>5, <2>6, <2>7 DEF PackingInv, ProcessInv
  <1> QED
    BY <1>2, <1>3, <1>4 DEF Save

\* A command that ends half-way: the index on file is what it was, and only a
\* pack may have deleted chunks that it knows.
LEMMA AbortPacking ==
  ASSUME PackingInv, OneAtATime, NEW p \in Procs, Abort(p), TypeInv'
  PROVE  PackingInv'
  <1>1. ProcessInv(proc[p])
    BY OfTheProcess
  <1>2. /\ packCut' <=> packCut \/ Packing(p)
        /\ Become(p, Idle) /\ UNCHANGED <<repositoryFile, indexFile, chunkFiles>>
    BY DEF Abort, Return
  <1>3. ~packCut' => (indexFile # None => Known(indexFile))
    BY <1>1, <1>2 DEF ProcessInv, Finds, Packing
  <1>4. ~packCut' => Finds(Idle)
    BY <1>3, NothingInMemory
  <1> QED
    BY <1>2, <1>4, NothingInMemory, StepInMemory

LEMMA InitPacking == Init => PackingInv
  <1> SUFFICES ASSUME Init
               PROVE  PackingInv
    OBVIOUS
  <1>1. Listed(repositoryFile) = {}
    BY DEF Init, Empty, Listed
  <1>2. indexFile = None
    BY DEF Init
  <1>3. \A p \in Procs : ProcessInv(proc[p])
    <2>1. ProcessInv(Idle)
      BY <1>2, NothingInMemory DEF ProcessInv
    <2> QED
      BY <2>1 DEF Init
  <1> QED
    BY <1>1, <1>3, InitType DEF PackingInv

LEMMA NextPacking ==
  ASSUME OneAtATime
  PROVE  PackingInv /\ (SerialUse => IInv) /\ [Next]_vars => PackingInv'
  <1> SUFFICES ASSUME PackingInv, SerialUse => IInv, [Next]_vars
               PROVE  PackingInv'
    OBVIOUS
  <1>1. TypeInv'
    BY NextType DEF PackingInv
  <1>2. CASE Next
    <2> PICK p \in Procs : Step(p)
      BY <1>2 DEF Next
    <2> QED
      BY <1>1, BeginPacking, OpenIndexPacking, AddPacking, RemovePacking, PackPacking,
         SavePacking, AbortPacking DEF Step
  <1>3. CASE UNCHANGED vars
    <2> SUFFICES ASSUME NEW p \in Procs
                 PROVE  ProcessInv(proc[p])'
      BY <1>1, <1>3 DEF vars, PackingInv
    <2>1. /\ ProcessInv(proc[p])
          /\ UNCHANGED <<repositoryFile, indexFile, chunkFiles, proc, packCut>>
      BY <1>3 DEF PackingInv, vars
    <2>2. MemoryIsFile(proc[p])' /\ Position(proc[p])'
      BY <2>1 DEF ProcessInv, MemoryIsFile, Position
    <2>3. Rebuilt(proc[p])' /\ (~packCut' => Finds(proc[p])')
      BY <2>1 DEF ProcessInv, Rebuilt, Finds, Known, Stored, IsThere
    <2> QED
      BY <2>2, <2>3 DEF ProcessInv
  <1> QED
    BY <1>2, <1>3

LEMMA PackingInvariant ==
  ASSUME OneAtATime
  PROVE  Spec => []PackingInv
  <1>1. CASE SerialUse
    <2>1. (SerialUse => IInv) <=> IInv
      BY <1>1
    <2>2. PackingInv /\ IInv /\ [Next]_vars => PackingInv'
      BY <2>1, NextPacking
    <2>3. Spec => []IInv
      BY <1>1, Invariant
    <2> QED
      BY <2>2, <2>3, InitPacking, PTL DEF Spec
  <1>2. CASE ~SerialUse
    <2>1. PackingInv /\ [Next]_vars => PackingInv'
      BY <1>2, NextPacking
    <2> QED
      BY <2>1, InitPacking, PTL DEF Spec
  <1> QED
    BY <1>1, <1>2

-----------------------------------------------------------------------------
(* Result.                                                                 *)

\* Until a pack has ended half-way, the part that ChunkIndex.Pack deletes next
\* is on some backend, in the shape that the index has for the chunk: whatever
\* other command dies, wherever it dies, whatever chunk could not be stored, and
\* in whatever shapes the stores have stored it.  In serial use that is so even
\* if the index could not be loaded and was made again, and making it again ends
\* what a pack that has ended half-way does to later ones.
THEOREM PackFinds ==
  ASSUME OneAtATime
  PROVE  Spec => []PackFindsParts
  <1>1. PackingInv => PackFindsParts
    <2> SUFFICES ASSUME PackingInv, ~packCut, NEW p \in Procs, At(p, "deleteChunk"),
                        NEW c \in proc[p].todo, IsNextChunk(p, c)
                 PROVE  IsThere(c, proc[p].part)
      BY DEF PackFindsParts
    <2>1. /\ Finds(proc[p]) /\ c \in Chunks /\ TypeInv
          /\ proc[p].part \in Nat
      BY OfTheProcess DEF ProcessInv
    <2>2. proc[p].part \in Parts(c) /\ proc[p].part >= proc[p].part
      BY <2>1, NextPartOf
    <2> QED
      BY <2>1, <2>2 DEF At, Finds
  <1> QED
    BY <1>1, PackingInvariant, PTL
=============================================================================
