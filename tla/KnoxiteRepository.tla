------------------------- MODULE KnoxiteRepository -------------------------
(***************************************************************************)
(* The life of a knoxite repository: the four kinds of files it keeps      *)
(* (repository file, snapshot files, chunk-index file, chunk files) and    *)
(* the commands that read and rewrite them: volume init, store, clone,     *)
(* snapshot remove, volume remove and repo pack.                           *)
(*                                                                         *)
(* Every command is a process that loads the repository file and the       *)
(* chunk-index into memory, works on its copies, and writes them back in   *)
(* one storage call after another.  One action is one storage call with    *)
(* the computation in memory around it.  Nothing locks the storage, so     *)
(* several processes may run commands on one repository.                   *)
(*                                                                         *)
(* The backends are reliable here, and a part of a chunk goes to any of    *)
(* them; which one, and what happens when they fail, is the subject of     *)
(* module BackendManager.                                                  *)
(***************************************************************************)
EXTENDS Naturals, Functions

CONSTANTS
  Procs,         \* running instances of the knoxite program
  Volumes,       \* volume ids (a bound: the program draws fresh uuids)
  Snapshots,     \* snapshot ids (a bound: the program draws fresh uuids)
  Paths,         \* paths of the archives of a snapshot
  Hashes,        \* hashes of the encrypted data of chunks
  Shapes,        \* numbers of data and parity parts that stores ask for
  Backends,      \* the storage backends
  None,          \* no file, no value
  Commands,      \* the commands that are run
  MayAbort,      \* where commands may die: pairs of a command and a label
  IndexMayFail,  \* whether reading an existing chunk-index may fail
  StoreMayFail   \* whether storing a part of a chunk may fail

\* What a process does next.
Labels == {"idle", "openIndex", "saveReindexed", "opened", "storeChunk",
           "deleteChunk", "saveSnapshot", "saveIndex", "saveRepository"}

CommandNames == {"volinit", "store", "clone", "remove", "volremove", "pack"}

ASSUME ConstantsOK ==
  /\ Shapes \subseteq [data : Nat \ {0}, parity : Nat]
  /\ Commands \subseteq CommandNames
  /\ MayAbort \subseteq CommandNames \X Labels
  /\ IndexMayFail \in BOOLEAN
  /\ StoreMayFail \in BOOLEAN
  /\ None \notin CommandNames

VARIABLES
  repositoryFile,  \* volume -> snapshots listed in it
  snapshotFiles,   \* snapshot -> archives (path -> chunks of the archive)
  indexFile,       \* hash -> parts and snapshots of its chunk, or None
  chunkFiles,      \* the parts of chunks that are on the backends
  proc,            \* what each process has in memory, and where it is
  packCut          \* a pack has ended before its save, on the index on file
                   \* (the program has no such variable)

vars == <<repositoryFile, snapshotFiles, indexFile, chunkFiles, proc, packCut>>

-----------------------------------------------------------------------------
(* The values that are kept in files and in memory. *)

\* A chunk of an archive.  The parts a chunk is stored as are chosen by each
\* store: --tolerance and the number of backends there are.
Chunks == [hash : Hashes, shape : Shapes]

Size(c)  == c.shape.data + c.shape.parity
Parts(c) == 0 .. Size(c) - 1

\* The file of a part on a backend.  Its name has the hash, the number of the
\* part and the number of data parts.
PartFile(c, i, b) == [backend |-> b, hash |-> c.hash, part |-> i, of |-> c.shape.data]
PartFiles == UNION {{PartFile(c, i, b) : i \in Parts(c), b \in Backends} : c \in Chunks}

\* ChunkIndexItem.
Entries == [shape : Shapes, snapshots : SUBSET Snapshots]

Repositories == UNION {[D -> SUBSET Snapshots] : D \in SUBSET Volumes}
Archives     == UNION {[D -> SUBSET Chunks] : D \in SUBSET Paths}
ChunkIndexes == UNION {[D -> Entries] : D \in SUBSET Hashes}

ASSUME NoneIsNoIndex == None \notin ChunkIndexes

\* A map with nothing in it.
Empty == [x \in {} |-> {}]

\* The assignment m[k] = v to a map.
Put(m, k, v) == [x \in DOMAIN m \cup {k} |-> IF x = k THEN v ELSE m[x]]

\* The snapshots that some volume of a repository lists.
Listed(repository) == UNION {repository[v] : v \in DOMAIN repository}

\* The chunks that the archives of a snapshot are made of.
ChunksOf(archives) == UNION {archives[f] : f \in DOMAIN archives}

\* Some backend has the part.
IsThere(c, i) == \E b \in Backends : PartFile(c, i, b) \in chunkFiles

\* All parts of a chunk are in storage.
Stored(c) == \A i \in Parts(c) : IsThere(c, i)

-----------------------------------------------------------------------------
(* Repository, Volume and ChunkIndex: the operations on the copies in      *)
(* memory.                                                                 *)

AddSnapshot(repository, v, s) ==
  [repository EXCEPT ![v] = repository[v] \cup {s}]

RemoveSnapshot(repository, s) ==
  [v \in DOMAIN repository |-> repository[v] \ {s}]

RemoveVolume(repository, v) == Restrict(repository, DOMAIN repository \ {v})

\* The chunk of a set that has the hash.
WithHash(chunks, h) == CHOOSE c \in chunks : c.hash = h

\* Wrong variant: a chunk that is in the index already gets no reference.
IndexArchiveNewChunks(index, chunks, s) ==
  [h \in DOMAIN index \cup {c.hash : c \in chunks} |->
     IF h \in DOMAIN index
       THEN index[h]
       ELSE [shape |-> WithHash(chunks, h).shape, snapshots |-> {s}]]

\* ChunkIndex.AddArchive: one more reference to every chunk of an archive.  A
\* chunk that is in the index already keeps the shape it has there.
IndexArchive(index, chunks, s) ==
  LET hashes == {c.hash : c \in chunks}
  IN  [h \in DOMAIN index \cup hashes |->
         IF h \in DOMAIN index
           THEN [index[h] EXCEPT !.snapshots = index[h].snapshots
                                   \cup (IF h \in hashes THEN {s} ELSE {})]
           ELSE [shape |-> WithHash(chunks, h).shape, snapshots |-> {s}]]

\* ChunkIndex.RemoveSnapshot, for each of the given snapshots.
IndexRemove(index, gone) ==
  [h \in DOMAIN index |->
     [index[h] EXCEPT !.snapshots = index[h].snapshots \ gone]]

\* An index says that a snapshot refers to a chunk.
HasReference(index, c, s) ==
  c.hash \in DOMAIN index /\ s \in index[c.hash].snapshots

\* Wrong variant: one reference counts as none.
UnreferencedOffByOne(index) ==
  {h \in DOMAIN index : \E s \in Snapshots : index[h].snapshots \subseteq {s}}

Unreferenced(index) == {h \in DOMAIN index : index[h].snapshots = {}}

\* The chunks that ChunkIndex.Pack deletes, in the shape the index knows.
ToDelete(index) ==
  {[hash |-> h, shape |-> index[h].shape] : h \in Unreferenced(index)}

\* The chunks with the hash that listed snapshots are made of.
ListedChunks(repository, h) ==
  {c \in UNION {ChunksOf(snapshotFiles[s]) : s \in Listed(repository)} : c.hash = h}

\* Archives come in the order of a Go map: when listed snapshots have a chunk in
\* several shapes, any of them may be the first that ChunkIndex.reindex meets.
Firsts(repository) ==
  LET found == {h \in Hashes : ListedChunks(repository, h) # {}}
  IN  {first \in [found -> Chunks] :
         \A h \in found : first[h] \in ListedChunks(repository, h)}

\* Wrong variant: the references are not collected.
ReindexNothing(repository, first) == Empty

\* ChunkIndex.reindex: the references of all listed snapshots.
Reindex(repository, first) ==
  [h \in DOMAIN first |->
     [shape     |-> first[h].shape,
      snapshots |-> {s \in Listed(repository) :
                       \E c \in ChunksOf(snapshotFiles[s]) : c.hash = h}]]

-----------------------------------------------------------------------------
(* Processes.                                                              *)

Idle ==
  [pc         |-> "idle",
   command    |-> None,
   repository |-> Empty,   \* Repository in memory
   index      |-> Empty,   \* ChunkIndex in memory
   volume     |-> None,    \* the volume that gets the new snapshot
   id         |-> None,    \* the id of the new snapshot
   shape      |-> None,    \* the parts its new chunks are stored as
   archives   |-> Empty,   \* the archives of the new snapshot
   path       |-> None,    \* the archive that is being stored
   chunks     |-> {},      \* its chunks that have been stored
   todo       |-> {},      \* chunks still to be stored or deleted
   chunk      |-> None,    \* the chunk whose parts are being handled
   part       |-> 0]       \* the part of it that is next

Processes ==
  [pc : Labels, command : Commands \cup {None}, repository : Repositories,
   index : ChunkIndexes, volume : Volumes \cup {None},
   id : Snapshots \cup {None}, shape : Shapes \cup {None}, archives : Archives,
   path : Paths \cup {None}, chunks : SUBSET Chunks, todo : SUBSET Chunks,
   chunk : Chunks \cup {None}, part : Nat]

\* A process is about to do what the label says.
At(p, label) == proc[p].pc = label

Become(p, process) == proc' = [proc EXCEPT ![p] = process]

Return(p) == Become(p, Idle)

\* Ids that no snapshot has: those of saved snapshots and those handed out.
Fresh(s) ==
  /\ s \notin DOMAIN snapshotFiles
  /\ \A p \in Procs : proc[p].id # s

Init ==
  /\ repositoryFile = Empty
  /\ snapshotFiles = Empty
  /\ indexFile = None
  /\ chunkFiles = {}
  /\ proc = [p \in Procs |-> Idle]
  /\ packCut = FALSE

-----------------------------------------------------------------------------
(* Commands begin by reading the repository file.                          *)

\* executeVolumeInit: the new volume, with an id that no repository on file or
\* in memory has, is in memory; the save is next.
VolumeInit(p, v) ==
  /\ At(p, "idle")
  /\ "volinit" \in Commands
  /\ v \notin DOMAIN repositoryFile
  /\ \A q \in Procs : v \notin DOMAIN proc[q].repository
  /\ Become(p, [Idle EXCEPT !.pc = "saveRepository", !.command = "volinit",
                            !.repository = Put(repositoryFile, v, {})])
  /\ UNCHANGED <<repositoryFile, snapshotFiles, indexFile, chunkFiles, packCut>>

\* executeStore: a new, empty snapshot for a volume that exists.  --tolerance and
\* the backends there are decide the shape of the chunks.
Store(p, v, s, shape) ==
  /\ At(p, "idle")
  /\ "store" \in Commands
  /\ v \in DOMAIN repositoryFile
  /\ Fresh(s)
  /\ Become(p, [Idle EXCEPT !.pc = "openIndex", !.command = "store",
                            !.repository = repositoryFile,
                            !.volume = v, !.id = s, !.shape = shape])
  /\ UNCHANGED <<repositoryFile, snapshotFiles, indexFile, chunkFiles, packCut>>

\* executeClone: the new snapshot starts with the archives of an old one.
Clone(p, v, old, s, shape) ==
  /\ At(p, "idle")
  /\ "clone" \in Commands
  /\ v \in DOMAIN repositoryFile
  /\ old \in repositoryFile[v] \cap DOMAIN snapshotFiles
  /\ Fresh(s)
  /\ Become(p, [Idle EXCEPT !.pc = "openIndex", !.command = "clone",
                            !.repository = repositoryFile,
                            !.volume = v, !.id = s, !.shape = shape,
                            !.archives = snapshotFiles[old]])
  /\ UNCHANGED <<repositoryFile, snapshotFiles, indexFile, chunkFiles, packCut>>

\* executeSnapshotRemove, executeVolumeRemove and executeRepoPack open the
\* repository and then the chunk-index.
OpenRepository(p, command) ==
  /\ At(p, "idle")
  /\ command \in Commands \cap {"remove", "volremove", "pack"}
  /\ Become(p, [Idle EXCEPT !.pc = "openIndex", !.command = command,
                            !.repository = repositoryFile])
  /\ UNCHANGED <<repositoryFile, snapshotFiles, indexFile, chunkFiles, packCut>>

-----------------------------------------------------------------------------
(* OpenChunkIndex.                                                         *)

LoadIndex(p) ==
  /\ At(p, "openIndex")
  /\ indexFile # None
  /\ Become(p, [proc[p] EXCEPT !.pc = "opened", !.index = indexFile])
  /\ UNCHANGED <<repositoryFile, snapshotFiles, indexFile, chunkFiles, packCut>>

\* Whatever the reason the index could not be loaded for, it is rebuilt from
\* the snapshots in the repository, or empty if there are none.
RebuildIndex(p) ==
  /\ At(p, "openIndex")
  /\ indexFile = None \/ IndexMayFail
  /\ \E first \in Firsts(proc[p].repository) :
       Become(p, [proc[p] EXCEPT !.pc = "saveReindexed",
                                 !.index = Reindex(proc[p].repository, first)])
  /\ UNCHANGED <<repositoryFile, snapshotFiles, indexFile, chunkFiles, packCut>>

SaveReindexed(p) ==
  /\ At(p, "saveReindexed")
  /\ indexFile' = proc[p].index
  /\ packCut' = FALSE
  /\ Become(p, [proc[p] EXCEPT !.pc = "opened"])
  /\ UNCHANGED <<repositoryFile, snapshotFiles, chunkFiles>>

-----------------------------------------------------------------------------
(* store: Snapshot.Add, then the three saves.                              *)

Storing(p) == proc[p].command \in {"store", "clone"}

\* The next target: a file with any set of chunks (none for a directory, a
\* symbolic link or an empty file).
BeginArchive(p, f, hashes) ==
  /\ At(p, "opened")
  /\ Storing(p)
  /\ Become(p, [proc[p] EXCEPT !.pc = "storeChunk", !.path = f,
                               !.chunks = {},
                               !.todo = [hash : hashes, shape : {proc[p].shape}]])
  /\ UNCHANGED <<repositoryFile, snapshotFiles, indexFile, chunkFiles, packCut>>

\* The chunk whose parts are being handled, or any other one: the workers
\* deliver a file's chunks in no particular order, and the chunk-index is a
\* Go map, which is iterated in no particular order.
IsNextChunk(p, c) ==
  /\ c \in proc[p].todo
  /\ proc[p].part # 0 => c = proc[p].chunk

\* Wrong variant: one part too many.
LastPartOffByOne(p, c) == proc[p].part = Size(c)

LastPart(p, c) == proc[p].part = Size(c) - 1

\* The process after it has handled a part of chunk c.
NextPart(p, c) ==
  IF LastPart(p, c)
    THEN [proc[p] EXCEPT !.todo = proc[p].todo \ {c}, !.chunk = None, !.part = 0]
    ELSE [proc[p] EXCEPT !.chunk = c, !.part = proc[p].part + 1]

\* BackendManager.StoreChunk, one part at a time, on the backend whose turn it
\* is.  If this backend has the part already it is left alone; after the last
\* one the archive has the chunk.
StoreChunk(p, c, b) ==
  /\ At(p, "storeChunk")
  /\ IsNextChunk(p, c)
  /\ chunkFiles' = chunkFiles \cup {PartFile(c, proc[p].part, b)}
  /\ Become(p, [NextPart(p, c) EXCEPT
                  !.chunks = proc[p].chunks \cup (IF LastPart(p, c) THEN {c} ELSE {})])
  /\ UNCHANGED <<repositoryFile, snapshotFiles, indexFile, packCut>>

\* Wrong variant: the archive lists the chunk all the same.
StoreChunkFailsListed(p, c) ==
  /\ StoreMayFail
  /\ At(p, "storeChunk")
  /\ IsNextChunk(p, c)
  /\ Become(p, [proc[p] EXCEPT !.todo = proc[p].todo \ {c}, !.chunk = None, !.part = 0,
                               !.chunks = proc[p].chunks \cup {c}])
  /\ UNCHANGED <<repositoryFile, snapshotFiles, indexFile, chunkFiles, packCut>>

\* Storing a part fails: the archive goes without that chunk.
StoreChunkFails(p, c) ==
  /\ StoreMayFail
  /\ At(p, "storeChunk")
  /\ IsNextChunk(p, c)
  /\ Become(p, [proc[p] EXCEPT !.todo = proc[p].todo \ {c},
                               !.chunk = None, !.part = 0])
  /\ UNCHANGED <<repositoryFile, snapshotFiles, indexFile, chunkFiles, packCut>>

\* Snapshot.AddArchive and ChunkIndex.AddArchive, in memory.
AddArchive(p) ==
  /\ At(p, "storeChunk")
  /\ proc[p].todo = {}
  /\ Become(p, [proc[p] EXCEPT
                  !.pc = "opened",
                  !.archives = Put(proc[p].archives, proc[p].path, proc[p].chunks),
                  !.index = IndexArchive(proc[p].index, proc[p].chunks, proc[p].id),
                  !.path = None, !.chunks = {}])
  /\ UNCHANGED <<repositoryFile, snapshotFiles, indexFile, chunkFiles, packCut>>

\* Wrong variant: the repository file is to list a snapshot that is not saved.
EndTargetsUnsaved(p) ==
  /\ At(p, "opened")
  /\ Storing(p)
  /\ Become(p, [proc[p] EXCEPT
                  !.pc = "saveIndex",
                  !.repository = AddSnapshot(proc[p].repository,
                                             proc[p].volume, proc[p].id)])
  /\ UNCHANGED <<repositoryFile, snapshotFiles, indexFile, chunkFiles, packCut>>

\* All targets are stored.
EndTargets(p) ==
  /\ At(p, "opened")
  /\ Storing(p)
  /\ Become(p, [proc[p] EXCEPT !.pc = "saveSnapshot"])
  /\ UNCHANGED <<repositoryFile, snapshotFiles, indexFile, chunkFiles, packCut>>

\* Snapshot.Save, then Volume.AddSnapshot in memory.
SaveSnapshot(p) ==
  /\ At(p, "saveSnapshot")
  /\ snapshotFiles' = Put(snapshotFiles, proc[p].id, proc[p].archives)
  /\ Become(p, [proc[p] EXCEPT
                  !.pc = "saveIndex",
                  !.repository = AddSnapshot(proc[p].repository,
                                             proc[p].volume, proc[p].id)])
  /\ UNCHANGED <<repositoryFile, indexFile, chunkFiles, packCut>>

-----------------------------------------------------------------------------
(* snapshot remove, volume remove: both copies change in memory.           *)

BeginRemove(p, s) ==
  /\ At(p, "opened")
  /\ proc[p].command = "remove"
  /\ s \in Listed(proc[p].repository) \cap DOMAIN snapshotFiles
  /\ Become(p, [proc[p] EXCEPT !.pc = "saveIndex",
                  !.repository = RemoveSnapshot(proc[p].repository, s),
                  !.index = IndexRemove(proc[p].index, {s})])
  /\ UNCHANGED <<repositoryFile, snapshotFiles, indexFile, chunkFiles, packCut>>

BeginVolumeRemove(p, v) ==
  /\ At(p, "opened")
  /\ proc[p].command = "volremove"
  /\ v \in DOMAIN proc[p].repository
  /\ Become(p, [proc[p] EXCEPT !.pc = "saveIndex",
                  !.repository = RemoveVolume(proc[p].repository, v),
                  !.index = IndexRemove(proc[p].index, proc[p].repository[v])])
  /\ UNCHANGED <<repositoryFile, snapshotFiles, indexFile, chunkFiles, packCut>>

\* Nothing to remove: ErrSnapshotNotFound, ErrVolumeNotFound.
RemoveNotFound(p) ==
  /\ At(p, "opened")
  /\ proc[p].command \in {"remove", "volremove"}
  /\ Return(p)
  /\ UNCHANGED <<repositoryFile, snapshotFiles, indexFile, chunkFiles, packCut>>

-----------------------------------------------------------------------------
(* repo pack.                                                              *)

BeginPack(p) ==
  /\ At(p, "opened")
  /\ proc[p].command = "pack"
  /\ Become(p, [proc[p] EXCEPT !.pc = "deleteChunk",
                               !.todo = ToDelete(proc[p].index)])
  /\ UNCHANGED <<repositoryFile, snapshotFiles, indexFile, chunkFiles, packCut>>

\* BackendManager.DeleteChunk of one part: the first backend that has it deletes
\* it, and what others have of it stays.
DeleteChunk(p, c, b) ==
  /\ At(p, "deleteChunk")
  /\ IsNextChunk(p, c)
  /\ PartFile(c, proc[p].part, b) \in chunkFiles
  /\ chunkFiles' = chunkFiles \ {PartFile(c, proc[p].part, b)}
  /\ Become(p, NextPart(p, c))
  /\ UNCHANGED <<repositoryFile, snapshotFiles, indexFile, packCut>>

\* No backend has the part: Pack returns the error and nothing is saved.
DeleteChunkFails(p, c) ==
  /\ At(p, "deleteChunk")
  /\ IsNextChunk(p, c)
  /\ ~IsThere(c, proc[p].part)
  /\ packCut' = TRUE
  /\ Return(p)
  /\ UNCHANGED <<repositoryFile, snapshotFiles, indexFile, chunkFiles>>

\* Wrong variant: the entries of the deleted chunks stay in the index.
EndPackKeepsEntries(p) ==
  /\ At(p, "deleteChunk")
  /\ proc[p].todo = {}
  /\ Become(p, [proc[p] EXCEPT !.pc = "saveIndex"])
  /\ UNCHANGED <<repositoryFile, snapshotFiles, indexFile, chunkFiles, packCut>>

\* The loop is over: the index keeps the chunks that are referenced.
EndPack(p) ==
  /\ At(p, "deleteChunk")
  /\ proc[p].todo = {}
  /\ Become(p, [proc[p] EXCEPT !.pc = "saveIndex",
                  !.index = Restrict(proc[p].index,
                                     DOMAIN proc[p].index
                                       \ Unreferenced(proc[p].index))])
  /\ UNCHANGED <<repositoryFile, snapshotFiles, indexFile, chunkFiles, packCut>>

-----------------------------------------------------------------------------
(* The last two saves, in the order all commands make them.                *)

\* ChunkIndex.Save: the last step of repo pack.
SaveIndex(p) ==
  /\ At(p, "saveIndex")
  /\ indexFile' = proc[p].index
  /\ IF proc[p].command = "pack"
       THEN Return(p)
       ELSE Become(p, [proc[p] EXCEPT !.pc = "saveRepository"])
  /\ UNCHANGED <<repositoryFile, snapshotFiles, chunkFiles, packCut>>

\* Repository.Save: the last step of every other command.
SaveRepository(p) ==
  /\ At(p, "saveRepository")
  /\ repositoryFile' = proc[p].repository
  /\ Return(p)
  /\ UNCHANGED <<snapshotFiles, indexFile, chunkFiles, packCut>>

\* Pack has begun to delete and has not saved the index without what it deleted.
Packing(p) ==
  proc[p].command = "pack" /\ proc[p].pc \in {"deleteChunk", "saveIndex"}

\* A command ends half-way: a storage call returned an error, the user
\* interrupted it, the process was killed or the machine lost power.  What
\* it had in memory is gone and what it has written stays.
Abort(p) ==
  /\ ~At(p, "idle")
  /\ <<proc[p].command, proc[p].pc>> \in MayAbort
  /\ packCut' = (packCut \/ Packing(p))
  /\ Return(p)
  /\ UNCHANGED <<repositoryFile, snapshotFiles, indexFile, chunkFiles>>

-----------------------------------------------------------------------------
Begin(p) ==
  \/ \E v \in Volumes : VolumeInit(p, v)
  \/ \E v \in Volumes, s \in Snapshots, shape \in Shapes : Store(p, v, s, shape)
  \/ \E v \in Volumes, old, s \in Snapshots, shape \in Shapes : Clone(p, v, old, s, shape)
  \/ \E command \in Commands : OpenRepository(p, command)

OpenChunkIndex(p) == LoadIndex(p) \/ RebuildIndex(p) \/ SaveReindexed(p)

Add(p) ==
  \/ \E f \in Paths, hashes \in SUBSET Hashes : BeginArchive(p, f, hashes)
  \/ \E c \in Chunks, b \in Backends : StoreChunk(p, c, b)
  \/ \E c \in Chunks : StoreChunkFails(p, c)
  \/ AddArchive(p)
  \/ EndTargets(p)

Remove(p) ==
  \/ \E s \in Snapshots : BeginRemove(p, s)
  \/ \E v \in Volumes : BeginVolumeRemove(p, v)
  \/ RemoveNotFound(p)

Pack(p) ==
  \/ BeginPack(p)
  \/ \E c \in Chunks, b \in Backends : DeleteChunk(p, c, b)
  \/ \E c \in Chunks : DeleteChunkFails(p, c)
  \/ EndPack(p)

Save(p) == SaveSnapshot(p) \/ SaveIndex(p) \/ SaveRepository(p)

Step(p) ==
  Begin(p) \/ OpenChunkIndex(p) \/ Add(p) \/ Remove(p) \/ Pack(p) \/ Save(p) \/ Abort(p)

Next == \E p \in Procs : Step(p)

Spec == Init /\ [][Next]_vars

-----------------------------------------------------------------------------
(* Properties.                                                             *)

\* Type invariant of the files and of the copies in memory.
TypeOK ==
  /\ repositoryFile \in Repositories
  /\ snapshotFiles \in UNION {[D -> Archives] : D \in SUBSET Snapshots}
  /\ indexFile \in ChunkIndexes \cup {None}
  /\ chunkFiles \subseteq PartFiles
  /\ proc \in [Procs -> Processes]
  /\ \A p \in Procs : proc[p].part # 0 =>
       proc[p].chunk \in Chunks /\ proc[p].part \in Parts(proc[p].chunk)
  /\ packCut \in BOOLEAN

\* The chunks that some listed snapshot is made of.
Used == UNION {ChunksOf(snapshotFiles[s]) :
                 s \in Listed(repositoryFile) \cap DOMAIN snapshotFiles}

UsedHashes == {c.hash : c \in Used}

\* Every snapshot the repository file lists can be restored: its snapshot
\* file is there and so are all parts of all its chunks (executeRestore needs
\* exactly these files).  Threatened by the order of the three saves of
\* executeStore, by ending a command half-way, and by Pack.
Recoverable ==
  /\ Listed(repositoryFile) \subseteq DOMAIN snapshotFiles
  /\ \A c \in Used : Stored(c)

\* A removal has saved its index but not yet the repository file.
Removing(p) ==
  /\ At(p, "saveRepository")
  /\ proc[p].command \in {"remove", "volremove"}

\* The saved chunk-index knows every reference of every listed snapshot,
\* except while a removal is between its two saves.  Pack trusts it: a
\* reference that is missing here is a chunk it will delete from under a
\* snapshot.
IndexCovers ==
  indexFile # None /\ (\A p \in Procs : ~Removing(p)) =>
    \A s \in Listed(repositoryFile) \cap DOMAIN snapshotFiles :
      \A c \in ChunksOf(snapshotFiles[s]) :
        HasReference(indexFile, c, s)

\* ChunkIndex.Pack says of each chunk it deletes that it "is no longer
\* referenced by any snapshot": no step deletes a part of a chunk that a
\* listed snapshot is made of.
OnlyUnreferencedDeleted ==
  [][\A x \in chunkFiles \ chunkFiles' : x.hash \notin UsedHashes]_vars

\* Process p has just done the last save of repo pack.
PackDone(p) == proc[p].command = "pack" /\ SaveIndex(p)

\* "The pack command deletes all unused data chunks from storage": when it has
\* succeeded, every part of a chunk on a backend is of a chunk that the saved
\* index says a listed snapshot refers to.
PackDeletesAllUnused ==
  [][\A p \in Procs : PackDone(p) =>
       \A x \in chunkFiles :
         /\ x.hash \in DOMAIN indexFile'
         /\ indexFile'[x.hash].snapshots \cap Listed(repositoryFile) # {}]_vars

\* The part that Pack deletes next is on some backend, in the shape the index has
\* for the chunk, unless a pack has ended half-way since the index was last made.
\* DeleteChunk of a missing part is an error, on which Pack gives up without
\* saving its index, so a single missing part keeps every later pack from
\* deleting anything after it.
PackFindsParts ==
  ~packCut =>
    \A p \in Procs : At(p, "deleteChunk") =>
      \A c \in proc[p].todo : IsNextChunk(p, c) => IsThere(c, proc[p].part)

\* What can be restored, seen from outside: of each listed snapshot, the
\* archives all of whose chunks are in storage.
Restorable(archives) ==
  Restrict(archives, {f \in DOMAIN archives : \A c \in archives[f] : Stored(c)})

backups ==
  [s \in Listed(repositoryFile) \cap DOMAIN snapshotFiles |->
     Restorable(snapshotFiles[s])]

\* What can be restored of a snapshot does not change for as long as it is
\* listed.  It is threatened by everything that touches the files a snapshot is
\* made of after it is first listed: a second snapshot under the same id, a pack,
\* a chunk of which only a part is stored by the time it is listed.
SnapshotsStay ==
  [][\A s \in DOMAIN backups \cap DOMAIN backups' : backups'[s] = backups[s]]_vars

B == INSTANCE Backups

\* The commands implement atomic additions and removals of whole snapshots:
\* saves, crashes and packs in between are invisible to whoever restores.
ImplementsBackups == B!Spec
=============================================================================
