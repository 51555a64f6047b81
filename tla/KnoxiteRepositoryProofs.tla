----------------------- MODULE KnoxiteRepositoryProofs -----------------------
(***************************************************************************)
(* Proofs about KnoxiteRepository, for any number of volumes, snapshots,   *)
(* paths, hashes, shapes and backends.  TypeOK holds without any           *)
(* assumption.  The other theorems are about repositories that are used    *)
(* the way the code is able to handle (SerialUse).                         *)
(***************************************************************************)
EXTENDS KnoxiteRepository, TLAPS

\* One command at a time, none of them clone, and no removal ends between its
\* two saves.  The configurations MCRepository_store_pack, _clone_pack and
\* _remove_cut show that each part is needed.
SerialUse ==
  /\ \A p, q \in Procs : p = q
  /\ "clone" \notin Commands
  /\ MayAbort \cap {<<"remove", "saveRepository">>,
                   <<"volremove", "saveRepository">>} = {}

-----------------------------------------------------------------------------
(* The inductive invariant.                                                *)

\* The index has every reference that the listed snapshots need.
Covers(index, repository) ==
  \A s \in Listed(repository) : \A c \in ChunksOf(snapshotFiles[s]) :
    HasReference(index, c, s)

\* Some backend has the part, if these are the files.
IsIn(c, i, files) == \E b \in Backends : PartFile(c, i, b) \in files

\* No snapshot is listed in two volumes.
Disjoint(repository) ==
  \A v, w \in DOMAIN repository :
    v # w => repository[v] \cap repository[w] = {}

\* TypeOK is not inductive: that AddArchive and SaveSnapshot produce archives
\* and repositories also depends on where the process is.
StoringOK(x) ==
  /\ x.part # 0 => x.chunk \in Chunks /\ x.part \in Parts(x.chunk)
  /\ x.command \in {"store", "clone"} =>
       /\ x.id \in Snapshots /\ x.shape \in Shapes
       /\ x.volume \in DOMAIN x.repository
  /\ x.pc \in {"storeChunk", "saveSnapshot"} => x.command \in {"store", "clone"}
  /\ x.pc = "storeChunk" => x.path \in Paths

TypeInv == TypeOK /\ \A p \in Procs : StoringOK(proc[p])

\* In what follows x is the memory of a process.  Commands are where they can be.
CommandInv(x) ==
  /\ x.pc \in {"storeChunk", "saveSnapshot"} => x.command = "store"
  /\ x.pc = "deleteChunk" => x.command = "pack"
  /\ x.pc = "saveRepository" => x.command # "pack"
  /\ x.pc # "idle" =>
       x.command \in {"volinit", "store", "remove", "volremove", "pack"}
  /\ x.command = "volinit" => x.pc = "saveRepository"

\* The repository in memory is the one on file, until the command changes it.
RepositoryInv(x) ==
  /\ \/ x.pc \in {"openIndex", "saveReindexed", "opened", "storeChunk",
                  "deleteChunk", "saveSnapshot"}
     \/ x.pc = "saveIndex" /\ x.command = "pack"
     => x.repository = repositoryFile
  /\ x.pc # "idle" => Disjoint(x.repository)
  /\ /\ x.pc \in {"saveIndex", "saveRepository"}
     /\ x.command # "store"
     => Listed(x.repository) \subseteq Listed(repositoryFile)

\* The index in memory covers the repository in memory, from the moment it is
\* loaded until it is saved; from then on the one on file does.
IndexInv(x) ==
  /\ x.pc \in {"saveReindexed", "opened", "storeChunk", "deleteChunk",
               "saveSnapshot", "saveIndex"}
     => Covers(x.index, x.repository)
  /\ x.pc = "saveRepository" /\ indexFile # None
     => Covers(indexFile, x.repository)

\* A new snapshot, before and after its file is saved.
SnapshotInv(x) ==
  /\ /\ x.command = "store"
     /\ x.pc \in {"openIndex", "saveReindexed", "opened", "storeChunk",
                  "saveSnapshot"}
     => /\ x.id \in Snapshots \ DOMAIN snapshotFiles
        /\ x.volume \in DOMAIN repositoryFile
  /\ /\ x.command = "store"
     /\ x.pc \in {"openIndex", "saveReindexed"}
     => x.archives = Empty
  /\ /\ x.command = "store"
     /\ x.pc \in {"opened", "storeChunk", "saveSnapshot"}
     => \A c \in ChunksOf(x.archives) :
          Stored(c) /\ HasReference(x.index, c, x.id)
  /\ /\ x.command = "store"
     /\ x.pc \in {"saveIndex", "saveRepository"}
     => /\ x.id \in DOMAIN snapshotFiles \ Listed(repositoryFile)
        /\ \A c \in ChunksOf(snapshotFiles[x.id]) : Stored(c)
        /\ x.volume \in DOMAIN repositoryFile
        /\ x.repository = AddSnapshot(repositoryFile, x.volume, x.id)

\* The loops of StoreChunk and Pack.
LoopInv(x) ==
  /\ x.part # 0 =>
       /\ x.pc \in {"storeChunk", "deleteChunk"}
       /\ x.chunk \in x.todo
  /\ x.pc = "storeChunk" =>
       /\ x.path \in Paths
       /\ \A c \in x.chunks : Stored(c)
       /\ \A i \in 0 .. x.part - 1 : IsThere(x.chunk, i)
  /\ x.pc = "deleteChunk" => x.todo \subseteq ToDelete(x.index)

MemoryInv(x) ==
  /\ CommandInv(x)
  /\ RepositoryInv(x)
  /\ IndexInv(x)
  /\ SnapshotInv(x)
  /\ LoopInv(x)

IInv ==
  /\ TypeInv
  /\ Recoverable
  /\ IndexCovers
  /\ Disjoint(repositoryFile)
  /\ \A p \in Procs : MemoryInv(proc[p])

-----------------------------------------------------------------------------
(* Lemmas about the values that are kept in files and in memory.           *)

\* What a repository is: a map from volumes to sets of snapshots.
LEMMA RepositoryType ==
  ASSUME NEW r
  PROVE  r \in Repositories <=>
           /\ r = [v \in DOMAIN r |-> r[v]]
           /\ DOMAIN r \subseteq Volumes
           /\ \A v \in DOMAIN r : r[v] \subseteq Snapshots
  BY DEF Repositories

\* What archives are: a map from paths to sets of chunks.
LEMMA ArchivesType ==
  ASSUME NEW a
  PROVE  a \in Archives <=>
           /\ a = [f \in DOMAIN a |-> a[f]]
           /\ DOMAIN a \subseteq Paths
           /\ \A f \in DOMAIN a : a[f] \subseteq Chunks
  BY DEF Archives

\* What a chunk-index is: a map from hashes to entries.
LEMMA IndexType ==
  ASSUME NEW x
  PROVE  x \in ChunkIndexes <=>
           /\ x = [h \in DOMAIN x |-> x[h]]
           /\ DOMAIN x \subseteq Hashes
           /\ \A h \in DOMAIN x : x[h] \in Entries
  BY DEF ChunkIndexes

\* What the snapshot files are: a map from snapshots to archives.
LEMMA SnapshotFilesType ==
  ASSUME NEW f
  PROVE  f \in UNION {[D -> Archives] : D \in SUBSET Snapshots} <=>
           /\ f = [s \in DOMAIN f |-> f[s]]
           /\ DOMAIN f \subseteq Snapshots
           /\ \A s \in DOMAIN f : f[s] \in Archives
  OBVIOUS

\* The empty map is a repository, archives, a chunk-index.
LEMMA EmptyType ==
  Empty \in Repositories /\ Empty \in Archives /\ Empty \in ChunkIndexes
  <1>1. Empty = [x \in DOMAIN Empty |-> Empty[x]] /\ DOMAIN Empty = {}
    BY DEF Empty
  <1> HIDE DEF Empty
  <1> QED
    BY <1>1, RepositoryType, ArchivesType, IndexType

\* Adding a volume lists no new snapshot.
LEMMA PutVolume ==
  ASSUME NEW r \in Repositories, NEW v \in Volumes \ DOMAIN r
  PROVE  /\ Put(r, v, {}) \in Repositories
         /\ Listed(Put(r, v, {})) = Listed(r)
         /\ Disjoint(r) => Disjoint(Put(r, v, {}))
  <1> DEFINE q == Put(r, v, {})
  <1>1. DOMAIN q = DOMAIN r \cup {v} /\ q = [x \in DOMAIN q |-> q[x]]
    BY DEF Put
  <1>2. q[v] = {} /\ \A x \in DOMAIN r : q[x] = r[x]
    BY DEF Put
  <1>3. q \in Repositories
    BY <1>1, <1>2, RepositoryType
  <1>4. Listed(q) = Listed(r)
    BY <1>1, <1>2 DEF Listed
  <1>5. Disjoint(r) => Disjoint(q)
    BY <1>1, <1>2 DEF Disjoint
  <1> QED
    BY <1>3, <1>4, <1>5

\* Volume.AddSnapshot lists one snapshot more.
LEMMA AddSnapshotListed ==
  ASSUME NEW r \in Repositories, NEW v \in DOMAIN r, NEW s \in Snapshots
  PROVE  /\ AddSnapshot(r, v, s) \in Repositories
         /\ DOMAIN AddSnapshot(r, v, s) = DOMAIN r
         /\ Listed(AddSnapshot(r, v, s)) = Listed(r) \cup {s}
         /\ Disjoint(r) /\ s \notin Listed(r) => Disjoint(AddSnapshot(r, v, s))
  <1> DEFINE q == AddSnapshot(r, v, s)
  <1>1. DOMAIN q = DOMAIN r /\ q = [x \in DOMAIN q |-> q[x]]
    BY RepositoryType DEF AddSnapshot
  <1>2. q[v] = r[v] \cup {s} /\ \A x \in DOMAIN r : x # v => q[x] = r[x]
    BY RepositoryType DEF AddSnapshot
  <1>3. q \in Repositories
    BY <1>1, <1>2, RepositoryType
  <1>4. Listed(q) = Listed(r) \cup {s}
    BY <1>1, <1>2 DEF Listed
  <1>5. Disjoint(r) /\ s \notin Listed(r) => Disjoint(q)
    BY <1>1, <1>2 DEF Disjoint, Listed
  <1> QED
    BY <1>1, <1>3, <1>4, <1>5

\* Volume.RemoveSnapshot lists one snapshot less.
LEMMA RemoveSnapshotListed ==
  ASSUME NEW r \in Repositories, NEW s
  PROVE  /\ RemoveSnapshot(r, s) \in Repositories
         /\ Listed(RemoveSnapshot(r, s)) = Listed(r) \ {s}
         /\ Disjoint(r) => Disjoint(RemoveSnapshot(r, s))
  <1> DEFINE q == RemoveSnapshot(r, s)
  <1>1. DOMAIN q = DOMAIN r /\ q = [x \in DOMAIN q |-> q[x]]
    BY DEF RemoveSnapshot
  <1>2. \A x \in DOMAIN r : q[x] = r[x] \ {s}
    BY DEF RemoveSnapshot
  <1>3. q \in Repositories
    BY <1>1, <1>2, RepositoryType
  <1>4. Listed(q) = Listed(r) \ {s}
    BY <1>1, <1>2 DEF Listed
  <1>5. Disjoint(r) => Disjoint(q)
    BY <1>1, <1>2 DEF Disjoint
  <1> QED
    BY <1>3, <1>4, <1>5

\* Repository.RemoveVolume: if no snapshot is listed twice, exactly those of
\* the volume are not listed any more.
LEMMA RemoveVolumeListed ==
  ASSUME NEW r \in Repositories, NEW v \in DOMAIN r
  PROVE  /\ RemoveVolume(r, v) \in Repositories
         /\ Listed(RemoveVolume(r, v)) \subseteq Listed(r)
         /\ Disjoint(r) => /\ Listed(RemoveVolume(r, v)) = Listed(r) \ r[v]
                           /\ Disjoint(RemoveVolume(r, v))
  <1> DEFINE q == RemoveVolume(r, v)
  <1>1. DOMAIN q = DOMAIN r \ {v} /\ q = [x \in DOMAIN q |-> q[x]]
    BY DEF RemoveVolume, Restrict
  <1>2. \A x \in DOMAIN q : q[x] = r[x]
    BY DEF RemoveVolume, Restrict
  <1>3. q \in Repositories
    BY <1>1, <1>2, RepositoryType
  <1>4. Listed(q) \subseteq Listed(r)
    BY <1>1, <1>2 DEF Listed
  <1>5. Disjoint(r) => Listed(q) = Listed(r) \ r[v]
    BY <1>1, <1>2 DEF Disjoint, Listed
  <1>6. Disjoint(r) => Disjoint(q)
    BY <1>1, <1>2 DEF Disjoint
  <1> QED
    BY <1>3, <1>4, <1>5, <1>6

\* WithHash finds a chunk, if there is one.
LEMMA WithHashFinds ==
  ASSUME NEW cs \in SUBSET Chunks, NEW h \in {c.hash : c \in cs}
  PROVE  WithHash(cs, h) \in cs /\ WithHash(cs, h).hash = h
  <1>1. \E c \in cs : c.hash = h
    OBVIOUS
  <1> QED
    BY <1>1 DEF WithHash

\* ChunkIndex.AddArchive keeps every reference and adds those of the archive.
LEMMA IndexArchiveRefs ==
  ASSUME NEW x \in ChunkIndexes, NEW cs \in SUBSET Chunks, NEW s \in Snapshots
  PROVE  /\ IndexArchive(x, cs, s) \in ChunkIndexes
         /\ \A c, t : HasReference(x, c, t) => HasReference(IndexArchive(x, cs, s), c, t)
         /\ \A c \in cs : HasReference(IndexArchive(x, cs, s), c, s)
  <1> DEFINE hashes == {c.hash : c \in cs}
  <1> DEFINE y == IndexArchive(x, cs, s)
  <1>1. DOMAIN y = DOMAIN x \cup hashes /\ y = [h \in DOMAIN y |-> y[h]]
    BY DEF IndexArchive
  <1>2. /\ DOMAIN x \subseteq Hashes /\ hashes \subseteq Hashes
        /\ \A h \in DOMAIN x : x[h] \in Entries
    BY IndexType DEF Chunks
  <1>3. ASSUME NEW h \in DOMAIN x
        PROVE  /\ y[h] \in Entries
               /\ x[h].snapshots \subseteq y[h].snapshots
               /\ h \in hashes => s \in y[h].snapshots
    <2>1. y[h] = [x[h] EXCEPT !.snapshots = x[h].snapshots
                                \cup (IF h \in hashes THEN {s} ELSE {})]
      BY DEF IndexArchive
    <2>2. (IF h \in hashes THEN {s} ELSE {}) \subseteq Snapshots
      OBVIOUS
    <2> HIDE DEF y, hashes
    <2> QED
      BY <1>2, <2>1, <2>2 DEF Entries
  <1>4. ASSUME NEW h \in hashes \ DOMAIN x
        PROVE  y[h] \in Entries /\ y[h].snapshots = {s}
    <2>1. y[h] = [shape |-> WithHash(cs, h).shape, snapshots |-> {s}]
      BY DEF IndexArchive
    <2>2. WithHash(cs, h) \in Chunks
      BY WithHashFinds
    <2> QED
      BY <2>1, <2>2 DEF Chunks, Entries
  <1> HIDE DEF y
  <1>5. y \in ChunkIndexes
    BY <1>1, <1>2, <1>3, <1>4, IndexType
  <1>6. \A c, t : HasReference(x, c, t) => HasReference(y, c, t)
    BY <1>1, <1>3 DEF HasReference
  <1>7. \A c \in cs : HasReference(y, c, s)
    <2> SUFFICES ASSUME NEW c \in cs PROVE HasReference(y, c, s)
      OBVIOUS
    <2>1. c.hash \in hashes
      OBVIOUS
    <2> HIDE DEF hashes
    <2> QED
      BY <1>1, <1>3, <1>4, <2>1 DEF HasReference
  <1> QED
    BY <1>5, <1>6, <1>7 DEF y

\* ChunkIndex.RemoveSnapshot keeps the references of all other snapshots.
LEMMA IndexRemoveRefs ==
  ASSUME NEW x \in ChunkIndexes, NEW gone
  PROVE  /\ IndexRemove(x, gone) \in ChunkIndexes
         /\ \A c, t : HasReference(x, c, t) /\ t \notin gone
                       => HasReference(IndexRemove(x, gone), c, t)
  <1> DEFINE y == IndexRemove(x, gone)
  <1>1. DOMAIN y = DOMAIN x /\ y = [h \in DOMAIN y |-> y[h]]
    BY DEF IndexRemove
  <1>2. DOMAIN x \subseteq Hashes /\ \A h \in DOMAIN x : x[h] \in Entries
    BY IndexType
  <1>3. ASSUME NEW h \in DOMAIN x
        PROVE  y[h] \in Entries /\ y[h].snapshots = x[h].snapshots \ gone
    <2>1. y[h] = [x[h] EXCEPT !.snapshots = x[h].snapshots \ gone]
      BY DEF IndexRemove
    <2> HIDE DEF y
    <2> QED
      BY <1>2, <2>1 DEF Entries
  <1> HIDE DEF y
  <1>4. y \in ChunkIndexes
    BY <1>1, <1>2, <1>3, IndexType
  <1>5. \A c, t : HasReference(x, c, t) /\ t \notin gone => HasReference(y, c, t)
    BY <1>1, <1>3 DEF HasReference
  <1> QED
    BY <1>4, <1>5 DEF y

\* ChunkIndex.Pack drops the entries without references and no others.
LEMMA PackedRefs ==
  ASSUME NEW x \in ChunkIndexes
  PROVE  LET y == Restrict(x, DOMAIN x \ Unreferenced(x))
         IN  /\ y \in ChunkIndexes
             /\ \A c, t : HasReference(x, c, t) => HasReference(y, c, t)
  <1> DEFINE y == Restrict(x, DOMAIN x \ Unreferenced(x))
  <1>1. DOMAIN y = DOMAIN x \ Unreferenced(x) /\ y = [h \in DOMAIN y |-> y[h]]
    BY DEF Restrict
  <1>2. \A h \in DOMAIN y : y[h] = x[h]
    BY DEF Restrict
  <1> HIDE DEF y
  <1>3. y \in ChunkIndexes
    BY <1>1, <1>2, IndexType
  <1>4. \A c, t : HasReference(x, c, t) => HasReference(y, c, t)
    BY <1>1, <1>2 DEF Unreferenced, HasReference
  <1> QED
    BY <1>3, <1>4 DEF y

\* ChunkIndex.reindex finds every reference of every listed snapshot.
LEMMA ReindexCovers ==
  ASSUME NEW r \in Repositories, NEW first \in Firsts(r)
  PROVE  /\ Reindex(r, first) \in ChunkIndexes
         /\ (\A s \in Listed(r) : ChunksOf(snapshotFiles[s]) \subseteq Chunks)
              => Covers(Reindex(r, first), r)
  <1> DEFINE found == {h \in Hashes : ListedChunks(r, h) # {}}
  <1> DEFINE refs(h) == {s \in Listed(r) : \E c \in ChunksOf(snapshotFiles[s]) : c.hash = h}
  <1> DEFINE x == Reindex(r, first)
  <1>1. first \in [found -> Chunks]
    BY DEF Firsts
  <1>2. /\ DOMAIN x = found
        /\ x = [h \in DOMAIN x |-> x[h]]
        /\ \A h \in found : x[h] = [shape |-> first[h].shape, snapshots |-> refs(h)]
    BY <1>1 DEF Reindex
  <1>3. Listed(r) \subseteq Snapshots
    BY RepositoryType DEF Listed
  <1>4. \A h \in found : x[h] \in Entries
    <2> SUFFICES ASSUME NEW h \in found PROVE x[h] \in Entries
      OBVIOUS
    <2>1. first[h].shape \in Shapes
      BY <1>1 DEF Chunks
    <2>2. refs(h) \subseteq Snapshots
      BY <1>3
    <2> HIDE DEF x, found, refs
    <2> QED
      BY <1>2, <2>1, <2>2 DEF Entries
  <1>5. x \in ChunkIndexes
    <2> HIDE DEF x
    <2> QED
      BY <1>2, <1>4, IndexType
  <1>6. ASSUME \A s \in Listed(r) : ChunksOf(snapshotFiles[s]) \subseteq Chunks
        PROVE  Covers(x, r)
    <2> SUFFICES ASSUME NEW s \in Listed(r), NEW c \in ChunksOf(snapshotFiles[s])
                 PROVE  HasReference(x, c, s)
      BY DEF Covers
    <2>1. c.hash \in Hashes
      BY <1>6 DEF Chunks
    <2>2. c \in ListedChunks(r, c.hash)
      BY DEF ListedChunks
    <2>3. c.hash \in found /\ s \in refs(c.hash)
      BY <2>1, <2>2
    <2> HIDE DEF x, found, refs
    <2> QED
      BY <1>2, <2>3 DEF HasReference
  <1> QED
    BY <1>5, <1>6

\* A new archive of a snapshot contributes its chunks.
LEMMA PutArchive ==
  ASSUME NEW a \in Archives, NEW f \in Paths, NEW cs \in SUBSET Chunks
  PROVE  /\ Put(a, f, cs) \in Archives
         /\ ChunksOf(Put(a, f, cs)) \subseteq ChunksOf(a) \cup cs
  <1> DEFINE b == Put(a, f, cs)
  <1>1. DOMAIN b = DOMAIN a \cup {f} /\ b = [x \in DOMAIN b |-> b[x]]
    BY DEF Put
  <1>2. b[f] = cs /\ \A x \in DOMAIN b : x # f => b[x] = a[x]
    BY DEF Put
  <1>3. b \in Archives
    BY <1>1, <1>2, ArchivesType
  <1>4. ChunksOf(b) \subseteq ChunksOf(a) \cup cs
    BY <1>1, <1>2 DEF ChunksOf
  <1> QED
    BY <1>3, <1>4

\* Saving a snapshot file leaves all others as they are.
LEMMA PutSnapshotFile ==
  ASSUME NEW f \in UNION {[D -> Archives] : D \in SUBSET Snapshots},
         NEW s \in Snapshots, NEW a \in Archives
  PROVE  /\ Put(f, s, a) \in UNION {[D -> Archives] : D \in SUBSET Snapshots}
         /\ DOMAIN Put(f, s, a) = DOMAIN f \cup {s}
         /\ Put(f, s, a)[s] = a
         /\ \A t \in DOMAIN f : t # s => Put(f, s, a)[t] = f[t]
  <1> DEFINE g == Put(f, s, a)
  <1>1. DOMAIN g = DOMAIN f \cup {s} /\ g = [x \in DOMAIN g |-> g[x]]
    BY DEF Put
  <1>2. g[s] = a /\ \A t \in DOMAIN f : t # s => g[t] = f[t]
    BY DEF Put
  <1>3. DOMAIN g \subseteq Snapshots /\ \A t \in DOMAIN g : g[t] \in Archives
    BY <1>1, <1>2, SnapshotFilesType
  <1>4. g \in UNION {[D -> Archives] : D \in SUBSET Snapshots}
    BY <1>1, <1>3, SnapshotFilesType
  <1> QED
    BY <1>1, <1>2, <1>4

-----------------------------------------------------------------------------
(* Type correctness.                                                       *)

\* A step of process p changes what p has in memory and nothing else's.
LEMMA BecomeProc ==
  ASSUME proc \in [Procs -> Processes], NEW p \in Procs, NEW x, Become(p, x)
  PROVE  /\ proc'[p] = x
         /\ \A q \in Procs \ {p} : proc'[q] = proc[q]
         /\ x \in Processes => proc' \in [Procs -> Processes]
  BY DEF Become

\* What the fields of a process in memory are.
LEMMA ProcessType ==
  ASSUME TypeInv, NEW p \in Procs
  PROVE  /\ proc[p] \in Processes
         /\ StoringOK(proc[p])
         /\ proc[p].repository \in Repositories
         /\ proc[p].index \in ChunkIndexes
         /\ proc[p].archives \in Archives
         /\ proc[p].chunks \in SUBSET Chunks
         /\ proc[p].todo \in SUBSET Chunks
         /\ proc[p].part \in Nat
         /\ proc[p].command \in Commands \cup {None}
  BY DEF TypeInv, TypeOK, Processes

LEMMA IdleType == Idle \in Processes /\ StoringOK(Idle)
  <1>2. Idle \in Processes
    BY EmptyType DEF Idle, Processes, Labels
  <1>3. None \notin {"store", "clone"}
    BY ConstantsOK DEF CommandNames
  <1>4. StoringOK(Idle)
    BY <1>3 DEF Idle, StoringOK
  <1> QED
    BY <1>2, <1>4

LEMMA InitType == Init => TypeInv
  <1> SUFFICES ASSUME Init PROVE TypeInv
    OBVIOUS
  <1>1. Empty \in UNION {[D -> Archives] : D \in SUBSET Snapshots}
    BY DEF Empty
  <1>2. Idle.part = 0
    BY DEF Idle
  <1> QED
    BY <1>1, <1>2, EmptyType, IdleType DEF Init, TypeInv, TypeOK

\* A chunk has at least one part.
LEMMA ChunkSize ==
  ASSUME NEW c \in Chunks
  PROVE  Size(c) \in Nat \ {0}
  <1>1. c.shape.data \in Nat \ {0} /\ c.shape.parity \in Nat
    BY ConstantsOK DEF Chunks
  <1> QED
    BY <1>1 DEF Size

\* The part that is handled is one of the chunk's.
LEMMA NextPartOf ==
  ASSUME TypeInv, NEW p \in Procs, NEW c \in Chunks, IsNextChunk(p, c)
  PROVE  proc[p].part \in Parts(c)
  <1>1. proc[p].part \in Nat /\ StoringOK(proc[p])
    BY ProcessType
  <1>2. 0 \in Parts(c)
    BY ChunkSize DEF Parts
  <1> QED
    BY <1>1, <1>2 DEF IsNextChunk, StoringOK

\* The file of a part.
LEMMA PartFileType ==
  ASSUME NEW c \in Chunks, NEW i \in Parts(c), NEW b \in Backends
  PROVE  PartFile(c, i, b) \in PartFiles
  BY DEF PartFiles

\* The part of a chunk that is next is one of its parts.
LEMMA NextPartType ==
  ASSUME TypeInv, NEW p \in Procs, NEW c \in Chunks, IsNextChunk(p, c)
  PROVE  /\ NextPart(p, c) \in Processes
         /\ NextPart(p, c).part # 0 =>
              /\ NextPart(p, c).chunk \in Chunks
              /\ NextPart(p, c).part \in Parts(NextPart(p, c).chunk)
         /\ \A field \in {"pc", "command", "repository", "index", "volume",
                          "id", "shape", "archives", "path", "chunks"} :
              NextPart(p, c)[field] = proc[p][field]
  <1> DEFINE n == NextPart(p, c)
  <1>1. proc[p] \in Processes /\ proc[p].part \in 0 .. Size(c) - 1
    BY ProcessType, NextPartOf DEF Parts
  <1>2. CASE LastPart(p, c)
    <2>1. n = [proc[p] EXCEPT !.todo = proc[p].todo \ {c}, !.chunk = None, !.part = 0]
      BY <1>2 DEF NextPart
    <2> HIDE DEF n
    <2>2. n \in Processes
      BY <1>1, <2>1 DEF Processes
    <2>3. n.part = 0
      BY <1>1, <2>1 DEF Processes
    <2>4. \A field \in {"pc", "command", "repository", "index", "volume",
                        "id", "shape", "archives", "path", "chunks"} :
            n[field] = proc[p][field]
      BY <1>1, <2>1 DEF Processes
    <2> QED
      BY <2>2, <2>3, <2>4 DEF n
  <1>3. CASE ~LastPart(p, c)
    <2>1. proc[p].part + 1 \in 0 .. Size(c) - 1
      BY <1>1, <1>3, ChunkSize DEF LastPart
    <2>2. proc[p].part + 1 \in Nat /\ proc[p].part + 1 \in Parts(c)
      BY <2>1, ChunkSize DEF Parts
    <2> DEFINE i == proc[p].part + 1
    <2>3. n = [proc[p] EXCEPT !.chunk = c, !.part = i]
      BY <1>3 DEF NextPart
    <2> HIDE DEF n, i
    <2>4. n \in Processes
      BY <1>1, <2>2, <2>3 DEF Processes, i
    <2>5. n.part = i /\ n.chunk = c
      BY <1>1, <2>3 DEF Processes
    <2>6. \A field \in {"pc", "command", "repository", "index", "volume",
                        "id", "shape", "archives", "path", "chunks"} :
            n[field] = proc[p][field]
      BY <1>1, <2>3 DEF Processes
    <2> QED
      BY <2>2, <2>4, <2>5, <2>6 DEF n, i
  <1> QED
    BY <1>2, <1>3

\* A step of one process that leaves the files well-typed.
LEMMA TypeStep ==
  ASSUME TypeInv, NEW p \in Procs, NEW x \in Processes, StoringOK(x), Become(p, x),
         repositoryFile' \in Repositories,
         snapshotFiles' \in UNION {[D -> Archives] : D \in SUBSET Snapshots},
         indexFile' \in ChunkIndexes \cup {None},
         chunkFiles' \subseteq PartFiles, packCut' \in BOOLEAN
  PROVE  TypeInv'
  <1>1. proc \in [Procs -> Processes]
    BY DEF TypeInv, TypeOK
  <1>2. proc' \in [Procs -> Processes]
    BY <1>1, BecomeProc
  <1>3. \A q \in Procs : proc'[q] = x \/ proc'[q] = proc[q]
    BY <1>1, BecomeProc
  <1>4. \A q \in Procs : StoringOK(proc'[q])
    BY <1>3 DEF TypeInv
  <1>5. \A q \in Procs : proc'[q].part # 0 =>
          proc'[q].chunk \in Chunks /\ proc'[q].part \in Parts(proc'[q].chunk)
    BY <1>4 DEF StoringOK
  <1> QED
    BY <1>2, <1>4, <1>5 DEF TypeInv, TypeOK, StoringOK

\* Steps that write no file.
LEMMA TypeInMemory ==
  ASSUME TypeInv, NEW p \in Procs, NEW x \in Processes, StoringOK(x), Become(p, x),
         UNCHANGED <<repositoryFile, snapshotFiles, indexFile, chunkFiles>>,
         packCut' \in BOOLEAN
  PROVE  TypeInv'
  BY TypeStep DEF TypeInv, TypeOK

LEMMA BeginType ==
  ASSUME TypeInv, NEW p \in Procs, Begin(p), packCut' \in BOOLEAN
  PROVE  TypeInv'
  <1>1. Idle \in Processes /\ StoringOK(Idle) /\ repositoryFile \in Repositories
    BY IdleType DEF TypeInv, TypeOK
  <1>2. ASSUME NEW v \in Volumes, VolumeInit(p, v)
        PROVE  TypeInv'
    <2> DEFINE x == [Idle EXCEPT !.pc = "saveRepository", !.command = "volinit",
                                 !.repository = Put(repositoryFile, v, {})]
    <2>1. x \in Processes
      BY <1>1, <1>2, PutVolume DEF VolumeInit, Processes, Labels
    <2>2. StoringOK(x)
      BY DEF Idle, StoringOK
    <2> QED
      BY <1>2, <2>1, <2>2, TypeInMemory DEF VolumeInit
  <1>3. ASSUME NEW v \in Volumes, NEW s \in Snapshots,
               NEW shape \in Shapes, Store(p, v, s, shape)
        PROVE  TypeInv'
    <2> DEFINE x == [Idle EXCEPT !.pc = "openIndex", !.command = "store",
                                 !.repository = repositoryFile,
                                 !.volume = v, !.id = s, !.shape = shape]
    <2>1. x \in Processes
      BY <1>1, <1>3 DEF Store, Processes, Labels
    <2>2. StoringOK(x)
      BY <1>3 DEF Store, Idle, StoringOK
    <2> QED
      BY <1>3, <2>1, <2>2, TypeInMemory DEF Store
  <1>4. ASSUME NEW v \in Volumes, NEW old \in Snapshots, NEW s \in Snapshots,
               NEW shape \in Shapes, Clone(p, v, old, s, shape)
        PROVE  TypeInv'
    <2> DEFINE x == [Idle EXCEPT !.pc = "openIndex", !.command = "clone",
                                 !.repository = repositoryFile,
                                 !.volume = v, !.id = s, !.shape = shape,
                                 !.archives = snapshotFiles[old]]
    <2>1. snapshotFiles[old] \in Archives
      BY <1>4, SnapshotFilesType DEF Clone, TypeInv, TypeOK
    <2>2. x \in Processes
      BY <1>1, <1>4, <2>1 DEF Clone, Processes, Labels
    <2>3. StoringOK(x)
      BY <1>4 DEF Clone, Idle, StoringOK
    <2> QED
      BY <1>4, <2>2, <2>3, TypeInMemory DEF Clone
  <1>5. ASSUME NEW command \in Commands, OpenRepository(p, command)
        PROVE  TypeInv'
    <2> DEFINE x == [Idle EXCEPT !.pc = "openIndex", !.command = command,
                                 !.repository = repositoryFile]
    <2>1. x \in Processes
      BY <1>1 DEF Processes, Labels
    <2>2. StoringOK(x)
      BY <1>5 DEF OpenRepository, Idle, StoringOK
    <2> QED
      BY <1>5, <2>1, <2>2, TypeInMemory DEF OpenRepository
  <1> QED
    BY <1>2, <1>3, <1>4, <1>5 DEF Begin

LEMMA OpenChunkIndexType ==
  ASSUME TypeInv, NEW p \in Procs, OpenChunkIndex(p), packCut' \in BOOLEAN
  PROVE  TypeInv'
  <1>1. /\ proc[p] \in Processes
        /\ StoringOK(proc[p])
        /\ proc[p].repository \in Repositories
        /\ proc[p].index \in ChunkIndexes
    BY ProcessType
  <1>2. CASE LoadIndex(p)
    <2> DEFINE x == [proc[p] EXCEPT !.pc = "opened", !.index = indexFile]
    <2>1. x \in Processes
      BY <1>1, <1>2 DEF LoadIndex, TypeInv, TypeOK, Processes, Labels
    <2>2. StoringOK(x)
      BY <1>1 DEF StoringOK, Processes
    <2> QED
      BY <1>2, <2>1, <2>2, TypeInMemory DEF LoadIndex
  <1>3. CASE RebuildIndex(p)
    <2> PICK first \in Firsts(proc[p].repository) :
               Become(p, [proc[p] EXCEPT
                            !.pc = "saveReindexed",
                            !.index = Reindex(proc[p].repository, first)])
      BY <1>3 DEF RebuildIndex
    <2> DEFINE y == Reindex(proc[p].repository, first)
    <2> DEFINE x == [proc[p] EXCEPT !.pc = "saveReindexed", !.index = y]
    <2>1. y \in ChunkIndexes
      BY <1>1, ReindexCovers
    <2>2. Become(p, x)
      OBVIOUS
    <2> HIDE DEF y
    <2>3. x \in Processes
      BY <1>1, <2>1 DEF Processes, Labels
    <2>4. StoringOK(x)
      BY <1>1 DEF StoringOK, Processes
    <2> QED
      BY <1>3, <2>2, <2>3, <2>4, TypeInMemory DEF RebuildIndex
  <1>4. CASE SaveReindexed(p)
    <2> DEFINE x == [proc[p] EXCEPT !.pc = "opened"]
    <2>1. x \in Processes
      BY <1>1 DEF Processes, Labels
    <2>2. StoringOK(x)
      BY <1>1 DEF StoringOK, Processes
    <2> QED
      BY <1>1, <1>4, <2>1, <2>2, TypeStep DEF SaveReindexed, TypeInv, TypeOK
  <1> QED
    BY <1>2, <1>3, <1>4 DEF OpenChunkIndex

LEMMA AddType ==
  ASSUME TypeInv, NEW p \in Procs, Add(p), packCut' \in BOOLEAN
  PROVE  TypeInv'
  <1>1. /\ proc[p] \in Processes
        /\ StoringOK(proc[p])
        /\ proc[p].index \in ChunkIndexes
        /\ proc[p].archives \in Archives
        /\ proc[p].chunks \in SUBSET Chunks
        /\ proc[p].part \in Nat
    BY ProcessType
  <1>2. ASSUME NEW f \in Paths, NEW hashes \in SUBSET Hashes,
               BeginArchive(p, f, hashes)
        PROVE  TypeInv'
    <2> DEFINE x == [proc[p] EXCEPT !.pc = "storeChunk", !.path = f,
                                    !.chunks = {},
                                    !.todo = [hash : hashes, shape : {proc[p].shape}]]
    <2>1. x \in Processes
      <3>1. proc[p].shape \in Shapes
        BY <1>1, <1>2 DEF BeginArchive, Storing, StoringOK
      <3>2. [hash : hashes, shape : {proc[p].shape}] \in SUBSET Chunks
        BY <3>1 DEF Chunks
      <3> QED
        BY <1>1, <3>2 DEF Processes, Labels
    <2>2. StoringOK(x)
      BY <1>1, <1>2 DEF BeginArchive, Storing, StoringOK, Processes
    <2> QED
      BY <1>2, <2>1, <2>2, TypeInMemory DEF BeginArchive
  <1>3. ASSUME NEW c \in Chunks, NEW b \in Backends, StoreChunk(p, c, b)
        PROVE  TypeInv'
    <2> DEFINE cs == proc[p].chunks \cup (IF LastPart(p, c) THEN {c} ELSE {})
    <2> DEFINE x == [NextPart(p, c) EXCEPT !.chunks = cs]
    <2>1. Become(p, x)
      BY <1>3 DEF StoreChunk
    <2>2. cs \in SUBSET Chunks
      BY <1>1
    <2>3. x \in Processes /\ StoringOK(x)
      <3>1. IsNextChunk(p, c)
        BY <1>3 DEF StoreChunk
      <3> HIDE DEF cs
      <3> QED
        BY <1>1, <2>2, <3>1, NextPartType DEF Processes, StoringOK
    <2>4. chunkFiles' \subseteq PartFiles
      <3>1. proc[p].part \in Parts(c)
        BY <1>3, NextPartOf DEF StoreChunk
      <3>2. PartFile(c, proc[p].part, b) \in PartFiles
        BY <3>1, PartFileType
      <3> QED
        BY <1>3, <3>2 DEF StoreChunk, TypeInv, TypeOK
    <2> QED
      BY <1>3, <2>1, <2>3, <2>4, TypeStep DEF StoreChunk, TypeInv, TypeOK
  <1>4. ASSUME NEW c \in Chunks, StoreChunkFails(p, c)
        PROVE  TypeInv'
    <2> DEFINE x == [proc[p] EXCEPT !.todo = proc[p].todo \ {c},
                                    !.chunk = None, !.part = 0]
    <2>2. x \in Processes
      BY <1>1 DEF Processes
    <2>3. StoringOK(x)
      BY <1>1 DEF Processes, StoringOK
    <2> QED
      BY <1>4, <2>2, <2>3, TypeInMemory DEF StoreChunkFails
  <1>5. CASE AddArchive(p)
    <2> DEFINE a == Put(proc[p].archives, proc[p].path, proc[p].chunks)
    <2> DEFINE y == IndexArchive(proc[p].index, proc[p].chunks, proc[p].id)
    <2> DEFINE x == [proc[p] EXCEPT !.pc = "opened", !.archives = a, !.index = y,
                                    !.path = None, !.chunks = {}]
    <2>1. proc[p].path \in Paths /\ proc[p].id \in Snapshots
      BY <1>1, <1>5 DEF AddArchive, At, StoringOK
    <2>2. a \in Archives /\ y \in ChunkIndexes
      BY <1>1, <2>1, PutArchive, IndexArchiveRefs
    <2>3. Become(p, x)
      BY <1>5 DEF AddArchive
    <2> HIDE DEF a, y
    <2>4. x \in Processes
      BY <1>1, <2>2 DEF Processes, Labels
    <2>5. StoringOK(x)
      BY <1>1 DEF Processes, StoringOK
    <2> QED
      BY <1>5, <2>3, <2>4, <2>5, TypeInMemory DEF AddArchive
  <1>6. CASE EndTargets(p)
    <2> DEFINE x == [proc[p] EXCEPT !.pc = "saveSnapshot"]
    <2>1. x \in Processes
      BY <1>1 DEF Processes, Labels
    <2>2. StoringOK(x)
      BY <1>1, <1>6 DEF EndTargets, Storing, StoringOK, Processes
    <2> QED
      BY <1>6, <2>1, <2>2, TypeInMemory DEF EndTargets
  <1> QED
    BY <1>2, <1>3, <1>4, <1>5, <1>6 DEF Add

LEMMA RemoveType ==
  ASSUME TypeInv, NEW p \in Procs, Remove(p), packCut' \in BOOLEAN
  PROVE  TypeInv'
  <1>1. /\ proc[p] \in Processes
        /\ StoringOK(proc[p])
        /\ proc[p].repository \in Repositories
        /\ proc[p].index \in ChunkIndexes
    BY ProcessType
  <1>2. ASSUME NEW s \in Snapshots, BeginRemove(p, s)
        PROVE  TypeInv'
    <2> DEFINE r == RemoveSnapshot(proc[p].repository, s)
    <2> DEFINE y == IndexRemove(proc[p].index, {s})
    <2> DEFINE x == [proc[p] EXCEPT !.pc = "saveIndex", !.repository = r, !.index = y]
    <2>1. r \in Repositories /\ y \in ChunkIndexes
      BY <1>1, RemoveSnapshotListed, IndexRemoveRefs
    <2>2. Become(p, x)
      BY <1>2 DEF BeginRemove
    <2> HIDE DEF r, y
    <2>3. x \in Processes
      BY <1>1, <2>1 DEF Processes, Labels
    <2>4. StoringOK(x)
      BY <1>1, <1>2 DEF BeginRemove, Processes, StoringOK
    <2> QED
      BY <1>2, <2>2, <2>3, <2>4, TypeInMemory DEF BeginRemove
  <1>3. ASSUME NEW v \in Volumes, BeginVolumeRemove(p, v)
        PROVE  TypeInv'
    <2> DEFINE r == RemoveVolume(proc[p].repository, v)
    <2> DEFINE y == IndexRemove(proc[p].index, proc[p].repository[v])
    <2> DEFINE x == [proc[p] EXCEPT !.pc = "saveIndex", !.repository = r, !.index = y]
    <2>1. r \in Repositories /\ y \in ChunkIndexes
      BY <1>1, <1>3, RemoveVolumeListed, IndexRemoveRefs DEF BeginVolumeRemove
    <2>2. Become(p, x)
      BY <1>3 DEF BeginVolumeRemove
    <2> HIDE DEF r, y
    <2>3. x \in Processes
      BY <1>1, <2>1 DEF Processes, Labels
    <2>4. StoringOK(x)
      BY <1>1, <1>3 DEF BeginVolumeRemove, Processes, StoringOK
    <2> QED
      BY <1>3, <2>2, <2>3, <2>4, TypeInMemory DEF BeginVolumeRemove
  <1>4. CASE RemoveNotFound(p)
    BY <1>4, IdleType, TypeInMemory DEF RemoveNotFound, Return
  <1> QED
    BY <1>2, <1>3, <1>4 DEF Remove

LEMMA PackType ==
  ASSUME TypeInv, NEW p \in Procs, Pack(p), packCut' \in BOOLEAN
  PROVE  TypeInv'
  <1>1. /\ proc[p] \in Processes
        /\ StoringOK(proc[p])
        /\ proc[p].index \in ChunkIndexes
    BY ProcessType
  <1>2. CASE BeginPack(p)
    <2> DEFINE x == [proc[p] EXCEPT !.pc = "deleteChunk",
                                    !.todo = ToDelete(proc[p].index)]
    <2>1. ToDelete(proc[p].index) \in SUBSET Chunks
      BY <1>1, IndexType DEF ToDelete, Unreferenced, Entries, Chunks
    <2>2. x \in Processes
      BY <1>1, <2>1 DEF Processes, Labels
    <2>3. StoringOK(x)
      BY <1>1 DEF Processes, StoringOK
    <2> QED
      BY <1>2, <2>2, <2>3, TypeInMemory DEF BeginPack
  <1>3. ASSUME NEW c \in Chunks, NEW b \in Backends, DeleteChunk(p, c, b)
        PROVE  TypeInv'
    <2>1. NextPart(p, c) \in Processes /\ StoringOK(NextPart(p, c))
      <3>1. IsNextChunk(p, c)
        BY <1>3 DEF DeleteChunk
      <3> QED
        BY <1>1, <3>1, NextPartType DEF StoringOK
    <2>2. chunkFiles' \subseteq PartFiles
      BY <1>3 DEF DeleteChunk, TypeInv, TypeOK
    <2> QED
      BY <1>3, <2>1, <2>2, TypeStep DEF DeleteChunk, TypeInv, TypeOK
  <1>4. ASSUME NEW c \in Chunks, DeleteChunkFails(p, c)
        PROVE  TypeInv'
    BY <1>4, IdleType, TypeInMemory DEF DeleteChunkFails, Return
  <1>5. CASE EndPack(p)
    <2> DEFINE y == Restrict(proc[p].index,
                             DOMAIN proc[p].index \ Unreferenced(proc[p].index))
    <2> DEFINE x == [proc[p] EXCEPT !.pc = "saveIndex", !.index = y]
    <2>1. y \in ChunkIndexes
      BY <1>1, PackedRefs
    <2>2. Become(p, x)
      BY <1>5 DEF EndPack
    <2> HIDE DEF y
    <2>3. x \in Processes
      BY <1>1, <2>1 DEF Processes, Labels
    <2>4. StoringOK(x)
      BY <1>1 DEF Processes, StoringOK
    <2> QED
      BY <1>5, <2>2, <2>3, <2>4, TypeInMemory DEF EndPack
  <1> QED
    BY <1>2, <1>3, <1>4, <1>5 DEF Pack

LEMMA SaveType ==
  ASSUME TypeInv, NEW p \in Procs, Save(p), packCut' \in BOOLEAN
  PROVE  TypeInv'
  <1>1. /\ proc[p] \in Processes
        /\ StoringOK(proc[p])
        /\ proc[p].repository \in Repositories
        /\ proc[p].index \in ChunkIndexes
        /\ proc[p].archives \in Archives
    BY ProcessType
  <1>2. CASE SaveSnapshot(p)
    <2> DEFINE r == AddSnapshot(proc[p].repository, proc[p].volume, proc[p].id)
    <2> DEFINE x == [proc[p] EXCEPT !.pc = "saveIndex", !.repository = r]
    <2>1. /\ proc[p].id \in Snapshots
          /\ proc[p].volume \in DOMAIN proc[p].repository
      BY <1>1, <1>2 DEF SaveSnapshot, At, StoringOK
    <2>2. r \in Repositories /\ DOMAIN r = DOMAIN proc[p].repository
      BY <1>1, <2>1, AddSnapshotListed
    <2>3. Become(p, x)
      BY <1>2 DEF SaveSnapshot
    <2>4. snapshotFiles' \in UNION {[D -> Archives] : D \in SUBSET Snapshots}
      BY <1>1, <1>2, <2>1, PutSnapshotFile DEF SaveSnapshot, TypeInv, TypeOK
    <2> HIDE DEF r
    <2>5. x \in Processes
      BY <1>1, <2>2 DEF Processes, Labels
    <2>6. StoringOK(x)
      BY <1>1, <2>2 DEF Processes, StoringOK
    <2> QED
      BY <1>2, <2>3, <2>4, <2>5, <2>6, TypeStep DEF SaveSnapshot, TypeInv, TypeOK
  <1>3. CASE SaveIndex(p)
    <2> DEFINE x == [proc[p] EXCEPT !.pc = "saveRepository"]
    <2>1. x \in Processes
      BY <1>1 DEF Processes, Labels
    <2>2. StoringOK(x)
      BY <1>1 DEF StoringOK, Processes
    <2>3. CASE Become(p, x)
      BY <1>1, <1>3, <2>1, <2>2, <2>3, TypeStep DEF SaveIndex, TypeInv, TypeOK
    <2>4. CASE Return(p)
      BY <1>1, <1>3, <2>4, IdleType, TypeStep DEF SaveIndex, Return, TypeInv, TypeOK
    <2> QED
      BY <1>3, <2>3, <2>4 DEF SaveIndex
  <1>4. CASE SaveRepository(p)
    BY <1>1, <1>4, IdleType, TypeStep DEF SaveRepository, Return, TypeInv, TypeOK
  <1> QED
    BY <1>2, <1>3, <1>4 DEF Save

LEMMA NextType == TypeInv /\ [Next]_vars => TypeInv'
  <1> SUFFICES ASSUME TypeInv, [Next]_vars PROVE TypeInv'
    OBVIOUS
  <1>0. packCut' \in BOOLEAN
    <2>1. packCut \in BOOLEAN
      BY DEF TypeInv, TypeOK
    <2>2. ASSUME NEW p \in Procs, Step(p)
          PROVE  packCut' \in BOOLEAN
      <3>1. Begin(p) \/ OpenChunkIndex(p) => packCut' \in BOOLEAN
        BY <2>1 DEF Begin, VolumeInit, Store, Clone, OpenRepository,
                    OpenChunkIndex, LoadIndex, RebuildIndex, SaveReindexed
      <3>2. Add(p) \/ Remove(p) => packCut' \in BOOLEAN
        BY <2>1 DEF Add, BeginArchive, StoreChunk, StoreChunkFails, AddArchive,
                    EndTargets, Remove, BeginRemove, BeginVolumeRemove, RemoveNotFound
      <3>3. Pack(p) \/ Save(p) => packCut' \in BOOLEAN
        BY <2>1 DEF Pack, BeginPack, DeleteChunk, DeleteChunkFails, EndPack,
                    Save, SaveSnapshot, SaveIndex, SaveRepository
      <3>4. Abort(p) => packCut' \in BOOLEAN
        BY DEF Abort
      <3> QED
        BY <2>2, <3>1, <3>2, <3>3, <3>4 DEF Step
    <2> QED
      BY <2>1, <2>2 DEF Next, vars
  <1>1. ASSUME NEW p \in Procs, Step(p)
        PROVE  TypeInv'
    <2>1. CASE Abort(p)
      BY <1>0, <2>1, IdleType, TypeInMemory DEF Abort, Return
    <2> QED
      BY <1>0, <1>1, <2>1, BeginType, OpenChunkIndexType, AddType, RemoveType,
         PackType, SaveType DEF Step
  <1>2. CASE UNCHANGED vars
    BY <1>2 DEF vars, TypeInv, TypeOK, StoringOK
  <1> QED
    BY <1>1, <1>2 DEF Next

\* Whatever commands run at the same time and wherever they end, files and
\* copies in memory keep their types: no step of the code indexes a map with
\* an id or a path it has not got.
THEOREM TypeCorrect == Spec => []TypeOK
  <1>1. TypeInv => TypeOK
    BY DEF TypeInv
  <1> QED
    BY <1>1, InitType, NextType, PTL DEF Spec

-----------------------------------------------------------------------------
(* The invariant is inductive: steps in memory.                            *)

LEMMA OneProcess ==
  ASSUME SerialUse, NEW p \in Procs
  PROVE  Procs = {p}
  BY DEF SerialUse

\* The chunks of a snapshot that is saved are chunks.
LEMMA SavedChunks ==
  ASSUME TypeOK, NEW s \in DOMAIN snapshotFiles
  PROVE  /\ snapshotFiles[s] \in Archives
         /\ ChunksOf(snapshotFiles[s]) \subseteq Chunks
  <1>1. snapshotFiles[s] \in Archives
    BY SnapshotFilesType DEF TypeOK
  <1> QED
    BY <1>1, ArchivesType DEF ChunksOf

\* With every listed snapshot saved, an index that covers the repository
\* makes every chunk in use one that is referenced.
LEMMA CoveredReferenced ==
  ASSUME NEW x, Covers(x, repositoryFile)
  PROVE  \A c \in Used : c.hash \notin Unreferenced(x)
  BY DEF Covers, Used, Unreferenced, HasReference

\* Pack deletes the chunks of unreferenced hashes.
LEMMA DeletedUnreferenced ==
  ASSUME NEW x, NEW c \in ToDelete(x)
  PROVE  c.hash \in Unreferenced(x)
  BY DEF ToDelete

LEMMA IdleMemory == MemoryInv(Idle)
  <1>1. None # "volinit"
    BY ConstantsOK DEF CommandNames
  <1> QED
    BY <1>1 DEF Idle, MemoryInv, CommandInv, RepositoryInv, IndexInv,
                SnapshotInv, LoopInv

\* A step in memory, other than one out of a removal between its two saves.
LEMMA InMemory ==
  ASSUME IInv, SerialUse, NEW p \in Procs, NEW x, Become(p, x), MemoryInv(x),
         ~Removing(p), TypeInv',
         UNCHANGED <<repositoryFile, snapshotFiles, indexFile, chunkFiles>>
  PROVE  IInv'
  <1>1. Procs = {p}
    BY OneProcess
  <1>2. proc'[p] = x
    BY BecomeProc DEF IInv, TypeInv, TypeOK
  <1>3. MemoryInv(proc[p])'
    BY <1>2 DEF MemoryInv, CommandInv, RepositoryInv, IndexInv, SnapshotInv,
                LoopInv, Covers, Stored, IsThere
  <1>4. Recoverable'
    BY DEF IInv, Recoverable, Used, Stored, IsThere
  <1>5. IndexCovers'
    BY <1>1 DEF IInv, IndexCovers
  <1> QED
    BY <1>1, <1>3, <1>4, <1>5 DEF IInv, Disjoint

\* A command that returns early and has not removed anything.
LEMMA InMemoryReturn ==
  ASSUME IInv, SerialUse, NEW p \in Procs, Return(p), ~Removing(p), TypeInv',
         UNCHANGED <<repositoryFile, snapshotFiles, indexFile, chunkFiles>>
  PROVE  IInv'
  BY IdleMemory, InMemory DEF Return

\* What the invariant says of the one process.
LEMMA OfProcess ==
  ASSUME IInv, NEW p \in Procs
  PROVE  /\ MemoryInv(proc[p])
         /\ proc[p] \in Processes
         /\ StoringOK(proc[p])
         /\ proc[p].repository \in Repositories
         /\ proc[p].index \in ChunkIndexes
         /\ proc[p].archives \in Archives
         /\ proc[p].chunks \in SUBSET Chunks
         /\ proc[p].todo \in SUBSET Chunks
         /\ proc[p].part \in Nat
         /\ proc[p].command \in Commands \cup {None}
  BY ProcessType DEF IInv

LEMMA BeginInv ==
  ASSUME IInv, SerialUse, NEW p \in Procs, Begin(p), TypeInv'
  PROVE  IInv'
  <1>1. /\ Idle \in Processes
        /\ MemoryInv(Idle)
        /\ repositoryFile \in Repositories
        /\ Disjoint(repositoryFile)
    BY IdleType, IdleMemory DEF IInv, TypeInv, TypeOK
  <1>2. ASSUME NEW v \in Volumes, VolumeInit(p, v)
        PROVE  IInv'
    <2> DEFINE r == Put(repositoryFile, v, {})
    <2> DEFINE x == [Idle EXCEPT !.pc = "saveRepository", !.command = "volinit",
                                 !.repository = r]
    <2>1. Listed(r) = Listed(repositoryFile) /\ Disjoint(r)
      BY <1>1, <1>2, PutVolume DEF VolumeInit
    <2>2. ~Removing(p)
      BY <1>2 DEF VolumeInit, Removing, At
    <2>3. Become(p, x)
      BY <1>2 DEF VolumeInit
    <2>4. indexFile # None => Covers(indexFile, r)
      <3>1. \A q \in Procs : ~Removing(q)
        BY <2>2, OneProcess
      <3> QED
        BY <3>1, <2>1 DEF IInv, Recoverable, IndexCovers, Covers
    <2> HIDE DEF r
    <2>5. MemoryInv(x)
      BY <2>1, <2>4 DEF Idle, MemoryInv, CommandInv, RepositoryInv, IndexInv,
                        SnapshotInv, LoopInv
    <2> QED
      BY <1>2, <2>2, <2>3, <2>5, InMemory DEF VolumeInit
  <1>3. ASSUME NEW v \in Volumes, NEW s \in Snapshots,
               NEW shape \in Shapes, Store(p, v, s, shape)
        PROVE  IInv'
    <2> DEFINE x == [Idle EXCEPT !.pc = "openIndex", !.command = "store",
                                 !.repository = repositoryFile,
                                 !.volume = v, !.id = s, !.shape = shape]
    <2>1. v \in DOMAIN repositoryFile /\ s \notin DOMAIN snapshotFiles
      BY <1>3 DEF Store, Fresh
    <2>2. MemoryInv(x)
      BY <1>1, <2>1 DEF Idle, MemoryInv, CommandInv, RepositoryInv, IndexInv,
                        SnapshotInv, LoopInv
    <2> QED
      BY <1>3, <2>2, InMemory DEF Store, Removing, At
  <1>4. ASSUME NEW v \in Volumes, NEW old \in Snapshots, NEW s \in Snapshots,
               NEW shape \in Shapes, Clone(p, v, old, s, shape)
        PROVE  FALSE
    BY <1>4 DEF Clone, SerialUse
  <1>5. ASSUME NEW command \in Commands, OpenRepository(p, command)
        PROVE  IInv'
    <2> DEFINE x == [Idle EXCEPT !.pc = "openIndex", !.command = command,
                                 !.repository = repositoryFile]
    <2>1. command \in {"remove", "volremove", "pack"}
      BY <1>5 DEF OpenRepository
    <2>2. MemoryInv(x)
      BY <1>1, <2>1 DEF Idle, MemoryInv, CommandInv, RepositoryInv, IndexInv,
                        SnapshotInv, LoopInv
    <2> QED
      BY <1>5, <2>2, InMemory DEF OpenRepository, Removing, At
  <1> QED
    BY <1>2, <1>3, <1>4, <1>5 DEF Begin

LEMMA OpenChunkIndexInv ==
  ASSUME IInv, SerialUse, NEW p \in Procs, OpenChunkIndex(p), TypeInv'
  PROVE  IInv'
  <1>1. /\ MemoryInv(proc[p])
        /\ proc[p] \in Processes
        /\ proc[p].repository \in Repositories
        /\ proc[p].index \in ChunkIndexes
    BY OfProcess
  <1>2. ASSUME ~At(p, "saveRepository")
        PROVE  /\ ~Removing(p)
               /\ indexFile # None => Covers(indexFile, repositoryFile)
    <2>1. ~Removing(p)
      BY <1>2 DEF Removing
    <2>2. \A q \in Procs : ~Removing(q)
      BY <2>1, OneProcess
    <2> QED
      BY <2>1, <2>2 DEF IInv, Recoverable, IndexCovers, Covers
  <1>3. ChunksOf(Empty) = {}
    BY DEF ChunksOf, Empty
  <1>4. CASE LoadIndex(p)
    <2> DEFINE x == [proc[p] EXCEPT !.pc = "opened", !.index = indexFile]
    <2>1. /\ x.pc = "opened" /\ x.index = indexFile
          /\ x.command = proc[p].command /\ x.repository = proc[p].repository
          /\ x.volume = proc[p].volume /\ x.id = proc[p].id
          /\ x.archives = proc[p].archives /\ x.part = proc[p].part
      BY <1>1 DEF Processes
    <2>2. proc[p].pc = "openIndex" /\ proc[p].repository = repositoryFile
      BY <1>1, <1>4 DEF LoadIndex, At, MemoryInv, RepositoryInv
    <2>3. ~Removing(p) /\ Covers(indexFile, repositoryFile)
      BY <1>2, <1>4, <2>2 DEF LoadIndex, At
    <2>4. Become(p, x)
      BY <1>4 DEF LoadIndex
    <2> HIDE DEF x
    <2>5. MemoryInv(x)
      BY <1>1, <1>3, <2>1, <2>2, <2>3
         DEF MemoryInv, CommandInv, RepositoryInv, IndexInv, SnapshotInv, LoopInv
    <2> QED
      BY <1>4, <2>3, <2>4, <2>5, InMemory DEF LoadIndex
  <1>5. CASE RebuildIndex(p)
    <2> PICK first \in Firsts(proc[p].repository) :
               Become(p, [proc[p] EXCEPT
                            !.pc = "saveReindexed",
                            !.index = Reindex(proc[p].repository, first)])
      BY <1>5 DEF RebuildIndex
    <2> DEFINE y == Reindex(proc[p].repository, first)
    <2> DEFINE x == [proc[p] EXCEPT !.pc = "saveReindexed", !.index = y]
    <2>1. proc[p].pc = "openIndex" /\ proc[p].repository = repositoryFile
      BY <1>1, <1>5 DEF RebuildIndex, At, MemoryInv, RepositoryInv
    <2>2. Covers(y, repositoryFile)
      <3>1. \A s \in Listed(repositoryFile) : ChunksOf(snapshotFiles[s]) \subseteq Chunks
        BY SavedChunks DEF IInv, TypeInv, Recoverable
      <3> QED
        BY <1>1, <2>1, <3>1, ReindexCovers
    <2>3. ~Removing(p)
      BY <1>2, <2>1 DEF At
    <2>4. Become(p, x)
      OBVIOUS
    <2> HIDE DEF y
    <2>5. /\ x.pc = "saveReindexed" /\ x.index = y
          /\ x.command = proc[p].command /\ x.repository = proc[p].repository
          /\ x.volume = proc[p].volume /\ x.id = proc[p].id
          /\ x.archives = proc[p].archives /\ x.part = proc[p].part
      BY <1>1 DEF Processes
    <2> HIDE DEF x
    <2>6. MemoryInv(x)
      BY <1>1, <2>1, <2>2, <2>5
         DEF MemoryInv, CommandInv, RepositoryInv, IndexInv, SnapshotInv, LoopInv
    <2> QED
      BY <1>5, <2>3, <2>4, <2>6, InMemory DEF RebuildIndex
  <1>6. CASE SaveReindexed(p)
    <2> DEFINE x == [proc[p] EXCEPT !.pc = "opened"]
    <2>1. /\ x.pc = "opened" /\ x.index = proc[p].index
          /\ x.command = proc[p].command /\ x.repository = proc[p].repository
          /\ x.volume = proc[p].volume /\ x.id = proc[p].id
          /\ x.archives = proc[p].archives /\ x.part = proc[p].part
      BY <1>1 DEF Processes
    <2>2. /\ proc[p].pc = "saveReindexed"
          /\ proc[p].repository = repositoryFile
          /\ Covers(proc[p].index, repositoryFile)
      BY <1>1, <1>6 DEF SaveReindexed, At, MemoryInv, RepositoryInv, IndexInv
    <2>3. proc'[p] = x
      BY <1>6, BecomeProc DEF SaveReindexed, IInv, TypeInv, TypeOK
    <2>4. MemoryInv(x)
      <3> HIDE DEF x
      <3> QED
        BY <1>1, <1>3, <2>1, <2>2
           DEF MemoryInv, CommandInv, RepositoryInv, IndexInv, SnapshotInv, LoopInv
    <2> HIDE DEF x
    <2>5. UNCHANGED <<repositoryFile, snapshotFiles, chunkFiles>>
      BY <1>6 DEF SaveReindexed
    <2>6. MemoryInv(proc[p])'
      BY <2>1, <2>3, <2>4, <2>5
         DEF MemoryInv, CommandInv, RepositoryInv, IndexInv, SnapshotInv,
             LoopInv, Covers, Stored, IsThere
    <2>7. Recoverable'
      BY <2>5 DEF IInv, Recoverable, Used, Stored, IsThere
    <2>8. IndexCovers'
      BY <1>6, <2>2, <2>5 DEF SaveReindexed, IndexCovers, Covers
    <2> QED
      BY <2>5, <2>6, <2>7, <2>8, OneProcess DEF IInv, Disjoint
  <1> QED
    BY <1>4, <1>5, <1>6 DEF OpenChunkIndex

LEMMA RemoveInv ==
  ASSUME IInv, SerialUse, NEW p \in Procs, Remove(p), TypeInv'
  PROVE  IInv'
  <1>1. /\ MemoryInv(proc[p])
        /\ proc[p] \in Processes
        /\ proc[p].repository \in Repositories
        /\ proc[p].index \in ChunkIndexes
    BY OfProcess
  <1>2. At(p, "opened")
    BY DEF Remove, BeginRemove, BeginVolumeRemove, RemoveNotFound
  <1>3. /\ ~Removing(p)
        /\ proc[p].repository = repositoryFile
        /\ Disjoint(repositoryFile)
        /\ Covers(proc[p].index, repositoryFile)
        /\ proc[p].part = 0
    BY <1>1, <1>2 DEF Removing, At, MemoryInv, RepositoryInv, IndexInv, LoopInv, IInv
  <1>4. ASSUME NEW s \in Snapshots, BeginRemove(p, s)
        PROVE  IInv'
    <2> DEFINE r == RemoveSnapshot(proc[p].repository, s)
    <2> DEFINE y == IndexRemove(proc[p].index, {s})
    <2> DEFINE x == [proc[p] EXCEPT !.pc = "saveIndex", !.repository = r, !.index = y]
    <2>1. Listed(r) = Listed(repositoryFile) \ {s} /\ Disjoint(r)
      BY <1>1, <1>3, RemoveSnapshotListed
    <2>2. Covers(y, r)
      BY <1>1, <1>3, <2>1, IndexRemoveRefs DEF Covers
    <2>3. Become(p, x)
      BY <1>4 DEF BeginRemove
    <2> HIDE DEF r, y
    <2>4. /\ x.pc = "saveIndex" /\ x.command = "remove"
          /\ x.repository = r /\ x.index = y /\ x.part = 0
      BY <1>1, <1>3, <1>4 DEF BeginRemove, Processes
    <2> HIDE DEF x
    <2>5. MemoryInv(x)
      BY <2>1, <2>2, <2>4
         DEF MemoryInv, CommandInv, RepositoryInv, IndexInv, SnapshotInv, LoopInv
    <2> QED
      BY <1>3, <1>4, <2>3, <2>5, InMemory DEF BeginRemove
  <1>5. ASSUME NEW v \in Volumes, BeginVolumeRemove(p, v)
        PROVE  IInv'
    <2> DEFINE r == RemoveVolume(proc[p].repository, v)
    <2> DEFINE y == IndexRemove(proc[p].index, proc[p].repository[v])
    <2> DEFINE x == [proc[p] EXCEPT !.pc = "saveIndex", !.repository = r, !.index = y]
    <2>1. /\ Listed(r) = Listed(repositoryFile) \ repositoryFile[v]
          /\ Disjoint(r)
      BY <1>1, <1>3, <1>5, RemoveVolumeListed DEF BeginVolumeRemove
    <2>2. Covers(y, r)
      BY <1>1, <1>3, <2>1, IndexRemoveRefs DEF Covers
    <2>3. Become(p, x)
      BY <1>5 DEF BeginVolumeRemove
    <2> HIDE DEF r, y
    <2>4. /\ x.pc = "saveIndex" /\ x.command = "volremove"
          /\ x.repository = r /\ x.index = y /\ x.part = 0
      BY <1>1, <1>3, <1>5 DEF BeginVolumeRemove, Processes
    <2> HIDE DEF x
    <2>5. MemoryInv(x)
      BY <2>1, <2>2, <2>4
         DEF MemoryInv, CommandInv, RepositoryInv, IndexInv, SnapshotInv, LoopInv
    <2> QED
      BY <1>3, <1>5, <2>3, <2>5, InMemory DEF BeginVolumeRemove
  <1>6. CASE RemoveNotFound(p)
    BY <1>3, <1>6, InMemoryReturn DEF RemoveNotFound
  <1> QED
    BY <1>4, <1>5, <1>6 DEF Remove

LEMMA AbortInv ==
  ASSUME IInv, SerialUse, NEW p \in Procs, Abort(p), TypeInv'
  PROVE  IInv'
  <1>1. ~Removing(p)
    BY DEF Abort, Removing, SerialUse, At
  <1> QED
    BY <1>1, InMemoryReturn DEF Abort

\* NextPart changes nothing but the position in the loop.
LEMMA NextPartFields ==
  ASSUME NEW p \in Procs, NEW c, proc[p] \in Processes
  PROVE  /\ NextPart(p, c).pc = proc[p].pc
         /\ NextPart(p, c).command = proc[p].command
         /\ NextPart(p, c).repository = proc[p].repository
         /\ NextPart(p, c).index = proc[p].index
         /\ NextPart(p, c).volume = proc[p].volume
         /\ NextPart(p, c).id = proc[p].id
         /\ NextPart(p, c).archives = proc[p].archives
         /\ NextPart(p, c).path = proc[p].path
         /\ NextPart(p, c).chunks = proc[p].chunks
         /\ NextPart(p, c).todo
              = IF LastPart(p, c) THEN proc[p].todo \ {c} ELSE proc[p].todo
         /\ LastPart(p, c) => NextPart(p, c).part = 0
         /\ ~LastPart(p, c) => /\ NextPart(p, c).part = proc[p].part + 1
                            /\ NextPart(p, c).chunk = c
  BY DEF NextPart, Processes

\* Another set of chunks changes nothing else of a process.
LEMMA ChunksOnly ==
  ASSUME NEW process \in Processes, NEW chunks
  PROVE  LET x == [process EXCEPT !.chunks = chunks]
         IN  /\ x.pc = process.pc /\ x.command = process.command
             /\ x.repository = process.repository /\ x.index = process.index
             /\ x.volume = process.volume /\ x.id = process.id
             /\ x.archives = process.archives /\ x.path = process.path
             /\ x.todo = process.todo /\ x.chunk = process.chunk
             /\ x.part = process.part /\ x.chunks = chunks
  BY DEF Processes

LEMMA PackInv ==
  ASSUME IInv, SerialUse, NEW p \in Procs, Pack(p), TypeInv'
  PROVE  IInv'
  <1>1. /\ MemoryInv(proc[p])
        /\ proc[p] \in Processes
        /\ proc[p].index \in ChunkIndexes
        /\ proc[p].part \in Nat
    BY OfProcess
  <1>2. proc[p].pc \in {"opened", "deleteChunk"} /\ proc[p].command = "pack"
    BY <1>1 DEF Pack, BeginPack, DeleteChunk, DeleteChunkFails, EndPack, At,
                MemoryInv, CommandInv
  <1>3. /\ ~Removing(p)
        /\ proc[p].repository = repositoryFile
        /\ Disjoint(repositoryFile)
        /\ Covers(proc[p].index, repositoryFile)
    BY <1>1, <1>2 DEF Removing, At, MemoryInv, RepositoryInv, IndexInv, IInv
  <1>4. CASE BeginPack(p)
    <2> DEFINE x == [proc[p] EXCEPT !.pc = "deleteChunk",
                                    !.todo = ToDelete(proc[p].index)]
    <2>1. proc[p].part = 0
      BY <1>1, <1>4 DEF BeginPack, At, MemoryInv, LoopInv
    <2>2. Become(p, x)
      BY <1>4 DEF BeginPack
    <2>3. /\ x.pc = "deleteChunk" /\ x.command = "pack"
          /\ x.repository = proc[p].repository /\ x.index = proc[p].index
          /\ x.part = 0 /\ x.todo = ToDelete(proc[p].index)
      BY <1>1, <1>2, <2>1 DEF Processes
    <2> HIDE DEF x
    <2>4. MemoryInv(x)
      BY <1>3, <2>3
         DEF MemoryInv, CommandInv, RepositoryInv, IndexInv, SnapshotInv, LoopInv
    <2> QED
      BY <1>3, <1>4, <2>2, <2>4, InMemory DEF BeginPack
  <1>5. ASSUME NEW c \in Chunks, NEW b \in Backends, DeleteChunk(p, c, b)
        PROVE  IInv'
    <2> DEFINE x == NextPart(p, c)
    <2>1. /\ proc[p].pc = "deleteChunk" /\ c \in proc[p].todo
          /\ proc[p].todo \subseteq ToDelete(proc[p].index)
      BY <1>1, <1>5 DEF DeleteChunk, IsNextChunk, At, MemoryInv, LoopInv
    <2>2. \A d \in Used : d.hash # c.hash
      BY <1>3, <2>1, CoveredReferenced, DeletedUnreferenced
    <2>3. UNCHANGED <<repositoryFile, snapshotFiles, indexFile>>
      BY <1>5 DEF DeleteChunk
    <2>4. proc'[p] = x
      BY <1>5, BecomeProc DEF DeleteChunk, IInv, TypeInv, TypeOK
    <2>5. MemoryInv(proc[p])'
      <3>1. /\ x.pc = "deleteChunk" /\ x.command = "pack"
            /\ x.repository = repositoryFile /\ x.index = proc[p].index
        BY <1>1, <1>2, <1>3, <2>1, NextPartFields
      <3>2. x.todo \subseteq ToDelete(proc[p].index)
        <4>1. x.todo = IF LastPart(p, c) THEN proc[p].todo \ {c} ELSE proc[p].todo
          BY <1>1, NextPartFields
        <4> HIDE DEF x
        <4> QED
          BY <2>1, <4>1
      <3>3. x.part # 0 => x.chunk \in x.todo
        BY <1>1, <2>1, NextPartFields
      <3> HIDE DEF x
      <3> QED
        BY <1>3, <2>3, <2>4, <3>1, <3>2, <3>3
           DEF MemoryInv, CommandInv, RepositoryInv, IndexInv, SnapshotInv,
               LoopInv, Covers
    <2>6. Recoverable'
      <3>1. Used' = Used
        BY <2>3 DEF Used
      <3>2. chunkFiles' = chunkFiles \ {PartFile(c, proc[p].part, b)}
        BY <1>5 DEF DeleteChunk
      <3>3. \A d \in Used : \A i, a : PartFile(d, i, a) # PartFile(c, proc[p].part, b)
        BY <2>2 DEF PartFile
      <3>4. \A d \in Used : Stored(d)'
        BY <3>2, <3>3 DEF IInv, Recoverable, Stored, IsThere
      <3> QED
        BY <2>3, <3>1, <3>4 DEF IInv, Recoverable
    <2>7. IndexCovers'
      <3>1. \A q \in Procs : ~Removing(q)
        BY <1>3, OneProcess
      <3> QED
        BY <2>3, <3>1 DEF IInv, IndexCovers
    <2> QED
      BY <2>3, <2>5, <2>6, <2>7, OneProcess DEF IInv, Disjoint
  <1>6. ASSUME NEW c \in Chunks, DeleteChunkFails(p, c)
        PROVE  IInv'
    BY <1>3, <1>6, InMemoryReturn DEF DeleteChunkFails
  <1>7. CASE EndPack(p)
    <2> DEFINE y == Restrict(proc[p].index,
                             DOMAIN proc[p].index \ Unreferenced(proc[p].index))
    <2> DEFINE x == [proc[p] EXCEPT !.pc = "saveIndex", !.index = y]
    <2>1. Covers(y, repositoryFile)
      BY <1>1, <1>3, PackedRefs DEF Covers
    <2>2. proc[p].part = 0
      BY <1>1, <1>7 DEF EndPack, MemoryInv, LoopInv
    <2>3. Become(p, x)
      BY <1>7 DEF EndPack
    <2> HIDE DEF y
    <2>4. /\ x.pc = "saveIndex" /\ x.command = "pack"
          /\ x.repository = proc[p].repository /\ x.index = y /\ x.part = 0
      BY <1>1, <1>2, <2>2 DEF Processes
    <2> HIDE DEF x
    <2>5. MemoryInv(x)
      BY <1>3, <2>1, <2>4
         DEF MemoryInv, CommandInv, RepositoryInv, IndexInv, SnapshotInv, LoopInv
    <2> QED
      BY <1>3, <1>7, <2>3, <2>5, InMemory DEF EndPack
  <1> QED
    BY <1>4, <1>5, <1>6, <1>7 DEF Pack

LEMMA AddInv ==
  ASSUME IInv, SerialUse, NEW p \in Procs, Add(p), TypeInv'
  PROVE  IInv'
  <1>1. /\ MemoryInv(proc[p])
        /\ proc[p] \in Processes
        /\ proc[p].index \in ChunkIndexes
        /\ proc[p].archives \in Archives
        /\ proc[p].chunks \in SUBSET Chunks
        /\ proc[p].part \in Nat
    BY OfProcess
  <1>2. proc[p].pc \in {"opened", "storeChunk"} /\ proc[p].command = "store"
    <2>1. proc[p].pc \in {"opened", "storeChunk"}
      BY DEF Add, BeginArchive, StoreChunk, StoreChunkFails, AddArchive, EndTargets, At
    <2>2. proc[p].pc = "opened" => proc[p].command = "store"
      BY <1>1 DEF Add, BeginArchive, StoreChunk, StoreChunkFails, AddArchive,
                  EndTargets, At, Storing, MemoryInv, CommandInv
    <2> QED
      BY <1>1, <2>1, <2>2 DEF MemoryInv, CommandInv
  <1>3. /\ ~Removing(p)
        /\ proc[p].repository = repositoryFile
        /\ Disjoint(repositoryFile)
        /\ Covers(proc[p].index, repositoryFile)
        /\ proc[p].id \in Snapshots \ DOMAIN snapshotFiles
        /\ proc[p].volume \in DOMAIN repositoryFile
        /\ \A c \in ChunksOf(proc[p].archives) :
             Stored(c) /\ HasReference(proc[p].index, c, proc[p].id)
    BY <1>1, <1>2 DEF Removing, At, MemoryInv, RepositoryInv, IndexInv, SnapshotInv, IInv
  <1>4. ASSUME NEW f \in Paths, NEW hashes \in SUBSET Hashes,
               BeginArchive(p, f, hashes)
        PROVE  IInv'
    <2> DEFINE x == [proc[p] EXCEPT !.pc = "storeChunk", !.path = f,
                                    !.chunks = {},
                                    !.todo = [hash : hashes, shape : {proc[p].shape}]]
    <2>1. proc[p].part = 0
      BY <1>1, <1>4 DEF BeginArchive, At, MemoryInv, LoopInv
    <2>2. Become(p, x)
      BY <1>4 DEF BeginArchive
    <2>3. /\ x.pc = "storeChunk" /\ x.command = "store"
          /\ x.repository = proc[p].repository /\ x.index = proc[p].index
          /\ x.volume = proc[p].volume /\ x.id = proc[p].id
          /\ x.archives = proc[p].archives
          /\ x.path = f /\ x.chunks = {} /\ x.part = 0
      BY <1>1, <1>2, <2>1 DEF Processes
    <2> HIDE DEF x
    <2>5. MemoryInv(x)
      BY <1>3, <2>3
         DEF MemoryInv, CommandInv, RepositoryInv, IndexInv, SnapshotInv, LoopInv
    <2> QED
      BY <1>3, <1>4, <2>2, <2>5, InMemory DEF BeginArchive
  <1>5. ASSUME NEW c \in Chunks, NEW b \in Backends, StoreChunk(p, c, b)
        PROVE  IInv'
    <2> DEFINE cs == proc[p].chunks \cup (IF LastPart(p, c) THEN {c} ELSE {})
    <2> DEFINE x == [NextPart(p, c) EXCEPT !.chunks = cs]
    <2>1. /\ proc[p].pc = "storeChunk" /\ c \in proc[p].todo
          /\ proc[p].part # 0 => c = proc[p].chunk
          /\ proc[p].path \in Paths
          /\ \A d \in proc[p].chunks : Stored(d)
          /\ \A i \in 0 .. proc[p].part - 1 : IsThere(proc[p].chunk, i)
      BY <1>1, <1>5 DEF StoreChunk, IsNextChunk, At, MemoryInv, LoopInv
    <2>2. UNCHANGED <<repositoryFile, snapshotFiles, indexFile>>
      BY <1>5 DEF StoreChunk
    <2>3. chunkFiles' = chunkFiles \cup {PartFile(c, proc[p].part, b)}
      BY <1>5 DEF StoreChunk
    <2>4. /\ \A d, i : IsThere(d, i) => IsThere(d, i)'
          /\ \A d : Stored(d) => Stored(d)'
      BY <2>3 DEF Stored, IsThere
    <2>5. \A i \in 0 .. proc[p].part : IsIn(c, i, chunkFiles')
      <3>1. \A i \in 0 .. proc[p].part : i \in 0 .. proc[p].part - 1 \/ i = proc[p].part
        BY <1>1
      <3>2. \A i \in 0 .. proc[p].part - 1 : proc[p].part # 0
        BY <1>1
      <3>3. IsIn(c, proc[p].part, chunkFiles')
        BY <2>3 DEF IsIn
      <3>4. \A i \in 0 .. proc[p].part - 1 : IsIn(c, i, chunkFiles')
        BY <2>1, <2>3, <3>2 DEF IsThere, IsIn
      <3> QED
        BY <3>1, <3>3, <3>4
    <2>6. LastPart(p, c) => Stored(c)'
      <3>1. LastPart(p, c) => Parts(c) = 0 .. proc[p].part
        BY <1>1, ChunkSize DEF Parts, LastPart
      <3> QED
        BY <2>5, <3>1 DEF Stored, IsThere, IsIn
    <2>7. proc'[p] = x
      BY <1>5, BecomeProc DEF StoreChunk, IInv, TypeInv, TypeOK
    <2>8. NextPart(p, c) \in Processes
      BY <1>5, NextPartType DEF IInv, StoreChunk
    <2>9. /\ x.pc = "storeChunk" /\ x.command = "store"
          /\ x.repository = proc[p].repository /\ x.index = proc[p].index
          /\ x.volume = proc[p].volume /\ x.id = proc[p].id
          /\ x.archives = proc[p].archives
          /\ x.path = proc[p].path /\ x.chunks = cs
      <3>1. /\ x.pc = proc[p].pc /\ x.command = proc[p].command
            /\ x.repository = proc[p].repository /\ x.index = proc[p].index
            /\ x.volume = proc[p].volume /\ x.id = proc[p].id
            /\ x.archives = proc[p].archives
            /\ x.path = proc[p].path
        <4> DEFINE n == NextPart(p, c)
        <4>1. /\ n.pc = proc[p].pc /\ n.command = proc[p].command
              /\ n.repository = proc[p].repository /\ n.index = proc[p].index
              /\ n.volume = proc[p].volume /\ n.id = proc[p].id
              /\ n.archives = proc[p].archives /\ n.path = proc[p].path
          BY <1>1, NextPartFields
        <4>2. /\ x.pc = n.pc /\ x.command = n.command /\ x.repository = n.repository
              /\ x.index = n.index /\ x.volume = n.volume /\ x.id = n.id
              /\ x.archives = n.archives /\ x.path = n.path
          <5> HIDE DEF n, cs
          <5> QED
            BY <2>8, ChunksOnly DEF n
        <4> HIDE DEF n, x
        <4> QED
          BY <4>1, <4>2
      <3>2. x.chunks = cs
        <4> HIDE DEF cs
        <4> QED
          BY <2>8, ChunksOnly
      <3> HIDE DEF x, cs
      <3> QED
        BY <1>1, <1>2, <2>1, <3>1, <3>2
    <2>10. /\ LastPart(p, c) => x.part = 0
           /\ ~LastPart(p, c) => /\ x.part = proc[p].part + 1
                              /\ x.chunk = c
                              /\ x.todo = proc[p].todo
      BY <1>1, <2>8, NextPartFields DEF Processes
    <2>11. \A d \in cs : Stored(d)'
      BY <2>1, <2>4, <2>6
    <2> HIDE DEF cs, x
    <2>12. \A i \in 0 .. x.part - 1 : IsIn(x.chunk, i, chunkFiles')
      <3>1. x.part # 0 => x.chunk = c /\ 0 .. x.part - 1 = 0 .. proc[p].part
        BY <1>1, <2>10
      <3>2. x.part = 0 => 0 .. x.part - 1 = {}
        OBVIOUS
      <3> QED
        BY <2>5, <3>1, <3>2
    <2>13. LoopInv(proc[p])'
      <3>1. proc'[p].part # 0 => proc'[p].chunk \in proc'[p].todo
        BY <2>1, <2>7, <2>10
      <3>2. /\ proc'[p].pc = "storeChunk" /\ proc'[p].path \in Paths
            /\ \A d \in proc'[p].chunks : Stored(d)'
            /\ \A i \in 0 .. proc'[p].part - 1 : IsIn(proc'[p].chunk, i, chunkFiles')
        BY <2>1, <2>7, <2>9, <2>11, <2>12
      <3> QED
        BY <3>1, <3>2 DEF LoopInv, IsThere, IsIn
    <2>14. MemoryInv(proc[p])'
      <3>1. /\ proc'[p].pc = "storeChunk" /\ proc'[p].command = "store"
            /\ proc'[p].repository = repositoryFile' /\ proc'[p].index = proc[p].index
            /\ proc'[p].volume = proc[p].volume /\ proc'[p].id = proc[p].id
            /\ proc'[p].archives = proc[p].archives
        BY <1>3, <2>2, <2>7, <2>9
      <3>2. Covers(proc[p].index, repositoryFile)'
        BY <1>3, <2>2, <3>1 DEF Covers
      <3> QED
        BY <1>3, <2>2, <2>4, <2>13, <3>1, <3>2
           DEF MemoryInv, CommandInv, RepositoryInv, IndexInv, SnapshotInv
    <2>15. Recoverable'
      BY <2>2, <2>4 DEF IInv, Recoverable, Used
    <2>16. IndexCovers'
      <3>1. \A q \in Procs : ~Removing(q)
        BY <1>3, OneProcess
      <3> QED
        BY <2>2, <3>1 DEF IInv, IndexCovers
    <2> QED
      BY <2>2, <2>14, <2>15, <2>16, OneProcess DEF IInv, Disjoint
  <1>6. ASSUME NEW c \in Chunks, StoreChunkFails(p, c)
        PROVE  IInv'
    <2> DEFINE x == [proc[p] EXCEPT !.todo = proc[p].todo \ {c},
                                    !.chunk = None, !.part = 0]
    <2>1. Become(p, x)
      BY <1>6 DEF StoreChunkFails
    <2>2. /\ proc[p].pc = "storeChunk"
          /\ proc[p].path \in Paths
          /\ \A d \in proc[p].chunks : Stored(d)
      BY <1>1, <1>6 DEF StoreChunkFails, At, MemoryInv, LoopInv
    <2>3. /\ x.pc = "storeChunk" /\ x.command = "store"
          /\ x.repository = proc[p].repository /\ x.index = proc[p].index
          /\ x.volume = proc[p].volume /\ x.id = proc[p].id
          /\ x.archives = proc[p].archives
          /\ x.path = proc[p].path /\ x.chunks = proc[p].chunks /\ x.part = 0
      BY <1>1, <1>2, <2>2 DEF Processes
    <2> HIDE DEF x
    <2>5. MemoryInv(x)
      BY <1>3, <2>2, <2>3
         DEF MemoryInv, CommandInv, RepositoryInv, IndexInv, SnapshotInv, LoopInv
    <2> QED
      BY <1>3, <1>6, <2>1, <2>5, InMemory DEF StoreChunkFails
  <1>7. CASE AddArchive(p)
    <2> DEFINE a == Put(proc[p].archives, proc[p].path, proc[p].chunks)
    <2> DEFINE y == IndexArchive(proc[p].index, proc[p].chunks, proc[p].id)
    <2> DEFINE x == [proc[p] EXCEPT !.pc = "opened", !.archives = a, !.index = y,
                                    !.path = None, !.chunks = {}]
    <2>1. /\ proc[p].path \in Paths
          /\ \A d \in proc[p].chunks : Stored(d)
          /\ proc[p].part = 0
      BY <1>1, <1>7 DEF AddArchive, At, MemoryInv, LoopInv
    <2>2. ChunksOf(a) \subseteq ChunksOf(proc[p].archives) \cup proc[p].chunks
      BY <1>1, <2>1, PutArchive
    <2> HIDE DEF a
    <2>3. /\ \A c, t : HasReference(proc[p].index, c, t) => HasReference(y, c, t)
          /\ \A c \in proc[p].chunks : HasReference(y, c, proc[p].id)
      BY <1>1, <1>3, IndexArchiveRefs
    <2> HIDE DEF y
    <2>4. \A c \in ChunksOf(a) : Stored(c) /\ HasReference(y, c, proc[p].id)
      BY <1>3, <2>1, <2>2, <2>3
    <2>5. Covers(y, repositoryFile)
      BY <1>3, <2>3 DEF Covers
    <2>6. Become(p, x)
      BY <1>7 DEF AddArchive, a, y
    <2>7. /\ x.pc = "opened" /\ x.command = "store"
          /\ x.repository = proc[p].repository /\ x.index = y
          /\ x.volume = proc[p].volume /\ x.id = proc[p].id
          /\ x.archives = a /\ x.part = 0
      BY <1>1, <1>2, <2>1 DEF Processes
    <2> HIDE DEF x
    <2>8. MemoryInv(x)
      BY <1>3, <2>4, <2>5, <2>7
         DEF MemoryInv, CommandInv, RepositoryInv, IndexInv, SnapshotInv, LoopInv
    <2> QED
      BY <1>3, <1>7, <2>6, <2>8, InMemory DEF AddArchive
  <1>8. CASE EndTargets(p)
    <2> DEFINE x == [proc[p] EXCEPT !.pc = "saveSnapshot"]
    <2>1. proc[p].part = 0
      BY <1>1, <1>8 DEF EndTargets, At, MemoryInv, LoopInv
    <2>2. Become(p, x)
      BY <1>8 DEF EndTargets
    <2>3. /\ x.pc = "saveSnapshot" /\ x.command = "store"
          /\ x.repository = proc[p].repository /\ x.index = proc[p].index
          /\ x.volume = proc[p].volume /\ x.id = proc[p].id
          /\ x.archives = proc[p].archives /\ x.part = 0
      BY <1>1, <1>2, <2>1 DEF Processes
    <2> HIDE DEF x
    <2>4. MemoryInv(x)
      BY <1>3, <2>3
         DEF MemoryInv, CommandInv, RepositoryInv, IndexInv, SnapshotInv, LoopInv
    <2> QED
      BY <1>3, <1>8, <2>2, <2>4, InMemory DEF EndTargets
  <1> QED
    BY <1>4, <1>5, <1>6, <1>7, <1>8 DEF Add

LEMMA SaveInv ==
  ASSUME IInv, SerialUse, NEW p \in Procs, Save(p), TypeInv'
  PROVE  IInv'
  <1>1. /\ MemoryInv(proc[p])
        /\ proc[p] \in Processes
        /\ proc[p].repository \in Repositories
        /\ proc[p].index \in ChunkIndexes
        /\ proc[p].archives \in Archives
    BY OfProcess
  <1>2. /\ repositoryFile \in Repositories
        /\ Disjoint(repositoryFile)
        /\ Listed(repositoryFile) \subseteq DOMAIN snapshotFiles
        /\ \A c \in Used : Stored(c)
    BY DEF IInv, TypeInv, TypeOK, Recoverable
  <1>3. CASE SaveSnapshot(p)
    <2> DEFINE s == proc[p].id
    <2> DEFINE v == proc[p].volume
    <2> DEFINE r == AddSnapshot(proc[p].repository, v, s)
    <2> DEFINE x == [proc[p] EXCEPT !.pc = "saveIndex", !.repository = r]
    <2>1. proc[p].pc = "saveSnapshot" /\ proc[p].command = "store"
      BY <1>1, <1>3 DEF SaveSnapshot, At, MemoryInv, CommandInv
    <2>2. /\ ~Removing(p)
          /\ proc[p].repository = repositoryFile
          /\ Covers(proc[p].index, repositoryFile)
          /\ s \in Snapshots \ DOMAIN snapshotFiles
          /\ v \in DOMAIN repositoryFile
          /\ proc[p].part = 0
          /\ \A c \in ChunksOf(proc[p].archives) :
               Stored(c) /\ HasReference(proc[p].index, c, s)
      BY <1>1, <2>1
         DEF Removing, At, MemoryInv, RepositoryInv, IndexInv, SnapshotInv, LoopInv
    <2>3. /\ Listed(r) = Listed(repositoryFile) \cup {s}
          /\ Disjoint(r)
      BY <1>2, <2>2, AddSnapshotListed
    <2>4. /\ DOMAIN snapshotFiles' = DOMAIN snapshotFiles \cup {s}
          /\ snapshotFiles'[s] = proc[p].archives
          /\ \A t \in DOMAIN snapshotFiles : snapshotFiles'[t] = snapshotFiles[t]
      <3>1. snapshotFiles' = Put(snapshotFiles, s, proc[p].archives)
        BY <1>3 DEF SaveSnapshot
      <3> HIDE DEF s
      <3> QED
        BY <2>2, <3>1 DEF Put
    <2>5. UNCHANGED <<repositoryFile, indexFile, chunkFiles>>
      BY <1>3 DEF SaveSnapshot
    <2>6. Used' = Used /\ \A c : Stored(c)' <=> Stored(c)
      BY <1>2, <2>4, <2>5 DEF Used, Stored, IsThere
    <2>7. Recoverable'
      BY <1>2, <2>4, <2>5, <2>6 DEF Recoverable
    <2>8. IndexCovers'
      <3>1. \A q \in Procs : ~Removing(q)
        BY <2>2, OneProcess
      <3> QED
        BY <1>2, <2>4, <2>5, <3>1 DEF IInv, IndexCovers
    <2>9. /\ proc'[p].pc = "saveIndex" /\ proc'[p].command = "store"
          /\ proc'[p].repository = r /\ proc'[p].index = proc[p].index
          /\ proc'[p].volume = v /\ proc'[p].id = s /\ proc'[p].part = 0
      <3>1. proc'[p] = x
        BY <1>3, BecomeProc DEF SaveSnapshot, IInv, TypeInv, TypeOK
      <3> HIDE DEF r
      <3> QED
        BY <1>1, <2>1, <2>2, <3>1 DEF Processes
    <2>10. \A t \in Listed(r) : \A c \in ChunksOf(snapshotFiles'[t]) :
             HasReference(proc[p].index, c, t)
      BY <1>2, <2>2, <2>3, <2>4 DEF Covers
    <2>11. /\ s \in DOMAIN snapshotFiles' \ Listed(repositoryFile')
           /\ v \in DOMAIN repositoryFile'
           /\ r = AddSnapshot(repositoryFile', v, s)
      BY <1>2, <2>2, <2>4, <2>5
    <2>12. \A c \in ChunksOf(snapshotFiles'[s]) : Stored(c)'
      BY <2>2, <2>4, <2>6
    <2> HIDE DEF r, s, v
    <2>13. MemoryInv(proc[p])'
      BY <2>3, <2>9, <2>10, <2>11, <2>12
         DEF MemoryInv, CommandInv, RepositoryInv, IndexInv, SnapshotInv,
             LoopInv, Covers
    <2> QED
      BY <2>5, <2>7, <2>8, <2>13, OneProcess DEF IInv, Disjoint
  <1>4. CASE SaveIndex(p)
    <2>1. /\ proc[p].pc = "saveIndex"
          /\ ~Removing(p)
          /\ Covers(proc[p].index, proc[p].repository)
          /\ Disjoint(proc[p].repository)
          /\ proc[p].part = 0
          /\ proc[p].command = "pack" => proc[p].repository = repositoryFile
      BY <1>1, <1>4 DEF SaveIndex, Removing, At, MemoryInv, RepositoryInv, IndexInv,
                        LoopInv
    <2>2. /\ UNCHANGED <<repositoryFile, snapshotFiles, chunkFiles>>
          /\ indexFile' = proc[p].index
      BY <1>4 DEF SaveIndex
    <2>3. Recoverable'
      BY <2>2 DEF IInv, Recoverable, Used, Stored, IsThere
    <2>4. CASE proc[p].command = "pack"
      <3>1. proc'[p] = Idle
        BY <1>4, <2>4, BecomeProc DEF SaveIndex, Return, IInv, TypeInv, TypeOK
      <3>2. MemoryInv(proc[p])'
        <4>1. None # "volinit"
          BY ConstantsOK DEF CommandNames
        <4> QED
          BY <3>1, <4>1 DEF Idle, MemoryInv, CommandInv, RepositoryInv, IndexInv,
                            SnapshotInv, LoopInv
      <3>3. IndexCovers'
        BY <2>1, <2>2, <2>4 DEF IndexCovers, Covers
      <3> QED
        BY <2>2, <2>3, <3>2, <3>3, OneProcess DEF IInv, Disjoint
    <2>5. CASE proc[p].command # "pack"
      <3> DEFINE x == [proc[p] EXCEPT !.pc = "saveRepository"]
      <3>1. proc'[p] = x
        BY <1>4, <2>5, BecomeProc DEF SaveIndex, IInv, TypeInv, TypeOK
      <3>2. /\ proc'[p].pc = "saveRepository"
            /\ proc'[p].command = proc[p].command
            /\ proc'[p].repository = proc[p].repository
            /\ proc'[p].volume = proc[p].volume /\ proc'[p].id = proc[p].id
            /\ proc'[p].part = 0
        BY <1>1, <2>1, <3>1 DEF Processes
      <3>3. Covers(indexFile, proc[p].repository)'
        BY <2>1, <2>2, <3>2 DEF Covers
      <3>4. MemoryInv(proc[p])'
        BY <1>1, <2>1, <2>2, <2>5, <3>2, <3>3
           DEF MemoryInv, CommandInv, RepositoryInv, IndexInv, SnapshotInv,
               LoopInv, Stored, IsThere
      <3>5. IndexCovers'
        <4>1. proc[p].command \in {"store", "remove", "volremove"}
          BY <1>1, <2>1, <2>5 DEF MemoryInv, CommandInv
        <4>2. CASE proc[p].command = "store"
          <5>1. Listed(repositoryFile) \subseteq Listed(proc[p].repository)
            <6>1. /\ proc[p].id \in DOMAIN snapshotFiles
                  /\ proc[p].volume \in DOMAIN repositoryFile
                  /\ proc[p].repository
                       = AddSnapshot(repositoryFile, proc[p].volume, proc[p].id)
              BY <1>1, <2>1, <4>2 DEF MemoryInv, SnapshotInv
            <6>2. proc[p].id \in Snapshots
              BY <6>1 DEF IInv, TypeInv, TypeOK
            <6> QED
              BY <1>2, <6>1, <6>2, AddSnapshotListed
          <5> QED
            BY <2>1, <2>2, <5>1 DEF IndexCovers, Covers
        <4>3. CASE proc[p].command \in {"remove", "volremove"}
          BY <3>2, <4>3 DEF IndexCovers, Removing, At
        <4> QED
          BY <4>1, <4>2, <4>3
      <3> QED
        BY <2>2, <2>3, <3>4, <3>5, OneProcess DEF IInv, Disjoint
    <2> QED
      BY <2>4, <2>5
  <1>5. CASE SaveRepository(p)
    <2> DEFINE r == proc[p].repository
    <2>1. /\ proc[p].pc = "saveRepository"
          /\ Disjoint(r)
          /\ indexFile # None => Covers(indexFile, r)
      BY <1>1, <1>5 DEF SaveRepository, At, MemoryInv, RepositoryInv, IndexInv
    <2>2. /\ UNCHANGED <<snapshotFiles, indexFile, chunkFiles>>
          /\ repositoryFile' = r
      BY <1>5 DEF SaveRepository
    <2>3. proc'[p] = Idle
      BY <1>5, BecomeProc DEF SaveRepository, Return, IInv, TypeInv, TypeOK
    <2>4. MemoryInv(proc[p])'
      <3>1. None # "volinit"
        BY ConstantsOK DEF CommandNames
      <3> QED
        BY <2>3, <3>1 DEF Idle, MemoryInv, CommandInv, RepositoryInv, IndexInv,
                          SnapshotInv, LoopInv
    <2>5. IndexCovers'
      BY <2>1, <2>2 DEF IndexCovers, Covers
    <2>6. \A s \in Listed(r) :
            s \in DOMAIN snapshotFiles /\ \A c \in ChunksOf(snapshotFiles[s]) : Stored(c)
      <3>1. CASE proc[p].command = "store"
        <4> DEFINE s == proc[p].id
        <4>1. /\ s \in DOMAIN snapshotFiles
              /\ \A c \in ChunksOf(snapshotFiles[s]) : Stored(c)
              /\ proc[p].volume \in DOMAIN repositoryFile
              /\ r = AddSnapshot(repositoryFile, proc[p].volume, s)
          BY <1>1, <2>1, <3>1 DEF MemoryInv, SnapshotInv
        <4>2. s \in Snapshots
          BY <4>1 DEF IInv, TypeInv, TypeOK
        <4>3. Listed(r) = Listed(repositoryFile) \cup {s}
          BY <1>2, <4>1, <4>2, AddSnapshotListed
        <4> QED
          BY <1>2, <4>1, <4>3 DEF Used
      <3>2. CASE proc[p].command # "store"
        <4>1. Listed(r) \subseteq Listed(repositoryFile)
          BY <1>1, <2>1, <3>2 DEF MemoryInv, RepositoryInv
        <4> QED
          BY <1>2, <4>1 DEF Used
      <3> QED
        BY <3>1, <3>2
    <2>7. Recoverable'
      BY <2>2, <2>6 DEF Recoverable, Used, Stored, IsThere
    <2> QED
      BY <2>1, <2>2, <2>4, <2>5, <2>7, OneProcess DEF IInv
  <1> QED
    BY <1>3, <1>4, <1>5 DEF Save

LEMMA InvInit == Init => IInv
  <1> SUFFICES ASSUME Init
               PROVE  IInv
    OBVIOUS
  <1>1. TypeInv
    BY InitType
  <1>2. Listed(repositoryFile) = {}
    BY DEF Init, Empty, Listed
  <1>3. Recoverable /\ IndexCovers /\ Disjoint(repositoryFile)
    BY <1>2 DEF Init, Recoverable, Used, IndexCovers, Disjoint, Empty
  <1>4. \A p \in Procs : MemoryInv(proc[p])
    BY IdleMemory DEF Init
  <1> QED
    BY <1>1, <1>3, <1>4 DEF IInv

LEMMA InvNext ==
  ASSUME SerialUse
  PROVE  IInv /\ [Next]_vars => IInv'
  <1> SUFFICES ASSUME IInv, [Next]_vars
               PROVE  IInv'
    OBVIOUS
  <1>1. TypeInv'
    BY NextType DEF IInv
  <1>2. CASE Next
    <2> PICK p \in Procs : Step(p)
      BY <1>2 DEF Next
    <2> QED
      BY <1>1, BeginInv, OpenChunkIndexInv, AddInv, RemoveInv, PackInv, SaveInv,
         AbortInv DEF Step
  <1>3. CASE UNCHANGED vars
    <2>1. Recoverable' /\ IndexCovers' /\ Disjoint(repositoryFile)'
      BY <1>3 DEF vars, IInv, Recoverable, Used, Stored, IsThere, IndexCovers, Removing, At,
                  Disjoint
    <2>2. \A p \in Procs : MemoryInv(proc[p])'
      BY <1>3 DEF vars, IInv, MemoryInv, CommandInv, RepositoryInv, IndexInv,
                  SnapshotInv, LoopInv, Covers, Stored, IsThere
    <2> QED
      BY <1>1, <2>1, <2>2 DEF IInv
  <1> QED
    BY <1>2, <1>3

LEMMA Invariant ==
  ASSUME SerialUse
  PROVE  Spec => []IInv
  BY InvInit, InvNext, PTL DEF Spec

-----------------------------------------------------------------------------
(* Results.                                                                *)

\* In serial use, whatever command ends at whatever step (removals apart), and
\* whatever chunk or index cannot be stored or read, every snapshot that the
\* repository file lists has its snapshot file and all its chunks: the three
\* saves of executeStore come in the right order, and Pack deletes no chunk
\* that is needed.
THEOREM StaysRecoverable ==
  ASSUME SerialUse
  PROVE  Spec => []Recoverable
  <1>1. IInv => Recoverable
    BY DEF IInv
  <1> QED
    BY <1>1, Invariant, PTL

\* In serial use the saved chunk-index, loaded or rebuilt by OpenChunkIndex,
\* has every reference of every listed snapshot whenever no removal is between
\* its two saves.
THEOREM IndexStaysComplete ==
  ASSUME SerialUse
  PROVE  Spec => []IndexCovers
  <1>1. IInv => IndexCovers
    BY DEF IInv
  <1> QED
    BY <1>1, Invariant, PTL

\* Nothing but the pack command deletes chunks.
LEMMA OnlyPackDeletes ==
  ASSUME [Next]_vars, chunkFiles \ chunkFiles' # {}
  PROVE  \E p \in Procs, c \in Chunks, b \in Backends : DeleteChunk(p, c, b)
  <1>1. PICK p \in Procs : Step(p)
    BY DEF Next, vars
  <1>2. CASE Begin(p) \/ OpenChunkIndex(p) \/ Remove(p) \/ Save(p) \/ Abort(p)
    <2>1. Begin(p) => chunkFiles' = chunkFiles
      BY DEF Begin, VolumeInit, Store, Clone, OpenRepository
    <2>2. OpenChunkIndex(p) => chunkFiles' = chunkFiles
      BY DEF OpenChunkIndex, LoadIndex, RebuildIndex, SaveReindexed
    <2>3. Remove(p) => chunkFiles' = chunkFiles
      BY DEF Remove, BeginRemove, BeginVolumeRemove, RemoveNotFound
    <2>4. Save(p) \/ Abort(p) => chunkFiles' = chunkFiles
      BY DEF Save, SaveSnapshot, SaveIndex, SaveRepository, Abort
    <2> QED
      BY <1>2, <2>1, <2>2, <2>3, <2>4
  <1>3. CASE Add(p)
    BY <1>3 DEF Add, BeginArchive, StoreChunk, StoreChunkFails, AddArchive, EndTargets
  <1>4. CASE Pack(p)
    BY <1>4 DEF Pack, BeginPack, DeleteChunkFails, EndPack
  <1> QED
    BY <1>1, <1>2, <1>3, <1>4 DEF Step

\* In serial use Pack deletes only chunks that are, as it says, no longer
\* referenced by any snapshot.
THEOREM PackIsSafe ==
  ASSUME SerialUse
  PROVE  Spec => OnlyUnreferencedDeleted
  <1>1. ASSUME IInv, [Next]_vars
        PROVE  \A x \in chunkFiles \ chunkFiles' : x.hash \notin UsedHashes
    <2> SUFFICES ASSUME NEW x \in chunkFiles \ chunkFiles'
                 PROVE  x.hash \notin UsedHashes
      OBVIOUS
    <2>1. PICK p \in Procs, c \in Chunks, b \in Backends : DeleteChunk(p, c, b)
      BY <1>1, OnlyPackDeletes
    <2>2. MemoryInv(proc[p])
      BY <1>1, OfProcess
    <2>3. /\ Covers(proc[p].index, repositoryFile)
          /\ c \in ToDelete(proc[p].index)
      BY <2>1, <2>2 DEF DeleteChunk, IsNextChunk, At, MemoryInv, RepositoryInv,
                        IndexInv, LoopInv
    <2>4. x.hash = c.hash
      BY <2>1 DEF DeleteChunk, PartFile
    <2> QED
      BY <2>3, <2>4, CoveredReferenced, DeletedUnreferenced DEF UsedHashes
  <1> QED
    BY <1>1, Invariant, PTL DEF Spec, OnlyUnreferencedDeleted

-----------------------------------------------------------------------------
(* The commands implement Backups.                                         *)

\* As every listed snapshot is recoverable, what can be restored of it is all
\* of it.
LEMMA RecoverableBackups ==
  TypeInv /\ Recoverable =>
    backups = [s \in Listed(repositoryFile) |-> snapshotFiles[s]]
  <1> SUFFICES ASSUME TypeInv, Recoverable
               PROVE  backups = [s \in Listed(repositoryFile) |-> snapshotFiles[s]]
    OBVIOUS
  <1>1. Listed(repositoryFile) \cap DOMAIN snapshotFiles = Listed(repositoryFile)
    BY DEF Recoverable
  <1>2. ASSUME NEW s \in Listed(repositoryFile)
        PROVE  Restorable(snapshotFiles[s]) = snapshotFiles[s]
    <2> DEFINE a == snapshotFiles[s]
    <2>1. a \in Archives
      BY <1>1, SavedChunks DEF TypeInv
    <2>2. a = [f \in DOMAIN a |-> a[f]]
      BY <2>1, ArchivesType
    <2>3. \A c \in ChunksOf(a) : Stored(c)
      BY <1>1 DEF Recoverable, Used
    <2>4. \A f \in DOMAIN a : \A c \in a[f] : Stored(c)
      BY <2>3 DEF ChunksOf
    <2> HIDE DEF a
    <2>5. {f \in DOMAIN a : \A c \in a[f] : Stored(c)} = DOMAIN a
      BY <2>4
    <2>6. Restorable(a) = a
      BY <2>2, <2>5 DEF Restorable, Restrict
    <2> QED
      BY <2>6 DEF a
  <1> QED
    BY <1>1, <1>2 DEF backups

LEMMA RecoverableBackupsNext ==
  (TypeInv /\ Recoverable =>
     backups = [s \in Listed(repositoryFile) |-> snapshotFiles[s]])'
  BY RecoverableBackups, PTL

LEMMA BackupsAreListed ==
  IInv => backups = [s \in Listed(repositoryFile) |-> snapshotFiles[s]]
  BY RecoverableBackups DEF IInv

LEMMA BackupsAreListedNext ==
  (IInv => backups = [s \in Listed(repositoryFile) |-> snapshotFiles[s]])'
  BY BackupsAreListed, PTL

\* Every step other than the save of the repository file keeps the snapshots
\* that are listed, and their files.
LEMMA ListedUnchanged ==
  ASSUME IInv, NEW p \in Procs, Step(p), ~SaveRepository(p)
  PROVE  /\ repositoryFile' = repositoryFile
         /\ \A s \in Listed(repositoryFile) : snapshotFiles'[s] = snapshotFiles[s]
  <1>1. CASE SaveSnapshot(p)
    <2>1. proc[p].id \notin DOMAIN snapshotFiles
      BY <1>1, OfProcess DEF SaveSnapshot, At, MemoryInv, CommandInv, SnapshotInv
    <2>2. Listed(repositoryFile) \subseteq DOMAIN snapshotFiles
      BY DEF IInv, Recoverable
    <2> QED
      BY <1>1, <2>1, <2>2 DEF SaveSnapshot, Put
  <1>2. CASE ~SaveSnapshot(p)
    BY <1>2 DEF Step, Begin, VolumeInit, Store, Clone, OpenRepository,
                OpenChunkIndex, LoadIndex, RebuildIndex, SaveReindexed,
                Add, BeginArchive, StoreChunk, StoreChunkFails, AddArchive,
                EndTargets, Remove, BeginRemove, BeginVolumeRemove,
                RemoveNotFound, Pack, BeginPack, DeleteChunk, DeleteChunkFails,
                EndPack, Save, SaveIndex, Abort
  <1> QED
    BY <1>1, <1>2

\* Every step is one of Backups, or invisible there.
LEMMA StepsImplement ==
  ASSUME IInv, IInv', [Next]_vars
  PROVE  [B!Next]_backups
  <1> DEFINE listed == Listed(repositoryFile)
  <1>1. backups = [s \in listed |-> snapshotFiles[s]]
    BY BackupsAreListed
  <1>2. backups' = [s \in Listed(repositoryFile') |-> snapshotFiles'[s]]
    BY BackupsAreListedNext
  <1>3. ASSUME repositoryFile' = repositoryFile,
               \A s \in listed : snapshotFiles'[s] = snapshotFiles[s]
        PROVE  backups' = backups
    BY <1>1, <1>2, <1>3
  <1>4. ASSUME NEW p \in Procs, SaveRepository(p)
        PROVE  [B!Next]_backups
    <2> DEFINE r == proc[p].repository
    <2>1. /\ proc[p].pc = "saveRepository"
          /\ backups' = [s \in Listed(r) |-> snapshotFiles[s]]
      BY <1>2, <1>4 DEF SaveRepository, At
    <2>2. MemoryInv(proc[p]) /\ repositoryFile \in Repositories
      BY OfProcess DEF IInv, TypeInv, TypeOK
    <2>3. CASE proc[p].command = "store"
      <3> DEFINE s == proc[p].id
      <3>1. /\ s \in DOMAIN snapshotFiles \ listed
            /\ proc[p].volume \in DOMAIN repositoryFile
            /\ r = AddSnapshot(repositoryFile, proc[p].volume, s)
        BY <2>1, <2>2, <2>3 DEF MemoryInv, SnapshotInv
      <3>2. s \in Snapshots /\ snapshotFiles[s] \in Archives
        BY <3>1, SavedChunks DEF IInv, TypeInv, TypeOK
      <3>3. Listed(r) = listed \cup {s}
        BY <2>2, <3>1, <3>2, AddSnapshotListed
      <3> HIDE DEF s, r, listed
      <3>4. B!Add(s, snapshotFiles[s])
        BY <1>1, <2>1, <3>1, <3>3 DEF B!Add
      <3>5. snapshotFiles[s] \in B!Contents
        BY <3>2 DEF B!Contents, Archives
      <3> QED
        BY <3>2, <3>4, <3>5 DEF B!Next
    <2>4. CASE proc[p].command # "store"
      <3> DEFINE gone == listed \ Listed(r)
      <3>1. Listed(r) \subseteq listed
        BY <2>1, <2>2, <2>4 DEF MemoryInv, RepositoryInv
      <3>2. gone \in SUBSET Snapshots
        BY <2>2, RepositoryType DEF Listed
      <3>3. gone \subseteq listed /\ Listed(r) = listed \ gone
        BY <3>1
      <3> HIDE DEF gone, r, listed
      <3>4. B!Remove(gone)
        BY <1>1, <2>1, <3>3 DEF B!Remove
      <3> QED
        BY <3>2, <3>4 DEF B!Next
    <2> QED
      BY <2>3, <2>4
  <1>5. CASE UNCHANGED vars
    BY <1>3, <1>5 DEF vars
  <1>6. CASE Next
    <2> PICK p \in Procs : Step(p)
      BY <1>6 DEF Next
    <2> QED
      BY <1>3, <1>4, ListedUnchanged
  <1> QED
    BY <1>5, <1>6

\* In serial use the commands implement Backups: to whoever restores, storing
\* a snapshot, removing one and removing a volume are atomic, although each is
\* several saves and may die between them (removals apart), and opening the
\* chunk-index and packing are invisible.
THEOREM Refinement ==
  ASSUME SerialUse
  PROVE  Spec => ImplementsBackups
  <1>1. Init => B!Init
    <2> SUFFICES ASSUME Init
                 PROVE  B!Init
      OBVIOUS
    <2>1. backups = [s \in Listed(repositoryFile) |-> snapshotFiles[s]]
      BY InvInit, BackupsAreListed
    <2>2. Listed(repositoryFile) = {}
      BY DEF Init, Empty, Listed
    <2> QED
      BY <2>1, <2>2 DEF B!Init
  <1>2. IInv /\ IInv' /\ [Next]_vars => [B!Next]_backups
    BY StepsImplement
  <1> QED
    BY <1>1, <1>2, Invariant, PTL DEF Spec, ImplementsBackups, B!Spec
=============================================================================
