-------------------------------- MODULE Reading --------------------------------
(***************************************************************************)
(* What comes out of a repository: the commands restore, cat, verify and   *)
(* mount on the archives of snapshots that have been stored.               *)
(*                                                                         *)
(* A process runs one of them.  Reads of a mounted file are served by any  *)
(* number of goroutines, which share a cache of chunks behind a mutex and  *)
(* fetch the chunk after the last one they needed ahead of time.           *)
(*                                                                         *)
(* A path is a sequence of names.  The bytes of a chunk are told apart by  *)
(* their place in it.                                                      *)
(***************************************************************************)
EXTENDS Naturals, Sequences, FiniteSets, SequencesExt, FiniteSetsExt

CONSTANTS
  Snapshots, \* the snapshots in the order of the volumes, each path -> archive
  SizeOf,    \* hash of a chunk -> its length
  Readers,   \* reads of mounted files
  Offsets,   \* where they begin
  Sizes,     \* how much they ask for
  Occupied,  \* a file that may be in the place of a restored one, longer than it
  None

Hashes == DOMAIN SizeOf

ASSUME ReadingOK ==
  /\ \A h \in Hashes : SizeOf[h] \in Nat \ {0}
  /\ Snapshots \in Seq(Range(Snapshots))
  /\ \A i \in DOMAIN Snapshots :
       /\ IsFiniteSet(DOMAIN Snapshots[i])
       /\ \A p \in DOMAIN Snapshots[i] :
            Snapshots[i][p].chunks \in Seq([num : Nat, hash : Hashes])
  /\ Offsets \subseteq Nat /\ Sizes \subseteq Nat
  /\ Occupied \in Seq(Range(Occupied))

VARIABLES
  stored,    \* hash -> what storage has of the chunk: "good", "rotten", "gone"
  cache,     \* hash -> the content of the chunk, or None
  mutex,     \* whether the mutex of the cache is locked
  main,      \* the command, where it is, and what it has reported
  tree,      \* path -> archive: the tree of a mounted snapshot
  reader,    \* the goroutines that read
  fetch,     \* the goroutines they start to read ahead
  target     \* path -> the content of the file that is restored there, or None

vars == <<stored, cache, mutex, main, tree, reader, fetch, target>>

-----------------------------------------------------------------------------
(* Archives.                                                               *)

Bytes(h) == [i \in 1 .. SizeOf[h] |-> <<h, i>>]

Rot(h) == [i \in 1 .. SizeOf[h] |-> <<None, i>>]

Paths == UNION {DOMAIN Snapshots[i] : i \in DOMAIN Snapshots}

HasChunk(arc, n) == \E i \in DOMAIN arc.chunks : arc.chunks[i].num = n

\* Chunks are in the order in which they were stored.
IndexOfChunk(arc, n) == Min({i \in DOMAIN arc.chunks : arc.chunks[i].num = n})

HashOf(arc, n) == arc.chunks[IndexOfChunk(arc, n)].hash

Numbers(arc) == 0 .. Len(arc.chunks) - 1

\* The chunks up to the first that is missing.
Leading(arc) == {n \in Numbers(arc) : \A m \in 0 .. n : HasChunk(arc, m)}

\* Where they begin, and where the last one ends.
Starts(arc) ==
  LET start[n \in 0 .. Cardinality(Leading(arc))] ==
        IF n = 0 THEN 0 ELSE start[n - 1] + SizeOf[HashOf(arc, n - 1)]
  IN  start

Start(arc, n) == Starts(arc)[n]

\* Wrong variant: chunks are taken to be in order.
ChunkForOffsetBySlot(arc, offset) ==
  LET until(k) == MapThenSumSet(LAMBDA i : SizeOf[arc.chunks[i].hash], 1 .. k)
      enough   == {k \in DOMAIN arc.chunks : until(k) > offset}
  IN  IF enough # {}
        THEN [num |-> arc.chunks[Min(enough)].num,
              inner |-> offset - until(Min(enough) - 1), error |-> "none"]
        ELSE [num |-> 0, inner |-> 0, error |-> "EOF"]

ChunkForOffset(arc, offset) ==
  LET enough == {n \in Leading(arc) : Start(arc, n + 1) > offset} IN
  IF enough # {}
    THEN [num |-> Min(enough), inner |-> offset - Start(arc, Min(enough)), error |-> "none"]
    ELSE [num |-> 0, inner |-> 0, error |-> IF Leading(arc) = Numbers(arc) THEN "EOF" ELSE "seek"]

\* The content of the first of them.
FirstChunks(arc) ==
  LET first[n \in 0 .. Cardinality(Leading(arc))] ==
        IF n = 0 THEN <<>> ELSE first[n - 1] \o Bytes(HashOf(arc, n - 1))
  IN  first

\* The content of an archive, as far as it has been stored.
Content(arc) == FirstChunks(arc)[Cardinality(Leading(arc))]

\* Wrong variant: the checksum is not compared.
decodeChunkUnchecked(h) ==
  CASE stored[h] = "good" -> Bytes(h) [] stored[h] = "rotten" -> Rot(h) [] OTHER -> None

\* What storage has of a chunk is decoded and its checksum is compared.
decodeChunk(h) == IF stored[h] = "good" THEN Bytes(h) ELSE None

-----------------------------------------------------------------------------
Idle == [pc |-> "idle", path |-> None, offset |-> 0, size |-> 0, part |-> 0,
         inner |-> 0, data |-> <<>>]

NoFetch == [pc |-> "none", path |-> None, part |-> 0]

\* A command works on one snapshot; verify may work on those of a volume or of
\* the repository.
Init ==
  /\ stored \in [Hashes -> {"good", "rotten", "gone"}]
  /\ cache = [h \in Hashes |-> None]
  /\ mutex = FALSE
  /\ tree = [p \in {} |-> None]
  /\ reader = [r \in Readers |-> Idle]
  /\ fetch = [r \in Readers |-> NoFetch]
  /\ target \in [Paths -> {None}] \cup [Paths -> {None, Occupied}]
  /\ \E command \in {"restore", "cat", "verify", "mount"}, scope \in (SUBSET DOMAIN Snapshots) \ {{}},
        pedantic \in BOOLEAN :
       /\ command # "verify" => Cardinality(scope) = 1
       /\ command # "restore" => ~pedantic /\ target = [p \in Paths |-> None]
       /\ main = [command |-> command, pc |-> "begin", scope |-> scope,
                  pedantic |-> pedantic, todo |-> {}, done |-> {}, told |-> {},
                  path |-> None, part |-> 0, data |-> <<>>, percentage |-> 0]

Snapshot == Snapshots[Min(main.scope)]

Arc == Snapshot[main.path]

Is(command, pc) == main.command = command /\ main.pc = pc

Over == main.pc \in {"end", "failed", "crashed"}

-----------------------------------------------------------------------------
(* Restore: executeRestore, DecodeSnapshot and DecodeArchive.  The archives *)
(* of a snapshot are in a map and come in any order.                       *)

\* Excluded archives are skipped; an exclude filter that is not valid ends the
\* restore, and no error is reported.
BeginRestore ==
  /\ Is("restore", "begin")
  /\ \/ \E excluded \in SUBSET DOMAIN Snapshot :
          main' = [main EXCEPT !.pc = "next", !.todo = DOMAIN Snapshot \ excluded]
     \/ main' = [main EXCEPT !.pc = "end"]
  /\ UNCHANGED <<stored, cache, mutex, tree, reader, fetch, target>>

\* Directories and symbolic links are made; a file is opened, and what it holds
\* already stays there until it is written over.
DecodeArchive(p) ==
  /\ Is("restore", "next") /\ p \in main.todo
  /\ IF Snapshot[p].type = "file"
       THEN /\ main' = [main EXCEPT !.pc = "chunks", !.todo = main.todo \ {p},
                                    !.path = p, !.part = 0, !.data = <<>>]
            /\ target' = [target EXCEPT ![p] = IF target[p] = None THEN <<>> ELSE target[p]]
       ELSE /\ main' = [main EXCEPT !.todo = main.todo \ {p}, !.done = main.done \cup {p}]
            /\ UNCHANGED target
  /\ UNCHANGED <<stored, cache, mutex, tree, reader, fetch>>

\* Written over what the file holds, from where the last chunk ended.
Overwritten(old, written, data) ==
  written \o data \o SubSeq(old, Len(written) + Len(data) + 1, Len(old))

WriteChunk ==
  /\ Is("restore", "chunks") /\ main.part < Len(Arc.chunks)
  /\ HasChunk(Arc, main.part)
  /\ LET data == decodeChunk(HashOf(Arc, main.part)) IN
     /\ data # None
     /\ target' = [target EXCEPT ![main.path] = Overwritten(target[main.path], main.data, data)]
     /\ main' = [main EXCEPT !.part = main.part + 1, !.data = main.data \o data]
  /\ UNCHANGED <<stored, cache, mutex, tree, reader, fetch>>

\* The directory, the link or the file cannot be made.
DecodeFails(p) ==
  /\ Is("restore", "next") /\ p \in main.todo
  /\ main' = [main EXCEPT !.todo = main.todo \ {p}, !.told = main.told \cup {p},
                          !.pc = IF main.pedantic THEN "failed" ELSE "next"]
  /\ UNCHANGED <<stored, cache, mutex, tree, reader, fetch, target>>

EndArchive ==
  /\ Is("restore", "chunks") /\ main.part = Len(Arc.chunks)
  /\ main' = [main EXCEPT !.pc = "next", !.done = main.done \cup {main.path}]
  /\ UNCHANGED <<stored, cache, mutex, tree, reader, fetch, target>>

\* A chunk is missing in the archive or cannot be loaded, or the disk fails.
RestoreFails ==
  /\ Is("restore", "chunks")
  /\ main' = [main EXCEPT !.told = main.told \cup {main.path},
                          !.pc = IF main.pedantic THEN "failed" ELSE "next"]
  /\ UNCHANGED <<stored, cache, mutex, tree, reader, fetch, target>>

EndRestore ==
  /\ Is("restore", "next") /\ main.todo = {}
  /\ main' = [main EXCEPT !.pc = "end"]
  /\ UNCHANGED <<stored, cache, mutex, tree, reader, fetch, target>>

Restore ==
  \/ BeginRestore \/ (\E p \in Paths : DecodeArchive(p) \/ DecodeFails(p))
  \/ WriteChunk \/ EndArchive \/ RestoreFails \/ EndRestore

-----------------------------------------------------------------------------
(* Cat: executeCat and DecodeArchiveData.                                  *)

BeginCat ==
  /\ Is("cat", "begin")
  /\ \E p \in Paths :
       main' = [main EXCEPT !.pc = IF p \in DOMAIN Snapshot THEN "chunks" ELSE "failed",
                            !.path = p]
  /\ UNCHANGED <<stored, cache, mutex, tree, reader, fetch, target>>

\* The mutex is locked, and unlocked unless loading fails.
DecodeChunkData ==
  /\ Is("cat", "chunks") /\ main.part < Len(Arc.chunks)
  /\ HasChunk(Arc, main.part) /\ ~mutex
  /\ LET h    == HashOf(Arc, main.part)
         data == IF cache[h] # None THEN cache[h] ELSE decodeChunk(h) IN
     /\ data # None
     /\ cache' = [cache EXCEPT ![h] = data]
     /\ main' = [main EXCEPT !.part = main.part + 1, !.data = main.data \o data]
  /\ UNCHANGED <<stored, mutex, tree, reader, fetch, target>>

CatFails ==
  /\ Is("cat", "chunks") /\ main.part < Len(Arc.chunks)
  /\ HasChunk(Arc, main.part) => cache[HashOf(Arc, main.part)] = None
  /\ main' = [main EXCEPT !.pc = "failed"]
  /\ mutex' = HasChunk(Arc, main.part)
  /\ UNCHANGED <<stored, cache, tree, reader, fetch, target>>

EndCat ==
  /\ Is("cat", "chunks") /\ main.part = Len(Arc.chunks)
  /\ main' = [main EXCEPT !.pc = "end", !.done = {main.path}]
  /\ UNCHANGED <<stored, cache, mutex, tree, reader, fetch, target>>

Cat == BeginCat \/ DecodeChunkData \/ CatFails \/ EndCat

-----------------------------------------------------------------------------
(* Verify: VerifyRepo, VerifyVolume and VerifySnapshot.                    *)

\* The archives of all snapshots are in one map under their paths: the later
\* snapshot takes the place of the earlier.
ArchiveToSnapshot(loaded) ==
  [p \in UNION {DOMAIN Snapshots[i] : i \in loaded} |->
     Max({i \in loaded : p \in DOMAIN Snapshots[i]})]

Selected(paths, percentage) ==
  kSubset((Cardinality(paths) * percentage + 99) \div 100, paths)

\* Snapshots that cannot be loaded are reported and left out.
BeginVerify ==
  /\ Is("verify", "begin")
  /\ \E loaded \in SUBSET main.scope, percentage \in {50, 100} :
       LET map == ArchiveToSnapshot(loaded) IN
       \E selected \in Selected(DOMAIN map, percentage) :
         main' = [main EXCEPT !.pc = "verify",
                    !.todo = {<<map[p], p>> : p \in selected},
                    !.percentage = percentage,
                    !.told = {<<i, None>> : i \in main.scope \ loaded}]
  /\ UNCHANGED <<stored, cache, mutex, tree, reader, fetch, target>>

\* Wrong variant: the last chunk is not loaded.
LoadableButLast(arc) ==
  \A n \in Numbers(arc) \ {Len(arc.chunks) - 1} :
    HasChunk(arc, n) /\ decodeChunk(HashOf(arc, n)) # None

Loadable(arc) ==
  \A n \in Numbers(arc) : HasChunk(arc, n) /\ decodeChunk(HashOf(arc, n)) # None

VerifyArchive(x) ==
  /\ Is("verify", "verify") /\ x \in main.todo
  /\ \/ /\ Loadable(Snapshots[x[1]][x[2]])
        /\ main' = [main EXCEPT !.todo = main.todo \ {x}, !.done = main.done \cup {x}]
     \/ /\ Snapshots[x[1]][x[2]].type = "file"
        /\ main' = [main EXCEPT !.todo = main.todo \ {x}, !.told = main.told \cup {x}]
  /\ UNCHANGED <<stored, cache, mutex, tree, reader, fetch, target>>

EndVerify ==
  /\ Is("verify", "verify") /\ main.todo = {}
  /\ main' = [main EXCEPT !.pc = "end"]
  /\ UNCHANGED <<stored, cache, mutex, tree, reader, fetch, target>>

Verify == BeginVerify \/ (\E x \in main.todo : VerifyArchive(x)) \/ EndVerify

-----------------------------------------------------------------------------
(* Mount: executeMount and updateIndex build the tree, from the archives   *)
(* of a map in any order.                                                  *)

FakedDirectory == [type |-> "dir", chunks |-> <<>>]

WayTo(p) == {SubSeq(p, 1, k) : k \in 1 .. Len(p)}

BeginMount ==
  /\ Is("mount", "begin")
  /\ main' = [main EXCEPT !.pc = "index", !.todo = DOMAIN Snapshot]
  /\ UNCHANGED <<stored, cache, mutex, tree, reader, fetch, target>>

\* Directories on the way that are not in the tree yet are faked.  The archive
\* itself is lost when that happens: its node gets the last fake.
node(p) ==
  /\ Is("mount", "index") /\ p \in main.todo
  /\ LET missing == WayTo(p) \ DOMAIN tree IN
     tree' = [q \in DOMAIN tree \cup missing |->
                IF q \notin missing THEN tree[q]
                ELSE IF missing = {p} THEN Snapshot[p] ELSE FakedDirectory]
  /\ main' = [main EXCEPT !.todo = main.todo \ {p}]
  /\ UNCHANGED <<stored, cache, mutex, reader, fetch, target>>

Serve ==
  /\ Is("mount", "index") /\ main.todo = {}
  /\ main' = [main EXCEPT !.pc = "serve"]
  /\ UNCHANGED <<stored, cache, mutex, tree, reader, fetch, target>>

-----------------------------------------------------------------------------
(* Read: ReadArchive and readArchiveChunk.                                 *)

Node(x) == tree[x.path]

At(r, pc) == main.pc = "serve" /\ reader[r].pc = pc

Read(r, p, offset, size) ==
  /\ At(r, "idle")
  /\ tree[p].type = "file"
  /\ LET first == ChunkForOffset(tree[p], offset) IN
     reader' = [reader EXCEPT ![r] =
       [pc |-> CASE first.error = "none" -> "loop"
                 [] first.error = "EOF"  -> "done"
                 [] first.error = "seek" -> "failed",
        path |-> p, offset |-> offset, size |-> size, part |-> first.num,
        inner |-> first.inner, data |-> <<>>]]
  /\ UNCHANGED <<stored, cache, mutex, main, tree, fetch, target>>

\* Enough has been read, and a goroutine fetches the next chunk.
ReadEnough(r) ==
  /\ At(r, "loop") /\ Len(reader[r].data) >= reader[r].size
  /\ reader' = [reader EXCEPT ![r].pc = "done"]
  /\ fetch' = [fetch EXCEPT ![r] =
       [pc   |-> IF HasChunk(Node(reader[r]), reader[r].part) THEN "lock" ELSE "end",
        path |-> reader[r].path, part |-> reader[r].part]]
  /\ UNCHANGED <<stored, cache, mutex, main, tree, target>>

ReadToEnd(r) ==
  /\ At(r, "loop") /\ Len(reader[r].data) < reader[r].size
  /\ reader[r].part >= Len(Node(reader[r]).chunks)
  /\ reader' = [reader EXCEPT ![r].pc = "done"]
  /\ UNCHANGED <<stored, cache, mutex, main, tree, fetch, target>>

\* readArchiveChunk; it panics when there is no such chunk.
ReadChunk(r) ==
  /\ At(r, "loop") /\ Len(reader[r].data) < reader[r].size
  /\ reader[r].part < Len(Node(reader[r]).chunks)
  /\ IF HasChunk(Node(reader[r]), reader[r].part)
       THEN reader' = [reader EXCEPT ![r].pc = "lock"] /\ UNCHANGED main
       ELSE main' = [main EXCEPT !.pc = "crashed"] /\ UNCHANGED reader
  /\ UNCHANGED <<stored, cache, mutex, tree, fetch, target>>

\* Wrong variant: the cache is used whoever uses it already.
LockAnyway(r) ==
  /\ At(r, "lock")
  /\ mutex' = TRUE
  /\ reader' = [reader EXCEPT ![r].pc = "load"]
  /\ UNCHANGED <<stored, cache, main, tree, fetch, target>>

Lock(r) ==
  /\ At(r, "lock") /\ ~mutex
  /\ mutex' = TRUE
  /\ reader' = [reader EXCEPT ![r].pc = "load"]
  /\ UNCHANGED <<stored, cache, main, tree, fetch, target>>

HashFor(x) == HashOf(Node(x), x.part)

\* From the cache or from storage.
Loaded(h) == IF cache[h] # None THEN cache[h] ELSE decodeChunk(h)

\* Wrong variant: more may be returned than was asked for.
TakenUncut(x, data) == x.data \o SubSeq(data, x.inner + 1, Len(data))

\* What is read, and no more than was asked for.
Taken(x, data) ==
  x.data \o SubSeq(data, x.inner + 1, Min({Len(data), x.inner + x.size - Len(x.data)}))


Load(r) ==
  /\ At(r, "load")
  /\ LET h == HashFor(reader[r]) IN
     /\ Loaded(h) # None /\ reader[r].inner < SizeOf[h]
     /\ cache' = [cache EXCEPT ![h] = Loaded(h)]
     /\ mutex' = FALSE
     /\ reader' = [reader EXCEPT ![r] =
          [reader[r] EXCEPT !.pc = "loop", !.part = reader[r].part + 1, !.inner = 0,
                            !.data = Taken(reader[r], Loaded(h))]]
  /\ UNCHANGED <<stored, main, tree, fetch, target>>

\* A chunk that cannot be loaded, or that ends before the offset, ends the
\* process.
LoadFails(r) ==
  /\ At(r, "load")
  /\ cache[HashFor(reader[r])] = None \/ reader[r].inner >= SizeOf[HashFor(reader[r])]
  /\ main' = [main EXCEPT !.pc = "crashed"]
  /\ UNCHANGED <<stored, cache, mutex, tree, reader, fetch, target>>

Fetching(r, pc) == main.pc = "serve" /\ fetch[r].pc = pc

FetchLock(r) ==
  /\ Fetching(r, "lock") /\ ~mutex
  /\ mutex' = TRUE
  /\ fetch' = [fetch EXCEPT ![r].pc = "load"]
  /\ UNCHANGED <<stored, cache, main, tree, reader, target>>

FetchLoad(r) ==
  /\ Fetching(r, "load")
  /\ LET h == HashFor(fetch[r]) IN
     /\ Loaded(h) # None
     /\ cache' = [cache EXCEPT ![h] = Loaded(h)]
     /\ mutex' = FALSE
     /\ fetch' = [fetch EXCEPT ![r].pc = "end"]
  /\ UNCHANGED <<stored, main, tree, reader, target>>

\* The error is ignored, and the mutex stays locked.
FetchFails(r) ==
  /\ Fetching(r, "load") /\ cache[HashFor(fetch[r])] = None
  /\ fetch' = [fetch EXCEPT ![r].pc = "failed"]
  /\ UNCHANGED <<stored, cache, mutex, main, tree, reader, target>>

ReadOn(r) ==
  \/ ReadEnough(r) \/ ReadToEnd(r) \/ ReadChunk(r) \/ Lock(r) \/ Load(r) \/ LoadFails(r)

Fetch(r) == FetchLock(r) \/ FetchLoad(r) \/ FetchFails(r)

Mount ==
  \/ BeginMount \/ Serve
  \/ \E p \in main.todo : node(p)
  \/ \E r \in Readers :
       \/ \E p \in DOMAIN tree, offset \in Offsets, size \in Sizes : Read(r, p, offset, size)
       \/ ReadOn(r) \/ Fetch(r)

-----------------------------------------------------------------------------
Next == Restore \/ Cat \/ Verify \/ Mount

\* Goroutines that can run are run; which of those that wait for the mutex gets
\* it is open, but each of them wants it a few times only.
Spec == /\ Init /\ [][Next]_vars
        /\ \A r \in Readers : WF_vars(ReadOn(r)) /\ WF_vars(Fetch(r))

-----------------------------------------------------------------------------
(* Properties.                                                             *)

\* Type invariant.
TypeOK ==
  /\ stored \in [Hashes -> {"good", "rotten", "gone"}]
  /\ mutex \in BOOLEAN
  /\ DOMAIN cache = Hashes /\ DOMAIN target = Paths
  /\ DOMAIN tree \subseteq UNION {WayTo(p) : p \in Paths}
  /\ main.pc \in {"begin", "next", "chunks", "verify", "index", "serve"} \/ Over
  /\ \A r \in Readers :
       /\ reader[r].pc \in {"idle", "loop", "lock", "load", "done", "failed"}
       /\ Len(reader[r].data) <= reader[r].size
       /\ fetch[r].pc \in {"none", "lock", "load", "end", "failed"}

\* A goroutine that uses the cache is alone with it, and the cache holds what
\* was stored: a failed load leaves nothing behind, but for the lock.
CacheIsTrue ==
  /\ Cardinality({r \in Readers : reader[r].pc = "load"})
       + Cardinality({r \in Readers : fetch[r].pc \in {"load", "failed"}}) <= 1
  /\ \A h \in Hashes : cache[h] \in {None, Bytes(h)}

\* A read returns the bytes of the file from its offset, as many as were asked
\* for or as there are: across chunks, at their boundaries, for chunks in any
\* order, from the cache or from storage, with other reads going on.
ReadsAreExact ==
  \A r \in Readers :
    reader[r].pc = "done" =>
      LET content == Content(Node(reader[r])) IN
      reader[r].data = SubSeq(content, reader[r].offset + 1,
                              Min({reader[r].offset + reader[r].size, Len(content)}))

\* What restore and cat produce without an error is the content of the archive,
\* and nothing that has changed in storage.  What a longer file has held in the
\* place of a restored one is still behind it.
DecodedIsExact ==
  /\ main.command = "restore" =>
       \A p \in main.done :
         Snapshot[p].type = "file" =>
           IsPrefix(Content(Snapshot[p]), target[p])
  /\ Is("cat", "end") => main.data = Content(Arc)

\* A verification of everything that reports no error has seen, for every path,
\* that the chunks of its last archive are intact.  An earlier archive of the
\* same path is not looked at.
VerifiedIsIntact ==
  Is("verify", "end") /\ main.told = {} /\ main.percentage = 100 =>
    \A i \in main.scope : \A p \in DOMAIN Snapshots[i] :
      (\A j \in main.scope : j > i => p \notin DOMAIN Snapshots[j]) =>
        LET chunks == Snapshots[i][p].chunks IN
        \A k \in DOMAIN chunks : stored[chunks[k].hash] = "good"


\* "We stored an absolute path and need to fake the parent dirs" (cmd/knoxite/
\* mount.go): what is faked are parents, and every archive of the snapshot is
\* found in the tree under its path.
MountShowsArchives ==
  Is("mount", "serve") => \A p \in DOMAIN Snapshot : p \in DOMAIN tree /\ tree[p] = Snapshot[p]
=============================================================================
