----------------------------- MODULE ReadingProofs -----------------------------
(***************************************************************************)
(* Proofs about Reading, for archives of any chunks in any order and any   *)
(* number of reads: what is read, restored or verified is what was stored. *)
(***************************************************************************)
EXTENDS Reading, FiniteSetTheorems, SequenceTheorems, WellFoundedInduction, TLAPS

-----------------------------------------------------------------------------
(* The inductive invariant: types.                                         *)

AllBytes == Hashes \X Nat

\* Where there may be a node in the tree of a mounted snapshot.
Nodes == UNION {WayTo(p) : p \in Paths}

IsArchive(arc) == arc.chunks \in Seq([num : Nat, hash : Hashes])

\* What the command has to do and has done: paths, and for verify pairs of a
\* snapshot and a path.
Tasks == Paths \cup ((DOMAIN Snapshots) \X (Paths \cup {None}))

MainType ==
  main \in [command : {"restore", "cat", "verify", "mount"},
            pc : {"begin", "next", "chunks", "verify", "index", "serve", "end", "failed", "crashed"},
            scope : (SUBSET DOMAIN Snapshots) \ {{}}, pedantic : BOOLEAN, todo : SUBSET Tasks,
            done : SUBSET Tasks, told : SUBSET Tasks, path : Paths \cup {None}, part : Nat,
            data : Seq(AllBytes), percentage : Nat]

StoreType ==
  /\ stored \in [Hashes -> {"good", "rotten", "gone"}]
  /\ cache = [h \in Hashes |-> cache[h]]
  /\ \A h \in Hashes : cache[h] \in {None, Bytes(h)}
  /\ mutex \in BOOLEAN

ReaderType ==
  /\ reader \in [Readers -> [pc : {"idle", "loop", "lock", "load", "done", "failed"},
                             path : Nodes \cup {None},
                             offset : Nat, size : Nat, part : Nat, inner : Nat,
                             data : Seq(AllBytes)]]
  /\ fetch \in [Readers -> [pc : {"none", "lock", "load", "end", "failed"},
                            path : Nodes \cup {None}, part : Nat]]

TreeType ==
  /\ DOMAIN tree \subseteq Nodes
  /\ \A p \in DOMAIN tree : IsArchive(tree[p])
  /\ Is("mount", "index") => main.todo \subseteq DOMAIN Snapshot

\* Only a mounted snapshot is read, and its tree is built before.
ServingType ==
  /\ main.pc = "serve" => main.command = "mount"
  /\ main.pc \notin {"serve", "crashed"} =>
       \A r \in Readers : reader[r].pc = "idle" /\ fetch[r].pc = "none"
  /\ \A r \in Readers : reader[r].pc # "idle" => reader[r].path \in DOMAIN tree

Types == MainType /\ StoreType /\ ReaderType /\ TreeType /\ ServingType

-----------------------------------------------------------------------------
(* The inductive invariant: the mutex, and what the commands have got.     *)

Using(r) == reader[r].pc = "load"

\* A goroutine that could not fetch its chunk has left the mutex locked.
HoldsOn(r) == fetch[r].pc \in {"load", "failed"}

LockInv ==
  \A r, s \in Readers :
    /\ (Using(r) \/ HoldsOn(r)) => mutex
    /\ Using(r) => ~HoldsOn(s)
    /\ (Using(r) /\ Using(s)) \/ (HoldsOn(r) /\ HoldsOn(s)) => r = s

\* What has been read so far: from the offset up to the next chunk, or to the
\* place where the first of them is entered.
Progress(x) ==
  LET arc  == Node(x)
      last == Cardinality(Leading(arc))
      upto == Start(arc, x.part) + x.inner
  IN  /\ x.part \in 0 .. last
      /\ x.inner > 0 => x.part < last /\ x.inner < SizeOf[HashOf(arc, x.part)]
      /\ x.offset <= upto
      /\ x.data = SubSeq(Content(arc), x.offset + 1, Min({upto, x.offset + x.size}))

Exact(x) ==
  LET content == Content(Node(x)) IN
  x.data = SubSeq(content, x.offset + 1, Min({x.offset + x.size, Len(content)}))

InOrder(x) ==
  /\ x.pc \in {"loop", "lock", "load"} => Progress(x)
  /\ x.pc \in {"lock", "load"} =>
       Len(x.data) < x.size /\ x.part < Len(Node(x).chunks) /\ HasChunk(Node(x), x.part)
  /\ x.pc = "done" => Exact(x)
  /\ Len(x.data) <= x.size

ReaderInv == \A r \in Readers : InOrder(reader[r])

\* The first chunks of the archive that is worked on have been decoded.
Decoding ==
  /\ main.path \in DOMAIN Snapshot
  /\ main.part \in 0 .. Cardinality(Leading(Arc))
  /\ main.data = FirstChunks(Arc)[main.part]

CatInv ==
  main.command = "cat" =>
    /\ main.pc = "begin" => main.part = 0 /\ main.data = <<>>
    /\ main.pc = "chunks" => Decoding
    /\ main.pc = "end" => main.data = Content(Arc)

\* Bytes of contents, or of what has been in the place of a file.
AnyBytes == AllBytes \cup Range(Occupied)

RestoreInv ==
  /\ target \in [Paths -> Seq(AnyBytes) \cup {None}]
  /\ main.command = "restore" =>
       /\ main.todo \cup main.done \subseteq DOMAIN Snapshot
       /\ main.todo \cap main.done = {}
       /\ main.pc = "begin" => main.done = {}
       /\ main.pc = "chunks" =>
            /\ Decoding
            /\ main.path \notin main.todo \cup main.done
            /\ target[main.path] \in Seq(AnyBytes) /\ IsPrefix(main.data, target[main.path])
       /\ \A p \in main.done :
            Snapshot[p].type = "file" =>
              target[p] \in Seq(AnyBytes) /\ IsPrefix(Content(Snapshot[p]), target[p])

\* The last archive of a path.
IsLast(i, p) ==
  /\ i \in main.scope /\ p \in DOMAIN Snapshots[i]
  /\ \A j \in main.scope : j > i => p \notin DOMAIN Snapshots[j]

VerifyInv ==
  /\ Is("verify", "begin") => main.done = {}
  /\ main.command = "verify" /\ main.pc \in {"verify", "end"} =>
       /\ main.todo \cup main.done \subseteq (DOMAIN Snapshots) \X Paths
       /\ \A x \in main.todo \cup main.done : x[2] \in DOMAIN Snapshots[x[1]]
       /\ \A x \in main.done : Loadable(Snapshots[x[1]][x[2]])
       /\ main.pc = "end" => main.todo = {}
       /\ main.told = {} /\ main.percentage = 100 =>
            \A i \in main.scope : \A p \in DOMAIN Snapshots[i] :
              IsLast(i, p) => <<i, p>> \in main.todo \cup main.done

IInv == Types /\ LockInv /\ ReaderInv /\ CatInv /\ RestoreInv /\ VerifyInv

-----------------------------------------------------------------------------
(* Natural numbers.  The induction theorems of the library are about       *)
(* operators; these are about sets and functions.                          *)

\* A set of natural numbers has a least one.
LEMMA Minimum ==
  ASSUME NEW S \in SUBSET Nat, S # {}
  PROVE  Min(S) \in S /\ \A n \in S : Min(S) <= n
<1>. DEFINE R == OpToRel(<, Nat)
<1>1. IsWellFoundedOn(R, Nat)
  BY NatLessThanWellFounded
<1>2. \A m, n \in Nat : <<m, n>> \in R <=> m < n
  BY DEF OpToRel
<1>. HIDE DEF R
<1>3. PICK n \in S : \A m \in S : ~ (<<m, n>> \in R)
  BY <1>1, WFMin
<1>4. ASSUME NEW m \in S PROVE n <= m
  <2>1. m \in Nat /\ n \in Nat /\ ~ (m < n)
    BY <1>2, <1>3
  <2>. QED BY <2>1
<1>. QED BY <1>4 DEF Min

\* Induction.
LEMMA SetInduction ==
  ASSUME NEW S, 0 \in S, \A n \in Nat : n \in S => n + 1 \in S
  PROVE  Nat \subseteq S
<1>. SUFFICES ASSUME Nat \ S # {} PROVE FALSE
  OBVIOUS
<1>. DEFINE n == Min(Nat \ S)
<1>1. n \in Nat \ S /\ \A m \in Nat \ S : n <= m
  BY Minimum
<1>. HIDE DEF n
<1>2. n - 1 \in Nat /\ ~ (n <= n - 1) /\ n = (n - 1) + 1
  BY <1>1
<1>3. n - 1 \in S
  BY <1>1, <1>2
<1>. QED BY <1>1, <1>2, <1>3

Computes(f, N, first, step) ==
  f[0] = first /\ \A n \in 0 .. N - 1 : f[n + 1] = step[n][f[n]]

\* Recursion: values can be computed one after the other.
LEMMA Recursion ==
  ASSUME NEW N \in Nat, NEW S, NEW first \in S, NEW step \in [0 .. N - 1 -> [S -> S]]
  PROVE  \E f \in [0 .. N -> S] : Computes(f, N, first, step)
<1>. DEFINE Upto(k, f) == f[0] = first /\ \A n \in 0 .. k - 1 : f[n + 1] = step[n][f[n]]
            Good == {k \in Nat : k <= N => \E f \in [0 .. k -> S] : Upto(k, f)}
<1>1. 0 \in Good
  <2>1. [n \in 0 .. 0 |-> first] \in [0 .. 0 -> S] /\ Upto(0, [n \in 0 .. 0 |-> first])
    OBVIOUS
  <2>. QED BY <2>1
<1>2. ASSUME NEW k \in Nat, k \in Good PROVE k + 1 \in Good
  <2>. SUFFICES ASSUME k + 1 <= N PROVE \E f \in [0 .. k + 1 -> S] : Upto(k + 1, f)
    OBVIOUS
  <2>1. PICK f \in [0 .. k -> S] : Upto(k, f)
    BY <1>2
  <2>. DEFINE g == [n \in 0 .. k + 1 |-> IF n <= k THEN f[n] ELSE step[k][f[k]]]
  <2>2. k \in 0 .. N - 1 /\ step[k][f[k]] \in S
    BY <2>1
  <2>3. g \in [0 .. k + 1 -> S]
    BY <2>1, <2>2
  <2>4. g[k + 1] = step[k][f[k]] /\ \A n \in 0 .. k : g[n] = f[n]
    OBVIOUS
  <2>. HIDE DEF g
  <2>5. Upto(k + 1, g)
    <3>1. g[0] = first
      BY <2>1, <2>4
    <3>2. ASSUME NEW n \in 0 .. k PROVE g[n + 1] = step[n][g[n]]
      <4>1. CASE n = k
        BY <2>4, <4>1
      <4>2. CASE n # k
        BY <2>1, <2>4, <4>2
      <4>. QED BY <4>1, <4>2
    <3>. QED BY <3>1, <3>2
  <2>. QED BY <2>3, <2>5
<1>. HIDE DEF Good
<1>3. N \in Good
  BY <1>1, <1>2, SetInduction
<1>. QED BY <1>3 DEF Good, Computes

-----------------------------------------------------------------------------
(* Archives.                                                               *)

\* The chunk that is found under a number has it.
LEMMA ChunkFound ==
  ASSUME NEW arc, IsArchive(arc), NEW n, HasChunk(arc, n)
  PROVE  /\ IndexOfChunk(arc, n) \in DOMAIN arc.chunks
         /\ arc.chunks[IndexOfChunk(arc, n)].num = n
         /\ HashOf(arc, n) \in Hashes
<1>. DEFINE S == {i \in DOMAIN arc.chunks : arc.chunks[i].num = n}
<1>1. DOMAIN arc.chunks = 1 .. Len(arc.chunks) /\ Len(arc.chunks) \in Nat
  BY LenProperties DEF IsArchive
<1>2. S \in SUBSET Nat /\ S # {}
  BY <1>1 DEF HasChunk
<1>3. Min(S) \in S
  BY <1>2, Minimum
<1>4. IndexOfChunk(arc, n) \in S
  BY <1>3 DEF IndexOfChunk
<1>5. arc.chunks[IndexOfChunk(arc, n)] \in [num : Nat, hash : Hashes]
  BY <1>1, <1>4, ElementOfSeq DEF IsArchive
<1>. QED BY <1>4, <1>5 DEF HashOf

\* The leading chunks are counted from 0.
LEMMA LeadingChunks ==
  ASSUME NEW arc, IsArchive(arc)
  PROVE  /\ Len(arc.chunks) \in Nat
         /\ Cardinality(Leading(arc)) \in 0 .. Len(arc.chunks)
         /\ Leading(arc) = 0 .. Cardinality(Leading(arc)) - 1
         /\ \A n \in 0 .. Cardinality(Leading(arc)) - 1 : HasChunk(arc, n)
         /\ Cardinality(Leading(arc)) < Len(arc.chunks) => ~HasChunk(arc, Cardinality(Leading(arc)))
<1>1. Len(arc.chunks) \in Nat
  BY LenProperties DEF IsArchive
<1>. DEFINE S == {n \in 0 .. Len(arc.chunks) : n = Len(arc.chunks) \/ ~HasChunk(arc, n)}
            K == Min(S)
<1>2. K \in S /\ \A n \in S : K <= n
  <2>1. S \in SUBSET Nat /\ Len(arc.chunks) \in S
    BY <1>1
  <2>. QED BY <2>1, Minimum
<1>. HIDE DEF K
<1>3. \A n \in 0 .. K - 1 : HasChunk(arc, n)
  BY <1>1, <1>2
<1>4. Leading(arc) = 0 .. K - 1
  BY <1>1, <1>2, <1>3 DEF Leading, Numbers
<1>5. Cardinality(Leading(arc)) = K
  BY <1>2, <1>4, FS_Interval
<1>. QED BY <1>1, <1>2, <1>3, <1>4, <1>5

\* Where the leading chunks begin.
LEMMA StartOfChunks ==
  ASSUME NEW arc, IsArchive(arc)
  PROVE  /\ Start(arc, 0) = 0
         /\ \A n \in 0 .. Cardinality(Leading(arc)) : Start(arc, n) \in Nat
         /\ \A n \in 0 .. Cardinality(Leading(arc)) - 1 :
              /\ SizeOf[HashOf(arc, n)] \in Nat \ {0}
              /\ Start(arc, n + 1) = Start(arc, n) + SizeOf[HashOf(arc, n)]
<1>. DEFINE K == Cardinality(Leading(arc))
            Solves(f) == f = [n \in 0 .. K |-> IF n = 0 THEN 0 ELSE f[n - 1] + SizeOf[HashOf(arc, n - 1)]]
            step == [n \in 0 .. K - 1 |-> [s \in Nat |-> s + SizeOf[HashOf(arc, n)]]]
<1>1. K \in Nat /\ \A n \in 0 .. K - 1 : SizeOf[HashOf(arc, n)] \in Nat \ {0}
  BY LeadingChunks, ChunkFound, ReadingOK
<1>2. \E f : Solves(f)
  <2>1. step \in [0 .. K - 1 -> [Nat -> Nat]]
    BY <1>1
  <2>2. \A n \in 0 .. K - 1, s \in Nat : step[n][s] = s + SizeOf[HashOf(arc, n)]
    OBVIOUS
  <2>. HIDE DEF step, K
  <2>3. PICK f \in [0 .. K -> Nat] : Computes(f, K, 0, step)
    BY <1>1, <2>1, Recursion
  <2>4. ASSUME NEW n \in 0 .. K, n # 0 PROVE f[n] = f[n - 1] + SizeOf[HashOf(arc, n - 1)]
    <3>1. n - 1 \in 0 .. K - 1 /\ (n - 1) + 1 = n
      BY <1>1, <2>4
    <3>2. f[(n - 1) + 1] = step[n - 1][f[n - 1]] /\ f[n - 1] \in Nat
      BY <1>1, <2>3, <3>1 DEF Computes
    <3>. QED BY <2>2, <3>1, <3>2
  <2>5. Solves(f)
    BY <1>1, <2>3, <2>4 DEF Computes
  <2>. QED BY <2>5
<1>. HIDE DEF step
<1>3. Solves(Starts(arc))
  <2>. HIDE DEF Solves
  <2>1. Starts(arc) = CHOOSE f : Solves(f)
    BY DEF Starts, Solves
  <2>. QED BY <1>2, <2>1
<1>. HIDE DEF K
<1>4. Start(arc, 0) = 0
  BY <1>1, <1>3 DEF Start
<1>5. ASSUME NEW n \in 0 .. K - 1
      PROVE  Start(arc, n + 1) = Start(arc, n) + SizeOf[HashOf(arc, n)]
  <2>1. n + 1 \in 0 .. K /\ n + 1 # 0 /\ (n + 1) - 1 = n
    BY <1>1
  <2>. QED BY <1>3, <2>1 DEF Start
<1>6. \A n \in 0 .. K : Start(arc, n) \in Nat
  <2>. DEFINE Good == {n \in Nat : n <= K => Start(arc, n) \in Nat}
  <2>1. 0 \in Good
    BY <1>4
  <2>2. ASSUME NEW n \in Nat, n \in Good PROVE n + 1 \in Good
    BY <1>1, <1>5, <2>2
  <2>. HIDE DEF Good
  <2>3. Nat \subseteq Good
    BY <2>1, <2>2, SetInduction
  <2>. QED BY <1>1, <2>3 DEF Good
<1>. QED BY <1>1, <1>4, <1>5, <1>6 DEF K

\* Later chunks begin later.
LEMMA StartsGrow ==
  ASSUME NEW arc, IsArchive(arc), NEW m \in 0 .. Cardinality(Leading(arc)),
         NEW n \in m .. Cardinality(Leading(arc))
  PROVE  Start(arc, m) <= Start(arc, n)
<1>. DEFINE K == Cardinality(Leading(arc))
            Good == {k \in Nat : m + k <= K => Start(arc, m) <= Start(arc, m + k)}
<1>1. K \in Nat
  BY LeadingChunks
<1>. HIDE DEF K
<1>2. \A k \in 0 .. K : Start(arc, k) \in Nat
  BY StartOfChunks DEF K
<1>3. ASSUME NEW k \in 0 .. K - 1 PROVE Start(arc, k + 1) > Start(arc, k)
  <2>1. k \in 0 .. K /\ Start(arc, k) \in Nat
    BY <1>1, <1>2
  <2>2. SizeOf[HashOf(arc, k)] \in Nat \ {0}
        /\ Start(arc, k + 1) = Start(arc, k) + SizeOf[HashOf(arc, k)]
    BY StartOfChunks DEF K
  <2>. HIDE DEF K
  <2>. QED BY <2>1, <2>2
<1>4. m \in 0 .. K /\ n \in m .. K
  BY DEF K
<1>5. 0 \in Good
  BY <1>1, <1>2, <1>4
<1>6. ASSUME NEW k \in Nat, k \in Good PROVE k + 1 \in Good
  <2>. SUFFICES ASSUME m + (k + 1) <= K PROVE Start(arc, m) <= Start(arc, m + (k + 1))
    OBVIOUS
  <2>1. m + k \in 0 .. K - 1 /\ m + (k + 1) = (m + k) + 1 /\ (m + k) + 1 \in 0 .. K
    BY <1>1, <1>4
  <2>2. Start(arc, m) <= Start(arc, m + k)
    BY <1>1, <1>6, <2>1
  <2>3. Start(arc, (m + k) + 1) > Start(arc, m + k)
    BY <1>3, <2>1
  <2>4. Start(arc, m) \in Nat /\ Start(arc, m + k) \in Nat /\ Start(arc, (m + k) + 1) \in Nat
    BY <1>1, <1>2, <1>4, <2>1
  <2>. QED BY <2>1, <2>2, <2>3, <2>4
<1>. HIDE DEF Good
<1>7. n - m \in Good
  BY <1>1, <1>4, <1>5, <1>6, SetInduction
<1>. QED BY <1>1, <1>4, <1>7 DEF Good

-----------------------------------------------------------------------------
(* Contents.                                                               *)

\* The bytes of a chunk.
LEMMA BytesOfChunk ==
  ASSUME NEW h \in Hashes
  PROVE  /\ Bytes(h) \in Seq(AllBytes) /\ Len(Bytes(h)) = SizeOf[h]
         /\ \A i \in 1 .. SizeOf[h] : Bytes(h)[i] = <<h, i>>
<1>1. SizeOf[h] \in Nat
  BY ReadingOK
<1>2. \A i \in 1 .. SizeOf[h] : <<h, i>> \in AllBytes
  BY <1>1 DEF AllBytes
<1>3. Bytes(h) \in [1 .. SizeOf[h] -> AllBytes]
  BY <1>2 DEF Bytes
<1>. QED BY <1>1, <1>3 DEF Bytes

\* The content of the leading chunks, one by one.
LEMMA ContentOfChunks ==
  ASSUME NEW arc, IsArchive(arc)
  PROVE  /\ FirstChunks(arc)[0] = <<>>
         /\ \A n \in 0 .. Cardinality(Leading(arc)) :
              /\ FirstChunks(arc)[n] \in Seq(AllBytes)
              /\ Len(FirstChunks(arc)[n]) = Start(arc, n)
         /\ \A n \in 0 .. Cardinality(Leading(arc)) - 1 :
              FirstChunks(arc)[n + 1] = FirstChunks(arc)[n] \o Bytes(HashOf(arc, n))
<1>. DEFINE K == Cardinality(Leading(arc))
            S == Seq(AllBytes)
            F == FirstChunks(arc)
            Solves(f) == f = [n \in 0 .. K |-> IF n = 0 THEN <<>> ELSE f[n - 1] \o Bytes(HashOf(arc, n - 1))]
            step == [n \in 0 .. K - 1 |-> [s \in S |-> s \o Bytes(HashOf(arc, n))]]
<1>1. K \in Nat /\ \A n \in 0 .. K - 1 : HashOf(arc, n) \in Hashes
  BY LeadingChunks, ChunkFound
<1>2. \A n \in 0 .. K - 1 : Bytes(HashOf(arc, n)) \in S
  BY <1>1, BytesOfChunk
<1>3. <<>> \in S
  OBVIOUS
<1>4. \A n \in 0 .. K - 1, s \in S : s \o Bytes(HashOf(arc, n)) \in S
  BY <1>2, ConcatProperties
<1>5. \E f : Solves(f)
  <2>. HIDE DEF S
  <2>1. step \in [0 .. K - 1 -> [S -> S]]
    BY <1>4
  <2>2. \A n \in 0 .. K - 1, s \in S : step[n][s] = s \o Bytes(HashOf(arc, n))
    OBVIOUS
  <2>. HIDE DEF step, K
  <2>3. PICK f \in [0 .. K -> S] : Computes(f, K, <<>>, step)
    BY <1>1, <1>3, <2>1, Recursion
  <2>4. ASSUME NEW n \in 0 .. K, n # 0 PROVE f[n] = f[n - 1] \o Bytes(HashOf(arc, n - 1))
    <3>1. n - 1 \in 0 .. K - 1 /\ (n - 1) + 1 = n
      BY <1>1, <2>4
    <3>2. f[(n - 1) + 1] = step[n - 1][f[n - 1]] /\ f[n - 1] \in S
      BY <1>1, <2>3, <3>1 DEF Computes
    <3>. QED BY <2>2, <3>1, <3>2
  <2>5. Solves(f)
    BY <1>1, <2>3, <2>4 DEF Computes
  <2>. QED BY <2>5
<1>. HIDE DEF step
<1>6. Solves(F)
  <2>. HIDE DEF Solves
  <2>1. F = CHOOSE f : Solves(f)
    BY DEF FirstChunks, Solves
  <2>. QED BY <1>5, <2>1
<1>. HIDE DEF K, S, F
<1>7. F[0] = <<>>
  BY <1>1, <1>6
<1>8. ASSUME NEW n \in 0 .. K - 1 PROVE F[n + 1] = F[n] \o Bytes(HashOf(arc, n))
  <2>1. n + 1 \in 0 .. K /\ n + 1 # 0 /\ (n + 1) - 1 = n
    BY <1>1
  <2>. QED BY <1>6, <2>1
<1>9. \A n \in 0 .. K : F[n] \in S /\ Len(F[n]) = Start(arc, n)
  <2>. DEFINE Good == {n \in Nat : n <= K => F[n] \in S /\ Len(F[n]) = Start(arc, n)}
  <2>1. 0 \in Good
    BY <1>3, <1>7, StartOfChunks
  <2>2. ASSUME NEW n \in Nat, n \in Good, n + 1 <= K
        PROVE  F[n + 1] \in S /\ Len(F[n + 1]) = Start(arc, n + 1)
    <3>1. n \in 0 .. K - 1 /\ F[n] \in S /\ Len(F[n]) = Start(arc, n)
      BY <1>1, <2>2
    <3>2. Start(arc, n + 1) = Start(arc, n) + SizeOf[HashOf(arc, n)]
      BY <3>1, StartOfChunks DEF K
    <3>3. Bytes(HashOf(arc, n)) \in S /\ Len(Bytes(HashOf(arc, n))) = SizeOf[HashOf(arc, n)]
      BY <1>1, <3>1, BytesOfChunk DEF S
    <3>4. F[n + 1] = F[n] \o Bytes(HashOf(arc, n))
      BY <1>8, <3>1
    <3>5. F[n] \o Bytes(HashOf(arc, n)) \in S
          /\ Len(F[n] \o Bytes(HashOf(arc, n))) = Len(F[n]) + Len(Bytes(HashOf(arc, n)))
      BY <3>1, <3>3, ConcatProperties DEF S
    <3>. QED BY <3>1, <3>2, <3>3, <3>4, <3>5
  <2>3. \A n \in Nat : n \in Good => n + 1 \in Good
    BY <2>2
  <2>. HIDE DEF Good
  <2>4. Nat \subseteq Good
    BY <2>1, <2>3, SetInduction
  <2>. QED BY <1>1, <2>4 DEF Good
<1>. QED BY <1>7, <1>8, <1>9 DEF K, S, F

\* What the first chunks hold, more of them hold too.
LEMMA FirstChunksStay ==
  ASSUME NEW arc, IsArchive(arc), NEW n \in 0 .. Cardinality(Leading(arc)),
         NEW m \in n .. Cardinality(Leading(arc)), NEW i \in 1 .. Start(arc, n)
  PROVE  FirstChunks(arc)[m][i] = FirstChunks(arc)[n][i]
<1>. DEFINE K == Cardinality(Leading(arc))
            F == FirstChunks(arc)
            Good == {k \in Nat : n + k <= K => F[n + k][i] = F[n][i]}
<1>1. K \in Nat /\ n \in 0 .. K /\ m \in n .. K
  BY LeadingChunks
<1>2. \A k \in 0 .. K : Start(arc, k) \in Nat /\ F[k] \in Seq(AllBytes) /\ Len(F[k]) = Start(arc, k)
  BY StartOfChunks, ContentOfChunks
<1>3. ASSUME NEW k \in 0 .. K - 1, i <= Start(arc, k) PROVE F[k + 1][i] = F[k][i]
  <2>1. F[k + 1] = F[k] \o Bytes(HashOf(arc, k))
    BY ContentOfChunks
  <2>2. HashOf(arc, k) \in Hashes
    BY LeadingChunks, ChunkFound
  <2>3. Bytes(HashOf(arc, k)) \in Seq(AllBytes)
    BY <2>2, BytesOfChunk
  <2>. HIDE DEF K, F
  <2>4. F[k] \in Seq(AllBytes) /\ i \in 1 .. Len(F[k])
    BY <1>1, <1>2, <1>3
  <2>. QED BY <2>1, <2>3, <2>4, ConcatProperties, LenProperties
<1>4. \A k \in n .. K : Start(arc, n) <= Start(arc, k)
  BY <1>1, StartsGrow
<1>. HIDE DEF K, F
<1>5. 0 \in Good
  BY <1>1
<1>6. ASSUME NEW k \in Nat, k \in Good PROVE k + 1 \in Good
  <2>. SUFFICES ASSUME n + (k + 1) <= K PROVE F[n + (k + 1)][i] = F[n][i]
    OBVIOUS
  <2>1. n + k \in 0 .. K - 1 /\ n + (k + 1) = (n + k) + 1 /\ n + k \in n .. K
    BY <1>1
  <2>2. F[n + k][i] = F[n][i]
    BY <1>1, <1>6, <2>1
  <2>3. Start(arc, n) <= Start(arc, n + k) /\ Start(arc, n) \in Nat /\ Start(arc, n + k) \in Nat
    BY <1>1, <1>2, <1>4, <2>1
  <2>4. i <= Start(arc, n + k)
    BY <2>3
  <2>. QED BY <1>3, <2>1, <2>2, <2>4
<1>. HIDE DEF Good
<1>7. m - n \in Good
  BY <1>1, <1>5, <1>6, SetInduction
<1>8. F[m][i] = F[n][i]
  BY <1>1, <1>7 DEF Good
<1>. QED BY <1>8 DEF F

\* The bytes of the content: each chunk is where it begins.
LEMMA ContentBytes ==
  ASSUME NEW arc, IsArchive(arc)
  PROVE  /\ Content(arc) \in Seq(AllBytes)
         /\ Len(Content(arc)) = Start(arc, Cardinality(Leading(arc)))
         /\ \A n \in 0 .. Cardinality(Leading(arc)) - 1 :
              \A i \in 1 .. SizeOf[HashOf(arc, n)] :
                Content(arc)[Start(arc, n) + i] = Bytes(HashOf(arc, n))[i]
<1>. DEFINE K == Cardinality(Leading(arc))
            F == FirstChunks(arc)
<1>1. K \in Nat
  BY LeadingChunks
<1>2. \A k \in 0 .. K : Start(arc, k) \in Nat /\ F[k] \in Seq(AllBytes) /\ Len(F[k]) = Start(arc, k)
  BY StartOfChunks, ContentOfChunks
<1>3. Content(arc) = F[K]
  BY DEF Content
<1>4. ASSUME NEW n \in 0 .. K - 1, NEW i \in 1 .. SizeOf[HashOf(arc, n)]
      PROVE  F[K][Start(arc, n) + i] = Bytes(HashOf(arc, n))[i]
  <2>1. F[n + 1] = F[n] \o Bytes(HashOf(arc, n))
    BY ContentOfChunks
  <2>2. HashOf(arc, n) \in Hashes
    BY LeadingChunks, ChunkFound
  <2>3. Bytes(HashOf(arc, n)) \in Seq(AllBytes) /\ Len(Bytes(HashOf(arc, n))) = SizeOf[HashOf(arc, n)]
        /\ SizeOf[HashOf(arc, n)] \in Nat
    BY <2>2, BytesOfChunk, ReadingOK
  <2>4. n \in 0 .. K /\ n + 1 \in 0 .. K /\ K \in n + 1 .. K
    BY <1>1
  <2>5. Start(arc, n + 1) = Start(arc, n) + SizeOf[HashOf(arc, n)]
    BY StartOfChunks
  <2>6. Start(arc, n) + i \in 1 .. Start(arc, n + 1)
    BY <1>2, <2>3, <2>4, <2>5
  <2>7. F[K][Start(arc, n) + i] = F[n + 1][Start(arc, n) + i]
    BY <2>4, <2>6, FirstChunksStay
  <2>. HIDE DEF K, F
  <2>8. F[n] \in Seq(AllBytes) /\ Len(F[n]) = Start(arc, n) /\ Start(arc, n) \in Nat
    BY <1>2, <2>4
  <2>9. /\ Start(arc, n) + i \in 1 .. Len(F[n]) + Len(Bytes(HashOf(arc, n)))
        /\ ~ (Start(arc, n) + i <= Len(F[n])) /\ (Start(arc, n) + i) - Len(F[n]) = i
    BY <2>3, <2>8
  <2>10. (F[n] \o Bytes(HashOf(arc, n)))[Start(arc, n) + i] = Bytes(HashOf(arc, n))[i]
    BY <2>3, <2>8, <2>9, ConcatProperties
  <2>. QED BY <2>1, <2>7, <2>10
<1>. QED BY <1>1, <1>2, <1>3, <1>4

-----------------------------------------------------------------------------
(* Reads.                                                                  *)

\* The smaller of two numbers.
LEMMA MinOfTwo ==
  ASSUME NEW m \in Int, NEW n \in Int
  PROVE  Min({m, n}) = IF m <= n THEN m ELSE n
<1>1. CASE m <= n
  <2>1. \A x \in {m, n} : (\A y \in {m, n} : x <= y) <=> x = m
    BY <1>1
  <2>2. Min({m, n}) = m
    BY <2>1 DEF Min
  <2>. QED BY <1>1, <2>2
<1>2. CASE ~ (m <= n)
  <2>1. \A x \in {m, n} : (\A y \in {m, n} : x <= y) <=> x = n
    BY <1>2
  <2>2. Min({m, n}) = n
    BY <2>1 DEF Min
  <2>. QED BY <1>2, <2>2
<1>. QED BY <1>1, <1>2

\* The bytes from one place of a sequence to another.
LEMMA Between ==
  ASSUME NEW S, NEW seq \in Seq(S), NEW m \in Nat, NEW n \in Nat, m <= n, n <= Len(seq)
  PROVE  /\ SubSeq(seq, m + 1, n) \in Seq(S)
         /\ Len(SubSeq(seq, m + 1, n)) = n - m
         /\ \A i \in 1 .. n - m : SubSeq(seq, m + 1, n)[i] = seq[m + i]
<1>1. Len(seq) \in Nat
  BY LenProperties
<1>2. \A i \in m + 1 .. n : i \in 1 .. Len(seq)
  BY <1>1
<1>3. \A i \in m + 1 .. n : seq[i] \in S
  BY <1>2, ElementOfSeq
<1>4. /\ SubSeq(seq, m + 1, n) \in Seq(S)
      /\ Len(SubSeq(seq, m + 1, n)) = IF m + 1 <= n THEN n - (m + 1) + 1 ELSE 0
      /\ \A i \in 1 .. n - (m + 1) + 1 : SubSeq(seq, m + 1, n)[i] = seq[(m + 1) + i - 1]
  BY <1>3, SubSeqProperties
<1>5. n - (m + 1) + 1 = n - m /\ \A i \in 1 .. n - m : (m + 1) + i - 1 = m + i
  OBVIOUS
<1>6. Len(SubSeq(seq, m + 1, n)) = n - m
  BY <1>4
<1>. QED BY <1>4, <1>5, <1>6

\* What is read of a chunk continues what has been read before it.
LEMMA TakenIsExact ==
  ASSUME NEW arc, IsArchive(arc), NEW n \in 0 .. Cardinality(Leading(arc)) - 1,
         NEW x, x.offset \in Nat, x.size \in Nat, x.inner \in 0 .. SizeOf[HashOf(arc, n)] - 1,
         x.offset <= Start(arc, n) + x.inner, Start(arc, n) + x.inner < x.offset + x.size,
         x.data = SubSeq(Content(arc), x.offset + 1, Start(arc, n) + x.inner)
  PROVE  Taken(x, Bytes(HashOf(arc, n))) =
           SubSeq(Content(arc), x.offset + 1, Min({Start(arc, n + 1), x.offset + x.size}))
<1>0. PICK offset \in Nat, size \in Nat, inner \in 0 .. SizeOf[HashOf(arc, n)] - 1 :
        offset = x.offset /\ size = x.size /\ inner = x.inner
  OBVIOUS
<1>. DEFINE C == Content(arc)
            N == Start(arc, n)
            h == HashOf(arc, n)
            L == SizeOf[h]
            end == IF N + L <= offset + size THEN N + L ELSE offset + size
<1>1. N \in Nat /\ L \in Nat \ {0} /\ Start(arc, n + 1) = N + L /\ h \in Hashes
  BY StartOfChunks, LeadingChunks, ChunkFound, n \in 0 .. Cardinality(Leading(arc))
<1>2. C \in Seq(AllBytes) /\ Len(C) \in Nat /\ N + L <= Len(C)
      /\ \A i \in 1 .. L : C[N + i] = Bytes(h)[i]
  <2>1. Cardinality(Leading(arc)) \in n + 1 .. Cardinality(Leading(arc))
        /\ n + 1 \in 0 .. Cardinality(Leading(arc))
    BY LeadingChunks
  <2>. QED BY <1>1, <2>1, ContentBytes, StartsGrow, LenProperties
<1>3. Bytes(h) \in Seq(AllBytes) /\ Len(Bytes(h)) = L
  BY <1>1, BytesOfChunk
<1>4. inner \in Nat /\ inner < L /\ offset <= N + inner /\ N + inner < offset + size
      /\ x.data = SubSeq(C, offset + 1, N + inner)
  BY <1>0, <1>1
<1>. HIDE DEF C, N, h, L
<1>5. end \in Nat /\ N + inner <= end /\ end <= Len(C) /\ end - N \in Nat /\ inner <= end - N
      /\ end - N <= L /\ offset <= end
  BY <1>1, <1>2, <1>4
<1>6. Min({N + L, offset + size}) = end
  BY <1>1, MinOfTwo
<1>7. Min({L, offset + size - N}) = end - N
  <2>1. L \in Int /\ offset + size - N \in Int
    BY <1>1
  <2>2. Min({L, offset + size - N}) = IF L <= offset + size - N THEN L ELSE offset + size - N
    BY <2>1, MinOfTwo
  <2>3. CASE L <= offset + size - N
    <3>1. end = N + L
      BY <1>1, <2>3
    <3>. QED BY <1>1, <2>2, <2>3, <3>1
  <2>4. CASE ~ (L <= offset + size - N)
    <3>1. end = offset + size
      BY <1>1, <2>4
    <3>. QED BY <1>1, <2>2, <2>4, <3>1
  <2>. QED BY <2>3, <2>4
<1>. HIDE DEF end
<1>. DEFINE s == x.data
            t == SubSeq(Bytes(h), inner + 1, end - N)
<1>8. s = SubSeq(C, offset + 1, N + inner) /\ t = SubSeq(Bytes(h), inner + 1, end - N)
  BY <1>4
<1>. HIDE DEF s, t
<1>9. /\ s \in Seq(AllBytes) /\ Len(s) = (N + inner) - offset
      /\ \A i \in 1 .. (N + inner) - offset : s[i] = C[offset + i]
  <2>. DEFINE e == N + inner
  <2>1. e \in Nat /\ e <= Len(C) /\ offset <= e
    BY <1>1, <1>2, <1>4
  <2>2. s = SubSeq(C, offset + 1, e)
    BY <1>8
  <2>. HIDE DEF e
  <2>3. /\ s \in Seq(AllBytes) /\ Len(s) = e - offset
        /\ \A i \in 1 .. e - offset : s[i] = C[offset + i]
    BY <1>2, <2>1, <2>2, Between
  <2>. QED BY <2>3 DEF e
<1>10. /\ t \in Seq(AllBytes) /\ Len(t) = (end - N) - inner
       /\ \A i \in 1 .. (end - N) - inner : t[i] = Bytes(h)[inner + i]
  <2>. DEFINE e == end - N
  <2>1. e \in Nat /\ inner <= e /\ e <= Len(Bytes(h)) /\ t = SubSeq(Bytes(h), inner + 1, e)
    BY <1>3, <1>5, <1>8
  <2>. HIDE DEF e
  <2>2. /\ t \in Seq(AllBytes) /\ Len(t) = e - inner
        /\ \A i \in 1 .. e - inner : t[i] = Bytes(h)[inner + i]
    BY <1>3, <2>1, Between
  <2>. QED BY <2>2 DEF e
<1>. DEFINE u == SubSeq(C, offset + 1, end)
<1>11. /\ u \in Seq(AllBytes) /\ Len(u) = end - offset
       /\ \A i \in 1 .. end - offset : u[i] = C[offset + i]
  BY <1>2, <1>5, Between
<1>. HIDE DEF u
<1>12. inner + size - Len(s) = offset + size - N
  <2>. DEFINE l == Len(s)
  <2>1. l = (N + inner) - offset
    BY <1>9
  <2>. HIDE DEF l
  <2>2. inner + size - l = offset + size - N
    BY <1>1, <1>4, <2>1
  <2>. QED BY <2>2 DEF l
<1>13. s \o t = u
  <2>1. /\ s \o t \in Seq(AllBytes) /\ Len(s \o t) = Len(s) + Len(t)
        /\ \A i \in 1 .. Len(s) + Len(t) : (s \o t)[i] = IF i <= Len(s) THEN s[i] ELSE t[i - Len(s)]
    BY <1>9, <1>10, ConcatProperties
  <2>2. Len(s) = (N + inner) - offset /\ Len(t) = (end - N) - inner
    BY <1>9, <1>10
  <2>3. Len(s) + Len(t) = end - offset
    BY <1>1, <1>4, <1>5, <2>2
  <2>4. ASSUME NEW i \in 1 .. end - offset PROVE (s \o t)[i] = C[offset + i]
    <3>1. (s \o t)[i] = IF i <= Len(s) THEN s[i] ELSE t[i - Len(s)]
      BY <2>1, <2>3
    <3>2. CASE i <= Len(s)
      <4>1. i \in 1 .. (N + inner) - offset
        BY <2>2, <3>2
      <4>. QED BY <1>9, <3>1, <3>2, <4>1
    <3>3. CASE ~ (i <= Len(s))
      <4>1. /\ i - Len(s) \in 1 .. (end - N) - inner
            /\ inner + (i - Len(s)) \in 1 .. L
            /\ N + (inner + (i - Len(s))) = offset + i
        BY <1>1, <1>4, <1>5, <2>2, <3>3
      <4>2. t[i - Len(s)] = Bytes(h)[inner + (i - Len(s))]
        BY <1>10, <4>1
      <4>3. Bytes(h)[inner + (i - Len(s))] = C[N + (inner + (i - Len(s)))]
        BY <1>2, <4>1
      <4>. QED BY <3>1, <3>3, <4>1, <4>2, <4>3
    <3>. QED BY <3>2, <3>3
  <2>. DEFINE v == s \o t
  <2>5. v \in Seq(AllBytes) /\ Len(v) = Len(u) /\ \A i \in 1 .. Len(v) : v[i] = u[i]
    BY <1>11, <2>1, <2>3, <2>4
  <2>. HIDE DEF v
  <2>6. v = u
    BY <1>11, <2>5, SeqEqual
  <2>. QED BY <2>6 DEF v
<1>14. Taken(x, Bytes(h)) = s \o t
  <2>1. Taken(x, Bytes(h)) = s \o SubSeq(Bytes(h), inner + 1, Min({L, inner + size - Len(s)}))
    BY <1>0, <1>3 DEF Taken, s
  <2>. QED BY <1>7, <1>12, <2>1 DEF t
<1>. QED BY <1>0, <1>1, <1>6, <1>13, <1>14 DEF C, N, h, L, u

-----------------------------------------------------------------------------
(* Types.                                                                  *)

\* The snapshot that a command works on is one of those that there are, and its
\* archives are archives.
LEMMA TheSnapshot ==
  ASSUME MainType
  PROVE  /\ main.scope \subseteq DOMAIN Snapshots /\ DOMAIN Snapshots \subseteq Nat
         /\ Min(main.scope) \in main.scope
         /\ DOMAIN Snapshot \subseteq Paths
         /\ \A p \in DOMAIN Snapshot : IsArchive(Snapshot[p])
<1>1. DOMAIN Snapshots = 1 .. Len(Snapshots) /\ Len(Snapshots) \in Nat
  BY LenProperties, ReadingOK
<1>2. main.scope \subseteq DOMAIN Snapshots /\ main.scope # {}
  BY DEF MainType
<1>3. DOMAIN Snapshots \subseteq Nat
  BY <1>1
<1>4. Min(main.scope) \in main.scope
  BY <1>2, <1>3, Minimum
<1>5. DOMAIN Snapshot \subseteq Paths
  BY <1>2, <1>4 DEF Snapshot, Paths
<1>6. \A p \in DOMAIN Snapshot : IsArchive(Snapshot[p])
  BY <1>2, <1>4, ReadingOK DEF Snapshot, IsArchive
<1>. QED BY <1>2, <1>3, <1>4, <1>5, <1>6

\* What a read returns is made of bytes.
LEMMA NoBytes == <<>> \in Seq(AllBytes) /\ Len(<<>>) = 0
  BY EmptySeq

\* At the start everything has its type, and the commands have got nothing.
LEMMA InitInv == Init => IInv
<1>. SUFFICES ASSUME Init PROVE IInv
  OBVIOUS
<1>1. PICK command \in {"restore", "cat", "verify", "mount"},
           scope \in (SUBSET DOMAIN Snapshots) \ {{}}, pedantic \in BOOLEAN :
        main = [command |-> command, pc |-> "begin", scope |-> scope,
                pedantic |-> pedantic, todo |-> {}, done |-> {}, told |-> {},
                path |-> None, part |-> 0, data |-> <<>>, percentage |-> 0]
  BY DEF Init
<1>2. MainType /\ main.pc = "begin" /\ main.done = {} /\ main.todo = {} /\ main.part = 0 /\ main.data = <<>>
  BY <1>1, NoBytes DEF MainType
<1>3. StoreType
  BY DEF Init, StoreType
<1>4. reader = [r \in Readers |-> Idle] /\ fetch = [r \in Readers |-> NoFetch]
  BY DEF Init
<1>5. Idle \in [pc : {"idle", "loop", "lock", "load", "done", "failed"},
                path : Nodes \cup {None},
                offset : Nat, size : Nat, part : Nat, inner : Nat, data : Seq(AllBytes)]
  BY NoBytes DEF Idle
<1>6. NoFetch \in [pc : {"none", "lock", "load", "end", "failed"},
                   path : Nodes \cup {None}, part : Nat]
  BY DEF NoFetch
<1>7. ReaderType
  BY <1>4, <1>5, <1>6 DEF ReaderType
<1>8. TreeType
  BY <1>2 DEF Init, TreeType, Is
<1>9. \A r \in Readers : reader[r].pc = "idle" /\ Len(reader[r].data) = 0 /\ reader[r].size = 0
                         /\ fetch[r].pc = "none"
  BY <1>4, NoBytes DEF Idle, NoFetch
<1>10. ServingType
  BY <1>2, <1>9 DEF ServingType
<1>11. LockInv
  BY <1>9 DEF LockInv, Using, HoldsOn
<1>12. ReaderInv
  BY <1>9 DEF ReaderInv, InOrder
<1>13. CatInv /\ VerifyInv
  BY <1>2 DEF CatInv, VerifyInv, Is
<1>14. target \in [Paths -> Seq(AnyBytes) \cup {None}]
  <2>1. Occupied \in Seq(AnyBytes)
    BY ReadingOK, SeqMonotonic DEF AnyBytes
  <2>. QED BY <2>1 DEF Init
<1>15. RestoreInv
  BY <1>2, <1>14 DEF RestoreInv
<1>. QED BY <1>2, <1>3, <1>7, <1>8, <1>10, <1>11, <1>12, <1>13, <1>15 DEF IInv, Types

\* The goroutines that read are left alone.
LEMMA ReadersStay ==
  ASSUME ReaderType, LockInv, ReaderInv, UNCHANGED <<mutex, tree, reader, fetch>>
  PROVE  ReaderType' /\ LockInv' /\ ReaderInv'
<1>1. ReaderType'
  BY DEF ReaderType
<1>2. LockInv'
  BY DEF LockInv, Using, HoldsOn
<1>3. ReaderInv'
  BY DEF ReaderInv, InOrder, Progress, Exact, Node
<1>. QED BY <1>1, <1>2, <1>3

\* The commands are left alone.
LEMMA CommandsStay ==
  ASSUME CatInv, RestoreInv, VerifyInv, UNCHANGED <<stored, main, target>>
  PROVE  CatInv' /\ RestoreInv' /\ VerifyInv'
<1>1. CatInv'
  BY DEF CatInv, Decoding, Arc, Snapshot
<1>2. RestoreInv'
  BY DEF RestoreInv, Decoding, Arc, Snapshot
<1>3. VerifyInv'
  BY DEF VerifyInv, Is, IsLast, Loadable, decodeChunk
<1>. QED BY <1>1, <1>2, <1>3

\* As long as nothing is served no goroutine reads, and what matters is the
\* command alone.
LEMMA LoneStep ==
  ASSUME IInv, main.pc \notin {"serve", "crashed"}, UNCHANGED <<reader, fetch>>,
         MainType', StoreType', TreeType', main'.pc = "serve" => main'.command = "mount",
         CatInv', RestoreInv', VerifyInv'
  PROVE  IInv'
<1>1. \A r \in Readers : reader[r].pc = "idle" /\ fetch[r].pc = "none"
  BY DEF IInv, Types, ServingType
<1>2. ReaderType' /\ ServingType'
  BY <1>1 DEF IInv, Types, ReaderType, ServingType
<1>3. LockInv'
  BY <1>1 DEF LockInv, Using, HoldsOn
<1>4. ReaderInv'
  BY <1>1 DEF IInv, ReaderInv, InOrder
<1>. QED BY <1>2, <1>3, <1>4 DEF IInv, Types

-----------------------------------------------------------------------------
(* Restore and cat.                                                        *)

\* A sequence is the beginning of one that continues it.
LEMMA PrefixOfConcat ==
  ASSUME NEW S, NEW s \in Seq(S), NEW t \in Seq(S)
  PROVE  s \o t \in Seq(S) /\ IsPrefix(s, s \o t)
<1>1. s \o t \in Seq(S) /\ Len(s \o t) = Len(s) + Len(t) /\ Len(s) \in Nat /\ Len(t) \in Nat
      /\ \A i \in 1 .. Len(s) : (s \o t)[i] = s[i]
  BY ConcatProperties, LenProperties
<1>. DEFINE u == s \o t
            n == Len(s)
<1>2. u \in Seq(S) /\ n \in Nat /\ n <= Len(u) /\ n <= Len(s) /\ \A i \in 1 .. n : u[i] = s[i]
  BY <1>1
<1>. HIDE DEF u, n
<1>3. /\ SubSeq(u, 0 + 1, n) \in Seq(S) /\ Len(SubSeq(u, 0 + 1, n)) = n - 0
      /\ \A i \in 1 .. n - 0 : SubSeq(u, 0 + 1, n)[i] = u[0 + i]
  BY <1>2, Between
<1>4. /\ SubSeq(s, 0 + 1, n) \in Seq(S) /\ Len(SubSeq(s, 0 + 1, n)) = n - 0
      /\ \A i \in 1 .. n - 0 : SubSeq(s, 0 + 1, n)[i] = s[0 + i]
  BY <1>2, Between
<1>5. SubSeq(s, 1, n) = SubSeq(u, 1, n)
  <2>. DEFINE v == SubSeq(s, 1, n)
              w == SubSeq(u, 1, n)
  <2>1. v \in Seq(S) /\ w \in Seq(S) /\ Len(v) = n /\ Len(w) = n /\ \A i \in 1 .. n : v[i] = w[i]
    BY <1>2, <1>3, <1>4
  <2>. HIDE DEF v, w
  <2>2. v = w
    BY <2>1, SeqEqual
  <2>. QED BY <2>2 DEF v, w
<1>. QED BY <1>1, <1>2, <1>5 DEF IsPrefix, u, n

\* The next chunk of an archive that is decoded continues its content.
LEMMA NextChunk ==
  ASSUME MainType, Decoding, main.part < Len(Arc.chunks), HasChunk(Arc, main.part)
  PROVE  /\ HashOf(Arc, main.part) \in Hashes
         /\ main.part + 1 \in 0 .. Cardinality(Leading(Arc))
         /\ main.data \o Bytes(HashOf(Arc, main.part)) = FirstChunks(Arc)[main.part + 1]
         /\ main.data \in Seq(AllBytes) /\ Bytes(HashOf(Arc, main.part)) \in Seq(AllBytes)
         /\ main.data \o Bytes(HashOf(Arc, main.part)) \in Seq(AllBytes)
<1>1. IsArchive(Arc)
  BY TheSnapshot DEF Decoding, Arc
<1>2. main.part \in 0 .. Cardinality(Leading(Arc)) - 1
  BY <1>1, LeadingChunks DEF Decoding
<1>3. HashOf(Arc, main.part) \in Hashes
  BY <1>1, ChunkFound
<1>4. Bytes(HashOf(Arc, main.part)) \in Seq(AllBytes)
  BY <1>3, BytesOfChunk
<1>5. main.data \in Seq(AllBytes)
  BY DEF MainType
<1>6. main.data \o Bytes(HashOf(Arc, main.part)) = FirstChunks(Arc)[main.part + 1]
  BY <1>1, <1>2, ContentOfChunks DEF Decoding
<1>7. main.part + 1 \in 0 .. Cardinality(Leading(Arc))
  BY <1>1, <1>2, LeadingChunks
<1>. QED BY <1>3, <1>4, <1>5, <1>6, <1>7, ConcatProperties

\* An archive all of whose chunks have been decoded has been decoded.
LEMMA AllChunks ==
  ASSUME MainType, Decoding, main.part = Len(Arc.chunks)
  PROVE  main.data = Content(Arc)
<1>1. IsArchive(Arc)
  BY TheSnapshot DEF Decoding, Arc
<1>2. main.part = Cardinality(Leading(Arc))
  BY <1>1, LeadingChunks DEF Decoding
<1>. QED BY <1>2 DEF Decoding, Content

\* An archive is begun.
LEMMA FirstChunk ==
  ASSUME NEW arc, IsArchive(arc)
  PROVE  0 \in 0 .. Cardinality(Leading(arc)) /\ FirstChunks(arc)[0] = <<>>
  BY LeadingChunks, ContentOfChunks

\* Cat keeps the invariant: what it has got is the beginning of the archive.
LEMMA CatStep ==
  ASSUME IInv, Cat
  PROVE  IInv'
<1>. USE DEF IInv, Types
<1>1. /\ main.command = "cat" /\ main.pc \in {"begin", "chunks"}
      /\ UNCHANGED <<stored, tree, reader, fetch, target>>
  BY DEF Cat, BeginCat, DecodeChunkData, CatFails, EndCat, Is
<1>. SUFFICES MainType' /\ StoreType' /\ CatInv' /\ main'.command = "cat" /\ main'.pc # "serve"
  <2>1. TreeType'
    BY <1>1 DEF TreeType, Is
  <2>2. RestoreInv' /\ VerifyInv'
    BY <1>1 DEF RestoreInv, VerifyInv, Is
  <2>. QED BY <1>1, <2>1, <2>2, LoneStep
<1>2. CASE BeginCat
  <2>1. PICK p \in Paths :
          main' = [main EXCEPT !.pc = IF p \in DOMAIN Snapshot THEN "chunks" ELSE "failed", !.path = p]
    BY <1>2 DEF BeginCat
  <2>2. (IF p \in DOMAIN Snapshot THEN "chunks" ELSE "failed") \in {"chunks", "failed"}
    OBVIOUS
  <2>3. MainType'
    BY <2>1, <2>2 DEF MainType
  <2>4. /\ main'.command = "cat" /\ main'.scope = main.scope /\ main'.part = 0 /\ main'.data = <<>>
        /\ main'.path = p /\ main'.pc \in {"chunks", "failed"}
        /\ main'.pc = "chunks" => p \in DOMAIN Snapshot
    BY <1>1, <1>2, <2>1 DEF MainType, CatInv, BeginCat, Is
  <2>5. Snapshot' = Snapshot
    BY <2>4 DEF Snapshot
  <2>6. p \in DOMAIN Snapshot => IsArchive(Snapshot[p])
    BY TheSnapshot
  <2>7. p \in DOMAIN Snapshot =>
          0 \in 0 .. Cardinality(Leading(Snapshot[p])) /\ FirstChunks(Snapshot[p])[0] = <<>>
    BY <2>6, FirstChunk
  <2>8. CatInv'
    BY <2>4, <2>5, <2>7 DEF CatInv, Decoding, Arc
  <2>. QED BY <1>2, <2>3, <2>4, <2>8 DEF BeginCat, StoreType
<1>3. CASE DecodeChunkData
  <2>. DEFINE h == HashOf(Arc, main.part)
              data == IF cache[h] # None THEN cache[h] ELSE decodeChunk(h)
  <2>1. /\ main.pc = "chunks" /\ main.part < Len(Arc.chunks) /\ HasChunk(Arc, main.part)
        /\ data # None /\ cache' = [cache EXCEPT ![h] = data] /\ UNCHANGED mutex
        /\ main' = [main EXCEPT !.part = main.part + 1, !.data = main.data \o data]
    BY <1>3 DEF DecodeChunkData, Is
  <2>2. Decoding
    BY <1>1, <2>1 DEF CatInv
  <2>3. /\ h \in Hashes /\ main.part + 1 \in 0 .. Cardinality(Leading(Arc))
        /\ main.data \o Bytes(h) = FirstChunks(Arc)[main.part + 1]
        /\ main.data \o Bytes(h) \in Seq(AllBytes)
    BY <2>1, <2>2, NextChunk
  <2>4. data = Bytes(h)
    BY <2>1, <2>3 DEF StoreType, decodeChunk
  <2>. HIDE DEF h, data
  <2>5. main.part + 1 \in Nat
    BY DEF MainType
  <2>6. MainType'
    BY <2>1, <2>3, <2>4, <2>5 DEF MainType
  <2>7. /\ main'.command = "cat" /\ main'.scope = main.scope /\ main'.part = main.part + 1
        /\ main'.data = FirstChunks(Arc)[main.part + 1]
        /\ main'.path = main.path /\ main'.pc = "chunks"
    BY <1>1, <2>1, <2>3, <2>4 DEF MainType
  <2>8. Snapshot' = Snapshot
    BY <2>7 DEF Snapshot
  <2>9. Arc' = Arc
    BY <2>7, <2>8 DEF Arc
  <2>10. CatInv'
    BY <2>2, <2>3, <2>7, <2>8, <2>9 DEF CatInv, Decoding
  <2>11. StoreType'
    BY <1>1, <2>1, <2>4 DEF StoreType
  <2>. QED BY <2>6, <2>7, <2>10, <2>11
<1>4. CASE CatFails
  <2>1. main' = [main EXCEPT !.pc = "failed"] /\ mutex' \in BOOLEAN /\ UNCHANGED cache
    BY <1>4 DEF CatFails, HasChunk
  <2>2. main'.command = "cat" /\ main'.pc = "failed" /\ MainType'
    BY <1>1, <2>1 DEF MainType
  <2>3. StoreType'
    BY <1>1, <2>1 DEF StoreType
  <2>. QED BY <2>2, <2>3 DEF CatInv
<1>5. CASE EndCat
  <2>1. /\ main.pc = "chunks" /\ main.part = Len(Arc.chunks) /\ UNCHANGED <<cache, mutex>>
        /\ main' = [main EXCEPT !.pc = "end", !.done = {main.path}]
    BY <1>5 DEF EndCat, Is
  <2>2. Decoding
    BY <1>1, <2>1 DEF CatInv
  <2>3. main.data = Content(Arc)
    BY <2>1, <2>2, AllChunks
  <2>4. main.path \in Paths
    BY <2>2, TheSnapshot DEF Decoding
  <2>5. {main.path} \in SUBSET Tasks
    BY <2>4 DEF Tasks
  <2>6. MainType'
    BY <2>1, <2>5 DEF MainType
  <2>7. /\ main'.command = "cat" /\ main'.scope = main.scope /\ main'.data = main.data
        /\ main'.path = main.path /\ main'.pc = "end"
    BY <1>1, <2>1 DEF MainType
  <2>8. Arc' = Arc
    BY <2>7 DEF Arc, Snapshot
  <2>9. CatInv'
    BY <2>3, <2>7, <2>8 DEF CatInv
  <2>. QED BY <1>1, <2>1, <2>6, <2>7, <2>9 DEF StoreType
<1>. QED BY <1>2, <1>3, <1>4, <1>5 DEF Cat

\* What is written over the beginning of a file is its beginning then.
LEMMA WrittenOver ==
  ASSUME NEW old \in Seq(AnyBytes), NEW written \in Seq(AllBytes), NEW data \in Seq(AllBytes)
  PROVE  /\ Overwritten(old, written, data) \in Seq(AnyBytes)
         /\ IsPrefix(written \o data, Overwritten(old, written, data))
<1>. DEFINE from == Len(written) + Len(data) + 1
            rest == SubSeq(old, from, Len(old))
<1>1. from \in Nat \ {0} /\ Len(old) \in Nat
  BY LenProperties
<1>2. rest \in Seq(AnyBytes)
  <2>. HIDE DEF from
  <2>1. \A i \in from .. Len(old) : i \in 1 .. Len(old)
    BY <1>1
  <2>2. \A i \in from .. Len(old) : old[i] \in AnyBytes
    BY <2>1, ElementOfSeq
  <2>. QED BY <1>1, <2>2, SubSeqProperties
<1>3. written \o data \in Seq(AnyBytes)
  <2>1. written \in Seq(AnyBytes) /\ data \in Seq(AnyBytes)
    BY SeqMonotonic DEF AnyBytes
  <2>. QED BY <2>1, ConcatProperties
<1>4. Overwritten(old, written, data) = (written \o data) \o rest
  BY DEF Overwritten
<1>. HIDE DEF rest
<1>. QED BY <1>2, <1>3, <1>4, PrefixOfConcat

\* Nothing is the beginning of everything.
LEMMA NothingIsPrefix ==
  ASSUME NEW S, NEW s \in Seq(S)
  PROVE  IsPrefix(<<>>, s)
<1>1. <<>> \in Seq(S) /\ <<>> \o s = s
  BY ConcatEmptySeq
<1>. QED BY <1>1, PrefixOfConcat

\* Restore, as the file that it writes to and the paths it has still to do and
\* has done change.
LEMMA RestoreStep ==
  ASSUME IInv, Restore
  PROVE  IInv'
<1>. USE DEF IInv, Types
<1>1. /\ main.command = "restore" /\ main.pc \in {"begin", "next", "chunks"}
      /\ UNCHANGED <<stored, cache, mutex, tree, reader, fetch>>
  BY DEF Restore, BeginRestore, DecodeArchive, DecodeFails, WriteChunk, EndArchive, RestoreFails,
         EndRestore, Is
<1>2. /\ target \in [Paths -> Seq(AnyBytes) \cup {None}]
      /\ main.todo \cup main.done \subseteq DOMAIN Snapshot
      /\ main.todo \cap main.done = {}
      /\ main.pc = "begin" => main.done = {}
      /\ main.pc = "chunks" =>
           /\ Decoding
           /\ main.path \notin main.todo \cup main.done
           /\ target[main.path] \in Seq(AnyBytes) /\ IsPrefix(main.data, target[main.path])
      /\ \A p \in main.done :
           Snapshot[p].type = "file" =>
             target[p] \in Seq(AnyBytes) /\ IsPrefix(Content(Snapshot[p]), target[p])
  BY <1>1 DEF RestoreInv
<1>3. DOMAIN Snapshot \subseteq Paths /\ \A p \in DOMAIN Snapshot : IsArchive(Snapshot[p])
  BY TheSnapshot
<1>4. Paths \subseteq Tasks
  BY DEF Tasks
<1>. SUFFICES MainType' /\ RestoreInv' /\ main'.command = "restore" /\ main'.pc # "serve"
  <2>1. TreeType' /\ StoreType'
    BY <1>1 DEF TreeType, StoreType, Is
  <2>2. CatInv' /\ VerifyInv'
    BY <1>1 DEF CatInv, VerifyInv, Is
  <2>. QED BY <1>1, <2>1, <2>2, LoneStep
<1>5. ASSUME main'.scope = main.scope PROVE Snapshot' = Snapshot
  BY <1>5 DEF Snapshot
<1>6. CASE BeginRestore
  <2>1. main.pc = "begin" /\ target' = target
    BY <1>6 DEF BeginRestore, Is
  <2>2. PICK todo \in SUBSET DOMAIN Snapshot, pc \in {"next", "end"} :
          main' = [main EXCEPT !.pc = pc, !.todo = todo] \/ main' = [main EXCEPT !.pc = pc]
    BY <1>6 DEF BeginRestore
  <2>3. todo \in SUBSET Tasks
    BY <1>3, <1>4
  <2>4. MainType'
    <3>1. MainType
      OBVIOUS
    <3>. HIDE DEF IInv, Types
    <3>2. CASE main' = [main EXCEPT !.pc = pc, !.todo = todo]
      BY ONLY <2>3, <3>1, <3>2 DEF MainType
    <3>3. CASE main' = [main EXCEPT !.pc = pc]
      BY ONLY <3>1, <3>3 DEF MainType
    <3>. QED BY <2>2, <3>2, <3>3
  <2>5. /\ main'.command = "restore" /\ main'.pc \in {"next", "end"} /\ main'.scope = main.scope
        /\ main'.done = {} /\ main'.todo \subseteq DOMAIN Snapshot
    BY <1>1, <1>2, <2>1, <2>2 DEF MainType
  <2>6. RestoreInv'
    BY <1>2, <1>5, <2>1, <2>5 DEF RestoreInv
  <2>. QED BY <2>4, <2>5, <2>6
<1>7. ASSUME NEW p \in Paths, DecodeArchive(p) PROVE MainType' /\ RestoreInv' /\ main'.command = "restore" /\ main'.pc # "serve"
  <2>1. main.pc = "next" /\ p \in main.todo /\ p \notin main.done /\ p \in DOMAIN Snapshot
    BY <1>2, <1>7 DEF DecodeArchive, Is
  <2>2. main.todo \ {p} \in SUBSET Tasks /\ main.done \cup {p} \in SUBSET Tasks
    BY <2>1 DEF MainType
  <2>3. CASE Snapshot[p].type = "file"
    <3>1. /\ main' = [main EXCEPT !.pc = "chunks", !.todo = main.todo \ {p}, !.path = p,
                                  !.part = 0, !.data = <<>>]
          /\ target' = [target EXCEPT ![p] = IF target[p] = None THEN <<>> ELSE target[p]]
      BY <1>7, <2>3 DEF DecodeArchive
    <3>2. MainType'
      BY <2>2, <3>1, NoBytes DEF MainType
    <3>3. /\ main'.command = "restore" /\ main'.pc = "chunks" /\ main'.scope = main.scope
          /\ main'.done = main.done /\ main'.todo = main.todo \ {p} /\ main'.path = p
          /\ main'.part = 0 /\ main'.data = <<>>
      BY <1>1, <3>1 DEF MainType
    <3>4. Snapshot' = Snapshot
      BY <1>5, <3>3
    <3>5. (IF target[p] = None THEN <<>> ELSE target[p]) \in Seq(AnyBytes)
      BY <1>2, EmptySeq
    <3>6. /\ target' \in [Paths -> Seq(AnyBytes) \cup {None}] /\ target'[p] \in Seq(AnyBytes)
          /\ \A q \in Paths : q # p => target'[q] = target[q]
      BY <1>2, <3>1, <3>5
    <3>7. IsPrefix(<<>>, target'[p])
      BY <3>6, NothingIsPrefix
    <3>8. 0 \in 0 .. Cardinality(Leading(Snapshot[p])) /\ FirstChunks(Snapshot[p])[0] = <<>>
      BY <1>3, <2>1, FirstChunk
    <3>9. Decoding'
      BY <2>1, <3>3, <3>4, <3>8 DEF Decoding, Arc
    <3>10. /\ main'.todo \cup main'.done \subseteq DOMAIN Snapshot'
           /\ main'.todo \cap main'.done = {} /\ p \notin main'.todo \cup main'.done
      BY <1>2, <2>1, <3>3, <3>4
    <3>11. \A q \in main'.done :
             Snapshot'[q].type = "file" =>
               target'[q] \in Seq(AnyBytes) /\ IsPrefix(Content(Snapshot'[q]), target'[q])
      BY <1>2, <1>3, <2>1, <3>3, <3>4, <3>6
    <3>12. RestoreInv'
      BY <3>3, <3>6, <3>7, <3>9, <3>10, <3>11 DEF RestoreInv
    <3>. QED BY <3>2, <3>3, <3>12
  <2>4. CASE Snapshot[p].type # "file"
    <3>1. /\ main' = [main EXCEPT !.todo = main.todo \ {p}, !.done = main.done \cup {p}]
          /\ target' = target
      BY <1>7, <2>4 DEF DecodeArchive
    <3>2. MainType'
      BY <2>2, <3>1 DEF MainType
    <3>3. /\ main'.command = "restore" /\ main'.pc = "next" /\ main'.scope = main.scope
          /\ main'.done = main.done \cup {p} /\ main'.todo = main.todo \ {p}
      BY <1>1, <2>1, <3>1 DEF MainType
    <3>4. RestoreInv'
      BY <1>2, <1>5, <2>1, <2>4, <3>1, <3>3 DEF RestoreInv
    <3>. QED BY <3>2, <3>3, <3>4
  <2>. QED BY <2>3, <2>4
<1>8. ASSUME NEW p \in Paths, DecodeFails(p) PROVE MainType' /\ RestoreInv' /\ main'.command = "restore" /\ main'.pc # "serve"
  <2>1. PICK pc \in {"failed", "next"} :
          main' = [main EXCEPT !.todo = main.todo \ {p}, !.told = main.told \cup {p}, !.pc = pc]
    BY <1>8 DEF DecodeFails
  <2>2. main.todo \ {p} \in SUBSET Tasks /\ main.told \cup {p} \in SUBSET Tasks
    BY <1>4 DEF MainType
  <2>3. MainType'
    BY <2>1, <2>2 DEF MainType
  <2>4. /\ main'.command = "restore" /\ main'.pc \in {"failed", "next"} /\ main'.scope = main.scope
        /\ main'.done = main.done /\ main'.todo = main.todo \ {p} /\ target' = target
    BY <1>1, <1>8, <2>1 DEF MainType, DecodeFails
  <2>5. RestoreInv'
    BY <1>2, <1>5, <2>4 DEF RestoreInv
  <2>. QED BY <2>3, <2>4, <2>5
<1>9. CASE WriteChunk
  <2>. DEFINE data == decodeChunk(HashOf(Arc, main.part))
  <2>1. /\ main.pc = "chunks" /\ main.part < Len(Arc.chunks) /\ HasChunk(Arc, main.part)
        /\ data # None
        /\ target' = [target EXCEPT ![main.path] = Overwritten(target[main.path], main.data, data)]
        /\ main' = [main EXCEPT !.part = main.part + 1, !.data = main.data \o data]
    BY <1>9 DEF WriteChunk, Is
  <2>2. data = Bytes(HashOf(Arc, main.part))
    BY <2>1 DEF decodeChunk
  <2>3. /\ main.part + 1 \in 0 .. Cardinality(Leading(Arc))
        /\ main.data \o data = FirstChunks(Arc)[main.part + 1]
        /\ main.data \in Seq(AllBytes) /\ data \in Seq(AllBytes) /\ main.data \o data \in Seq(AllBytes)
    BY <1>2, <2>1, <2>2, NextChunk
  <2>. HIDE DEF data
  <2>4. main.part + 1 \in Nat
    BY DEF MainType
  <2>5. MainType'
    BY <2>1, <2>3, <2>4 DEF MainType
  <2>6. /\ main'.command = "restore" /\ main'.scope = main.scope /\ main'.part = main.part + 1
        /\ main'.data = main.data \o data /\ main'.todo = main.todo /\ main'.done = main.done
        /\ main'.path = main.path /\ main'.pc = "chunks"
    BY <1>1, <2>1 DEF MainType
  <2>7. Snapshot' = Snapshot
    BY <1>5, <2>6
  <2>8. Arc' = Arc
    BY <2>6, <2>7 DEF Arc
  <2>9. main.path \in DOMAIN Snapshot /\ main.path \in Paths /\ main.path \notin main.todo \cup main.done
    BY <1>2, <1>3, <2>1 DEF Decoding
  <2>10. Decoding'
    BY <2>3, <2>6, <2>7, <2>8, <2>9 DEF Decoding
  <2>11. /\ Overwritten(target[main.path], main.data, data) \in Seq(AnyBytes)
         /\ IsPrefix(main.data \o data, Overwritten(target[main.path], main.data, data))
    BY <1>2, <2>1, <2>3, WrittenOver
  <2>12. /\ target' \in [Paths -> Seq(AnyBytes) \cup {None}]
         /\ target'[main.path] \in Seq(AnyBytes) /\ IsPrefix(main.data \o data, target'[main.path])
         /\ \A q \in Paths : q # main.path => target'[q] = target[q]
    BY <1>2, <2>1, <2>9, <2>11
  <2>13. \A q \in main.done :
           Snapshot[q].type = "file" =>
             target'[q] \in Seq(AnyBytes) /\ IsPrefix(Content(Snapshot[q]), target'[q])
    BY <1>2, <1>3, <2>9, <2>12
  <2>14. RestoreInv'
    BY <1>2, <2>6, <2>7, <2>9, <2>10, <2>12, <2>13 DEF RestoreInv
  <2>. QED BY <2>5, <2>6, <2>14
<1>10. CASE EndArchive
  <2>1. /\ main.pc = "chunks" /\ main.part = Len(Arc.chunks) /\ target' = target
        /\ main' = [main EXCEPT !.pc = "next", !.done = main.done \cup {main.path}]
    BY <1>10 DEF EndArchive, Is
  <2>2. Decoding /\ main.path \in DOMAIN Snapshot /\ main.path \notin main.todo \cup main.done
    BY <1>2, <2>1 DEF Decoding
  <2>3. main.data = Content(Snapshot[main.path])
    BY <2>1, <2>2, AllChunks DEF Arc
  <2>4. main.done \cup {main.path} \in SUBSET Tasks
    BY <1>3, <1>4, <2>2 DEF MainType
  <2>5. MainType'
    BY <2>1, <2>4 DEF MainType
  <2>6. /\ main'.command = "restore" /\ main'.scope = main.scope /\ main'.pc = "next"
        /\ main'.todo = main.todo /\ main'.done = main.done \cup {main.path}
    BY <1>1, <2>1 DEF MainType
  <2>7. target[main.path] \in Seq(AnyBytes) /\ IsPrefix(Content(Snapshot[main.path]), target[main.path])
    BY <1>2, <2>1, <2>3
  <2>8. RestoreInv'
    BY <1>2, <1>5, <2>1, <2>2, <2>6, <2>7 DEF RestoreInv
  <2>. QED BY <2>5, <2>6, <2>8
<1>11. CASE RestoreFails
  <2>1. PICK pc \in {"failed", "next"} :
          main' = [main EXCEPT !.told = main.told \cup {main.path}, !.pc = pc]
    BY <1>11 DEF RestoreFails
  <2>2. main.pc = "chunks" /\ target' = target
    BY <1>11 DEF RestoreFails, Is
  <2>3. main.path \in Paths
    BY <1>2, <1>3, <2>2 DEF Decoding
  <2>4. main.told \cup {main.path} \in SUBSET Tasks
    BY <1>4, <2>3 DEF MainType
  <2>5. MainType'
    BY <2>1, <2>4 DEF MainType
  <2>6. /\ main'.command = "restore" /\ main'.pc \in {"failed", "next"} /\ main'.scope = main.scope
        /\ main'.done = main.done /\ main'.todo = main.todo
    BY <1>1, <2>1 DEF MainType
  <2>7. RestoreInv'
    BY <1>2, <1>5, <2>2, <2>6 DEF RestoreInv
  <2>. QED BY <2>5, <2>6, <2>7
<1>12. CASE EndRestore
  <2>1. main' = [main EXCEPT !.pc = "end"] /\ target' = target
    BY <1>12 DEF EndRestore
  <2>2. MainType'
    BY <2>1 DEF MainType
  <2>3. /\ main'.command = "restore" /\ main'.pc = "end" /\ main'.scope = main.scope
        /\ main'.done = main.done /\ main'.todo = main.todo
    BY <1>1, <2>1 DEF MainType
  <2>4. RestoreInv'
    BY <1>2, <1>5, <2>1, <2>3 DEF RestoreInv
  <2>. QED BY <2>2, <2>3, <2>4
<1>. QED BY <1>6, <1>7, <1>8, <1>9, <1>10, <1>11, <1>12 DEF Restore

-----------------------------------------------------------------------------
(* Verify.                                                                 *)

\* A set of some of the first natural numbers has a greatest one.
LEMMA Maximum ==
  ASSUME NEW N \in Nat, NEW S \in SUBSET (0 .. N), S # {}
  PROVE  Max(S) \in S /\ \A n \in S : n <= Max(S)
<1>. DEFINE T == {N - n : n \in S}
            m == N - Min(T)
<1>1. T \in SUBSET Nat /\ T # {}
  <2>1. \A n \in S : N - n \in Nat
    OBVIOUS
  <2>. QED BY <2>1
<1>2. Min(T) \in T /\ \A n \in T : Min(T) <= n
  BY <1>1, Minimum
<1>3. m \in S
  BY <1>2
<1>4. ASSUME NEW n \in S PROVE n <= m
  <2>1. N - n \in T /\ n \in Nat /\ Min(T) \in Nat
    BY <1>1, <1>2
  <2>2. Min(T) <= N - n
    BY <1>2, <2>1
  <2>. HIDE DEF T
  <2>. QED BY <2>1, <2>2
<1>. HIDE DEF m
<1>. QED BY <1>3, <1>4 DEF Max

\* Each path of the loaded snapshots is mapped to the last of them that has it.
IsLatest(map, loaded) ==
  /\ DOMAIN map = UNION {DOMAIN Snapshots[i] : i \in loaded}
  /\ IsFiniteSet(DOMAIN map) /\ DOMAIN map \subseteq Paths
  /\ \A p \in DOMAIN map :
       /\ map[p] \in loaded /\ p \in DOMAIN Snapshots[map[p]]
       /\ \A j \in loaded : p \in DOMAIN Snapshots[j] => j <= map[p]

\* The archives to verify are archives of a snapshot under their paths, and the
\* one of a path is the last.
LEMMA ArchivesToVerify ==
  ASSUME NEW loaded \in SUBSET DOMAIN Snapshots, NEW map, map = ArchiveToSnapshot(loaded)
  PROVE  IsLatest(map, loaded)
<1>. DEFINE has(p) == {i \in loaded : p \in DOMAIN Snapshots[i]}
<1>1. DOMAIN Snapshots = 1 .. Len(Snapshots) /\ Len(Snapshots) \in Nat
  BY LenProperties, ReadingOK
<1>2. DOMAIN map = UNION {DOMAIN Snapshots[i] : i \in loaded}
      /\ \A p \in DOMAIN map : map[p] = Max(has(p))
  BY DEF ArchiveToSnapshot
<1>3. IsFiniteSet(loaded)
  <2>1. IsFiniteSet(1 .. Len(Snapshots))
    BY <1>1, FS_Interval
  <2>. QED BY <1>1, <2>1, FS_Subset
<1>4. IsFiniteSet({DOMAIN Snapshots[i] : i \in loaded})
  <2>. DEFINE f == [i \in loaded |-> DOMAIN Snapshots[i]]
  <2>1. f \in Surjection(loaded, {DOMAIN Snapshots[i] : i \in loaded})
    BY DEF Surjection
  <2>. HIDE DEF f
  <2>. QED BY <1>3, <2>1, FS_Surjection
<1>5. IsFiniteSet(DOMAIN map)
  <2>1. \A T \in {DOMAIN Snapshots[i] : i \in loaded} : IsFiniteSet(T)
    BY ReadingOK
  <2>. QED BY <1>2, <1>4, <2>1, FS_UNION
<1>6. DOMAIN map \subseteq Paths
  BY <1>2 DEF Paths
<1>7. ASSUME NEW p \in DOMAIN map
      PROVE  /\ map[p] \in loaded /\ p \in DOMAIN Snapshots[map[p]]
             /\ \A j \in loaded : p \in DOMAIN Snapshots[j] => j <= map[p]
  <2>1. has(p) \in SUBSET (0 .. Len(Snapshots)) /\ has(p) # {}
    BY <1>1, <1>2
  <2>2. Max(has(p)) \in has(p) /\ \A j \in has(p) : j <= Max(has(p))
    BY <1>1, <2>1, Maximum
  <2>. QED BY <1>2, <2>2
<1>. QED BY <1>2, <1>5, <1>6, <1>7 DEF IsLatest

\* All of a set are selected for 100 percent.
LEMMA AllSelected ==
  ASSUME NEW S, IsFiniteSet(S), NEW selected \in Selected(S, 100)
  PROVE  selected = S
<1>1. Cardinality(S) \in Nat
  BY FS_CardinalityType
<1>2. (Cardinality(S) * 100 + 99) \div 100 = Cardinality(S)
  <2>. DEFINE c == Cardinality(S)
  <2>. HIDE DEF c
  <2>1. c \in Nat => (c * 100 + 99) \div 100 = c
    OBVIOUS
  <2>. QED BY <1>1, <2>1 DEF c
<1>3. selected \in SUBSET S /\ Cardinality(selected) = Cardinality(S)
  BY <1>2 DEF Selected, kSubset
<1>. QED BY <1>3, FS_Subset

\* Verify keeps the invariant: what it has done could be loaded, and as long as
\* it has told nothing the last archive of every path is done or to do.
LEMMA VerifyStep ==
  ASSUME IInv, Verify
  PROVE  IInv'
<1>. USE DEF IInv, Types
<1>1. /\ main.command = "verify" /\ main.pc \in {"begin", "verify"}
      /\ UNCHANGED <<stored, cache, mutex, tree, reader, fetch, target>>
  BY DEF Verify, BeginVerify, VerifyArchive, EndVerify, Is
<1>. SUFFICES MainType' /\ VerifyInv' /\ main'.command = "verify" /\ main'.pc # "serve"
  <2>1. TreeType' /\ StoreType'
    BY <1>1 DEF TreeType, StoreType, Is
  <2>2. CatInv' /\ RestoreInv'
    BY <1>1 DEF CatInv, RestoreInv
  <2>. QED BY <1>1, <2>1, <2>2, LoneStep
<1>2. CASE BeginVerify
  <2>1. main.scope \subseteq DOMAIN Snapshots /\ DOMAIN Snapshots \subseteq Nat
    BY TheSnapshot
  <2>2. main.done = {}
    BY <1>2 DEF BeginVerify, Is, VerifyInv
  <2>3. PICK loaded \in SUBSET main.scope, percentage \in {50, 100} :
          \E selected \in Selected(DOMAIN ArchiveToSnapshot(loaded), percentage) :
            main' = [main EXCEPT !.pc = "verify",
                       !.todo = {<<ArchiveToSnapshot(loaded)[p], p>> : p \in selected},
                       !.percentage = percentage,
                       !.told = {<<i, None>> : i \in main.scope \ loaded}]
    BY <1>2 DEF BeginVerify
  <2>. DEFINE map == ArchiveToSnapshot(loaded)
  <2>4. PICK selected \in Selected(DOMAIN map, percentage) :
          main' = [main EXCEPT !.pc = "verify", !.todo = {<<map[p], p>> : p \in selected},
                     !.percentage = percentage, !.told = {<<i, None>> : i \in main.scope \ loaded}]
    BY <2>3
  <2>5. /\ DOMAIN map = UNION {DOMAIN Snapshots[i] : i \in loaded}
        /\ IsFiniteSet(DOMAIN map) /\ DOMAIN map \subseteq Paths
        /\ \A p \in DOMAIN map :
             /\ map[p] \in loaded /\ p \in DOMAIN Snapshots[map[p]]
             /\ \A j \in loaded : p \in DOMAIN Snapshots[j] => j <= map[p]
    <3>1. loaded \in SUBSET DOMAIN Snapshots
      BY <2>1
    <3>2. map = ArchiveToSnapshot(loaded)
      OBVIOUS
    <3>. HIDE DEF map
    <3>3. IsLatest(map, loaded)
      BY ONLY <3>1, <3>2, ArchivesToVerify
    <3>. QED BY ONLY <3>3 DEF IsLatest
  <2>. HIDE DEF map
  <2>6. selected \subseteq DOMAIN map
    BY DEF Selected, kSubset
  <2>. DEFINE todo == {<<map[p], p>> : p \in selected}
              told == {<<i, None>> : i \in main.scope \ loaded}
  <2>7. todo \subseteq (DOMAIN Snapshots) \X Paths /\ told \subseteq (DOMAIN Snapshots) \X {None}
    BY <2>1, <2>5, <2>6
  <2>8. todo \in SUBSET Tasks /\ told \in SUBSET Tasks
    BY <2>7 DEF Tasks
  <2>9. \A x \in todo : x[2] \in DOMAIN Snapshots[x[1]]
    BY <2>5, <2>6
  <2>10. ASSUME told = {}, percentage = 100, NEW i \in main.scope, NEW p \in DOMAIN Snapshots[i],
                IsLast(i, p)
         PROVE  <<i, p>> \in todo
    <3>1. loaded = main.scope
      <4>1. \A j \in main.scope \ loaded : <<j, None>> \in told
        OBVIOUS
      <4>. QED BY <2>10, <4>1
    <3>2. p \in DOMAIN map
      BY <2>5, <3>1
    <3>3. selected = DOMAIN map
      BY <2>5, <2>10, AllSelected
    <3>4. map[p] \in main.scope /\ p \in DOMAIN Snapshots[map[p]] /\ i <= map[p]
      BY <2>5, <3>1, <3>2
    <3>5. map[p] = i
      BY <2>1, <2>10, <3>4 DEF IsLast
    <3>. QED BY <3>2, <3>3, <3>5
  <2>11. main' = [main EXCEPT !.pc = "verify", !.todo = todo, !.percentage = percentage, !.told = told]
    BY <2>4
  <2>. HIDE DEF todo, told
  <2>12. MainType'
    <3>1. percentage \in Nat
      OBVIOUS
    <3>. QED BY <2>8, <2>11, <3>1 DEF MainType
  <2>13. /\ main'.command = "verify" /\ main'.pc = "verify" /\ main'.scope = main.scope
         /\ main'.todo = todo /\ main'.done = {} /\ main'.told = told /\ main'.percentage = percentage
    BY <1>1, <2>2, <2>11 DEF MainType
  <2>14. VerifyInv'
    BY <2>7, <2>9, <2>10, <2>13 DEF VerifyInv, Is, IsLast
  <2>. QED BY <2>12, <2>13, <2>14
<1>3. ASSUME NEW x \in main.todo, VerifyArchive(x)
      PROVE  MainType' /\ VerifyInv' /\ main'.command = "verify" /\ main'.pc # "serve"
  <2>1. main.pc = "verify" /\ x \in main.todo /\ stored' = stored
    BY <1>3 DEF VerifyArchive, Is
  <2>2. main.todo \ {x} \in SUBSET Tasks /\ main.done \cup {x} \in SUBSET Tasks
        /\ main.told \cup {x} \in SUBSET Tasks
    BY DEF MainType
  <2>3. CASE /\ Loadable(Snapshots[x[1]][x[2]])
             /\ main' = [main EXCEPT !.todo = main.todo \ {x}, !.done = main.done \cup {x}]
    <3>1. MainType'
      BY <2>2, <2>3 DEF MainType
    <3>2. /\ main'.command = "verify" /\ main'.pc = "verify" /\ main'.scope = main.scope
          /\ main'.todo = main.todo \ {x} /\ main'.done = main.done \cup {x}
          /\ main'.told = main.told /\ main'.percentage = main.percentage
      BY <1>1, <2>1, <2>3 DEF MainType
    <3>3. \A y \in main'.done : Loadable(Snapshots[y[1]][y[2]])'
      BY <1>1, <2>1, <2>3, <3>2 DEF VerifyInv, Is, Loadable, decodeChunk
    <3>4. VerifyInv'
      BY <1>1, <2>1, <3>2, <3>3 DEF VerifyInv, Is, IsLast
    <3>. QED BY <3>1, <3>2, <3>4
  <2>4. CASE main' = [main EXCEPT !.todo = main.todo \ {x}, !.told = main.told \cup {x}]
    <3>1. MainType'
      BY <2>2, <2>4 DEF MainType
    <3>2. /\ main'.command = "verify" /\ main'.pc = "verify" /\ main'.scope = main.scope
          /\ main'.todo = main.todo \ {x} /\ main'.done = main.done /\ main'.told # {}
      BY <1>1, <2>1, <2>4 DEF MainType
    <3>3. \A y \in main'.done : Loadable(Snapshots[y[1]][y[2]])'
      BY <1>1, <2>1, <3>2 DEF VerifyInv, Is, Loadable, decodeChunk
    <3>4. VerifyInv'
      BY <1>1, <2>1, <3>2, <3>3 DEF VerifyInv, Is
    <3>. QED BY <3>1, <3>2, <3>4
  <2>. QED BY <1>3, <2>3, <2>4 DEF VerifyArchive
<1>4. CASE EndVerify
  <2>1. main.pc = "verify" /\ main.todo = {} /\ main' = [main EXCEPT !.pc = "end"]
    BY <1>4 DEF EndVerify, Is
  <2>2. MainType'
    BY <2>1 DEF MainType
  <2>3. /\ main'.command = "verify" /\ main'.pc = "end" /\ main'.scope = main.scope
        /\ main'.todo = {} /\ main'.done = main.done /\ main.todo = {}
        /\ main'.told = main.told /\ main'.percentage = main.percentage
    BY <1>1, <2>1 DEF MainType
  <2>4. \A y \in main'.done : Loadable(Snapshots[y[1]][y[2]])'
    BY <1>1, <2>1, <2>3 DEF VerifyInv, Is, Loadable, decodeChunk
  <2>5. VerifyInv'
    BY <1>1, <2>1, <2>3, <2>4 DEF VerifyInv, Is, IsLast
  <2>. QED BY <2>2, <2>3, <2>5
<1>. QED BY <1>2, <1>3, <1>4 DEF Verify

-----------------------------------------------------------------------------
(* Mount.                                                                  *)

\* The tree of a mounted snapshot is built of archives.
LEMMA MountStep ==
  ASSUME IInv, BeginMount \/ Serve \/ \E p \in main.todo : node(p)
  PROVE  IInv'
<1>. USE DEF IInv, Types
<1>1. /\ main.command = "mount" /\ main.pc \in {"begin", "index"}
      /\ UNCHANGED <<stored, cache, mutex, reader, fetch, target>>
  BY DEF BeginMount, Serve, node, Is
<1>2. DOMAIN Snapshot \subseteq Paths /\ \A p \in DOMAIN Snapshot : IsArchive(Snapshot[p])
  BY TheSnapshot
<1>. SUFFICES MainType' /\ TreeType' /\ main'.command = "mount"
  <2>1. StoreType'
    BY <1>1 DEF StoreType
  <2>2. CatInv' /\ RestoreInv' /\ VerifyInv'
    BY <1>1 DEF CatInv, RestoreInv, VerifyInv, Is
  <2>. QED BY <1>1, <2>1, <2>2, LoneStep
<1>3. CASE BeginMount
  <2>1. main' = [main EXCEPT !.pc = "index", !.todo = DOMAIN Snapshot] /\ tree' = tree
    BY <1>3 DEF BeginMount
  <2>2. DOMAIN Snapshot \in SUBSET Tasks
    BY <1>2 DEF Tasks
  <2>3. MainType'
    BY <2>1, <2>2 DEF MainType
  <2>4. main'.command = "mount" /\ main'.scope = main.scope /\ main'.todo = DOMAIN Snapshot
    BY <1>1, <2>1 DEF MainType
  <2>5. Snapshot' = Snapshot
    BY <2>4 DEF Snapshot
  <2>6. TreeType'
    BY <2>1, <2>4, <2>5 DEF TreeType
  <2>. QED BY <2>3, <2>4, <2>6
<1>4. CASE Serve
  <2>1. main' = [main EXCEPT !.pc = "serve"] /\ tree' = tree
    BY <1>4 DEF Serve
  <2>2. MainType' /\ main'.command = "mount" /\ main'.pc = "serve"
    BY <1>1, <2>1 DEF MainType
  <2>. QED BY <2>1, <2>2 DEF TreeType, Is
<1>5. ASSUME NEW p \in main.todo, node(p) PROVE MainType' /\ TreeType' /\ main'.command = "mount"
  <2>. DEFINE missing == WayTo(p) \ DOMAIN tree
  <2>1. /\ main.pc = "index"
        /\ tree' = [q \in DOMAIN tree \cup missing |->
                      IF q \notin missing THEN tree[q]
                      ELSE IF missing = {p} THEN Snapshot[p] ELSE FakedDirectory]
        /\ main' = [main EXCEPT !.todo = main.todo \ {p}]
    BY <1>5 DEF node, Is
  <2>2. p \in DOMAIN Snapshot /\ main.todo \subseteq DOMAIN Snapshot
    BY <1>1, <2>1 DEF TreeType, Is
  <2>3. main.todo \ {p} \in SUBSET Tasks
    BY DEF MainType
  <2>4. MainType'
    BY <2>1, <2>3 DEF MainType
  <2>5. /\ main'.command = "mount" /\ main'.scope = main.scope /\ main'.todo = main.todo \ {p}
    BY <1>1, <2>1 DEF MainType
  <2>6. Snapshot' = Snapshot
    BY <2>5 DEF Snapshot
  <2>7. missing \subseteq Nodes
    BY <1>2, <2>2 DEF Nodes
  <2>8. IsArchive(FakedDirectory) /\ IsArchive(Snapshot[p])
    BY <1>2, <2>2, EmptySeq DEF IsArchive, FakedDirectory
  <2>9. DOMAIN tree' = DOMAIN tree \cup missing
    BY <2>1
  <2>10. ASSUME NEW q \in DOMAIN tree' PROVE IsArchive(tree'[q])
    <3>1. tree'[q] \in {FakedDirectory, Snapshot[p]} \/ (q \in DOMAIN tree /\ tree'[q] = tree[q])
      BY <2>1, <2>9
    <3>. QED BY <2>8, <3>1 DEF TreeType
  <2>11. TreeType'
    BY <2>2, <2>5, <2>6, <2>7, <2>9, <2>10 DEF TreeType
  <2>. QED BY <2>4, <2>5, <2>11
<1>. QED BY <1>3, <1>4, <1>5

-----------------------------------------------------------------------------
(* Reads.                                                                  *)

\* Where a read begins: in a chunk, at the place of its offset, or behind all
\* of them.
LEMMA OffsetFound ==
  ASSUME NEW arc, IsArchive(arc), NEW offset \in Nat
  PROVE  LET first == ChunkForOffset(arc, offset) IN
         /\ first.error \in {"none", "EOF", "seek"} /\ first.num \in Nat /\ first.inner \in Nat
         /\ first.error = "none" =>
              /\ first.num \in 0 .. Cardinality(Leading(arc)) - 1
              /\ first.inner < SizeOf[HashOf(arc, first.num)]
              /\ Start(arc, first.num) + first.inner = offset
              /\ offset <= Len(Content(arc))
         /\ first.error # "none" => Len(Content(arc)) <= offset
<1>. DEFINE K == Cardinality(Leading(arc))
            enough == {n \in Leading(arc) : Start(arc, n + 1) > offset}
            first == ChunkForOffset(arc, offset)
<1>1. K \in Nat /\ Leading(arc) = 0 .. K - 1
  BY LeadingChunks
<1>2. Start(arc, 0) = 0 /\ \A n \in 0 .. K : Start(arc, n) \in Nat
  BY StartOfChunks
<1>3. Len(Content(arc)) = Start(arc, K)
  BY ContentBytes
<1>4. CASE enough # {}
  <2>. DEFINE n == Min(enough)
  <2>1. n \in enough /\ \A m \in enough : n <= m
    <3>1. enough \in SUBSET Nat
      BY <1>1
    <3>. QED BY <1>4, <3>1, Minimum
  <2>2. first = [num |-> n, inner |-> offset - Start(arc, n), error |-> "none"]
    BY <1>4 DEF ChunkForOffset
  <2>3. n \in 0 .. K - 1 /\ Start(arc, n + 1) > offset /\ n \in 0 .. K /\ n + 1 \in 0 .. K
    BY <1>1, <2>1
  <2>4. Start(arc, n) <= offset
    <3>1. CASE n = 0
      BY <1>2, <3>1
    <3>2. CASE n # 0
      <4>1. n - 1 \in 0 .. K - 1 /\ ~ (n <= n - 1) /\ (n - 1) + 1 = n
        BY <1>1, <2>3, <3>2
      <4>2. n - 1 \notin enough
        BY <2>1, <4>1
      <4>3. ~ (Start(arc, n) > offset)
        BY <1>1, <4>1, <4>2
      <4>. QED BY <1>2, <2>3, <4>3
    <3>. QED BY <3>1, <3>2
  <2>5. /\ SizeOf[HashOf(arc, n)] \in Nat
        /\ Start(arc, n + 1) = Start(arc, n) + SizeOf[HashOf(arc, n)]
    BY <2>3, StartOfChunks
  <2>6. Start(arc, n + 1) <= Start(arc, K)
    <3>1. K \in n + 1 .. K
      BY <1>1, <2>3
    <3>. QED BY <2>3, <3>1, StartsGrow
  <2>7. Start(arc, n) \in Nat /\ Start(arc, n + 1) \in Nat /\ Start(arc, K) \in Nat
    BY <1>1, <1>2, <2>3
  <2>. HIDE DEF n, first, enough, K
  <2>8. /\ first.error = "none" /\ first.num = n /\ first.inner = offset - Start(arc, n)
    BY <2>2
  <2>9. /\ offset - Start(arc, n) \in Nat /\ offset - Start(arc, n) < SizeOf[HashOf(arc, n)]
        /\ Start(arc, n) + (offset - Start(arc, n)) = offset /\ offset <= Start(arc, K)
    BY <2>3, <2>4, <2>5, <2>6, <2>7
  <2>. QED BY <1>1, <1>3, <2>3, <2>8, <2>9 DEF first, K
<1>5. CASE enough = {}
  <2>1. first = [num |-> 0, inner |-> 0,
                 error |-> IF Leading(arc) = Numbers(arc) THEN "EOF" ELSE "seek"]
    BY <1>5 DEF ChunkForOffset
  <2>2. Start(arc, K) <= offset
    <3>1. CASE K = 0
      BY <1>2, <3>1
    <3>2. CASE K # 0
      <4>1. K - 1 \in 0 .. K - 1 /\ (K - 1) + 1 = K /\ K \in 0 .. K
        BY <1>1, <3>2
      <4>2. ~ (Start(arc, K) > offset)
        BY <1>1, <1>5, <4>1
      <4>. QED BY <1>2, <4>1, <4>2
    <3>. QED BY <3>1, <3>2
  <2>. HIDE DEF enough, first
  <2>3. first.error \in {"EOF", "seek"} /\ first.num = 0 /\ first.inner = 0
    BY <2>1
  <2>. QED BY <1>3, <2>2, <2>3 DEF first
<1>. QED BY <1>4, <1>5

\* A step of the goroutines that read or fetch, in which the command goes on
\* serving.
LEMMA ServingStep ==
  ASSUME IInv, main.pc = "serve", UNCHANGED <<stored, main, tree, target>>,
         StoreType', ReaderType', LockInv', ReaderInv',
         \A r \in Readers : reader'[r].pc # "idle" => reader'[r].path \in DOMAIN tree
  PROVE  IInv'
<1>. USE DEF IInv, Types
<1>1. MainType' /\ TreeType'
  BY DEF MainType, TreeType, Is, Snapshot
<1>2. ServingType'
  BY DEF ServingType
<1>3. CatInv' /\ RestoreInv' /\ VerifyInv'
  BY CommandsStay
<1>. QED BY <1>1, <1>2, <1>3

\* One of the goroutines that read is in another state.
LEMMA OneReader ==
  ASSUME IInv, main.pc = "serve", UNCHANGED <<stored, main, tree, target>>,
         NEW r \in Readers, NEW y, reader' = [reader EXCEPT ![r] = y],
         y \in [pc : {"idle", "loop", "lock", "load", "done", "failed"}, path : Nodes \cup {None},
                offset : Nat, size : Nat, part : Nat, inner : Nat, data : Seq(AllBytes)],
         y.path \in DOMAIN tree, InOrder(y),
         StoreType', LockInv',
         fetch' \in [Readers -> [pc : {"none", "lock", "load", "end", "failed"},
                                 path : Nodes \cup {None}, part : Nat]]
  PROVE  IInv'
<1>. USE DEF IInv, Types
<1>1. ReaderType'
  BY DEF ReaderType
<1>2. \A s \in Readers : reader'[s] = y \/ reader'[s] = reader[s]
  BY DEF ReaderType
<1>3. \A s \in Readers : InOrder(reader'[s])
  BY <1>2 DEF ReaderInv
<1>4. ReaderInv'
  <2>. SUFFICES ASSUME NEW s \in Readers PROVE InOrder(reader[s])'
    BY DEF ReaderInv
  <2>. HIDE DEF IInv, Types
  <2>1. Node(reader[s])' = Node(reader'[s])
    BY DEF Node
  <2>2. Progress(reader[s])' <=> Progress(reader'[s])
    BY <2>1 DEF Progress
  <2>3. Exact(reader[s])' <=> Exact(reader'[s])
    BY <2>1 DEF Exact
  <2>. QED BY <1>3, <2>1, <2>2, <2>3 DEF InOrder
<1>5. \A s \in Readers : reader'[s].pc # "idle" => reader'[s].path \in DOMAIN tree
  BY <1>2 DEF ServingType
<1>. QED BY <1>1, <1>4, <1>5, ServingStep

\* The mutex is not touched by those that do not hold it.
LEMMA NobodyMore ==
  ASSUME LockInv, mutex' = mutex, \A r \in Readers : Using(r)' => Using(r),
         \A r \in Readers : HoldsOn(r)' => HoldsOn(r)
  PROVE  LockInv'
  BY DEF LockInv

\* What a read is about.
LEMMA TheReader ==
  ASSUME IInv, NEW r \in Readers
  PROVE  /\ reader[r] \in [pc : {"idle", "loop", "lock", "load", "done", "failed"},
                           path : Nodes \cup {None}, offset : Nat, size : Nat, part : Nat,
                           inner : Nat, data : Seq(AllBytes)]
         /\ InOrder(reader[r])
         /\ reader[r].pc # "idle" => reader[r].path \in DOMAIN tree /\ IsArchive(Node(reader[r]))
  BY DEF IInv, Types, ReaderType, TreeType, ServingType, ReaderInv, Node

\* Where a read is: what it has read ends there, or where it has enough.
LEMMA ReadSoFar ==
  ASSUME NEW x, IsArchive(Node(x)), Progress(x), x.offset \in Nat, x.size \in Nat, x.inner \in Nat,
         NEW upto, upto = Start(Node(x), x.part) + x.inner,
         NEW end, end = IF upto <= x.offset + x.size THEN upto ELSE x.offset + x.size
  PROVE  /\ upto \in Nat /\ upto <= Len(Content(Node(x))) /\ Len(Content(Node(x))) \in Nat
         /\ Start(Node(x), x.part) \in Nat /\ x.offset <= upto
         /\ x.data = SubSeq(Content(Node(x)), x.offset + 1, end)
         /\ Len(x.data) = end - x.offset
         /\ x.part = Cardinality(Leading(Node(x))) =>
              x.inner = 0 /\ upto = Len(Content(Node(x)))
<1>. DEFINE arc == Node(x)
            K == Cardinality(Leading(arc))
            C == Content(arc)
            p == x.part
            N == Start(arc, p)
<1>1. /\ p \in 0 .. K /\ K \in Nat /\ x.offset <= upto
      /\ x.inner > 0 => p < K /\ x.inner < SizeOf[HashOf(arc, p)]
      /\ x.data = SubSeq(C, x.offset + 1, Min({upto, x.offset + x.size}))
  BY LeadingChunks DEF Progress
<1>2. N \in Nat /\ C \in Seq(AllBytes) /\ Len(C) = Start(arc, K) /\ Len(C) \in Nat
  BY <1>1, StartOfChunks, ContentBytes, LenProperties
<1>3. N <= Start(arc, K)
  <2>1. K \in p .. K
    BY <1>1
  <2>. QED BY <1>1, <2>1, StartsGrow
<1>4. upto \in Nat /\ upto <= Len(C)
  <2>1. CASE x.inner = 0
    BY <1>2, <1>3, <2>1
  <2>2. CASE x.inner > 0
    <3>1. p \in 0 .. K - 1 /\ p + 1 \in 0 .. K /\ K \in p + 1 .. K
      BY <1>1, <2>2
    <3>2. Start(arc, p + 1) = N + SizeOf[HashOf(arc, p)] /\ SizeOf[HashOf(arc, p)] \in Nat
      BY <3>1, StartOfChunks
    <3>3. Start(arc, p + 1) <= Start(arc, K)
      BY <3>1, StartsGrow
    <3>4. x.inner < SizeOf[HashOf(arc, p)]
      BY <1>1, <2>2
    <3>. HIDE DEF N, C, K, p, arc
    <3>5. upto = N + x.inner
      BY DEF N, p, arc
    <3>. QED BY <1>2, <3>2, <3>3, <3>4, <3>5
  <2>. QED BY <2>1, <2>2
<1>5. Min({upto, x.offset + x.size}) = end
  <2>1. upto \in Int /\ x.offset + x.size \in Int
    BY <1>4
  <2>. QED BY <2>1, MinOfTwo
<1>6. end \in Nat /\ x.offset <= end /\ end <= Len(C)
  BY <1>1, <1>2, <1>4
<1>7. x.data = SubSeq(C, x.offset + 1, end)
  BY <1>1, <1>5
<1>8. Len(SubSeq(C, x.offset + 1, end)) = end - x.offset
  <2>1. C \in Seq(AllBytes) /\ x.offset \in Nat
    BY <1>2
  <2>. HIDE DEF C
  <2>. QED BY ONLY <1>6, <2>1, Between
<1>9. ASSUME p = K PROVE x.inner = 0 /\ upto = Len(C)
  <2>1. x.inner = 0
    BY <1>1, <1>9
  <2>. QED BY <1>2, <1>9, <2>1
<1>. QED BY <1>1, <1>2, <1>4, <1>7, <1>8, <1>9

\* The process may end in the middle of reads.
LEMMA CrashStep ==
  ASSUME IInv, main.pc = "serve", main' = [main EXCEPT !.pc = "crashed"],
         UNCHANGED <<stored, cache, mutex, tree, reader, fetch, target>>
  PROVE  IInv'
<1>. USE DEF IInv, Types
<1>1. MainType' /\ main'.command = "mount" /\ main'.pc = "crashed"
  BY DEF MainType, ServingType
<1>2. StoreType' /\ TreeType' /\ ServingType'
  BY <1>1 DEF StoreType, TreeType, ServingType, Is
<1>3. ReaderType' /\ LockInv' /\ ReaderInv'
  BY ReadersStay
<1>4. CatInv' /\ VerifyInv'
  BY <1>1 DEF CatInv, VerifyInv, Is
<1>5. RestoreInv'
  BY <1>1 DEF RestoreInv
<1>. QED BY <1>1, <1>2, <1>3, <1>4, <1>5

\* A read begins at its offset.
LEMMA ReadStep ==
  ASSUME IInv, NEW r \in Readers, NEW p \in DOMAIN tree, NEW offset \in Offsets, NEW size \in Sizes,
         Read(r, p, offset, size)
  PROVE  IInv'
<1>. DEFINE arc == tree[p]
            first == ChunkForOffset(arc, offset)
            C == Content(arc)
            pc == CASE first.error = "none" -> "loop"
                    [] first.error = "EOF"  -> "done"
                    [] first.error = "seek" -> "failed"
            y == [pc |-> pc, path |-> p, offset |-> offset, size |-> size, part |-> first.num,
                  inner |-> first.inner, data |-> <<>>]
<1>1. /\ main.pc = "serve" /\ reader[r].pc = "idle" /\ reader' = [reader EXCEPT ![r] = y]
      /\ UNCHANGED <<stored, cache, mutex, main, tree, fetch, target>>
  BY DEF Read, At
<1>2. IsArchive(arc) /\ p \in Nodes /\ offset \in Nat /\ size \in Nat
  BY ReadingOK DEF IInv, Types, TreeType
<1>3. /\ first.error \in {"none", "EOF", "seek"} /\ first.num \in Nat /\ first.inner \in Nat
      /\ first.error = "none" =>
           /\ first.num \in 0 .. Cardinality(Leading(arc)) - 1
           /\ first.inner < SizeOf[HashOf(arc, first.num)]
           /\ Start(arc, first.num) + first.inner = offset
           /\ offset <= Len(C)
      /\ first.error # "none" => Len(C) <= offset
  BY <1>2, OffsetFound
<1>4. C \in Seq(AllBytes) /\ Len(C) \in Nat /\ Cardinality(Leading(arc)) \in Nat
  BY <1>2, ContentBytes, LenProperties, LeadingChunks
<1>5. pc \in {"loop", "done", "failed"} /\ (pc = "loop" <=> first.error = "none")
      /\ (pc = "done" => first.error # "none")
  BY <1>3
<1>6. /\ y.pc = pc /\ y.path = p /\ y.offset = offset /\ y.size = size /\ y.part = first.num
      /\ y.inner = first.inner /\ y.data = <<>> /\ Node(y) = arc
  BY DEF Node
<1>7. y \in [pc : {"idle", "loop", "lock", "load", "done", "failed"}, path : Nodes \cup {None},
             offset : Nat, size : Nat, part : Nat, inner : Nat, data : Seq(AllBytes)]
  BY <1>2, <1>3, <1>5, NoBytes
<1>. HIDE DEF pc, first, C, arc, y
<1>8. ASSUME pc = "loop" PROVE Progress(y)
  <2>1. first.error = "none"
    BY <1>5, <1>8
  <2>2. Start(arc, first.num) + first.inner = offset /\ offset <= Len(C)
        /\ first.num \in 0 .. Cardinality(Leading(arc)) - 1
        /\ first.inner < SizeOf[HashOf(arc, first.num)]
    BY <1>3, <2>1
  <2>3. Min({offset, offset + size}) = offset
    BY <1>2, MinOfTwo
  <2>4. SubSeq(C, offset + 1, offset) = <<>>
    <3>1. SubSeq(C, offset + 1, offset) \in Seq(AllBytes) /\ Len(SubSeq(C, offset + 1, offset)) = offset - offset
      BY <1>2, <1>4, <2>2, Between
    <3>2. Len(SubSeq(C, offset + 1, offset)) = 0
      BY <1>2, <3>1
    <3>. QED BY <3>1, <3>2, EmptySeq
  <2>5. first.num \in 0 .. Cardinality(Leading(arc)) /\ first.num < Cardinality(Leading(arc))
    BY <1>4, <2>2
  <2>6. Start(Node(y), y.part) + y.inner = offset
    BY <1>6, <2>2
  <2>7. y.data = SubSeq(Content(Node(y)), y.offset + 1, Min({offset, y.offset + y.size}))
    BY <1>6, <2>3, <2>4 DEF C
  <2>8. y.inner > 0 => y.part < Cardinality(Leading(Node(y))) /\ y.inner < SizeOf[HashOf(Node(y), y.part)]
    BY <1>6, <2>2, <2>5
  <2>9. y.part \in 0 .. Cardinality(Leading(Node(y))) /\ y.offset <= offset
    BY <1>2, <1>6, <2>5
  <2>. QED BY <2>6, <2>7, <2>8, <2>9 DEF Progress
<1>9. ASSUME pc = "done" PROVE Exact(y)
  <2>1. Len(C) <= offset
    BY <1>3, <1>5, <1>9
  <2>2. Min({offset + size, Len(C)}) = Len(C)
    <3>1. offset + size \in Int /\ Len(C) \in Int /\ (offset + size <= Len(C) => offset + size = Len(C))
      BY <1>2, <1>4, <2>1
    <3>. QED BY <3>1, MinOfTwo
  <2>3. SubSeq(C, offset + 1, Len(C)) = <<>>
    <3>1. offset + 1 > Len(C) /\ offset + 1 \in Int /\ Len(C) \in Int
      BY <1>2, <1>4, <2>1
    <3>. QED BY <3>1, SubSeqEmpty
  <2>. QED BY <1>6, <2>2, <2>3 DEF Exact, C
<1>10. InOrder(y)
  <2>1. Len(y.data) <= y.size
    BY <1>2, <1>6, NoBytes
  <2>. QED BY <1>5, <1>6, <1>8, <1>9, <2>1 DEF InOrder
<1>11. StoreType'
  BY <1>1 DEF IInv, Types, StoreType
<1>12. LockInv'
  <2>1. \A s \in Readers : Using(s)' => Using(s)
    BY <1>1, <1>5, <1>6 DEF Using, IInv, Types, ReaderType
  <2>2. \A s \in Readers : HoldsOn(s)' => HoldsOn(s)
    BY <1>1 DEF HoldsOn
  <2>. QED BY <1>1, <2>1, <2>2, NobodyMore DEF IInv
<1>13. fetch' \in [Readers -> [pc : {"none", "lock", "load", "end", "failed"},
                              path : Nodes \cup {None}, part : Nat]]
  BY <1>1 DEF IInv, Types, ReaderType
<1>. QED BY <1>1, <1>6, <1>7, <1>10, <1>11, <1>12, <1>13, OneReader

\* A read that has enough, or has come to the end, has exactly what it is about.
LEMMA EndStep ==
  ASSUME IInv, NEW r \in Readers, ReadEnough(r) \/ ReadToEnd(r)
  PROVE  IInv'
<1>. DEFINE x == reader[r]
            y == [reader[r] EXCEPT !.pc = "done"]
            arc == Node(x)
            C == Content(arc)
            upto == Start(arc, x.part) + x.inner
            end == IF upto <= x.offset + x.size THEN upto ELSE x.offset + x.size
<1>1. /\ main.pc = "serve" /\ x.pc = "loop" /\ reader' = [reader EXCEPT ![r] = y]
      /\ UNCHANGED <<stored, cache, mutex, main, tree, target>>
      /\ Len(x.data) >= x.size \/ x.part >= Len(arc.chunks)
  BY DEF ReadEnough, ReadToEnd, At
<1>2. /\ x \in [pc : {"idle", "loop", "lock", "load", "done", "failed"}, path : Nodes \cup {None},
                offset : Nat, size : Nat, part : Nat, inner : Nat, data : Seq(AllBytes)]
      /\ InOrder(x) /\ x.path \in DOMAIN tree /\ IsArchive(arc)
  BY <1>1, TheReader
<1>3. Progress(x) /\ Len(x.data) <= x.size
  BY <1>1, <1>2 DEF InOrder
<1>4. x.offset \in Nat /\ x.size \in Nat /\ x.inner \in Nat /\ x.part \in Nat
  BY <1>2
<1>5. /\ upto \in Nat /\ upto <= Len(C) /\ Len(C) \in Nat /\ x.offset <= upto
      /\ x.data = SubSeq(C, x.offset + 1, end) /\ Len(x.data) = end - x.offset
      /\ x.part = Cardinality(Leading(arc)) => upto = Len(C)
  <2>1. /\ arc = Node(x) /\ C = Content(Node(x)) /\ upto = Start(Node(x), x.part) + x.inner
        /\ end = IF upto <= x.offset + x.size THEN upto ELSE x.offset + x.size
    OBVIOUS
  <2>. HIDE DEF x, arc, C, upto, end
  <2>2. IsArchive(Node(x))
    BY <1>2, <2>1
  <2>. QED BY <1>3, <1>4, <2>1, <2>2, ReadSoFar
<1>6. end = Min({x.offset + x.size, Len(C)})
  <2>1. x.part >= Len(arc.chunks) => x.part = Cardinality(Leading(arc))
    BY <1>2, <1>3, <1>4, LeadingChunks DEF Progress
  <2>2. Min({x.offset + x.size, Len(C)}) = IF x.offset + x.size <= Len(C) THEN x.offset + x.size ELSE Len(C)
    <3>1. x.offset + x.size \in Int /\ Len(C) \in Int
      BY <1>4, <1>5
    <3>. QED BY <3>1, MinOfTwo
  <2>. HIDE DEF C, arc
  <2>3. CASE Len(x.data) >= x.size
    <3>1. end - x.offset >= x.size
      BY <1>5, <2>3
    <3>. HIDE DEF upto, x
    <3>2. end = x.offset + x.size /\ x.offset + x.size <= Len(C)
      BY <1>4, <1>5, <3>1
    <3>. QED BY <2>2, <3>2
  <2>4. CASE x.part >= Len(arc.chunks)
    <3>1. upto = Len(C)
      BY <1>5, <2>1, <2>4
    <3>. HIDE DEF upto, x
    <3>. QED BY <1>4, <1>5, <2>2, <3>1
  <2>. QED BY <1>1, <2>3, <2>4
<1>7. y \in [pc : {"idle", "loop", "lock", "load", "done", "failed"}, path : Nodes \cup {None},
             offset : Nat, size : Nat, part : Nat, inner : Nat, data : Seq(AllBytes)]
  BY <1>2
<1>8. /\ y.pc = "done" /\ y.path = x.path /\ y.offset = x.offset /\ y.size = x.size
      /\ y.data = x.data /\ Node(y) = arc
  BY <1>2 DEF Node
<1>. HIDE DEF x, y, arc, C, upto, end
<1>9. InOrder(y)
  <2>1. Exact(y)
    BY <1>5, <1>6, <1>8 DEF Exact, C
  <2>. QED BY <1>3, <1>8, <2>1 DEF InOrder
<1>10. fetch' \in [Readers -> [pc : {"none", "lock", "load", "end", "failed"},
                               path : Nodes \cup {None}, part : Nat]]
  <2>1. fetch \in [Readers -> [pc : {"none", "lock", "load", "end", "failed"},
                               path : Nodes \cup {None}, part : Nat]]
    BY DEF IInv, Types, ReaderType
  <2>2. CASE ReadEnough(r)
    <3>1. PICK pc \in {"lock", "end"} : fetch' = [fetch EXCEPT ![r] = [pc |-> pc, path |-> x.path, part |-> x.part]]
      BY <2>2 DEF ReadEnough, x
    <3>2. [pc |-> pc, path |-> x.path, part |-> x.part] \in
            [pc : {"none", "lock", "load", "end", "failed"}, path : Nodes \cup {None}, part : Nat]
      BY <1>2, <1>4
    <3>. QED BY <2>1, <3>1, <3>2
  <2>3. CASE ReadToEnd(r)
    BY <2>1, <2>3 DEF ReadToEnd
  <2>. QED BY <2>2, <2>3
<1>11. StoreType'
  BY <1>1 DEF IInv, Types, StoreType
<1>12. LockInv'
  <2>1. \A s \in Readers : Using(s)' => Using(s)
    BY <1>1, <1>8 DEF Using, IInv, Types, ReaderType
  <2>2. \A s \in Readers : HoldsOn(s)' => HoldsOn(s)
    <3>1. CASE ReadEnough(r)
      <4>1. PICK pc \in {"lock", "end"} : fetch' = [fetch EXCEPT ![r] = [pc |-> pc, path |-> x.path, part |-> x.part]]
        BY <3>1 DEF ReadEnough, x
      <4>2. \A s \in Readers : fetch'[s] = fetch[s] \/ fetch'[s].pc = pc
        BY <4>1 DEF IInv, Types, ReaderType
      <4>. QED BY <4>2 DEF HoldsOn
    <3>2. CASE ReadToEnd(r)
      BY <3>2 DEF ReadToEnd, HoldsOn
    <3>. QED BY <3>1, <3>2
  <2>. QED BY <1>1, <2>1, <2>2, NobodyMore DEF IInv
<1>. QED BY <1>1, <1>2, <1>7, <1>8, <1>9, <1>10, <1>11, <1>12, OneReader

\* How far a read has come does not depend on what it waits for.
LEMMA SameProgress ==
  ASSUME NEW x, NEW y, y.path = x.path, y.part = x.part, y.inner = x.inner, y.offset = x.offset,
         y.size = x.size, y.data = x.data
  PROVE  Node(y) = Node(x) /\ (Progress(x) => Progress(y))
  BY DEF Progress, Node

\* A read wants its next chunk, and gets the mutex when nobody has it.
LEMMA WantStep ==
  ASSUME IInv, NEW r \in Readers, ReadChunk(r) \/ Lock(r)
  PROVE  IInv'
<1>. DEFINE x == reader[r]
<1>1. /\ x \in [pc : {"idle", "loop", "lock", "load", "done", "failed"}, path : Nodes \cup {None},
                offset : Nat, size : Nat, part : Nat, inner : Nat, data : Seq(AllBytes)]
      /\ InOrder(x) /\ main.pc = "serve" /\ x.pc \in {"loop", "lock"} /\ x.path \in DOMAIN tree
      /\ UNCHANGED <<stored, cache, tree, fetch, target>>
  BY TheReader DEF ReadChunk, Lock, At
<1>2. Progress(x) /\ Len(x.data) <= x.size
  BY <1>1 DEF InOrder
<1>3. StoreType' /\ fetch' \in [Readers -> [pc : {"none", "lock", "load", "end", "failed"},
                                            path : Nodes \cup {None}, part : Nat]]
  <2>1. mutex' \in BOOLEAN
    BY DEF ReadChunk, Lock, IInv, Types, StoreType
  <2>. QED BY <1>1, <2>1 DEF IInv, Types, StoreType, ReaderType
<1>4. CASE ReadChunk(r) /\ ~HasChunk(Node(x), x.part)
  <2>1. main' = [main EXCEPT !.pc = "crashed"] /\ UNCHANGED <<mutex, reader>>
    BY <1>4 DEF ReadChunk
  <2>. QED BY <1>1, <2>1, CrashStep
<1>5. CASE ReadChunk(r) /\ HasChunk(Node(x), x.part)
  <2>. DEFINE y == [reader[r] EXCEPT !.pc = "lock"]
  <2>1. /\ UNCHANGED <<main, mutex>> /\ reader' = [reader EXCEPT ![r] = y]
        /\ Len(x.data) < x.size /\ x.part < Len(Node(x).chunks)
    BY <1>5 DEF ReadChunk
  <2>2. /\ y.pc = "lock" /\ y.path = x.path /\ y.offset = x.offset /\ y.size = x.size
        /\ y.part = x.part /\ y.inner = x.inner /\ y.data = x.data
        /\ y \in [pc : {"idle", "loop", "lock", "load", "done", "failed"}, path : Nodes \cup {None},
                  offset : Nat, size : Nat, part : Nat, inner : Nat, data : Seq(AllBytes)]
    BY <1>1
  <2>. HIDE DEF x, y
  <2>3. Node(y) = Node(x) /\ Progress(y)
    BY <1>2, <2>2, SameProgress
  <2>4. InOrder(y)
    BY <1>2, <1>5, <2>1, <2>2, <2>3 DEF InOrder
  <2>5. LockInv'
    <3>1. \A s \in Readers : Using(s)' => Using(s)
      BY <2>1, <2>2 DEF Using, IInv, Types, ReaderType
    <3>2. \A s \in Readers : HoldsOn(s)' => HoldsOn(s)
      BY <1>1 DEF HoldsOn
    <3>. QED BY <2>1, <3>1, <3>2, NobodyMore DEF IInv
  <2>. QED BY <1>1, <1>3, <2>1, <2>2, <2>4, <2>5, OneReader
<1>6. CASE Lock(r)
  <2>. DEFINE y == [reader[r] EXCEPT !.pc = "load"]
  <2>1. /\ main' = main /\ ~mutex /\ mutex' = TRUE /\ reader' = [reader EXCEPT ![r] = y] /\ x.pc = "lock"
    BY <1>6 DEF Lock, At
  <2>2. /\ y.pc = "load" /\ y.path = x.path /\ y.offset = x.offset /\ y.size = x.size
        /\ y.part = x.part /\ y.inner = x.inner /\ y.data = x.data
        /\ y \in [pc : {"idle", "loop", "lock", "load", "done", "failed"}, path : Nodes \cup {None},
                  offset : Nat, size : Nat, part : Nat, inner : Nat, data : Seq(AllBytes)]
    BY <1>1
  <2>. HIDE DEF x, y
  <2>3. Node(y) = Node(x) /\ Progress(y)
    BY <1>2, <2>2, SameProgress
  <2>4. InOrder(y)
    BY <1>1, <1>2, <2>1, <2>2, <2>3 DEF InOrder
  <2>5. LockInv'
    <3>1. \A s \in Readers : ~Using(s) /\ ~HoldsOn(s)
      BY <2>1 DEF IInv, LockInv
    <3>2. \A s \in Readers : s # r => ~Using(s)'
      BY <2>1, <3>1 DEF Using, IInv, Types, ReaderType
    <3>3. \A s \in Readers : ~HoldsOn(s)'
      BY <1>1, <3>1 DEF HoldsOn
    <3>. QED BY <2>1, <3>2, <3>3 DEF LockInv
  <2>. QED BY <1>1, <1>3, <2>1, <2>2, <2>4, <2>5, OneReader
<1>. QED BY <1>4, <1>5, <1>6

\* What is loaded of a chunk is what was stored.
LEMMA LoadedIsStored ==
  ASSUME StoreType, NEW h \in Hashes, Loaded(h) # None
  PROVE  Loaded(h) = Bytes(h)
  BY DEF StoreType, Loaded, decodeChunk

\* The cache keeps what was loaded.
LEMMA CacheKeeps ==
  ASSUME StoreType, NEW h, Loaded(h) # None, cache' = [cache EXCEPT ![h] = Loaded(h)],
         stored' = stored, mutex' \in BOOLEAN
  PROVE  StoreType'
<1>1. DOMAIN cache = Hashes
  BY DEF StoreType
<1>2. cache' = [k \in Hashes |-> IF k = h THEN Loaded(h) ELSE cache[k]]
  BY DEF StoreType
<1>3. ASSUME NEW k \in Hashes PROVE cache'[k] \in {None, Bytes(k)}
  <2>1. CASE k = h
    <3>1. Loaded(k) = Bytes(k)
      BY <2>1, LoadedIsStored
    <3>. QED BY <1>2, <2>1, <3>1
  <2>2. CASE k # h
    BY <1>2, <2>2 DEF StoreType
  <2>. QED BY <2>1, <2>2
<1>4. cache' = [k \in Hashes |-> cache'[k]]
  BY <1>2
<1>. QED BY <1>3, <1>4 DEF StoreType

\* Who has the mutex gives it back.
LEMMA GiveBack ==
  ASSUME LockInv, NEW r \in Readers, Using(r) \/ HoldsOn(r),
         \A s \in Readers : (Using(s)' => Using(s)) /\ (HoldsOn(s)' => HoldsOn(s)),
         Using(r) => ~Using(r)', HoldsOn(r) => ~HoldsOn(r)'
  PROVE  LockInv'
<1>1. \A s \in Readers : ~Using(s)' /\ ~HoldsOn(s)'
  BY DEF LockInv
<1>. QED BY <1>1 DEF LockInv

\* A read takes its part of the chunk, and goes on behind it.
LEMMA LoadStep ==
  ASSUME IInv, NEW r \in Readers, Load(r)
  PROVE  IInv'
<1>. DEFINE x == reader[r]
            arc == Node(x)
            n == x.part
            h == HashOf(arc, n)
            upto == Start(arc, n) + x.inner
            end == IF upto <= x.offset + x.size THEN upto ELSE x.offset + x.size
            C == Content(arc)
            y == [reader[r] EXCEPT !.pc = "loop", !.part = reader[r].part + 1, !.inner = 0,
                                   !.data = Taken(reader[r], Loaded(h))]
<1>1. /\ main.pc = "serve" /\ x.pc = "load" /\ Loaded(h) # None /\ x.inner < SizeOf[h]
      /\ cache' = [cache EXCEPT ![h] = Loaded(h)] /\ mutex' = FALSE
      /\ reader' = [reader EXCEPT ![r] = y]
      /\ UNCHANGED <<stored, main, tree, fetch, target>>
  BY DEF Load, At, HashFor
<1>2. /\ x \in [pc : {"idle", "loop", "lock", "load", "done", "failed"}, path : Nodes \cup {None},
                offset : Nat, size : Nat, part : Nat, inner : Nat, data : Seq(AllBytes)]
      /\ InOrder(x) /\ x.path \in DOMAIN tree /\ IsArchive(arc)
  BY <1>1, TheReader
<1>3. Progress(x) /\ Len(x.data) < x.size /\ n < Len(arc.chunks) /\ HasChunk(arc, n)
  BY <1>1, <1>2 DEF InOrder
<1>4. x.offset \in Nat /\ x.size \in Nat /\ x.inner \in Nat /\ n \in Nat
  BY <1>2
<1>5. StoreType /\ StoreType'
  <2>1. StoreType /\ mutex' \in BOOLEAN
    BY <1>1 DEF IInv, Types
  <2>. HIDE DEF h
  <2>. QED BY <1>1, <2>1, CacheKeeps
<1>6. h \in Hashes
  BY <1>2, <1>3, ChunkFound
<1>7. Loaded(h) = Bytes(h)
  BY <1>1, <1>5, <1>6, LoadedIsStored
<1>8. n \in 0 .. Cardinality(Leading(arc)) - 1
  BY <1>2, <1>3, <1>4, LeadingChunks DEF Progress
<1>9. /\ upto \in Nat /\ upto <= Len(C) /\ Len(C) \in Nat /\ x.offset <= upto
      /\ x.data = SubSeq(C, x.offset + 1, end) /\ Len(x.data) = end - x.offset
  <2>1. /\ arc = Node(x) /\ C = Content(Node(x)) /\ upto = Start(Node(x), x.part) + x.inner
        /\ end = IF upto <= x.offset + x.size THEN upto ELSE x.offset + x.size
    OBVIOUS
  <2>. HIDE DEF x, arc, C, upto, end
  <2>2. IsArchive(Node(x))
    BY <1>2, <2>1
  <2>. QED BY <1>3, <1>4, <2>1, <2>2, ReadSoFar
<1>10. upto < x.offset + x.size /\ end = upto
  <2>1. end - x.offset < x.size
    BY <1>3, <1>9
  <2>. HIDE DEF upto, x
  <2>. QED BY <1>4, <1>9, <2>1
<1>11. /\ Start(arc, n) \in Nat /\ Start(arc, n + 1) \in Nat /\ SizeOf[h] \in Nat
       /\ Start(arc, n + 1) = Start(arc, n) + SizeOf[h]
  <2>1. n \in 0 .. Cardinality(Leading(arc)) /\ n + 1 \in 0 .. Cardinality(Leading(arc))
    BY <1>2, <1>8, LeadingChunks
  <2>. QED BY <1>2, <1>8, <2>1, StartOfChunks
<1>12. y.data = SubSeq(C, x.offset + 1, Min({Start(arc, n + 1), x.offset + x.size}))
  <2>1. y.data = Taken(x, Bytes(h))
    BY <1>2, <1>7
  <2>2. x.inner \in 0 .. SizeOf[HashOf(arc, n)] - 1
    BY <1>1, <1>4, <1>11
  <2>3. x.data = SubSeq(Content(arc), x.offset + 1, Start(arc, n) + x.inner)
    BY <1>9, <1>10
  <2>4. x.offset <= Start(arc, n) + x.inner /\ Start(arc, n) + x.inner < x.offset + x.size
    BY <1>9, <1>10
  <2>5. h = HashOf(arc, n) /\ C = Content(arc)
    OBVIOUS
  <2>6. IsArchive(arc) /\ x.offset \in Nat /\ x.size \in Nat
    BY <1>2, <1>4
  <2>. HIDE DEF x, arc, n, y, h, upto, end, C
  <2>7. Taken(x, Bytes(HashOf(arc, n))) =
          SubSeq(Content(arc), x.offset + 1, Min({Start(arc, n + 1), x.offset + x.size}))
    BY ONLY <1>8, <2>2, <2>3, <2>4, <2>6, TakenIsExact
  <2>. QED BY <2>1, <2>5, <2>7
<1>13. /\ y.pc = "loop" /\ y.path = x.path /\ y.offset = x.offset /\ y.size = x.size
       /\ y.part = n + 1 /\ y.inner = 0 /\ Node(y) = arc
  BY <1>2 DEF Node
<1>14. /\ Start(arc, n + 1) <= Len(C) /\ x.offset <= Start(arc, n + 1) /\ C \in Seq(AllBytes)
       /\ n + 1 \in 0 .. Cardinality(Leading(arc))
  <2>1. n + 1 \in 0 .. Cardinality(Leading(arc))
        /\ Cardinality(Leading(arc)) \in n + 1 .. Cardinality(Leading(arc))
    BY <1>2, <1>8, LeadingChunks
  <2>2. Start(arc, n + 1) <= Start(arc, Cardinality(Leading(arc)))
    BY <1>2, <2>1, StartsGrow
  <2>3. upto = Start(arc, n) + x.inner /\ C = Content(arc)
    OBVIOUS
  <2>. HIDE DEF x, arc, n, C, upto
  <2>4. x.offset <= Start(arc, n + 1)
    BY <1>1, <1>4, <1>9, <1>11, <2>3
  <2>. QED BY <1>2, <2>1, <2>2, <2>3, <2>4, ContentBytes
<1>. HIDE DEF x, arc, n, h, upto, end, C, y
<1>15. /\ y.data \in Seq(AllBytes) /\ Len(y.data) <= x.size
  <2>. DEFINE to == IF Start(arc, n + 1) <= x.offset + x.size THEN Start(arc, n + 1) ELSE x.offset + x.size
  <2>1. Min({Start(arc, n + 1), x.offset + x.size}) = to
    <3>1. Start(arc, n + 1) \in Int /\ x.offset + x.size \in Int
      BY <1>4, <1>11
    <3>. QED BY <3>1, MinOfTwo
  <2>2. to \in Nat /\ x.offset <= to /\ to <= Len(C) /\ to - x.offset <= x.size
    BY <1>4, <1>9, <1>11, <1>14
  <2>. HIDE DEF to
  <2>3. SubSeq(C, x.offset + 1, to) \in Seq(AllBytes) /\ Len(SubSeq(C, x.offset + 1, to)) = to - x.offset
    BY <1>4, <1>14, <2>2, Between
  <2>. QED BY <1>12, <2>1, <2>2, <2>3
<1>16. y \in [pc : {"idle", "loop", "lock", "load", "done", "failed"}, path : Nodes \cup {None},
              offset : Nat, size : Nat, part : Nat, inner : Nat, data : Seq(AllBytes)]
  <2>1. Taken(reader[r], Loaded(h)) \in Seq(AllBytes)
    BY <1>2, <1>15 DEF x, y
  <2>2. reader[r].part + 1 \in Nat
    BY <1>4 DEF x, n
  <2>. QED BY <1>2, <2>1, <2>2 DEF x, y
<1>17. Progress(y)
  <2>1. y.part \in 0 .. Cardinality(Leading(Node(y)))
    BY <1>13, <1>14
  <2>2. Start(Node(y), y.part) + y.inner = Start(arc, n + 1)
    BY <1>11, <1>13
  <2>3. y.offset <= Start(arc, n + 1)
    BY <1>13, <1>14
  <2>4. y.data = SubSeq(Content(Node(y)), y.offset + 1, Min({Start(arc, n + 1), y.offset + y.size}))
    BY <1>12, <1>13 DEF C
  <2>5. ~ (y.inner > 0)
    BY <1>13
  <2>. QED BY <2>1, <2>2, <2>3, <2>4, <2>5 DEF Progress
<1>18. InOrder(y)
  BY <1>13, <1>15, <1>17 DEF InOrder
<1>19. LockInv'
  <2>1. LockInv /\ Using(r)
    BY <1>1 DEF IInv, Using, x
  <2>2. ~Using(r)' /\ \A s \in Readers : Using(s)' => Using(s)
    BY <1>1, <1>13 DEF Using, IInv, Types, ReaderType
  <2>3. \A s \in Readers : HoldsOn(s)' => HoldsOn(s)
    BY <1>1 DEF HoldsOn
  <2>4. ~HoldsOn(r)
    BY <2>1 DEF LockInv
  <2>. QED BY <2>1, <2>2, <2>3, <2>4, GiveBack
<1>20. fetch' \in [Readers -> [pc : {"none", "lock", "load", "end", "failed"},
                               path : Nodes \cup {None}, part : Nat]]
  BY <1>1 DEF IInv, Types, ReaderType
<1>. QED BY <1>1, <1>2, <1>5, <1>13, <1>16, <1>18, <1>19, <1>20, OneReader

\* Chunks are fetched ahead.
LEMMA FetchStep ==
  ASSUME IInv, NEW r \in Readers, Fetch(r)
  PROVE  IInv'
<1>1. /\ main.pc = "serve" /\ UNCHANGED <<stored, main, tree, reader, target>>
  BY DEF Fetch, FetchLock, FetchLoad, FetchFails, Fetching
<1>2. /\ fetch \in [Readers -> [pc : {"none", "lock", "load", "end", "failed"},
                                path : Nodes \cup {None}, part : Nat]]
      /\ StoreType /\ LockInv /\ ReaderType /\ ReaderInv
  BY DEF IInv, Types, ReaderType
<1>3. PICK pc \in {"load", "end", "failed"} : fetch' = [fetch EXCEPT ![r].pc = pc]
  BY DEF Fetch, FetchLock, FetchLoad, FetchFails
<1>4. fetch' \in [Readers -> [pc : {"none", "lock", "load", "end", "failed"},
                              path : Nodes \cup {None}, part : Nat]]
  BY <1>2, <1>3
<1>5. ReaderType' /\ ReaderInv' /\ \A s \in Readers : Using(s)' = Using(s)
  BY <1>1, <1>2, <1>4 DEF ReaderType, ReaderInv, InOrder, Progress, Exact, Node, Using
<1>6. fetch'[r].pc = pc /\ \A s \in Readers : s # r => fetch'[s] = fetch[s]
  BY <1>2, <1>3
<1>7. StoreType' /\ LockInv'
  <2>1. CASE FetchLock(r)
    <3>1. ~mutex /\ mutex' = TRUE /\ cache' = cache
      BY <2>1 DEF FetchLock
    <3>2. \A s \in Readers : ~Using(s) /\ ~HoldsOn(s)
      BY <1>2, <3>1 DEF LockInv
    <3>3. \A s \in Readers : ~Using(s)'
      BY <1>5, <3>2
    <3>4. \A s \in Readers : s # r => ~HoldsOn(s)'
      BY <1>6, <3>2 DEF HoldsOn
    <3>. QED BY <1>1, <1>2, <3>1, <3>3, <3>4 DEF LockInv, StoreType
  <2>2. CASE FetchLoad(r)
    <3>. DEFINE h == HashFor(fetch[r])
    <3>1. /\ fetch[r].pc = "load" /\ Loaded(h) # None /\ cache' = [cache EXCEPT ![h] = Loaded(h)]
          /\ mutex' = FALSE /\ fetch' = [fetch EXCEPT ![r].pc = "end"]
      BY <2>2 DEF FetchLoad, Fetching
    <3>. HIDE DEF h
    <3>2. StoreType'
      BY <1>1, <1>2, <3>1, CacheKeeps
    <3>3. HoldsOn(r) /\ ~HoldsOn(r)'
      BY <1>2, <3>1 DEF HoldsOn
    <3>4. \A s \in Readers : HoldsOn(s)' => HoldsOn(s)
      BY <1>6, <3>3 DEF HoldsOn
    <3>5. ~Using(r)
      BY <1>2, <3>3 DEF LockInv
    <3>. QED BY <1>2, <1>5, <3>2, <3>3, <3>4, <3>5, GiveBack
  <2>3. CASE FetchFails(r)
    <3>1. fetch[r].pc = "load" /\ UNCHANGED <<mutex, cache>>
      BY <2>3 DEF FetchFails, Fetching
    <3>2. \A s \in Readers : HoldsOn(s)' => HoldsOn(s)
      BY <1>6, <3>1 DEF HoldsOn
    <3>3. LockInv'
      BY <1>2, <1>5, <3>1, <3>2, NobodyMore
    <3>. QED BY <1>1, <1>2, <3>1, <3>3 DEF StoreType
  <2>. QED BY <2>1, <2>2, <2>3 DEF Fetch
<1>8. \A s \in Readers : reader'[s].pc # "idle" => reader'[s].path \in DOMAIN tree
  BY <1>1 DEF IInv, Types, ServingType
<1>. QED BY <1>1, <1>5, <1>7, <1>8, ServingStep

-----------------------------------------------------------------------------
(* The theorems.                                                           *)

\* Every step keeps the invariant.
LEMMA StepInv == IInv /\ [Next]_vars => IInv'
<1>. SUFFICES ASSUME IInv, [Next]_vars PROVE IInv'
  OBVIOUS
<1>1. CASE Restore
  BY <1>1, RestoreStep
<1>2. CASE Cat
  BY <1>2, CatStep
<1>3. CASE Verify
  BY <1>3, VerifyStep
<1>4. CASE Mount
  <2>1. CASE BeginMount \/ Serve \/ \E p \in main.todo : node(p)
    BY <2>1, MountStep
  <2>2. ASSUME NEW r \in Readers, NEW p \in DOMAIN tree, NEW offset \in Offsets, NEW size \in Sizes,
               Read(r, p, offset, size)
        PROVE  IInv'
    BY <2>2, ReadStep
  <2>3. ASSUME NEW r \in Readers, ReadOn(r) PROVE IInv'
    <3>1. CASE ReadEnough(r) \/ ReadToEnd(r)
      BY <3>1, EndStep
    <3>2. CASE ReadChunk(r) \/ Lock(r)
      BY <3>2, WantStep
    <3>3. CASE Load(r)
      BY <3>3, LoadStep
    <3>4. CASE LoadFails(r)
      <4>1. /\ main.pc = "serve" /\ main' = [main EXCEPT !.pc = "crashed"]
            /\ UNCHANGED <<stored, cache, mutex, tree, reader, fetch, target>>
        BY <3>4 DEF LoadFails, At
      <4>. QED BY <4>1, CrashStep
    <3>. QED BY <2>3, <3>1, <3>2, <3>3, <3>4 DEF ReadOn
  <2>4. ASSUME NEW r \in Readers, Fetch(r) PROVE IInv'
    BY <2>4, FetchStep
  <2>. QED BY <1>4, <2>1, <2>2, <2>3, <2>4 DEF Mount
<1>5. CASE UNCHANGED vars
  <2>1. UNCHANGED <<stored, cache, mutex, main, tree, reader, fetch, target>>
    BY <1>5 DEF vars
  <2>2. ReaderType' /\ LockInv' /\ ReaderInv'
    BY <2>1, ReadersStay DEF IInv, Types
  <2>3. CatInv' /\ RestoreInv' /\ VerifyInv'
    BY <2>1, CommandsStay DEF IInv
  <2>4. MainType' /\ StoreType' /\ TreeType' /\ ServingType'
    BY <2>1 DEF IInv, Types, MainType, StoreType, TreeType, ServingType, Is, Snapshot
  <2>. QED BY <2>2, <2>3, <2>4 DEF IInv, Types
<1>. QED BY <1>1, <1>2, <1>3, <1>4, <1>5 DEF Next

\* The invariant holds in every state.
LEMMA Invariant == Spec => []IInv
<1>1. Init => IInv
  BY InitInv
<1>2. IInv /\ [Next]_vars => IInv'
  BY StepInv
<1>. QED BY <1>1, <1>2, PTL DEF Spec

\* The state of restore, cat, verify and mount has its type, and no read returns
\* more than it was asked for (ReadArchive).
THEOREM TypeCorrect == Spec => []TypeOK
<1>1. IInv => TypeOK
  <2>. SUFFICES ASSUME IInv PROVE TypeOK
    OBVIOUS
  <2>1. MainType /\ StoreType /\ ReaderType /\ TreeType /\ RestoreInv /\ ReaderInv
    BY DEF IInv, Types
  <2>2. stored \in [Hashes -> {"good", "rotten", "gone"}] /\ mutex \in BOOLEAN /\ DOMAIN cache = Hashes
    BY <2>1 DEF StoreType
  <2>3. DOMAIN target = Paths
    BY <2>1 DEF RestoreInv
  <2>4. main.pc \in {"begin", "next", "chunks", "verify", "index", "serve"} \/ Over
    BY <2>1 DEF MainType, Over
  <2>5. ASSUME NEW r \in Readers
        PROVE  /\ reader[r].pc \in {"idle", "loop", "lock", "load", "done", "failed"}
               /\ Len(reader[r].data) <= reader[r].size
               /\ fetch[r].pc \in {"none", "lock", "load", "end", "failed"}
    BY <2>1 DEF ReaderType, ReaderInv, InOrder
  <2>. QED BY <2>1, <2>2, <2>3, <2>4, <2>5 DEF TypeOK, TreeType, Nodes
<1>. QED BY <1>1, Invariant, PTL

\* A set in which all are equal has at most one element.
LEMMA AtMostOne ==
  ASSUME NEW S, \A x, y \in S : x = y
  PROVE  (S = {} /\ Cardinality(S) = 0) \/ (S # {} /\ Cardinality(S) = 1)
<1>1. CASE S = {}
  BY <1>1, FS_EmptySet
<1>2. CASE S # {}
  <2>1. PICK x \in S : S = {x}
    BY <1>2
  <2>. QED BY <1>2, <2>1, FS_Singleton
<1>. QED BY <1>1, <1>2

\* However many goroutines read and fetch, one at a time uses the cache, and it
\* holds what was stored (readArchiveChunk and loadChunk under the mutex).
THEOREM CacheIsCorrect == Spec => []CacheIsTrue
<1>1. IInv => CacheIsTrue
  <2>. SUFFICES ASSUME IInv PROVE CacheIsTrue
    OBVIOUS
  <2>. DEFINE U == {r \in Readers : reader[r].pc = "load"}
              H == {r \in Readers : fetch[r].pc \in {"load", "failed"}}
  <2>1. LockInv /\ StoreType
    BY DEF IInv, Types
  <2>2. /\ \A r, s \in U : r = s
        /\ \A r, s \in H : r = s
        /\ U = {} \/ H = {}
    BY <2>1 DEF LockInv, Using, HoldsOn
  <2>3. /\ (U = {} /\ Cardinality(U) = 0) \/ (U # {} /\ Cardinality(U) = 1)
        /\ (H = {} /\ Cardinality(H) = 0) \/ (H # {} /\ Cardinality(H) = 1)
    BY <2>2, AtMostOne
  <2>. HIDE DEF U, H
  <2>4. Cardinality(U) + Cardinality(H) <= 1
    BY <2>2, <2>3
  <2>5. \A h \in Hashes : cache[h] \in {None, Bytes(h)}
    BY <2>1 DEF StoreType
  <2>. QED BY <2>4, <2>5 DEF CacheIsTrue, U, H
<1>. QED BY <1>1, Invariant, PTL

\* A read returns the bytes of the archive from its offset, as many as it asks
\* for or as there are, whatever the chunks, their order, and the other reads
\* (ReadArchive, with the chunk that ChunkForOffset has found).
THEOREM ReadsAreCorrect == Spec => []ReadsAreExact
<1>1. IInv => ReadsAreExact
  BY DEF IInv, ReaderInv, InOrder, Exact, ReadsAreExact
<1>. QED BY <1>1, Invariant, PTL

\* What restore and cat produce without an error is the content of the archive
\* (DecodeArchive and DecodeArchiveData).
THEOREM DecodingIsExact == Spec => []DecodedIsExact
<1>1. IInv => DecodedIsExact
  BY DEF IInv, RestoreInv, CatInv, DecodedIsExact, Is
<1>. QED BY <1>1, Invariant, PTL

\* If there is a chunk for every number, every chunk is the one of a number:
\* verify, which looks for chunks by their numbers, leaves out none.
LEMMA AllFound ==
  ASSUME NEW arc, IsArchive(arc), \A n \in Numbers(arc) : HasChunk(arc, n),
         NEW k \in DOMAIN arc.chunks
  PROVE  \E n \in Numbers(arc) : IndexOfChunk(arc, n) = k
<1>. DEFINE L == Len(arc.chunks)
            f == [n \in 0 .. L - 1 |-> IndexOfChunk(arc, n)]
<1>1. L \in Nat /\ DOMAIN arc.chunks = 1 .. L
  BY LenProperties DEF IsArchive
<1>2. Numbers(arc) = 0 .. L - 1
  BY DEF Numbers
<1>3. \A n \in 0 .. L - 1 :
        IndexOfChunk(arc, n) \in 1 .. L /\ arc.chunks[IndexOfChunk(arc, n)].num = n
  BY <1>1, <1>2, ChunkFound
<1>4. f \in Injection(0 .. L - 1, 1 .. L)
  BY <1>3 DEF Injection, IsInjective
<1>. HIDE DEF f, L
<1>5. IsFiniteSet(1 .. L) /\ Cardinality(1 .. L) = L /\ Cardinality(0 .. L - 1) = L
  <2>1. /\ IsFiniteSet(1 .. L) /\ Cardinality(1 .. L) = IF 1 > L THEN 0 ELSE L - 1 + 1
        /\ Cardinality(0 .. L - 1) = IF 0 > L - 1 THEN 0 ELSE (L - 1) - 0 + 1
    BY <1>1, FS_Interval
  <2>. QED BY <1>1, <2>1
<1>6. f \in Surjection(0 .. L - 1, 1 .. L)
  BY <1>4, <1>5, FS_Injection
<1>7. PICK n \in 0 .. L - 1 : f[n] = k
  BY <1>1, <1>6 DEF Surjection
<1>. QED BY <1>2, <1>7 DEF f

\* A verification of everything without a report means that the chunks of the
\* last archive of every path are intact (VerifyRepo and VerifyArchive).
THEOREM VerificationIsSound == Spec => []VerifiedIsIntact
<1>1. IInv => VerifiedIsIntact
  <2>. SUFFICES ASSUME IInv, Is("verify", "end"), main.told = {}, main.percentage = 100,
                       NEW i \in main.scope, NEW p \in DOMAIN Snapshots[i],
                       \A j \in main.scope : j > i => p \notin DOMAIN Snapshots[j],
                       NEW k \in DOMAIN Snapshots[i][p].chunks
                PROVE  stored[Snapshots[i][p].chunks[k].hash] = "good"
    BY DEF VerifiedIsIntact
  <2>. DEFINE arc == Snapshots[i][p]
  <2>1. IsLast(i, p)
    BY DEF IsLast
  <2>2. <<i, p>> \in main.done
    BY <2>1 DEF IInv, VerifyInv, Is
  <2>3. Loadable(arc)
    BY <2>2 DEF IInv, VerifyInv, Is
  <2>4. IsArchive(arc)
    BY TheSnapshot, ReadingOK DEF IsArchive, IInv, Types
  <2>5. PICK n \in Numbers(arc) : IndexOfChunk(arc, n) = k
    BY <2>3, <2>4, AllFound DEF Loadable
  <2>6. HashOf(arc, n) = arc.chunks[k].hash
    BY <2>5 DEF HashOf
  <2>7. decodeChunk(HashOf(arc, n)) # None
    BY <2>3 DEF Loadable
  <2>. QED BY <2>6, <2>7 DEF decodeChunk
<1>. QED BY <1>1, Invariant, PTL
=============================================================================
