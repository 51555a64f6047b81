------------------------- MODULE RepositoryFileProofs -------------------------
(***************************************************************************)
(* Theorems about RepositoryFile, for any number of backends of any kind,  *)
(* of passwords, tries and versions.                                       *)
(***************************************************************************)
EXTENDS RepositoryFile, FiniteSetTheorems, SequenceTheorems, TLAPS

-----------------------------------------------------------------------------
(* The inductive invariant.                                                *)

Verbs == {"connect", "init", "load", "save", "delete"}

Operations == [op : Verbs, on : Backends, file : Files \cup {"none"}]

\* Only chunks are deleted, files loaded and saved, and backends prepared.
WellFormed(o) ==
  /\ o.op = "delete" => o.file = "chunk"
  /\ o.op \in {"load", "save"} => o.file \in Files
  /\ o.op = "init" => o.file = "none"

Deeds ==
  {"dial", "need", "authorise", "refuse", "absent", "new", "inDir", "inDirOrNothing",
   "skipIfThere", "skipIfSame", "read", "fetch", "mkdir", "tryMkdir"} \cup Changing

AllSteps == [do : Deeds, on : Directories \cup Files \cup {"none", "server", "user", "password"}]

Answers == Contents \ {None}

CommandNames == {"none", "init", "store", "pack", "restore", "passwd", "add"}

CmdType ==
  /\ cmd \in [name : CommandNames, state : {"idle", "opening", "opened", "running"},
              work : Seq(Operations), repo : Documents \cup {None},
              password : Passwords \cup {None}, arg : Passwords \cup Backends \cup {None},
              try : 1 .. Retries, blind : BOOLEAN]
  /\ \A o \in Range(cmd.work) : WellFormed(o)
  /\ cmd.state \in {"opened", "running"} => cmd.repo \in Documents
  /\ cmd.name = "passwd" /\ ~IsIdle => cmd.arg \in Passwords
  /\ cmd.name = "add" /\ ~IsIdle => cmd.arg \in Backends

CallType ==
  /\ call \in [state : {"none", "running", "ok", "failed", "exists", "fatal"},
               on : Backends \cup {None}, op : Verbs \cup {"none"}, file : Files \cup {"none"},
               doc : Documents \cup {None}, todo : Seq(AllSteps), answer : Contents]
  /\ call.state # "none" => call.on \in Backends /\ call.op \in Verbs

\* A file is the whole of a document or is not intact.
DiskType ==
  /\ disk \in [Backends -> [files : [Files -> Contents], dirs : SUBSET Directories]]
  /\ \A b \in Backends, f \in Files :
       disk[b].files[f] # None /\ disk[b].files[f].intact => disk[b].files[f].doc \in Documents

Types ==
  /\ kind \in [Backends -> Kinds]
  /\ given \in [Backends -> SUBSET {"user", "password"}]
  /\ newest \in 0 .. MaxSaves
  /\ kept \in [Backends -> [Files -> Documents \cup {None}]]
  /\ CmdType /\ CallType /\ DiskType

IsRepoSave(o) == o.op = "save" /\ o.file = "repository"

\* The repository file is saved last.
Ordered(work) ==
  \A i, j \in DOMAIN work : i < j /\ IsRepoSave(work[i]) => IsRepoSave(work[j])

WorkInv ==
  /\ cmd.state = "idle" => cmd.work = <<>>
  /\ cmd.state \in {"opening", "opened"} =>
       \A o \in Range(cmd.work) : o.op \in {"connect", "load"}
  /\ cmd.state = "opened" => \A o \in Range(cmd.work) : o.op = "connect"
  /\ cmd.state = "opening" =>
       /\ \A o \in Range(cmd.work) : o.op = "load" => o.file = "repository"
       /\ cmd.work # <<>> => cmd.work[Len(cmd.work)].op = "load"
       /\ \A i \in DOMAIN cmd.work : cmd.work[i].op = "load" => i = Len(cmd.work)
       /\ cmd.work = <<>> => call.state = "ok" /\ call.op = "load" /\ call.file = "repository"
  /\ Ordered(cmd.work)
  /\ \A o \in Range(cmd.work) : o.op = "init" => cmd.name \in {"init", "add"}
  /\ \A o \in Range(cmd.work) : IsRepoSave(o) => o.on \in Range(cmd.repo.paths)

\* What a step may be, in an operation of an adapter on a file.
Legal(k, op, f, s) ==
  /\ s.do \in {"mkdir", "tryMkdir"} => op \in {"init", "save"} /\ s.on \in Directories
  /\ s.do \in {"truncate", "allocate", "write", "put", "overlay"} => op = "save" /\ s.on = f
  /\ s.do \in {"drop", "remove"} =>
       \/ k = "backblaze" /\ s.on = "repository"
       \/ s.on = f /\ (op = "delete" \/ (op = "save" /\ k = "mega"))
  /\ s.do = "truncate" => k \in {"local", "ftp", "sftp", "webdav"}
  /\ s.do = "allocate" => k = "azurefile"
  /\ s.do \in {"overlay", "fetch", "inDirOrNothing"} => k = "http"
  /\ s.do = "inDirOrNothing" => op = "save"
  /\ s.do = "placeholder" => k = "backblaze" /\ s.on = "repository"
  /\ s.do = "absent" => op = "init"
  /\ s.do = "new" => op = "init" /\ k = "s3"
  /\ s.do \in {"absent", "new"} => s.on \in Directories \cup {"repository"}
  /\ s.do \in {"skipIfSame", "skipIfThere"} => op = "save" /\ f = "chunk" /\ s.on = "chunk"
  /\ s.do = "skipIfThere" => k = "s3"
  /\ s.do \in {"read", "fetch"} => op = "load" /\ s.on = f

\* The last step of an operation is the one that does what it is for.
Final(op) ==
  CASE op = "save"   -> {"write", "put", "overlay", "refuse"}
    [] op = "delete" -> {"drop", "remove", "refuse"}
    [] op = "load"   -> {"read", "fetch", "refuse"}

EndsWell(op, f, todo) ==
  op \in {"save", "delete", "load"} =>
    todo # <<>> /\ todo[Len(todo)].do \in Final(op) /\ todo[Len(todo)].on = f

\* A document is not yet kept while it is saved, nor while a file is deleted.
CallInv ==
  /\ call.state # "none" /\ cmd.work # <<>> =>
       call.on = Due.on /\ call.op = Due.op /\ call.file = Due.file
  /\ call.state \in {"running", "failed", "exists", "fatal"} => cmd.work # <<>>
  /\ call.state = "ok" /\ cmd.state # "opening" => cmd.work # <<>>
  /\ call.state # "none" /\ call.op = "save" => call.doc = DocFor(call.file)
  /\ Running => \A s \in Range(call.todo) : Legal(kind[call.on], call.op, call.file, s)
  /\ Running /\ call.op \in {"save", "delete"} => kept[call.on][call.file] = None

\* An operation that has succeeded, or has no step left, has done its work.
Achieved ==
  /\ call.op = "save" /\ kind[call.on] # "http"
       /\ ~(kind[call.on] = "azurefile" /\ call.file = "chunk") =>
       disk[call.on].files[call.file] = Whole(call.doc)
  /\ call.op = "delete" => disk[call.on].files[call.file] = None
  /\ call.op = "load" =>
       /\ call.answer \in Answers
       /\ kind[call.on] # "http" => call.answer = disk[call.on].files[call.file]

AchievedInv ==
  /\ Running => (call.todo = <<>> /\ Achieved) \/ EndsWell(call.op, call.file, call.todo)
  /\ call.state = "ok" => Achieved

\* The chunk is never anything but that chunk, and is not taken for whole when
\* it is not.
ChunkInv ==
  \A b \in Backends :
    kind[b] \notin {"http", "azurefile"} =>
      \/ disk[b].files["chunk"] \in {None, Whole(TheChunk)}
      \/ disk[b].files["chunk"] = Torn(TheChunk) /\ kind[b] # "s3"

\* No repository without its bucket, in the buckets of s3; and nobody has a
\* repository open, or could open one, that names a backend without bucket.
Bucket(b) == "repositories" \in disk[b].dirs

Bucketed(paths) == \A b \in Range(paths) : kind[b] = "s3" => Bucket(b)

Initialising(b) == Operation("init", b, "none") \in Range(cmd.work)

BucketInv ==
  /\ \A b \in Backends : kind[b] = "s3" /\ disk[b].files["repository"] # None => Bucket(b)
  /\ \A b \in Backends : disk[b].files["repository"] # None /\ disk[b].files["repository"].intact =>
       Bucketed(disk[b].files["repository"].doc.paths)
  /\ call.op = "load" /\ call.file = "repository" /\ call.answer # None /\ call.answer.intact =>
       call.answer.doc \in Documents /\ Bucketed(call.answer.doc.paths)
  /\ cmd.state = "opened" => Bucketed(cmd.repo.paths)
  /\ cmd.state = "running" =>
       \A b \in Range(cmd.repo.paths) : kind[b] = "s3" =>
         \/ Bucket(b)
         \/ /\ Initialising(b)
            /\ ~(call.state = "ok" /\ call.op = "init" /\ call.on = b)
            /\ Running /\ call.op = "init" /\ call.on = b =>
                 Do("mkdir", "repositories") \in Range(call.todo)

\* What a command that makes a repository on a backend knows of it.
Prepares(b) == cmd.name = "init" \/ (cmd.name = "add" /\ b = cmd.arg)

Clear(b) ==
  LET file == disk[b].files["repository"] IN
  file = None \/ ~file.intact \/ file.doc = cmd.repo

LooksFor(k) ==
  CASE k = "s3"     -> Do("new", "repositories")
    [] k = "gdrive" -> Do("refuse", "none")
    [] OTHER        -> Do("absent", "repository")

InitInv ==
  \A b \in Backends :
    /\ Prepares(b) /\ cmd.state = "running" /\ ~cmd.blind
    /\ kind[b] \notin {"http", "backblaze"}
    => \/ Clear(b)
       \/ \A o \in Range(cmd.work) : o.on # b
       \/ /\ Initialising(b)
          /\ ~(call.state = "ok" /\ call.op = "init" /\ call.on = b)
          /\ Running /\ call.op = "init" /\ call.on = b =>
               LooksFor(kind[b]) \in Range(call.todo)

\* Each backend of the repository has it, or will be saved to.
Pending(b) == Operation("save", b, "repository") \in Range(cmd.work)

SavingInv ==
  cmd.state = "running" /\ cmd.name \in {"init", "passwd", "add", "store"} =>
    /\ \A b \in Range(cmd.repo.paths) : kind[b] = "http" \/ Holds(b, cmd.repo) \/ Pending(b)
    /\ cmd.work # <<>> /\ ~IsRepoSave(Due) => \A b \in Range(cmd.repo.paths) : Pending(b)
    /\ \A o \in Range(cmd.work) : o.op \in {"connect", "init", "save"}

IInv ==
  /\ Types /\ WorkInv /\ CallInv /\ AchievedInv
  /\ ChunkInv /\ AcknowledgedIsKept
  /\ BucketInv /\ InitInv
  /\ SavingInv /\ SavedEverywhere

-----------------------------------------------------------------------------
(* Lemmas about sequences.                                                 *)

\* The elements of two sequences, one after the other.
LEMMA RangeConcat ==
  ASSUME NEW S, NEW s \in Seq(S), NEW t \in Seq(S)
  PROVE  /\ s \o t \in Seq(S)
         /\ Range(s \o t) = Range(s) \cup Range(t)
         /\ t # <<>> => s \o t # <<>> /\ (s \o t)[Len(s \o t)] = t[Len(t)]
<1>1. /\ s \o t \in Seq(S) /\ Len(s \o t) = Len(s) + Len(t)
      /\ \A i \in 1 .. Len(s) : (s \o t)[i] = s[i]
      /\ \A i \in 1 .. Len(t) : (s \o t)[i + Len(s)] = t[i]
  BY ConcatProperties
<1>2. /\ DOMAIN s = 1 .. Len(s) /\ DOMAIN t = 1 .. Len(t) /\ Len(s) \in Nat /\ Len(t) \in Nat
      /\ DOMAIN (s \o t) = 1 .. (Len(s) + Len(t))
  BY <1>1, LenProperties
<1>. DEFINE u == s \o t
<1>. HIDE DEF u
<1>3. ASSUME NEW i \in DOMAIN u PROVE u[i] \in Range(s) \cup Range(t)
  <2>1. CASE i <= Len(s)
    <3>1. i \in 1 .. Len(s) /\ i \in DOMAIN s
      BY <1>2, <2>1, <1>3 DEF u
    <3>. QED BY <1>1, <3>1 DEF u, Range
  <2>2. CASE ~(i <= Len(s))
    <3>1. i - Len(s) \in 1 .. Len(t) /\ (i - Len(s)) + Len(s) = i
      BY <1>2, <2>2, <1>3 DEF u
    <3>2. u[i] = t[i - Len(s)]
      BY <1>1, <3>1 DEF u
    <3>. QED BY <1>2, <3>1, <3>2 DEF Range
  <2>. QED BY <2>1, <2>2
<1>4. ASSUME NEW x \in Range(s) PROVE x \in Range(u)
  <2>1. PICK i \in 1 .. Len(s) : x = s[i]
    BY <1>2 DEF Range
  <2>2. i \in DOMAIN u /\ u[i] = x
    BY <1>1, <1>2, <2>1 DEF u
  <2>. QED BY <2>2 DEF Range
<1>5. ASSUME NEW x \in Range(t) PROVE x \in Range(u)
  <2>1. PICK i \in 1 .. Len(t) : x = t[i]
    BY <1>2 DEF Range
  <2>2. i + Len(s) \in DOMAIN u /\ u[i + Len(s)] = x
    BY <1>1, <1>2, <2>1 DEF u
  <2>. QED BY <2>2 DEF Range
<1>6. Range(u) = Range(s) \cup Range(t)
  <2>1. \A x \in Range(u) : x \in Range(s) \cup Range(t)
    BY <1>3 DEF Range
  <2>. QED BY <2>1, <1>4, <1>5
<1>7. ASSUME t # <<>> PROVE u # <<>> /\ u[Len(u)] = t[Len(t)]
  <2>1. Len(t) \in 1 .. Len(t) /\ Len(u) = Len(t) + Len(s)
    BY <1>1, <1>2, <1>7, EmptySeq DEF u
  <2>2. u \in Seq(S) /\ Len(u) # 0
    BY <1>1, <1>2, <2>1 DEF u
  <2>. QED BY <1>1, <2>1, <2>2, EmptySeq DEF u
<1>. QED BY <1>1, <1>6, <1>7 DEF u

\* A sequence is its first element and the rest.
LEMMA RangeTail ==
  ASSUME NEW S, NEW s \in Seq(S), s # <<>>
  PROVE  /\ Tail(s) \in Seq(S) /\ Head(s) \in S
         /\ Range(s) = {Head(s)} \cup Range(Tail(s))
         /\ Tail(s) = <<>> => Head(s) = s[Len(s)]
         /\ Tail(s) # <<>> => Tail(s)[Len(Tail(s))] = s[Len(s)]
<1>1. /\ Head(s) = s[1] /\ Head(s) \in S /\ Tail(s) \in Seq(S)
      /\ Len(s) \in Nat \ {0} /\ DOMAIN s = 1 .. Len(s)
  BY EmptySeq, LenProperties, HeadTailProperties
<1>2. /\ Len(Tail(s)) = Len(s) - 1 /\ DOMAIN Tail(s) = 1 .. (Len(s) - 1)
      /\ \A i \in 1 .. (Len(s) - 1) : Tail(s)[i] = s[i + 1]
  BY <1>1, HeadTailProperties, LenProperties
<1>. DEFINE t == Tail(s)
<1>. HIDE DEF t
<1>3. ASSUME NEW i \in 1 .. Len(s) PROVE s[i] \in {Head(s)} \cup Range(t)
  <2>1. CASE i = 1
    BY <1>1, <2>1
  <2>2. CASE i # 1
    <3>1. i - 1 \in DOMAIN t /\ t[i - 1] = s[i]
      BY <1>1, <1>2, <2>2 DEF t
    <3>. QED BY <3>1 DEF Range
  <2>. QED BY <2>1, <2>2
<1>4. ASSUME NEW i \in DOMAIN t PROVE t[i] \in Range(s)
  <2>1. i + 1 \in DOMAIN s /\ t[i] = s[i + 1]
    BY <1>1, <1>2 DEF t
  <2>. QED BY <2>1 DEF Range
<1>5. Head(s) \in Range(s)
  BY <1>1 DEF Range
<1>6. Range(s) = {Head(s)} \cup Range(t)
  <2>1. \A x \in Range(s) : x \in {Head(s)} \cup Range(t)
    BY <1>1, <1>3 DEF Range
  <2>2. \A x \in Range(t) : x \in Range(s)
    BY <1>4 DEF Range
  <2>. QED BY <1>5, <2>1, <2>2
<1>7. ASSUME t = <<>> PROVE Head(s) = s[Len(s)]
  <2>1. Len(t) = Len(s) - 1
    BY <1>2 DEF t
  <2>2. Len(t) = 0
    BY <1>7, EmptySeq
  <2>3. Len(s) \in Nat
    BY <1>1
  <2>4. Len(s) = 1
    BY ONLY <2>1, <2>2, <2>3
  <2>. QED BY <1>1, <2>4
<1>8. ASSUME t # <<>> PROVE t[Len(t)] = s[Len(s)]
  <2>1. Len(t) \in 1 .. (Len(s) - 1) /\ Len(t) + 1 = Len(s)
    <3>1. Len(t) # 0
      BY <1>1, <1>8, EmptySeq DEF t
    <3>. QED BY <1>1, <1>2, <3>1 DEF t
  <2>. QED BY <1>2, <2>1 DEF t
<1>. QED BY <1>1, <1>6, <1>7, <1>8 DEF t

\* The elements of a part of a sequence are elements of it.
LEMMA RangeSubSeq ==
  ASSUME NEW S, NEW s \in Seq(S), NEW m \in Nat \ {0}
  PROVE  /\ SubSeq(s, m, Len(s)) \in Seq(S)
         /\ Len(SubSeq(s, m, Len(s))) \in Nat
         /\ \A i \in DOMAIN SubSeq(s, m, Len(s)) :
              i + m - 1 \in DOMAIN s /\ SubSeq(s, m, Len(s))[i] = s[i + m - 1]
<1>1. DOMAIN s = 1 .. Len(s) /\ Len(s) \in Nat
  BY LenProperties
<1>. DEFINE u == SubSeq(s, m, Len(s))
<1>2. \A i \in m .. Len(s) : s[i] \in S
  BY <1>1, ElementOfSeq
<1>3. /\ u \in Seq(S) /\ Len(u) = IF m <= Len(s) THEN Len(s) - m + 1 ELSE 0
      /\ \A i \in 1 .. Len(s) - m + 1 : u[i] = s[m + i - 1]
  BY <1>1, <1>2, SubSeqProperties
<1>4. DOMAIN u = 1 .. Len(u) /\ Len(u) \in Nat
  BY <1>3, LenProperties
<1>. HIDE DEF u
<1>5. ASSUME NEW i \in DOMAIN u PROVE i + m - 1 \in DOMAIN s /\ u[i] = s[i + m - 1]
  BY <1>1, <1>3, <1>4
<1>. QED BY <1>3, <1>4, <1>5 DEF u

\* One operation on each of several backends.
LEMMA RangeOnAll ==
  ASSUME NEW op \in Verbs, NEW paths \in Seq(Backends),
         NEW f \in Files \cup {"none"}
  PROVE  /\ OnAll(op, paths, f) \in Seq(Operations)
         /\ Range(OnAll(op, paths, f)) = {Operation(op, b, f) : b \in Range(paths)}
<1>. DEFINE s == OnAll(op, paths, f)
<1>1. DOMAIN paths = 1 .. Len(paths) /\ Len(paths) \in Nat /\ \A i \in DOMAIN paths : paths[i] \in Backends
  BY LenProperties, ElementOfSeq
<1>2. s = [i \in 1 .. Len(paths) |-> Operation(op, paths[i], f)]
  BY <1>1 DEF OnAll
<1>3. \A i \in DOMAIN paths : Operation(op, paths[i], f) \in Operations
  BY <1>1 DEF Operation, Operations
<1>4. s \in Seq(Operations)
  BY <1>1, <1>2, <1>3, IsASeq
<1>5. DOMAIN s = DOMAIN paths /\ \A i \in DOMAIN paths : s[i] = Operation(op, paths[i], f)
  BY <1>1, <1>2
<1>. HIDE DEF s
<1>6. Range(s) = {Operation(op, b, f) : b \in Range(paths)}
  BY <1>5 DEF Range
<1>. QED BY <1>4, <1>6 DEF s

-----------------------------------------------------------------------------
(* Lemmas about the programs of the adapters.                              *)

\* The elements of a sequence of one.
LEMMA RangeOfOne ==
  ASSUME NEW S, NEW a \in S
  PROVE  <<a>> \in Seq(S) /\ Range(<<a>>) = {a} /\ <<a>> # <<>> /\ <<a>>[Len(<<a>>)] = a
<1>1. Range(<<a>>) = {a}
  BY DEF Range
<1>. QED BY <1>1

\* The elements of a sequence of two.
LEMMA RangeOfTwo ==
  ASSUME NEW S, NEW a \in S, NEW b \in S
  PROVE  /\ <<a, b>> \in Seq(S) /\ Range(<<a, b>>) = {a, b} /\ <<a, b>> # <<>>
         /\ <<a, b>>[Len(<<a, b>>)] = b
<1>1. Range(<<a, b>>) = {a, b}
  BY DEF Range
<1>. QED BY <1>1

\* The elements of a sequence of three.
LEMMA RangeOfThree ==
  ASSUME NEW S, NEW a \in S, NEW b \in S, NEW c \in S
  PROVE  /\ <<a, b, c>> \in Seq(S) /\ Range(<<a, b, c>>) = {a, b, c} /\ <<a, b, c>> # <<>>
         /\ <<a, b, c>>[Len(<<a, b, c>>)] = c
<1>1. Range(<<a, b, c>>) = {a, b, c}
  BY DEF Range
<1>. QED BY <1>1

GoodSteps(k, op, f, todo) ==
  todo \in Seq(AllSteps) /\ \A s \in Range(todo) : Legal(k, op, f, s)

\* No step.
LEMMA GoodNone ==
  ASSUME NEW k, NEW op, NEW f
  PROVE  GoodSteps(k, op, f, <<>>)
<1>1. Range(<<>>) = {}
  BY DEF Range
<1>. QED BY <1>1, EmptySeq DEF GoodSteps

\* Steps after steps.
LEMMA GoodConcat ==
  ASSUME NEW k, NEW op, NEW f, NEW s, NEW t, GoodSteps(k, op, f, s), GoodSteps(k, op, f, t)
  PROVE  /\ GoodSteps(k, op, f, s \o t)
         /\ Range(s \o t) = Range(s) \cup Range(t)
         /\ op \in {"save", "delete", "load"} /\ EndsWell(op, f, t) => EndsWell(op, f, s \o t)
<1>1. /\ s \o t \in Seq(AllSteps) /\ Range(s \o t) = Range(s) \cup Range(t)
      /\ t # <<>> => s \o t # <<>> /\ (s \o t)[Len(s \o t)] = t[Len(t)]
  BY RangeConcat DEF GoodSteps
<1>2. GoodSteps(k, op, f, s \o t)
  BY <1>1 DEF GoodSteps
<1>3. ASSUME op \in {"save", "delete", "load"}, EndsWell(op, f, t) PROVE EndsWell(op, f, s \o t)
  BY <1>1, <1>3 DEF EndsWell
<1>. QED BY <1>1, <1>2, <1>3

\* Steps stay when others come after them.
LEMMA GoodKeeps ==
  ASSUME NEW k, NEW op, NEW f, NEW s, NEW t, NEW x,
         GoodSteps(k, op, f, s), GoodSteps(k, op, f, t), x \in Range(s)
  PROVE  GoodSteps(k, op, f, s \o t) /\ x \in Range(s \o t)
<1>1. GoodSteps(k, op, f, s \o t) /\ Range(s \o t) = Range(s) \cup Range(t)
  BY GoodConcat
<1>. QED BY <1>1

\* One step.
LEMMA GoodOne ==
  ASSUME NEW k, NEW op, NEW f, NEW a \in AllSteps, Legal(k, op, f, a)
  PROVE  /\ GoodSteps(k, op, f, <<a>>)
         /\ a.do \in Final(op) /\ a.on = f => EndsWell(op, f, <<a>>)
<1>1. /\ <<a>> \in Seq(AllSteps) /\ Range(<<a>>) = {a} /\ <<a>> # <<>>
      /\ <<a>>[Len(<<a>>)] = a
  BY RangeOfOne
<1>. QED BY <1>1 DEF GoodSteps, EndsWell

\* Two steps.
LEMMA GoodTwo ==
  ASSUME NEW k, NEW op, NEW f, NEW a \in AllSteps, Legal(k, op, f, a),
         NEW b \in AllSteps, Legal(k, op, f, b)
  PROVE  /\ GoodSteps(k, op, f, <<a, b>>)
         /\ b.do \in Final(op) /\ b.on = f => EndsWell(op, f, <<a, b>>)
<1>1. /\ <<a, b>> \in Seq(AllSteps) /\ Range(<<a, b>>) = {a, b} /\ <<a, b>> # <<>>
      /\ <<a, b>>[Len(<<a, b>>)] = b
  BY RangeOfTwo
<1>. QED BY <1>1 DEF GoodSteps, EndsWell

\* Three steps.
LEMMA GoodThree ==
  ASSUME NEW k, NEW op, NEW f, NEW a \in AllSteps, Legal(k, op, f, a),
         NEW b \in AllSteps, Legal(k, op, f, b), NEW c \in AllSteps, Legal(k, op, f, c)
  PROVE  /\ GoodSteps(k, op, f, <<a, b, c>>)
         /\ c.do \in Final(op) /\ c.on = f => EndsWell(op, f, <<a, b, c>>)
<1>1. /\ <<a, b, c>> \in Seq(AllSteps) /\ Range(<<a, b, c>>) = {a, b, c} /\ <<a, b, c>> # <<>>
      /\ <<a, b, c>>[Len(<<a, b, c>>)] = c
  BY RangeOfThree
<1>. QED BY <1>1 DEF GoodSteps, EndsWell

\* How the nine adapters of StorageFilesystem differ.
LEMMA FilesystemFacts ==
  ASSUME NEW k \in DOMAIN Filesystems, NEW fs, fs = Filesystems[k]
  PROVE  /\ k \in {"local", "ftp", "sftp", "webdav", "dropbox", "mega", "googlecloud",
                   "azurefile", "amazons3"}
         /\ fs.mkdir \in {<<>>, <<"mkdir">>, <<"tryMkdir">>}
         /\ k \in {"googlecloud", "amazons3"} => fs.mkdir = <<>>
         /\ fs.write \in {<<"inDir", "truncate", "write">>, <<"truncate", "write">>, <<"put">>,
                          <<"drop", "inDir", "put">>, <<"inDir", "allocate", "write">>}
         /\ fs.write \in {<<"inDir", "truncate", "write">>, <<"truncate", "write">>} =>
              k \in {"local", "ftp", "sftp", "webdav"}
         /\ fs.write = <<"drop", "inDir", "put">> => k = "mega"
         /\ fs.write = <<"inDir", "allocate", "write">> => k = "azurefile"
         /\ fs.remove \in {"drop", "remove"}
  BY DEF Filesystems, StorageLocal, FTPStorage, SFTPStorage, WebDAVStorage, DropboxStorage,
         MegaStorage, GoogleCloudStorage, AzureFileStorage, AmazonS3StorageBackend

\* CreatePath makes a directory at most.
LEMMA CreatePathIs ==
  ASSUME NEW k \in DOMAIN Filesystems, NEW op \in {"init", "save"}, NEW f, NEW d \in Directories
  PROVE  GoodSteps(k, op, f, CreatePath(Filesystems[k], d))
<1>. DEFINE fs == Filesystems[k]
            s == CreatePath(fs, d)
<1>1. s = Steps(fs.mkdir, d)
  BY DEF CreatePath
<1>2. /\ fs.mkdir \in {<<>>, <<"mkdir">>, <<"tryMkdir">>}
      /\ k \in {"googlecloud", "amazons3"} => fs.mkdir = <<>>
  BY FilesystemFacts
<1>. HIDE DEF fs
<1>3. ASSUME fs.mkdir = <<>> PROVE GoodSteps(k, op, f, s)
  <2>1. s = <<>>
    BY <1>1, <1>3 DEF Steps
  <2>. QED BY <2>1, GoodNone
<1>4. ASSUME NEW what \in {"mkdir", "tryMkdir"}, fs.mkdir = <<what>>
      PROVE  GoodSteps(k, op, f, s)
  <2>1. s = <<Do(what, d)>>
    BY <1>1, <1>4 DEF Steps
  <2>2. Do(what, d) \in AllSteps
    BY DEF Do, AllSteps, Deeds
  <2>3. k \notin {"googlecloud", "amazons3"}
    BY <1>2, <1>4
  <2>4. Legal(k, op, f, Do(what, d))
    BY <2>3 DEF Do, Legal
  <2>. QED BY <2>1, <2>2, <2>4, GoodOne
<1>. QED BY <1>2, <1>3, <1>4 DEF fs

\* WriteFile ends with the write.
LEMMA WriteFileIs ==
  ASSUME NEW k \in DOMAIN Filesystems, NEW f \in Files
  PROVE  LET s == WriteFile(Filesystems[k], f) IN
         GoodSteps(k, "save", f, s) /\ EndsWell("save", f, s)
<1>. DEFINE fs == Filesystems[k]
            s == WriteFile(fs, f)
            good(t) == GoodSteps(k, "save", f, t) /\ EndsWell("save", f, t)
            dir == Do("inDir", DirOf(f))
<1>1. s = [i \in DOMAIN fs.write |->
             Do(fs.write[i], IF fs.write[i] = "inDir" THEN DirOf(f) ELSE f)]
  BY DEF WriteFile
<1>2. /\ fs.write \in {<<"inDir", "truncate", "write">>, <<"truncate", "write">>, <<"put">>,
                       <<"drop", "inDir", "put">>, <<"inDir", "allocate", "write">>}
      /\ fs.write \in {<<"inDir", "truncate", "write">>, <<"truncate", "write">>} =>
           k \in {"local", "ftp", "sftp", "webdav"}
      /\ fs.write = <<"drop", "inDir", "put">> => k = "mega"
      /\ fs.write = <<"inDir", "allocate", "write">> => k = "azurefile"
  BY FilesystemFacts
<1>. HIDE DEF fs
<1>3. DirOf(f) \in Directories
  BY DEF DirOf, Files, Directories
<1>4. /\ dir \in AllSteps /\ dir.do = "inDir"
      /\ \A what \in Changing : Do(what, f) \in AllSteps /\ Do(what, f).do = what /\ Do(what, f).on = f
  BY <1>3 DEF AllSteps, Deeds, Do, Changing
<1>12. {"truncate", "allocate", "write", "put", "drop"} \subseteq Changing
  BY DEF Changing
<1>5. /\ Legal(k, "save", f, dir)
      /\ \A what \in {"write", "put"} : Legal(k, "save", f, Do(what, f)) /\ Do(what, f).do \in Final("save")
  BY <1>4 DEF Legal, Changing, Final
<1>6. ASSUME fs.write = <<"put">> PROVE good(s)
  <2>. DEFINE a == Do("put", f)
  <2>1. s = <<a>>
    BY <1>1, <1>6
  <2>2. a \in AllSteps /\ Legal(k, "save", f, a) /\ a.do \in Final("save") /\ a.on = f
    BY <1>4, <1>5, <1>12
  <2>. HIDE DEF a
  <2>. QED BY <2>1, <2>2, GoodOne
<1>7. ASSUME fs.write = <<"truncate", "write">> PROVE good(s)
  <2>. DEFINE a == Do("truncate", f)
              b == Do("write", f)
  <2>1. s = <<a, b>>
    BY <1>1, <1>7
  <2>2. Legal(k, "save", f, Do("truncate", f))
    BY <1>2, <1>4, <1>12, <1>7 DEF Legal, Changing
  <2>3. /\ a \in AllSteps /\ Legal(k, "save", f, a)
        /\ b \in AllSteps /\ Legal(k, "save", f, b)
        /\ b.do \in Final("save") /\ b.on = f
    BY <1>4, <1>5, <1>12, <2>2
  <2>. HIDE DEF a, b
  <2>. QED BY <2>1, <2>3, GoodTwo
<1>8. ASSUME fs.write = <<"inDir", "truncate", "write">> PROVE good(s)
  <2>. DEFINE a == dir
              b == Do("truncate", f)
              c == Do("write", f)
  <2>1. s = <<a, b, c>>
    BY <1>1, <1>8
  <2>2. Legal(k, "save", f, Do("truncate", f))
    BY <1>2, <1>4, <1>12, <1>8 DEF Legal, Changing
  <2>3. /\ a \in AllSteps /\ Legal(k, "save", f, a)
        /\ b \in AllSteps /\ Legal(k, "save", f, b)
        /\ c \in AllSteps /\ Legal(k, "save", f, c)
        /\ c.do \in Final("save") /\ c.on = f
    BY <1>4, <1>5, <1>12, <2>2
  <2>. HIDE DEF a, b, c
  <2>. QED BY <2>1, <2>3, GoodThree
<1>9. ASSUME fs.write = <<"drop", "inDir", "put">> PROVE good(s)
  <2>. DEFINE a == Do("drop", f)
              b == dir
              c == Do("put", f)
  <2>1. s = <<a, b, c>>
    BY <1>1, <1>9
  <2>2. Legal(k, "save", f, Do("drop", f))
    BY <1>2, <1>4, <1>12, <1>9 DEF Legal, Changing
  <2>3. /\ a \in AllSteps /\ Legal(k, "save", f, a)
        /\ b \in AllSteps /\ Legal(k, "save", f, b)
        /\ c \in AllSteps /\ Legal(k, "save", f, c)
        /\ c.do \in Final("save") /\ c.on = f
    BY <1>4, <1>5, <1>12, <2>2
  <2>. HIDE DEF a, b, c
  <2>. QED BY <2>1, <2>3, GoodThree
<1>10. ASSUME fs.write = <<"inDir", "allocate", "write">> PROVE good(s)
  <2>. DEFINE a == dir
              b == Do("allocate", f)
              c == Do("write", f)
  <2>1. s = <<a, b, c>>
    BY <1>1, <1>10
  <2>2. Legal(k, "save", f, Do("allocate", f))
    BY <1>2, <1>4, <1>12, <1>10 DEF Legal, Changing
  <2>3. /\ a \in AllSteps /\ Legal(k, "save", f, a)
        /\ b \in AllSteps /\ Legal(k, "save", f, b)
        /\ c \in AllSteps /\ Legal(k, "save", f, c)
        /\ c.do \in Final("save") /\ c.on = f
    BY <1>4, <1>5, <1>12, <2>2
  <2>. HIDE DEF a, b, c
  <2>. QED BY <2>1, <2>3, GoodThree
<1>11. good(s)
  BY <1>2, <1>6, <1>7, <1>8, <1>9, <1>10
<1>. QED BY <1>11 DEF fs

\* What a program of any adapter is.
IsProgram(k, op, f, todo) ==
  /\ GoodSteps(k, op, f, todo)
  /\ EndsWell(op, f, todo)
  /\ op = "init" /\ f = "none" /\ k \notin {"http", "backblaze"} => LooksFor(k) \in Range(todo)
  /\ op = "init" /\ k = "s3" => Do("mkdir", "repositories") \in Range(todo)

\* The operations on adapters of StorageFilesystem.
LEMMA FilesystemPrograms ==
  ASSUME NEW k \in DOMAIN Filesystems, NEW op \in Verbs \ {"connect"}, NEW f \in Files \cup {"none"},
         WellFormed([op |-> op, file |-> f])
  PROVE  IsProgram(k, op, f, FilesystemProgram(Filesystems[k], op, f))
<1>. DEFINE fs == Filesystems[k]
            s == FilesystemProgram(fs, op, f)
<1>1. k \in {"local", "ftp", "sftp", "webdav", "dropbox", "mega", "googlecloud", "azurefile", "amazons3"}
      /\ fs.remove \in {"drop", "remove"}
  BY FilesystemFacts
<1>2. /\ op = "delete" => f = "chunk"
      /\ op \in {"load", "save"} => f \in Files
  BY DEF WellFormed
<1>. SUFFICES IsProgram(k, op, f, s)
  OBVIOUS
<1>3. \A o \in {"init", "save"}, d \in Directories : GoodSteps(k, o, f, CreatePath(fs, d))
  BY CreatePathIs
<1>4. ASSUME op = "save" PROVE GoodSteps(k, op, f, WriteFile(fs, f)) /\ EndsWell(op, f, WriteFile(fs, f))
  BY <1>2, <1>4, WriteFileIs
<1>. HIDE DEF fs
<1>5. ASSUME op = "load" PROVE IsProgram(k, op, f, s)
  <2>1. s = <<Do("read", f)>>
    BY <1>5 DEF FilesystemProgram
  <2>2. Do("read", f) \in AllSteps /\ Do("read", f).do = "read" /\ Do("read", f).on = f
    BY DEF AllSteps, Deeds, Do
  <2>3. Legal(k, op, f, Do("read", f)) /\ "read" \in Final(op)
    BY <1>5, <2>2 DEF Legal, Final
  <2>4. GoodSteps(k, op, f, s) /\ EndsWell(op, f, s)
    BY <2>1, <2>2, <2>3, GoodOne
  <2>. QED BY <1>5, <2>4 DEF IsProgram
<1>6. ASSUME op = "delete" PROVE IsProgram(k, op, f, s)
  <2>1. s = <<Do(fs.remove, f)>>
    BY <1>6 DEF FilesystemProgram
  <2>2. /\ Do(fs.remove, f) \in AllSteps /\ Do(fs.remove, f).do \in {"drop", "remove"}
        /\ Do(fs.remove, f).on = f
    BY <1>1 DEF AllSteps, Deeds, Do, Changing
  <2>3. Legal(k, op, f, Do(fs.remove, f)) /\ Do(fs.remove, f).do \in Final(op)
    BY <1>6, <2>2 DEF Legal, Final
  <2>4. GoodSteps(k, op, f, s) /\ EndsWell(op, f, s)
    BY <2>1, <2>2, <2>3, GoodOne
  <2>. QED BY <1>6, <2>4 DEF IsProgram
<1>7. ASSUME op = "save", f # "chunk" PROVE IsProgram(k, op, f, s)
  <2>1. s = WriteFile(fs, f)
    BY <1>7 DEF FilesystemProgram
  <2>. QED BY <1>4, <1>7, <2>1 DEF IsProgram
<1>8. ASSUME op = "save", f = "chunk" PROVE IsProgram(k, op, f, s)
  <2>. DEFINE a == Do("skipIfSame", "chunk")
  <2>1. s = <<a>> \o CreatePath(fs, "chunks") \o WriteFile(fs, f)
    BY <1>8 DEF FilesystemProgram, StoreChunk
  <2>2. a \in AllSteps /\ Legal(k, op, f, a)
    BY <1>8 DEF AllSteps, Deeds, Do, Files, Legal, Changing
  <2>. HIDE DEF a
  <2>3. GoodSteps(k, op, f, <<a>>)
    BY <2>2, GoodOne
  <2>4. GoodSteps(k, op, f, CreatePath(fs, "chunks"))
    BY <1>3, <1>8 DEF Directories
  <2>. DEFINE u == <<a>> \o CreatePath(fs, "chunks")
              v == WriteFile(fs, f)
  <2>5. GoodSteps(k, op, f, u)
    BY <2>3, <2>4, GoodConcat
  <2>7. GoodSteps(k, op, f, v) /\ EndsWell(op, f, v) /\ s = u \o v
    BY <1>4, <1>8, <2>1
  <2>. HIDE DEF s, u, v
  <2>8. GoodSteps(k, op, f, u \o v) /\ EndsWell(op, f, u \o v)
    BY <1>8, <2>5, <2>7, GoodConcat
  <2>6. GoodSteps(k, op, f, s) /\ EndsWell(op, f, s)
    BY <2>7, <2>8
  <2>. QED BY <1>8, <2>6 DEF IsProgram
<1>9. ASSUME op = "init" PROVE IsProgram(k, op, f, s)
  <2>. DEFINE a == Do("absent", "repository")
              b == Do("absent", "chunks")
              c == Do("absent", "snapshots")
              made(d) == CreatePath(fs, d)
  <2>1. s = <<a>> \o <<b>> \o made("chunks") \o <<c>> \o made("snapshots")
    <3>1. Steps(<<"absent">>, "chunks") = <<b>> /\ Steps(<<"absent">>, "snapshots") = <<c>>
      BY DEF Steps
    <3>. QED BY <1>9, <3>1 DEF FilesystemProgram, InitRepository
  <2>2. /\ a \in AllSteps /\ Legal(k, op, f, a) /\ b \in AllSteps /\ Legal(k, op, f, b)
        /\ c \in AllSteps /\ Legal(k, op, f, c)
    BY <1>9 DEF AllSteps, Deeds, Do, Files, Directories, Legal, Changing
  <2>3. /\ GoodSteps(k, op, f, <<a>>) /\ GoodSteps(k, op, f, <<b>>) /\ GoodSteps(k, op, f, <<c>>)
        /\ Range(<<a>>) = {a}
    BY <2>2, GoodOne, RangeOfOne
  <2>4. GoodSteps(k, op, f, made("chunks")) /\ GoodSteps(k, op, f, made("snapshots"))
    BY <1>3, <1>9 DEF Directories
  <2>. DEFINE t == <<a>>
              p == <<b>>
              q == made("chunks")
              r == <<c>>
              z == made("snapshots")
              u == t \o p
              v == u \o q
              w == v \o r
  <2>10. s = w \o z
    BY <2>1
  <2>11. /\ GoodSteps(k, op, f, t) /\ a \in Range(t) /\ GoodSteps(k, op, f, p)
         /\ GoodSteps(k, op, f, q) /\ GoodSteps(k, op, f, r) /\ GoodSteps(k, op, f, z)
    BY <2>3, <2>4
  <2>12. LooksFor(k) = a /\ k # "s3"
    BY <1>1 DEF LooksFor
  <2>. HIDE DEF a, b, c, made, s, t, p, q, r, z
  <2>5. GoodSteps(k, op, f, u) /\ a \in Range(u)
    BY <2>11, GoodKeeps
  <2>. HIDE DEF u
  <2>6. GoodSteps(k, op, f, v) /\ a \in Range(v)
    BY <2>11, <2>5, GoodKeeps
  <2>. HIDE DEF v
  <2>7. GoodSteps(k, op, f, w) /\ a \in Range(w)
    BY <2>11, <2>6, GoodKeeps
  <2>. HIDE DEF w
  <2>8. GoodSteps(k, op, f, s) /\ a \in Range(s)
    BY <2>11, <2>7, <2>10, GoodKeeps
  <2>. QED BY <1>9, <2>8, <2>12 DEF IsProgram, EndsWell
<1>. QED BY <1>5, <1>6, <1>7, <1>8, <1>9 DEF Verbs

\* The kinds of adapters.
LEMMA TheKinds ==
  /\ Kinds = {"local", "ftp", "sftp", "webdav", "dropbox", "mega", "googlecloud", "azurefile",
              "amazons3", "s3", "backblaze", "http", "gdrive"}
  /\ DOMAIN Filesystems = {"local", "ftp", "sftp", "webdav", "dropbox", "mega", "googlecloud",
                           "azurefile", "amazons3"}
  BY DEF Kinds, Connections, Filesystems

\* Connecting changes nothing.
LEMMA ConnectionPrograms ==
  ASSUME NEW k \in Kinds, NEW f
  PROVE  IsProgram(k, "connect", f, Connections[k])
<1>. DEFINE s == Connections[k]
            a == Do("dial", "server")
            b == Do("need", "user")
            c == Do("need", "password")
            d == Do("refuse", "server")
<1>1. s \in {<<>>, <<a>>, <<b>>, <<d>>, <<b, c>>, <<b, a>>, <<b, c, a>>}
  BY TheKinds DEF Connections, StorageLocalConnect, FTPConnect, SFTPConnect, WebDAVConnect,
     DropboxConnect, MegaConnect, GoogleCloudConnect, AzureConnect, AmazonS3Connect, S3Connect,
     BackblazeConnect, HTTPConnect, GoogleDriveConnect
<1>2. /\ a \in AllSteps /\ b \in AllSteps /\ c \in AllSteps /\ d \in AllSteps
      /\ Legal(k, "connect", f, a) /\ Legal(k, "connect", f, b)
      /\ Legal(k, "connect", f, c) /\ Legal(k, "connect", f, d)
  BY DEF AllSteps, Deeds, Do, Legal
<1>. HIDE DEF s, a, b, c, d
<1>3. GoodSteps(k, "connect", f, s)
  BY <1>1, <1>2, GoodNone, GoodOne, GoodTwo, GoodThree
<1>. QED BY <1>3 DEF IsProgram, EndsWell, s

\* The operations on buckets of s3.
LEMMA S3Programs ==
  ASSUME NEW op \in Verbs \ {"connect"}, NEW f \in Files \cup {"none"},
         WellFormed([op |-> op, file |-> f])
  PROVE  IsProgram("s3", op, f, S3Program(op, f))
<1>. DEFINE s == S3Program(op, f)
<1>1. /\ op = "delete" => f = "chunk"
      /\ op \in {"load", "save"} => f \in Files
  BY DEF WellFormed
<1>2. ASSUME op = "load" PROVE IsProgram("s3", op, f, s)
  <2>. DEFINE a == Do("read", f)
  <2>1. s = <<a>>
    BY <1>2 DEF S3Program
  <2>2. a \in AllSteps /\ Legal("s3", op, f, a) /\ a.do \in Final(op) /\ a.on = f
    BY <1>2 DEF AllSteps, Deeds, Do, Legal, Final
  <2>. HIDE DEF a
  <2>3. GoodSteps("s3", op, f, s) /\ EndsWell(op, f, s)
    BY <2>1, <2>2, GoodOne
  <2>. QED BY <1>2, <2>3 DEF IsProgram
<1>3. ASSUME op = "delete" PROVE IsProgram("s3", op, f, s)
  <2>. DEFINE a == Do("drop", f)
  <2>1. s = <<a>>
    BY <1>3 DEF S3Program
  <2>2. a \in AllSteps /\ Legal("s3", op, f, a) /\ a.do \in Final(op) /\ a.on = f
    BY <1>3 DEF AllSteps, Deeds, Do, Legal, Final, Changing
  <2>. HIDE DEF a
  <2>3. GoodSteps("s3", op, f, s) /\ EndsWell(op, f, s)
    BY <2>1, <2>2, GoodOne
  <2>. QED BY <1>3, <2>3 DEF IsProgram
<1>4. ASSUME op = "save" PROVE IsProgram("s3", op, f, s)
  <2>. DEFINE a == Do("put", f)
              b == Do("skipIfThere", "chunk")
  <2>1. s = <<a>> \/ (f = "chunk" /\ s = <<b, a>>)
    BY <1>4 DEF S3Program, S3StoreChunk
  <2>2. a \in AllSteps /\ Legal("s3", op, f, a) /\ a.do \in Final(op) /\ a.on = f
    BY <1>4 DEF AllSteps, Deeds, Do, Legal, Final, Changing
  <2>3. f = "chunk" => b \in AllSteps /\ Legal("s3", op, f, b)
    BY <1>4 DEF AllSteps, Deeds, Do, Legal, Files
  <2>. HIDE DEF a, b
  <2>4. GoodSteps("s3", op, f, s) /\ EndsWell(op, f, s)
    BY <2>1, <2>2, <2>3, GoodOne, GoodTwo
  <2>. QED BY <1>4, <2>4 DEF IsProgram
<1>5. ASSUME op = "init" PROVE IsProgram("s3", op, f, s)
  <2>. DEFINE steps == <<Do("new", "chunks"), Do("mkdir", "chunks"), Do("new", "snapshots"),
                         Do("mkdir", "snapshots"), Do("new", "repositories"),
                         Do("mkdir", "repositories")>>
  <2>1. s = steps
    BY <1>5 DEF S3Program, S3InitRepository
  <2>2. \A what \in {"new", "mkdir"}, d \in Directories :
          Do(what, d) \in AllSteps /\ Legal("s3", op, f, Do(what, d))
    BY <1>5 DEF AllSteps, Deeds, Do, Legal
  <2>3. Directories = {"chunks", "snapshots", "repositories"}
    BY DEF Directories
  <2>4. \A i \in 1 .. 6 : steps[i] \in {Do(what, d) : what \in {"new", "mkdir"}, d \in Directories}
    BY <2>3
  <2>5. DOMAIN steps = 1 .. 6 /\ Len(steps) = 6
    OBVIOUS
  <2>6. steps[5] = Do("new", "repositories") /\ steps[6] = Do("mkdir", "repositories")
    OBVIOUS
  <2>7. steps \in Seq(AllSteps)
    BY <2>2, <2>3
  <2>. HIDE DEF steps
  <2>8. GoodSteps("s3", op, f, steps)
    BY <2>2, <2>4, <2>5, <2>7 DEF GoodSteps, Range
  <2>9. Do("new", "repositories") \in Range(steps) /\ Do("mkdir", "repositories") \in Range(steps)
    BY <2>5, <2>6 DEF Range
  <2>10. LooksFor("s3") = Do("new", "repositories")
    BY DEF LooksFor
  <2>. QED BY <1>5, <2>1, <2>8, <2>9, <2>10 DEF IsProgram, EndsWell
<1>. QED BY <1>2, <1>3, <1>4, <1>5 DEF Verbs

\* The operations on buckets at Backblaze.
LEMMA BackblazePrograms ==
  ASSUME NEW op \in Verbs \ {"connect"}, NEW f \in Files \cup {"none"},
         WellFormed([op |-> op, file |-> f])
  PROVE  IsProgram("backblaze", op, f, BackblazeProgram(op, f))
<1>. DEFINE s == BackblazeProgram(op, f)
            d == Do("drop", "repository")
<1>1. /\ op = "delete" => f = "chunk"
      /\ op \in {"load", "save"} => f \in Files
  BY DEF WellFormed
<1>2. d \in AllSteps /\ Legal("backblaze", op, f, d)
  BY DEF AllSteps, Deeds, Do, Legal, Changing, Files
<1>3. ASSUME op = "load" PROVE IsProgram("backblaze", op, f, s)
  <2>. DEFINE a == Do("read", f)
  <2>1. s = <<a>>
    BY <1>3 DEF BackblazeProgram
  <2>2. a \in AllSteps /\ Legal("backblaze", op, f, a) /\ a.do \in Final(op) /\ a.on = f
    BY <1>3 DEF AllSteps, Deeds, Do, Legal, Final
  <2>. HIDE DEF a
  <2>3. GoodSteps("backblaze", op, f, s) /\ EndsWell(op, f, s)
    BY <2>1, <2>2, GoodOne
  <2>. QED BY <1>3, <2>3 DEF IsProgram
<1>4. ASSUME op = "delete" PROVE IsProgram("backblaze", op, f, s)
  <2>. DEFINE a == Do("remove", f)
  <2>1. s = <<a>>
    BY <1>4 DEF BackblazeProgram
  <2>2. a \in AllSteps /\ Legal("backblaze", op, f, a) /\ a.do \in Final(op) /\ a.on = f
    BY <1>4 DEF AllSteps, Deeds, Do, Legal, Final, Changing
  <2>. HIDE DEF a
  <2>3. GoodSteps("backblaze", op, f, s) /\ EndsWell(op, f, s)
    BY <2>1, <2>2, GoodOne
  <2>. QED BY <1>4, <2>3 DEF IsProgram
<1>5. ASSUME op = "save" PROVE IsProgram("backblaze", op, f, s)
  <2>. DEFINE a == Do("put", f)
              b == Do("skipIfSame", f)
  <2>1. s = <<d, a>> \/ (f = "chunk" /\ s = <<b>> \o <<d, a>>)
    BY <1>5 DEF BackblazeProgram, Upload
  <2>2. a \in AllSteps /\ Legal("backblaze", op, f, a) /\ a.do \in Final(op) /\ a.on = f
    BY <1>5 DEF AllSteps, Deeds, Do, Legal, Final, Changing
  <2>3. f = "chunk" => b \in AllSteps /\ Legal("backblaze", op, f, b)
    BY <1>5 DEF AllSteps, Deeds, Do, Legal, Files
  <2>. HIDE DEF a, b, d
  <2>4. GoodSteps("backblaze", op, f, <<d, a>>) /\ EndsWell(op, f, <<d, a>>)
    BY <1>2, <2>2, GoodTwo
  <2>5. ASSUME f = "chunk", s = <<b>> \o <<d, a>>
        PROVE  GoodSteps("backblaze", op, f, s) /\ EndsWell(op, f, s)
    <3>. DEFINE u == <<b>>
                v == <<d, a>>
    <3>1. GoodSteps("backblaze", op, f, u)
      BY <2>3, <2>5, GoodOne
    <3>2. GoodSteps("backblaze", op, f, v) /\ EndsWell(op, f, v) /\ s = u \o v
      BY <2>4, <2>5
    <3>. HIDE DEF u, v, s
    <3>3. GoodSteps("backblaze", op, f, u \o v) /\ EndsWell(op, f, u \o v)
      BY <1>5, <3>1, <3>2, GoodConcat
    <3>. QED BY <3>2, <3>3
  <2>6. GoodSteps("backblaze", op, f, s) /\ EndsWell(op, f, s)
    BY <2>1, <2>4, <2>5
  <2>. QED BY <1>5, <2>6 DEF IsProgram
<1>6. ASSUME op = "init" PROVE IsProgram("backblaze", op, f, s)
  <2>. DEFINE a == Do("placeholder", "repository")
  <2>1. s = <<d, a>>
    BY <1>6 DEF BackblazeProgram, Upload
  <2>2. a \in AllSteps /\ Legal("backblaze", op, f, a)
    BY <1>6 DEF AllSteps, Deeds, Do, Legal, Changing, Files
  <2>. HIDE DEF a, d
  <2>3. GoodSteps("backblaze", op, f, s)
    BY <1>2, <2>1, <2>2, GoodTwo
  <2>. QED BY <1>6, <2>3 DEF IsProgram, EndsWell
<1>. QED BY <1>3, <1>4, <1>5, <1>6 DEF Verbs

\* The operations of the HTTP client and its server.
LEMMA HTTPPrograms ==
  ASSUME NEW op \in Verbs \ {"connect"}, NEW f \in Files \cup {"none"},
         WellFormed([op |-> op, file |-> f])
  PROVE  IsProgram("http", op, f, HTTPProgram(op, f))
<1>. DEFINE s == HTTPProgram(op, f)
            a == Do("authorise", f)
            b == Do("read", f)
            c == Do("fetch", f)
            d == Do("refuse", f)
            x == Do("inDirOrNothing", DirOf(f))
            y == Do("overlay", f)
<1>1. /\ op = "delete" => f = "chunk"
      /\ op \in {"load", "save"} => f \in Files
  BY DEF WellFormed
<1>2. /\ a \in AllSteps /\ Legal("http", op, f, a)
      /\ d \in AllSteps /\ Legal("http", op, f, d) /\ d.on = f
      /\ op \in {"load", "save", "delete"} => d.do \in Final(op)
  BY DEF AllSteps, Deeds, Do, Legal, Final
<1>3. op = "load" =>
        /\ b \in AllSteps /\ Legal("http", op, f, b) /\ b.on = f /\ b.do \in Final(op)
        /\ c \in AllSteps /\ Legal("http", op, f, c) /\ c.on = f /\ c.do \in Final(op)
  BY DEF AllSteps, Deeds, Do, Legal, Final
<1>4. op = "save" =>
        /\ x \in AllSteps /\ Legal("http", op, f, x)
        /\ y \in AllSteps /\ Legal("http", op, f, y) /\ y.on = f /\ y.do \in Final(op)
  <2>1. op = "save" => DirOf(f) \in Directories
    BY <1>1 DEF DirOf, Files, Directories
  <2>. QED BY <2>1 DEF AllSteps, Deeds, Do, Legal, Final, Changing
<1>5. op = "load" => s \in {<<a>> \o <<b>>, <<c>>}
  BY <1>1 DEF HTTPProgram, HTTPLoad, download, authPath, downloadSnapshot, downloadRepo,
     LoadChunkIndex, Files
<1>6. op = "save" => s \in {<<a>> \o <<x, y>>, <<d>>}
  BY <1>1 DEF HTTPProgram, HTTPSave, upload, uploadRepo, uploadSnapshot, SaveChunkIndex, authPath,
     ServerWrites, Files
<1>7. /\ op = "init" => s = <<>>
      /\ op = "delete" => s = <<d>>
  BY DEF HTTPProgram
<1>. HIDE DEF a, b, c, d, x, y
<1>8. GoodSteps("http", op, f, <<a>>) /\ GoodSteps("http", op, f, <<d>>) /\ GoodSteps("http", op, f, <<>>)
  BY <1>2, GoodOne, GoodNone
<1>9. op \in {"load", "save", "delete"} => EndsWell(op, f, <<d>>)
  BY <1>2, GoodOne
<1>10. op = "load" => /\ GoodSteps("http", op, f, <<c>>) /\ EndsWell(op, f, <<c>>)
                      /\ GoodSteps("http", op, f, <<b>>) /\ EndsWell(op, f, <<b>>)
  BY <1>3, GoodOne
<1>11. op = "save" => GoodSteps("http", op, f, <<x, y>>) /\ EndsWell(op, f, <<x, y>>)
  BY <1>4, GoodTwo
<1>. HIDE DEF s
<1>13. ASSUME op = "load" PROVE GoodSteps("http", op, f, s) /\ EndsWell(op, f, s)
  <2>1. CASE s = <<c>>
    BY <1>10, <1>13, <2>1
  <2>2. CASE s = <<a>> \o <<b>>
    <3>. DEFINE u == <<a>>
                v == <<b>>
    <3>1. GoodSteps("http", op, f, u) /\ GoodSteps("http", op, f, v) /\ EndsWell(op, f, v) /\ s = u \o v
      BY <1>8, <1>10, <1>13, <2>2
    <3>. HIDE DEF u, v
    <3>2. GoodSteps("http", op, f, u \o v) /\ EndsWell(op, f, u \o v)
      BY <1>13, <3>1, GoodConcat
    <3>. QED BY <3>1, <3>2
  <2>. QED BY <1>5, <1>13, <2>1, <2>2
<1>14. ASSUME op = "save" PROVE GoodSteps("http", op, f, s) /\ EndsWell(op, f, s)
  <2>1. CASE s = <<d>>
    BY <1>8, <1>9, <1>14, <2>1
  <2>2. CASE s = <<a>> \o <<x, y>>
    <3>. DEFINE u == <<a>>
                v == <<x, y>>
    <3>1. GoodSteps("http", op, f, u) /\ GoodSteps("http", op, f, v) /\ EndsWell(op, f, v) /\ s = u \o v
      BY <1>8, <1>11, <1>14, <2>2
    <3>. HIDE DEF u, v
    <3>2. GoodSteps("http", op, f, u \o v) /\ EndsWell(op, f, u \o v)
      BY <1>14, <3>1, GoodConcat
    <3>. QED BY <3>1, <3>2
  <2>. QED BY <1>6, <1>14, <2>1, <2>2
<1>15. ASSUME op \in {"init", "delete"} PROVE GoodSteps("http", op, f, s) /\ EndsWell(op, f, s)
  <2>1. CASE op = "init"
    BY <1>7, <1>8, <2>1 DEF EndsWell
  <2>2. CASE op = "delete"
    BY <1>7, <1>8, <1>9, <2>2
  <2>. QED BY <1>15, <2>1, <2>2
<1>. QED BY <1>13, <1>14, <1>15 DEF IsProgram, Verbs, s

\* Google Drive does nothing.
LEMMA GoogleDrivePrograms ==
  ASSUME NEW op \in Verbs \ {"connect"}, NEW f \in Files \cup {"none"}
  PROVE  IsProgram("gdrive", op, f, GoogleDriveProgram(op, f))
<1>. DEFINE a == Do("refuse", f)
<1>1. /\ a \in AllSteps /\ Legal("gdrive", op, f, a) /\ a.on = f
      /\ op \in {"load", "save", "delete"} => a.do \in Final(op)
  BY DEF AllSteps, Deeds, Do, Legal, Final
<1>2. op = "init" /\ f = "none" => LooksFor("gdrive") = a
  BY DEF LooksFor
<1>3. GoogleDriveProgram(op, f) = <<a>>
  BY DEF GoogleDriveProgram
<1>. HIDE DEF a
<1>4. GoodSteps("gdrive", op, f, <<a>>) /\ Range(<<a>>) = {a}
  BY <1>1, GoodOne, RangeOfOne
<1>5. EndsWell(op, f, <<a>>)
  <2>1. CASE op \in {"load", "save", "delete"}
    BY <1>1, <2>1, GoodOne
  <2>2. CASE op \notin {"load", "save", "delete"}
    BY <2>2 DEF EndsWell
  <2>. QED BY <2>1, <2>2
<1>. QED BY <1>2, <1>3, <1>4, <1>5 DEF IsProgram

\* The operations of all adapters.
LEMMA Programs ==
  ASSUME NEW k \in Kinds, NEW o \in Operations, WellFormed(o)
  PROVE  IsProgram(k, o.op, o.file, Program(k, o.op, o.file))
<1>. DEFINE s == Program(k, o.op, o.file)
<1>1. o.op \in Verbs /\ o.file \in Files \cup {"none"}
  BY DEF Operations, Verbs
<1>2. WellFormed([op |-> o.op, file |-> o.file])
  BY DEF WellFormed
<1>3. CASE o.op = "connect"
  <2>1. s = Connections[k]
    BY <1>3 DEF Program
  <2>. QED BY <1>3, <2>1, ConnectionPrograms
<1>4. CASE o.op # "connect" /\ k = "s3"
  <2>1. s = S3Program(o.op, o.file)
    BY <1>4, TheKinds DEF Program
  <2>. QED BY <1>1, <1>2, <1>4, <2>1, S3Programs
<1>5. CASE o.op # "connect" /\ k = "backblaze"
  <2>1. s = BackblazeProgram(o.op, o.file)
    BY <1>5, TheKinds DEF Program
  <2>. QED BY <1>1, <1>2, <1>5, <2>1, BackblazePrograms
<1>6. CASE o.op # "connect" /\ k = "http"
  <2>1. s = HTTPProgram(o.op, o.file)
    BY <1>6, TheKinds DEF Program
  <2>. QED BY <1>1, <1>2, <1>6, <2>1, HTTPPrograms
<1>7. CASE o.op # "connect" /\ k = "gdrive"
  <2>1. s = GoogleDriveProgram(o.op, o.file)
    BY <1>7, TheKinds DEF Program
  <2>. QED BY <1>1, <1>2, <1>7, <2>1, GoogleDrivePrograms
<1>8. CASE o.op # "connect" /\ k \in DOMAIN Filesystems
  <2>1. s = FilesystemProgram(Filesystems[k], o.op, o.file)
    BY <1>8, TheKinds DEF Program
  <2>. QED BY <1>1, <1>2, <1>8, <2>1, FilesystemPrograms
<1>. QED BY <1>3, <1>4, <1>5, <1>6, <1>7, <1>8, TheKinds

-----------------------------------------------------------------------------
(* Lemmas about the steps of the adapters.                                 *)

\* What a step that changes a file leaves in it.
Written(what, doc, old) ==
  CASE what = "truncate"          -> {Torn(doc)}
    [] what = "allocate"          -> {Blank(doc)}
    [] what \in {"write", "put"}  -> {Whole(doc)}
    [] what = "placeholder"       -> {Torn(None)}
    [] what = "overlay"           -> {Overlaid(old, doc), Torn(doc)}
    [] what \in {"drop", "remove"} -> {None}

FileChanges ==
  /\ call.todo # <<>> /\ Step.do \in Changing /\ Step.on \in Files
  /\ \E new \in Written(Step.do, call.doc, Old) :
       disk' = [disk EXCEPT ![call.on].files[Step.on] = new]

DirectoryMade ==
  /\ call.todo # <<>> /\ Step.do \in {"mkdir", "tryMkdir"}
  /\ disk' = [disk EXCEPT ![call.on].dirs = disk[call.on].dirs \cup {Step.on}]

SameRequest ==
  /\ call'.on = call.on /\ call'.op = call.op /\ call'.file = call.file /\ call'.doc = call.doc

\* The operation goes on with the next step.
Advances ==
  /\ call.todo # <<>> /\ call'.state = "running" /\ call'.todo = Tail(call.todo)
  /\ IF Step.do \in {"read", "fetch"}
       THEN /\ call'.answer = IF Served THEN Old ELSE Torn(None)
            /\ Step.do = "read" => Old # None
       ELSE call'.answer = call.answer
  /\ Step.do # "refuse"
  /\ Step.do = "new" => ~There(Step.on)
  /\ Step.do \in {"truncate", "allocate", "write", "put", "placeholder", "overlay", "drop", "remove"} =>
       disk' = [disk EXCEPT ![call.on].files[Step.on] = Effect]
  /\ Step.do = "mkdir" => DirectoryMade

\* It ends well: it is done, or the chunk is there, or the server says so.
EndsOk ==
  /\ call'.state = "ok" /\ call'.todo = <<>> /\ call'.answer = call.answer
  /\ \/ call.todo = <<>> /\ UNCHANGED disk
     \/ /\ call.todo # <<>> /\ Step.do \in {"skipIfThere", "skipIfSame"} /\ UNCHANGED disk
        /\ Old # None /\ (Step.do = "skipIfSame" => Old.size = Size(call.doc))
     \/ call.todo # <<>> /\ Step.do \in {"inDirOrNothing", "overlay"}

EndsBadly ==
  /\ call'.state \in {"failed", "exists", "fatal"} /\ call'.todo = <<>>
  /\ call'.answer = call.answer
  /\ call'.state = "exists" =>
       call.todo # <<>> /\ Step.do \in {"absent", "new"} /\ There(Step.on) /\ UNCHANGED disk
  /\ call'.state = "fatal" => call.todo # <<>> /\ Step.do = "fetch"

\* What becomes of a call that ends.
LEMMA CallEnded ==
  ASSUME CallType, Running, NEW state \in {"ok", "failed", "exists", "fatal"}, CallEnds(state)
  PROVE  /\ SameRequest /\ call'.state = state /\ call'.todo = <<>> /\ call'.answer = call.answer
         /\ CallType'
<1>1. call' = [call EXCEPT !.state = state, !.todo = <<>>]
  BY DEF CallEnds
<1>2. <<>> \in Seq(AllSteps)
  BY EmptySeq
<1>. QED BY <1>1, <1>2 DEF CallType, SameRequest, Running

\* What becomes of a call that goes on.
LEMMA CallGoesOn ==
  ASSUME CallType, Running, call.todo # <<>>, NEW answer \in Contents,
         call' = [call EXCEPT !.todo = Tail(call.todo), !.answer = answer]
  PROVE  /\ SameRequest /\ call'.state = "running" /\ call'.todo = Tail(call.todo)
         /\ call'.answer = answer /\ CallType'
<1>1. Tail(call.todo) \in Seq(AllSteps)
  BY RangeTail DEF CallType
<1>. QED BY <1>1 DEF CallType, SameRequest, Running

\* The same, without an answer.
LEMMA CallAdvances ==
  ASSUME CallType, Running, call.todo # <<>>, GoOn
  PROVE  /\ SameRequest /\ call'.state = "running" /\ call'.todo = Tail(call.todo)
         /\ call'.answer = call.answer /\ CallType'
<1>1. Tail(call.todo) \in Seq(AllSteps)
  BY RangeTail DEF CallType
<1>. QED BY <1>1 DEF CallType, SameRequest, Running, GoOn

\* An operation that runs is the first of those that are due, and its next step
\* is a legal one.
LEMMA AtAStep ==
  ASSUME Types, WorkInv, CallInv, Running
  PROVE  /\ cmd.work # <<>> /\ Due \in Operations /\ Due \in Range(cmd.work) /\ WellFormed(Due)
         /\ call.on = Due.on /\ call.op = Due.op /\ call.file = Due.file
         /\ call.on \in Backends /\ call.op \in Verbs
         /\ call.op = "delete" => call.file = "chunk"
         /\ call.op \in {"load", "save"} => call.file \in Files
         /\ call.todo # <<>> =>
              /\ Step \in AllSteps /\ Step \in Range(call.todo)
              /\ Step.do \in Deeds
              /\ Legal(kind[call.on], call.op, call.file, Step)
              /\ Step.do \in Changing \cup {"read", "fetch", "skipIfSame", "skipIfThere"} =>
                   Step.on \in Files /\ Old \in Contents
<1>1. cmd.work # <<>> /\ cmd.work \in Seq(Operations)
  BY DEF CallInv, Running, Types, CmdType
<1>2. Due \in Operations /\ Due \in Range(cmd.work)
  BY <1>1, RangeTail DEF Due
<1>3. WellFormed(Due)
  BY <1>2 DEF Types, CmdType
<1>4. call.on = Due.on /\ call.op = Due.op /\ call.file = Due.file
  BY <1>1 DEF CallInv, Running
<1>5. call.on \in Backends /\ call.op \in Verbs
  BY DEF Types, CallType, Running
<1>6. /\ call.op = "delete" => call.file = "chunk"
      /\ call.op \in {"load", "save"} => call.file \in Files
  BY <1>3, <1>4 DEF WellFormed
<1>7. ASSUME call.todo # <<>>
      PROVE  /\ Step \in AllSteps /\ Step \in Range(call.todo)
             /\ Step.do \in Deeds
             /\ Legal(kind[call.on], call.op, call.file, Step)
             /\ Step.do \in Changing \cup {"read", "fetch", "skipIfSame", "skipIfThere"} =>
                  Step.on \in Files /\ Old \in Contents
  <2>1. call.todo \in Seq(AllSteps)
    BY DEF Types, CallType
  <2>2. Step \in AllSteps /\ Step \in Range(call.todo)
    BY <1>7, <2>1, RangeTail DEF Step
  <2>3. Step.do \in Deeds
    BY <2>2 DEF AllSteps
  <2>4. Legal(kind[call.on], call.op, call.file, Step)
    BY <2>2 DEF CallInv
  <2>5. Step.do \in Changing \cup {"read", "fetch", "skipIfSame", "skipIfThere"} => Step.on \in Files
    BY <1>6, <2>4 DEF Legal, Changing, Files
  <2>6. Step.on \in Files => Old \in Contents
    BY <1>5 DEF Old, Types, DiskType
  <2>. QED BY <2>2, <2>3, <2>4, <2>5, <2>6
<1>. QED BY <1>1, <1>2, <1>3, <1>4, <1>5, <1>6, <1>7

\* What there may be in a file.
LEMMA TheContents ==
  ASSUME NEW d \in Documents \cup {None}
  PROVE  /\ Torn(d) \in Contents \ {None} /\ Torn(None) \in Contents \ {None} /\ None \in Contents
         /\ d \in Documents => Blank(d) \in Contents \ {None} /\ Whole(d) \in Contents \ {None}
         /\ d \in Documents => Size(d) \in Nat \ {0}
<1>. DEFINE R == [doc : Documents \cup {None}, intact : BOOLEAN, size : Nat]
<1>1. Contents = R \cup {None} /\ None \notin R
  BY RepositoryFileOK DEF Contents
<1>2. ASSUME d \in Documents PROVE Size(d) \in Nat \ {0}
  <2>1. d.id \in Nat
    BY <1>2, RepositoryFileOK DEF Documents
  <2>. QED BY <2>1 DEF Size
<1>3. Torn(d) \in R /\ Torn(None) \in R
  BY DEF Torn
<1>4. d \in Documents => Blank(d) \in R /\ Whole(d) \in R
  BY <1>2 DEF Blank, Whole
<1>. HIDE DEF R
<1>. QED BY <1>1, <1>2, <1>3, <1>4

\* Every step of an adapter is one of a few things.
LEMMA AdapterOutcome ==
  ASSUME Types, WorkInv, CallInv, AdapterStep
  PROVE  /\ Running /\ SameRequest /\ CallType' /\ UNCHANGED <<kind, given>>
         /\ Advances \/ EndsOk \/ EndsBadly
         /\ UNCHANGED disk \/ FileChanges \/ DirectoryMade
<1>. DEFINE Result == /\ Running /\ SameRequest /\ CallType'
                      /\ Advances \/ EndsOk \/ EndsBadly
                      /\ UNCHANGED disk \/ FileChanges \/ DirectoryMade
<1>1. CallType
  BY DEF Types
<1>2. ASSUME Running, call.todo # <<>>
      PROVE  /\ Step.do \in Deeds
             /\ Step.do \in Changing \cup {"read", "fetch", "skipIfSame", "skipIfThere"} =>
                  Step.on \in Files /\ Old \in Contents
  BY <1>2, AtAStep
<1>3. ASSUME Running, call.todo # <<>>, TakesEffect, Step.do \in Changing \cup {"mkdir", "tryMkdir"}
      PROVE  /\ FileChanges \/ DirectoryMade
             /\ Step.do \in Changing => disk' = [disk EXCEPT ![call.on].files[Step.on] = Effect]
             /\ Step.do = "mkdir" => DirectoryMade
  <2>1. CASE Step.do \in {"mkdir", "tryMkdir"}
    BY <1>3, <2>1 DEF TakesEffect, DirectoryMade, Changing
  <2>2. CASE Step.do \in Changing
    <3>1. disk' = [disk EXCEPT ![call.on].files[Step.on] = Effect]
      BY <1>3, <2>2 DEF TakesEffect, Changing
    <3>2. Effect \in Written(Step.do, call.doc, Old)
      BY <2>2 DEF Effect, Written, Changing
    <3>3. Step.do # "mkdir"
      BY <2>2 DEF Changing
    <3>. QED BY <1>2, <1>3, <2>2, <3>1, <3>2, <3>3 DEF FileChanges
  <2>. QED BY <1>3, <2>1, <2>2
<1>4. ASSUME Running, call.todo # <<>>, GoOn
      PROVE  SameRequest /\ call'.state = "running" /\ call'.todo = Tail(call.todo)
             /\ call'.answer = call.answer /\ CallType'
  BY <1>1, <1>4, CallAdvances
<1>5. ASSUME Running, NEW state \in {"ok", "failed", "exists", "fatal"}, CallEnds(state)
      PROVE  SameRequest /\ call'.state = state /\ call'.todo = <<>> /\ call'.answer = call.answer
             /\ CallType'
  BY <1>1, <1>5, CallEnded
<1>6. ASSUME Check PROVE Result
  <2>1. Running /\ call.todo # <<>> /\ Step.do \in {"dial", "need", "authorise", "refuse"} /\ UNCHANGED disk
    BY <1>6 DEF Check, AtStep
  <2>2. (GoOn /\ Step.do # "refuse") \/ CallEnds("failed")
    BY <1>6 DEF Check
  <2>3. ASSUME GoOn, Step.do # "refuse" PROVE Result
    BY <2>1, <2>3, <1>4 DEF Advances
  <2>4. ASSUME CallEnds("failed") PROVE Result
    BY <2>1, <2>4, <1>5 DEF EndsBadly
  <2>. QED BY <2>2, <2>3, <2>4
<1>7. ASSUME Look PROVE Result
  <2>1. /\ Running /\ call.todo # <<>> /\ UNCHANGED disk
        /\ Step.do \in {"absent", "new", "inDir", "inDirOrNothing"}
    BY <1>7 DEF Look, AtStep
  <2>2. \/ GoOn /\ (Step.do \in {"absent", "new"} => ~There(Step.on))
        \/ CallEnds("exists") /\ Step.do \in {"absent", "new"} /\ There(Step.on)
        \/ CallEnds("failed")
        \/ CallEnds("ok") /\ Step.do = "inDirOrNothing"
    BY <1>7, <2>1 DEF Look
  <2>3. ASSUME GoOn, Step.do \in {"absent", "new"} => ~There(Step.on) PROVE Result
    BY <2>1, <2>3, <1>4 DEF Advances
  <2>4. ASSUME CallEnds("exists"), Step.do \in {"absent", "new"}, There(Step.on) PROVE Result
    BY <2>1, <2>4, <1>5 DEF EndsBadly
  <2>5. ASSUME CallEnds("failed") PROVE Result
    BY <2>1, <2>5, <1>5 DEF EndsBadly
  <2>6. ASSUME CallEnds("ok"), Step.do = "inDirOrNothing" PROVE Result
    BY <2>1, <2>6, <1>5 DEF EndsOk
  <2>. QED BY <2>2, <2>3, <2>4, <2>5, <2>6
<1>8. ASSUME Skip PROVE Result
  <2>1. /\ Running /\ call.todo # <<>> /\ UNCHANGED disk
        /\ Step.do \in {"skipIfThere", "skipIfSame"}
    BY <1>8 DEF Skip, AtStep
  <2>2. \/ GoOn
        \/ CallEnds("ok") /\ Old # None /\ (Step.do = "skipIfSame" => Old.size = Size(call.doc))
    BY <1>8 DEF Skip
  <2>3. ASSUME GoOn PROVE Result
    BY <2>1, <2>3, <1>4 DEF Advances
  <2>4. ASSUME CallEnds("ok"), Old # None, Step.do = "skipIfSame" => Old.size = Size(call.doc)
        PROVE  Result
    BY <2>1, <2>4, <1>5 DEF EndsOk
  <2>. QED BY <2>2, <2>3, <2>4
<1>9. ASSUME Change PROVE Result
  <2>1. /\ Running /\ call.todo # <<>>
        /\ Step.do \in Changing \cup {"mkdir", "tryMkdir"}
    BY <1>9 DEF Change, AtStep
  <2>2. (CallEnds("failed") /\ UNCHANGED disk) \/ (GoOn /\ TakesEffect)
    BY <1>9 DEF Change
  <2>3. ASSUME GoOn, TakesEffect PROVE Result
    <3>1. /\ FileChanges \/ DirectoryMade
          /\ Step.do \in Changing => disk' = [disk EXCEPT ![call.on].files[Step.on] = Effect]
          /\ Step.do = "mkdir" => DirectoryMade
      BY <1>3, <2>1, <2>3
    <3>2. Advances
      BY <1>4, <2>1, <2>3, <3>1 DEF Advances, Changing
    <3>. QED BY <1>4, <2>1, <2>3, <3>1, <3>2
  <2>4. ASSUME CallEnds("failed"), UNCHANGED disk PROVE Result
    BY <2>1, <2>4, <1>5 DEF EndsBadly
  <2>. QED BY <2>2, <2>3, <2>4
<1>10. ASSUME Answer PROVE Result
  <2>1. /\ Running /\ call.todo # <<>> /\ UNCHANGED disk /\ Step.do \in {"read", "fetch"}
    BY <1>10 DEF Answer, AtStep
  <2>. DEFINE answer == IF Served THEN Old ELSE Torn(None)
  <2>2. \/ CallEnds("failed")
        \/ call' = [call EXCEPT !.todo = Tail(call.todo), !.answer = answer]
           /\ (Step.do = "read" => Old # None)
    BY <1>10 DEF Answer
  <2>3. answer \in Contents
    BY <1>2, <2>1, TheContents
  <2>4. ASSUME call' = [call EXCEPT !.todo = Tail(call.todo), !.answer = answer],
               Step.do = "read" => Old # None
        PROVE  Result
    <3>1. SameRequest /\ call'.state = "running" /\ call'.todo = Tail(call.todo)
          /\ call'.answer = answer /\ CallType'
      BY <1>1, <2>1, <2>3, <2>4, CallGoesOn
    <3>2. Advances
      BY <2>1, <2>4, <3>1 DEF Advances
    <3>. QED BY <2>1, <3>1, <3>2
  <2>5. ASSUME CallEnds("failed") PROVE Result
    BY <2>1, <2>5, <1>5 DEF EndsBadly
  <2>. QED BY <2>2, <2>4, <2>5
<1>11. ASSUME StepFails PROVE Result
  <2>1. Running /\ call.todo # <<>> /\ Step.do \notin {"need", "refuse"}
    BY <1>11 DEF StepFails
  <2>2. UNCHANGED disk \/ FileChanges \/ DirectoryMade
    <3>1. \/ UNCHANGED disk
          \/ Step.do \in Changing \cup {"mkdir", "tryMkdir"} /\ TakesEffect
          \/ Step.do = "overlay" /\ disk' = [disk EXCEPT ![call.on].files[Step.on] = Torn(call.doc)]
      BY <1>11 DEF StepFails
    <3>2. ASSUME Step.do = "overlay", disk' = [disk EXCEPT ![call.on].files[Step.on] = Torn(call.doc)]
          PROVE  FileChanges
      <4>1. Torn(call.doc) \in Written(Step.do, call.doc, Old)
        BY <3>2 DEF Written
      <4>2. Step.do \in Changing /\ Step.on \in Files
        BY <1>2, <2>1, <3>2 DEF Changing
      <4>. QED BY <2>1, <3>2, <4>1, <4>2 DEF FileChanges
    <3>. QED BY <1>3, <2>1, <3>1, <3>2
  <2>3. \/ GoOn /\ Step.do \in {"absent", "skipIfThere", "skipIfSame", "tryMkdir"}
        \/ CallEnds("failed") \/ (CallEnds("fatal") /\ Step.do = "fetch") \/ (CallEnds("ok") /\ Step.do = "overlay")
    BY <1>11 DEF StepFails
  <2>4. ASSUME GoOn, Step.do \in {"absent", "skipIfThere", "skipIfSame", "tryMkdir"} PROVE Result
    <3>1. Advances
      BY <1>4, <2>1, <2>4 DEF Advances
    <3>. QED BY <1>4, <2>1, <2>2, <2>4, <3>1
  <2>5. ASSUME CallEnds("failed") PROVE Result
    BY <2>1, <2>2, <2>5, <1>5 DEF EndsBadly
  <2>6. ASSUME CallEnds("fatal"), Step.do = "fetch" PROVE Result
    BY <2>1, <2>2, <2>6, <1>5 DEF EndsBadly
  <2>7. ASSUME CallEnds("ok"), Step.do = "overlay" PROVE Result
    BY <2>1, <2>2, <2>7, <1>5 DEF EndsOk
  <2>. QED BY <2>3, <2>4, <2>5, <2>6, <2>7
<1>12. ASSUME Succeed PROVE Result
  BY <1>5, <1>12 DEF Succeed, EndsOk
<1>. QED BY <1>6, <1>7, <1>8, <1>9, <1>10, <1>11, <1>12 DEF AdapterStep

\* A file is written.
LEMMA FileWritten ==
  ASSUME DiskType, NEW b \in Backends, NEW f \in Files, NEW x \in Contents,
         disk' = [disk EXCEPT ![b].files[f] = x]
  PROVE  /\ disk' \in [Backends -> [files : [Files -> Contents], dirs : SUBSET Directories]]
         /\ \A c \in Backends, g \in Files :
              disk'[c].files[g] = IF c = b /\ g = f THEN x ELSE disk[c].files[g]
         /\ \A c \in Backends : disk'[c].dirs = disk[c].dirs
  BY DEF DiskType

\* A directory is made.
LEMMA DirectoryWritten ==
  ASSUME DiskType, NEW b \in Backends, NEW d \in Directories,
         disk' = [disk EXCEPT ![b].dirs = disk[b].dirs \cup {d}]
  PROVE  /\ disk' \in [Backends -> [files : [Files -> Contents], dirs : SUBSET Directories]]
         /\ \A c \in Backends, g \in Files : disk'[c].files[g] = disk[c].files[g]
         /\ \A c \in Backends : disk'[c].dirs = IF c = b THEN disk[c].dirs \cup {d} ELSE disk[c].dirs
  BY DEF DiskType

\* What is saved.
LEMMA SavedDocument ==
  ASSUME Types, WorkInv, CallInv, call.state # "none", cmd.work # <<>>, call.op = "save"
  PROVE  /\ cmd.state = "running" /\ call.doc \in Documents /\ call.file \in Files
         /\ call.file = "chunk" => call.doc = TheChunk
         /\ call.file # "chunk" => call.doc = cmd.repo
<1>1. cmd.work \in Seq(Operations) /\ Due \in Range(cmd.work) /\ call.op = Due.op /\ call.file = Due.file
  BY RangeTail DEF Types, CmdType, CallInv, Due
<1>2. cmd.state \in {"idle", "opening", "opened", "running"}
  BY DEF Types, CmdType
<1>3. cmd.state = "running"
  BY <1>1, <1>2 DEF WorkInv
<1>4. call.file \in Files
  BY <1>1 DEF Types, CmdType, WellFormed
<1>5. cmd.repo \in Documents
  BY <1>3 DEF Types, CmdType
<1>6. TheChunk \in Documents
  <2>1. <<>> \in Seq(Backends)
    BY EmptySeq
  <2>. QED BY <2>1, RepositoryFileOK DEF TheChunk, Documents
<1>7. call.doc = DocFor(call.file)
  BY DEF CallInv
<1>. QED BY <1>3, <1>4, <1>5, <1>6, <1>7 DEF DocFor

\* What a step leaves in a file is a whole document or is not intact.
LEMMA WrittenContents ==
  ASSUME Types, WorkInv, CallInv, Running, call.todo # <<>>, Step.do \in Changing,
         NEW x \in Written(Step.do, call.doc, Old)
  PROVE  /\ x \in Contents
         /\ x # None /\ x.intact => x = Whole(call.doc) /\ call.doc \in Documents
                                    /\ Step.do \in {"write", "put", "overlay"}
         /\ Step.do \in {"truncate", "allocate", "write", "put", "overlay"} =>
              x # None /\ x.doc = call.doc
<1>1. /\ Step.do \in Deeds /\ Legal(kind[call.on], call.op, call.file, Step)
      /\ Step.on \in Files /\ Old \in Contents /\ cmd.work # <<>>
  BY AtAStep
<1>2. ASSUME Step.do \in {"truncate", "allocate", "write", "put", "overlay"}
      PROVE  call.doc \in Documents
  BY <1>1, <1>2, SavedDocument DEF Legal, Running
<1>3. ASSUME NEW d \in Documents
      PROVE  /\ Torn(d) \in Contents /\ Blank(d) \in Contents /\ Whole(d) \in Contents
             /\ Torn(d) # None /\ Blank(d) # None /\ Whole(d) # None
  BY TheContents
<1>4. \A d : /\ Torn(d).doc = d /\ Blank(d).doc = d /\ Whole(d).doc = d
             /\ Torn(d).intact = FALSE /\ Blank(d).intact = FALSE /\ Whole(d).intact = TRUE
  BY DEF Torn, Blank, Whole
<1>5. Torn(None) \in Contents /\ None \in Contents
  BY DEF Torn, Contents
<1>6. CASE Step.do = "truncate"
  BY <1>2, <1>3, <1>4, <1>6 DEF Written
<1>7. CASE Step.do = "allocate"
  BY <1>2, <1>3, <1>4, <1>7 DEF Written
<1>8. CASE Step.do \in {"write", "put"}
  BY <1>2, <1>3, <1>4, <1>8 DEF Written
<1>9. CASE Step.do = "placeholder"
  BY <1>4, <1>5, <1>9 DEF Written
<1>10. CASE Step.do \in {"drop", "remove"}
  BY <1>5, <1>10 DEF Written
<1>11. CASE Step.do = "overlay"
  <2>1. x \in {Overlaid(Old, call.doc), Torn(call.doc)}
    BY <1>11 DEF Written
  <2>2. CASE x = Torn(call.doc)
    BY <1>2, <1>3, <1>4, <1>11, <2>2
  <2>3. CASE x = Overlaid(Old, call.doc)
    <3>1. CASE Old # None /\ Old.size > Size(call.doc)
      <4>1. x = [doc |-> call.doc, intact |-> FALSE, size |-> Old.size]
        BY <2>3, <3>1 DEF Overlaid
      <4>2. Old.size \in Nat
        BY <1>1, <3>1 DEF Contents
      <4>3. x \in [doc : Documents \cup {None}, intact : BOOLEAN, size : Nat]
        BY <1>2, <1>11, <4>1, <4>2
      <4>. QED BY <1>11, <4>1, <4>3, RepositoryFileOK DEF Contents
    <3>2. CASE ~(Old # None /\ Old.size > Size(call.doc))
      <4>1. x = Whole(call.doc)
        BY <2>3, <3>2 DEF Overlaid
      <4>. QED BY <1>2, <1>3, <1>4, <1>11, <4>1
    <3>. QED BY <3>1, <3>2
  <2>. QED BY <2>1, <2>2, <2>3
<1>. QED BY <1>6, <1>7, <1>8, <1>9, <1>10, <1>11 DEF Changing

\* What a step changes on the disks.
Changes ==
  /\ \A c \in Backends, g \in Files :
       disk'[c].files[g] # disk[c].files[g] =>
         /\ c = call.on /\ call.todo # <<>> /\ g = Step.on /\ Step.do \in Changing
         /\ disk'[c].files[g] \in Written(Step.do, call.doc, Old)
  /\ \A c \in Backends :
       /\ disk[c].dirs \subseteq disk'[c].dirs
       /\ disk'[c].dirs # disk[c].dirs =>
            c = call.on /\ call.todo # <<>> /\ Step.do \in {"mkdir", "tryMkdir"}

\* A step changes one file or makes one directory, at most.
LEMMA AdapterChanges ==
  ASSUME Types, WorkInv, CallInv, AdapterStep
  PROVE  DiskType' /\ Changes
<1>1. Running /\ (UNCHANGED disk \/ FileChanges \/ DirectoryMade)
  BY AdapterOutcome
<1>2. call.on \in Backends /\ DiskType
  BY <1>1, AtAStep DEF Types
<1>3. CASE UNCHANGED disk
  BY <1>2, <1>3 DEF DiskType, Changes
<1>4. CASE FileChanges
  <2>1. /\ call.todo # <<>> /\ Step.do \in Changing /\ Step.on \in Files
        /\ \E new \in Written(Step.do, call.doc, Old) :
             disk' = [disk EXCEPT ![call.on].files[Step.on] = new]
    BY <1>4 DEF FileChanges
  <2>2. PICK x \in Written(Step.do, call.doc, Old) :
          disk' = [disk EXCEPT ![call.on].files[Step.on] = x]
    BY <2>1
  <2>3. x \in Contents /\ (x # None /\ x.intact => x = Whole(call.doc) /\ call.doc \in Documents)
    BY <1>1, <2>1, WrittenContents
  <2>4. /\ disk' \in [Backends -> [files : [Files -> Contents], dirs : SUBSET Directories]]
        /\ \A c \in Backends, g \in Files :
             disk'[c].files[g] = IF c = call.on /\ g = Step.on THEN x ELSE disk[c].files[g]
        /\ \A c \in Backends : disk'[c].dirs = disk[c].dirs
    BY <1>2, <2>1, <2>2, <2>3, FileWritten
  <2>5. Whole(call.doc).doc = call.doc
    BY DEF Whole
  <2>6. DiskType'
    BY <1>2, <2>3, <2>4, <2>5 DEF DiskType
  <2>7. Changes
    BY <2>1, <2>4 DEF Changes
  <2>. QED BY <2>6, <2>7
<1>5. CASE DirectoryMade
  <2>1. /\ call.todo # <<>> /\ Step.do \in {"mkdir", "tryMkdir"}
        /\ disk' = [disk EXCEPT ![call.on].dirs = disk[call.on].dirs \cup {Step.on}]
    BY <1>5 DEF DirectoryMade
  <2>2. Step.on \in Directories
    BY <1>1, <2>1, AtAStep DEF Legal
  <2>3. /\ disk' \in [Backends -> [files : [Files -> Contents], dirs : SUBSET Directories]]
        /\ \A c \in Backends, g \in Files : disk'[c].files[g] = disk[c].files[g]
        /\ \A c \in Backends : disk'[c].dirs = IF c = call.on THEN disk[c].dirs \cup {Step.on}
                                                              ELSE disk[c].dirs
    BY <1>2, <2>1, <2>2, DirectoryWritten
  <2>4. DiskType'
    BY <1>2, <2>3 DEF DiskType
  <2>5. Changes
    BY <2>1, <2>3 DEF Changes
  <2>. QED BY <2>4, <2>5
<1>. QED BY <1>1, <1>3, <1>4, <1>5

\* A step of an adapter changes nothing of the command but that it may be blind
\* to what is there from then on.
LEMMA AdapterFrame ==
  ASSUME Types, WorkInv, CallInv, Adapter
  PROVE  /\ AdapterStep /\ UNCHANGED <<kind, given, newest, kept>>
         /\ cmd'.name = cmd.name /\ cmd'.state = cmd.state /\ cmd'.work = cmd.work
         /\ cmd'.repo = cmd.repo /\ cmd'.arg = cmd.arg /\ cmd'.try = cmd.try
         /\ cmd.blind => cmd'.blind
         /\ Step.do = "absent" /\ call'.state = "running" /\ There(Step.on) /\ call.todo # <<>>
              => cmd'.blind
         /\ CmdType'
<1>1. AdapterStep /\ UNCHANGED <<kind, given, newest, kept>> /\ Running
  BY AdapterOutcome DEF Adapter
<1>2. \/ cmd' = cmd
      \/ cmd' = [cmd EXCEPT !.blind = TRUE]
  BY DEF Adapter
<1>3. cmd' = [cmd EXCEPT !.blind = TRUE] \/
        ~(Step.do = "absent" /\ call'.state = "running" /\ There(Step.on) /\ call.todo # <<>>)
  BY <1>1 DEF Adapter
<1>. QED BY <1>1, <1>2, <1>3 DEF Types, CmdType, IsIdle

-----------------------------------------------------------------------------
(* The steps of the adapters keep the invariant.                           *)

\* The types.
LEMMA AdapterTypes ==
  ASSUME Types, WorkInv, CallInv, Adapter
  PROVE  Types'
<1>1. /\ UNCHANGED <<kind, given, newest, kept>> /\ AdapterStep /\ CmdType'
  BY AdapterFrame
<1>2. CallType' /\ DiskType'
  BY <1>1, AdapterOutcome, AdapterChanges
<1>. QED BY <1>1, <1>2 DEF Types

\* The operations that are due.
LEMMA AdapterWork ==
  ASSUME Types, WorkInv, CallInv, Adapter
  PROVE  WorkInv'
<1>1. /\ cmd'.name = cmd.name /\ cmd'.state = cmd.state /\ cmd'.work = cmd.work
      /\ cmd'.repo = cmd.repo /\ AdapterStep
  BY AdapterFrame
<1>2. cmd.work # <<>>
  BY <1>1, AdapterOutcome, AtAStep
<1>. QED BY <1>1, <1>2 DEF WorkInv, Ordered

\* What is known of the call.
LEMMA AdapterCall ==
  ASSUME Types, WorkInv, CallInv, Adapter
  PROVE  CallInv'
<1>1. /\ cmd'.state = cmd.state /\ cmd'.work = cmd.work /\ cmd'.repo = cmd.repo
      /\ UNCHANGED <<kind, kept>> /\ AdapterStep
  BY AdapterFrame
<1>2. /\ Running /\ SameRequest
      /\ Advances \/ EndsOk \/ EndsBadly
  BY <1>1, AdapterOutcome
<1>3. cmd.work # <<>> /\ call.state # "none" /\ Due' = Due
  BY <1>1, <1>2, AtAStep DEF Running, Due
<1>4. call'.doc = DocFor(call.file)' \/ call.op # "save"
  BY <1>1, <1>2, <1>3 DEF CallInv, DocFor, SameRequest
<1>5. ASSUME Running'
      PROVE  \A s \in Range(call'.todo) : Legal(kind[call.on], call.op, call.file, s)
  <2>1. Advances
    BY <1>2, <1>5 DEF EndsOk, EndsBadly, Running
  <2>2. call'.todo = Tail(call.todo) /\ call.todo # <<>>
    BY <2>1 DEF Advances
  <2>3. call.todo \in Seq(AllSteps)
    BY DEF Types, CallType
  <2>4. \A s \in Range(Tail(call.todo)) : s \in Range(call.todo)
    BY <2>2, <2>3, RangeTail
  <2>. QED BY <1>2, <2>2, <2>4 DEF CallInv
<1>. QED BY <1>1, <1>2, <1>3, <1>4, <1>5 DEF CallInv, SameRequest

\* The last step of an operation achieves what it is for.
LEMMA AdapterAchieves ==
  ASSUME Types, WorkInv, CallInv, AchievedInv, ChunkInv, Adapter
  PROVE  AchievedInv'
<1>1. UNCHANGED kind /\ AdapterStep
  BY AdapterFrame
<1>2. /\ Running /\ SameRequest
      /\ Advances \/ EndsOk \/ EndsBadly
  BY <1>1, AdapterOutcome
<1>3. Changes
  BY <1>1, AdapterChanges
<1>4. /\ call.on \in Backends /\ call.op \in Verbs
      /\ call.op = "delete" => call.file = "chunk"
      /\ call.op \in {"load", "save"} => call.file \in Files
      /\ call.todo # <<>> =>
           /\ Step \in AllSteps /\ Step.do \in Deeds
           /\ Legal(kind[call.on], call.op, call.file, Step)
           /\ Step.do \in Changing \cup {"read", "fetch", "skipIfSame", "skipIfThere"} =>
                Step.on \in Files /\ Old \in Contents
  BY <1>2, AtAStep
<1>5. (call.todo = <<>> /\ Achieved) \/ EndsWell(call.op, call.file, call.todo)
  BY <1>2 DEF AchievedInv
<1>6. ASSUME Advances PROVE AchievedInv'
  <2>1. /\ call.todo # <<>> /\ call'.state = "running" /\ call'.todo = Tail(call.todo)
        /\ call.todo \in Seq(AllSteps)
    BY <1>6 DEF Advances, Types, CallType
  <2>2. EndsWell(call.op, call.file, call.todo)
    BY <1>5, <2>1
  <2>3. CASE Tail(call.todo) # <<>>
    <3>1. EndsWell(call.op, call.file, Tail(call.todo))
      BY <2>1, <2>2, <2>3, RangeTail DEF EndsWell
    <3>. QED BY <1>2, <2>1, <3>1 DEF AchievedInv, SameRequest
  <2>4. CASE Tail(call.todo) = <<>>
    <3>1. call.op \in {"save", "delete", "load"} =>
            Step.do \in Final(call.op) /\ Step.on = call.file
      BY <2>1, <2>2, <2>4, RangeTail DEF EndsWell, Step
    <3>2. ASSUME call.op = "save", kind[call.on] # "http"
          PROVE  disk'[call.on].files[call.file] = Whole(call.doc)
      <4>1. Step.do \in {"write", "put"} /\ Step.on = call.file
        BY <1>4, <1>6, <2>1, <3>1, <3>2 DEF Final, Legal, Advances
      <4>2. disk' = [disk EXCEPT ![call.on].files[Step.on] = Whole(call.doc)]
        BY <1>6, <4>1 DEF Advances, Effect
      <4>3. Whole(call.doc) \in Contents
        BY <1>2, <3>2, AtAStep, SavedDocument, TheContents DEF Running
      <4>4. DiskType /\ call.file \in Files
        BY <1>4, <3>2 DEF Types
      <4>. DEFINE x == Whole(call.doc)
      <4>. HIDE DEF x
      <4>5. disk' = [disk EXCEPT ![call.on].files[call.file] = x] /\ x \in Contents
        BY <4>1, <4>2, <4>3 DEF x
      <4>6. disk'[call.on].files[call.file] = x
        <5>1. call.on \in Backends /\ call.file \in Files /\ x \in Contents
          BY <1>4, <4>4, <4>5
        <5>. QED BY <4>4, <4>5, <5>1 DEF DiskType
      <4>. QED BY <4>6 DEF x
    <3>3. ASSUME call.op = "delete"
          PROVE  disk'[call.on].files[call.file] = None
      <4>1. Step.do \in {"drop", "remove"} /\ Step.on = call.file
        BY <1>6, <3>1, <3>3 DEF Final, Advances
      <4>2. disk' = [disk EXCEPT ![call.on].files[Step.on] = None]
        BY <1>6, <4>1 DEF Advances, Effect
      <4>3. None \in Contents /\ call.file \in Files
        BY <1>4, <3>3 DEF Contents, Files
      <4>4. DiskType /\ disk' = [disk EXCEPT ![call.on].files[call.file] = None]
        BY <4>1, <4>2 DEF Types
      <4>5. call.on \in Backends /\ call.file \in Files
        BY <1>4, <4>3
      <4>. QED BY <4>4, <4>5 DEF DiskType
    <3>4. ASSUME call.op = "load"
          PROVE  /\ call'.answer \in Answers
                 /\ kind[call.on] # "http" => call'.answer = disk'[call.on].files[call.file]
      <4>1. Step.do \in {"read", "fetch"} /\ Step.on = call.file
        BY <1>6, <3>1, <3>4 DEF Final, Advances
      <4>2. /\ call'.answer = IF Served THEN Old ELSE Torn(None)
            /\ Step.do = "read" => Old # None
        BY <1>6, <4>1 DEF Advances
      <4>3. Torn(None) \in Answers
        BY TheContents DEF Answers
      <4>4. Served => Old # None
        BY DEF Served
      <4>5. call'.answer \in Answers
        BY <1>4, <2>1, <4>1, <4>2, <4>3, <4>4 DEF Answers
      <4>6. ASSUME kind[call.on] # "http" PROVE call'.answer = disk'[call.on].files[call.file]
        <5>1. Step.do = "read" /\ Step.do \notin Changing
          BY <1>4, <2>1, <4>1, <4>6 DEF Legal, Changing
        <5>2. disk'[call.on].files[call.file] = disk[call.on].files[call.file]
          BY <1>3, <1>4, <3>4, <5>1 DEF Changes
        <5>3. Served
          BY <4>2, <5>1 DEF Served
        <5>. QED BY <4>1, <4>2, <5>2, <5>3 DEF Old
      <4>. QED BY <4>5, <4>6
    <3>5. Achieved'
      BY <1>1, <1>2, <3>2, <3>3, <3>4 DEF Achieved, SameRequest
    <3>. QED BY <2>1, <2>4, <3>5 DEF AchievedInv
  <2>. QED BY <2>3, <2>4
<1>7. ASSUME EndsOk PROVE AchievedInv'
  <2>1. call'.state = "ok" /\ call'.answer = call.answer
    BY <1>7 DEF EndsOk
  <2>2. CASE call.todo = <<>> /\ UNCHANGED disk
    <3>1. Achieved \/ call.op \notin {"save", "delete", "load"}
      BY <1>5, <2>2 DEF EndsWell
    <3>2. Achieved'
      BY <1>1, <1>2, <2>1, <2>2, <3>1 DEF Achieved, SameRequest
    <3>. QED BY <2>1, <3>2 DEF AchievedInv, Running
  <2>3. CASE /\ call.todo # <<>> /\ Step.do \in {"skipIfThere", "skipIfSame"} /\ UNCHANGED disk
             /\ Old # None /\ (Step.do = "skipIfSame" => Old.size = Size(call.doc))
    <3>1. call.op = "save" /\ call.file = "chunk" /\ Step.on = "chunk"
          /\ (Step.do = "skipIfThere" => kind[call.on] = "s3")
      BY <1>4, <2>3 DEF Legal
    <3>2. call.doc = TheChunk
      BY <1>2, <3>1, AtAStep, SavedDocument DEF Running
    <3>3. ASSUME kind[call.on] # "http", kind[call.on] # "azurefile"
          PROVE  disk[call.on].files["chunk"] = Whole(TheChunk)
      <4>1. \/ Old \in {None, Whole(TheChunk)}
            \/ Old = Torn(TheChunk) /\ kind[call.on] # "s3"
        BY <1>4, <3>1, <3>3 DEF ChunkInv, Old
      <4>2. Torn(TheChunk).size = 0 /\ Size(TheChunk) # 0
        BY DEF Torn, Size, TheChunk
      <4>. QED BY <2>3, <3>1, <3>2, <4>1, <4>2 DEF Old
    <3>4. Achieved'
      BY <1>1, <1>2, <2>3, <3>1, <3>2, <3>3 DEF Achieved, SameRequest
    <3>. QED BY <2>1, <3>4 DEF AchievedInv, Running
  <2>4. CASE call.todo # <<>> /\ Step.do \in {"inDirOrNothing", "overlay"}
    <3>1. call.op = "save" /\ kind[call.on] = "http"
      BY <1>4, <2>4 DEF Legal
    <3>2. Achieved'
      BY <1>1, <1>2, <3>1 DEF Achieved, SameRequest
    <3>. QED BY <2>1, <3>2 DEF AchievedInv, Running
  <2>. QED BY <1>7, <2>2, <2>3, <2>4 DEF EndsOk
<1>8. ASSUME EndsBadly PROVE AchievedInv'
  BY <1>8 DEF EndsBadly, AchievedInv, Running
<1>. QED BY <1>2, <1>6, <1>7, <1>8

\* A file that changes is the one the operation is about, or the repository file
\* of a bucket at Backblaze.
LEMMA ChangedFile ==
  ASSUME Types, WorkInv, CallInv, Adapter,
         NEW b \in Backends, NEW f \in Files, disk'[b].files[f] # disk[b].files[f]
  PROVE  /\ b = call.on /\ f = Step.on /\ call.todo # <<>> /\ Step.do \in Changing
         /\ disk'[b].files[f] \in Written(Step.do, call.doc, disk[b].files[f])
         /\ Legal(kind[b], call.op, call.file, Step)
         /\ \/ f = call.file /\ call.op = "save"
            \/ f = call.file /\ call.op = "delete" /\ f = "chunk"
            \/ kind[b] = "backblaze" /\ f = "repository"
         /\ f = call.file /\ call.op \in {"save", "delete"} => kept[b][f] = None
<1>1. AdapterStep
  BY AdapterFrame
<1>2. Running /\ Changes
  BY <1>1, AdapterOutcome, AdapterChanges
<1>3. /\ b = call.on /\ f = Step.on /\ call.todo # <<>> /\ Step.do \in Changing
      /\ disk'[b].files[f] \in Written(Step.do, call.doc, Old)
  BY <1>2 DEF Changes
<1>4. Legal(kind[b], call.op, call.file, Step) /\ (call.op = "delete" => call.file = "chunk")
  BY <1>2, <1>3, AtAStep
<1>5. \/ f = call.file /\ call.op = "save"
      \/ f = call.file /\ call.op = "delete" /\ f = "chunk"
      \/ kind[b] = "backblaze" /\ f = "repository"
  BY <1>3, <1>4 DEF Legal, Changing
<1>6. f = call.file /\ call.op \in {"save", "delete"} => kept[b][f] = None
  BY <1>2, <1>3 DEF CallInv
<1>. QED BY <1>3, <1>4, <1>5, <1>6 DEF Old

\* The chunk.
LEMMA AdapterChunk ==
  ASSUME Types, WorkInv, CallInv, ChunkInv, Adapter
  PROVE  ChunkInv'
<1>1. UNCHANGED kind /\ Running
  BY AdapterFrame, AdapterOutcome
<1>2. SUFFICES ASSUME NEW b \in Backends, kind[b] \notin {"http", "azurefile"}
               PROVE  \/ disk'[b].files["chunk"] \in {None, Whole(TheChunk)}
                      \/ disk'[b].files["chunk"] = Torn(TheChunk) /\ kind[b] # "s3"
  BY <1>1 DEF ChunkInv
<1>3. CASE disk'[b].files["chunk"] = disk[b].files["chunk"]
  BY <1>2, <1>3 DEF ChunkInv
<1>4. CASE disk'[b].files["chunk"] # disk[b].files["chunk"]
  <2>1. "chunk" \in Files
    BY DEF Files
  <2>2. /\ b = call.on /\ "chunk" = Step.on /\ call.todo # <<>> /\ Step.do \in Changing
        /\ disk'[b].files["chunk"] \in Written(Step.do, call.doc, disk[b].files["chunk"])
        /\ Legal(kind[b], call.op, call.file, Step)
        /\ call.file = "chunk" /\ call.op \in {"save", "delete"}
    BY <1>4, <2>1, ChangedFile
  <2>3. call.op = "save" => call.doc = TheChunk
    BY <1>1, <2>2, AtAStep, SavedDocument DEF Running
  <2>4. \/ Step.do \in {"drop", "remove"}
        \/ Step.do \in {"write", "put"} /\ call.doc = TheChunk
        \/ Step.do = "truncate" /\ call.doc = TheChunk /\ kind[b] # "s3"
    BY <1>2, <2>2, <2>3 DEF Legal, Changing
  <2>5. CASE Step.do \in {"drop", "remove"}
    BY <2>2, <2>5 DEF Written
  <2>6. CASE Step.do \in {"write", "put"} /\ call.doc = TheChunk
    BY <2>2, <2>6 DEF Written
  <2>7. CASE Step.do = "truncate" /\ call.doc = TheChunk /\ kind[b] # "s3"
    BY <2>2, <2>7 DEF Written
  <2>. QED BY <2>4, <2>5, <2>6, <2>7
<1>. QED BY <1>3, <1>4

\* What has been acknowledged.
LEMMA AdapterKeeps ==
  ASSUME Types, WorkInv, CallInv, AcknowledgedIsKept, Adapter
  PROVE  AcknowledgedIsKept'
<1>1. UNCHANGED <<kind, kept>>
  BY AdapterFrame
<1>2. SUFFICES ASSUME NEW b \in Backends, NEW f \in Files, kept[b][f] # None, ~Untrusted(kind[b], f)
               PROVE  disk'[b].files[f] = Whole(kept[b][f])
  BY <1>1 DEF AcknowledgedIsKept, Untrusted
<1>3. disk'[b].files[f] = disk[b].files[f]
  BY <1>2, ChangedFile DEF Untrusted
<1>. QED BY <1>2, <1>3 DEF AcknowledgedIsKept

\* While the repository file is saved, the backends of the repository have
\* their buckets, and no operation that prepares one is left.
LEMMA SavingTheRepository ==
  ASSUME Types, WorkInv, CallInv, cmd.work # <<>>, IsRepoSave(Due)
  PROVE  /\ cmd.state = "running" /\ Due.on \in Range(cmd.repo.paths)
         /\ \A o \in Range(cmd.work) : IsRepoSave(o)
         /\ \A b : ~Initialising(b)
         /\ BucketInv => Bucketed(cmd.repo.paths)
<1>1. cmd.work \in Seq(Operations) /\ Due = cmd.work[1] /\ Due \in Range(cmd.work)
  BY RangeTail, EmptySeq, HeadTailProperties DEF Types, CmdType, Due
<1>2. DOMAIN cmd.work = 1 .. Len(cmd.work) /\ Len(cmd.work) \in Nat \ {0}
  BY <1>1, LenProperties, EmptySeq
<1>3. ASSUME NEW o \in Range(cmd.work) PROVE IsRepoSave(o)
  <2>1. PICK j \in DOMAIN cmd.work : o = cmd.work[j]
    BY DEF Range
  <2>2. CASE j = 1
    BY <1>1, <2>1, <2>2
  <2>3. CASE j # 1
    <3>1. 1 \in DOMAIN cmd.work /\ 1 < j
      BY <1>2, <2>1, <2>3
    <3>2. Ordered(cmd.work)
      BY DEF WorkInv
    <3>. QED BY <1>1, <2>1, <3>1, <3>2 DEF Ordered
  <2>. QED BY <2>2, <2>3
<1>4. \A b : ~Initialising(b)
  <2>1. \A b : ~IsRepoSave(Operation("init", b, "none"))
    BY DEF IsRepoSave, Operation
  <2>. QED BY <1>3, <2>1 DEF Initialising
<1>5. cmd.state = "running"
  <2>1. cmd.state \in {"idle", "opening", "opened", "running"}
    BY DEF Types, CmdType
  <2>2. cmd.state \in {"opening", "opened"} => Due.op \in {"connect", "load"}
    BY <1>1 DEF WorkInv
  <2>3. Due.op = "save"
    BY DEF IsRepoSave
  <2>. QED BY <2>1, <2>2, <2>3 DEF WorkInv
<1>6. Due.on \in Range(cmd.repo.paths)
  BY <1>1 DEF WorkInv
<1>7. BucketInv => Bucketed(cmd.repo.paths)
  BY <1>4, <1>5 DEF BucketInv, Bucketed
<1>. QED BY <1>3, <1>4, <1>5, <1>6, <1>7

\* The repository file is written by a save of it.
LEMMA RepositoryWritten ==
  ASSUME Types, WorkInv, CallInv, Adapter, NEW b \in Backends,
         disk'[b].files["repository"] # disk[b].files["repository"], kind[b] # "backblaze"
  PROVE  /\ cmd.work # <<>> /\ IsRepoSave(Due) /\ Due.on = b /\ call.on = b
         /\ call.op = "save" /\ call.file = "repository" /\ call.doc = cmd.repo
         /\ cmd.repo \in Documents
         /\ Step.do \in {"truncate", "allocate", "write", "put", "overlay", "drop", "remove"}
         /\ Step.on = "repository"
<1>1. "repository" \in Files /\ "repository" # "chunk"
  BY DEF Files
<1>2. Running /\ AdapterStep
  BY AdapterFrame, AdapterOutcome
<1>3. /\ b = call.on /\ "repository" = Step.on /\ call.todo # <<>> /\ Step.do \in Changing
      /\ call.file = "repository" /\ call.op = "save"
      /\ Legal(kind[b], call.op, call.file, Step)
  BY <1>1, ChangedFile
<1>4. cmd.work # <<>> /\ call.on = Due.on /\ call.op = Due.op /\ call.file = Due.file
  BY <1>2, AtAStep
<1>5. call.doc = cmd.repo /\ call.doc \in Documents
  BY <1>1, <1>2, <1>3, <1>4, SavedDocument DEF Running
<1>. QED BY <1>3, <1>4, <1>5 DEF IsRepoSave, Changing, Legal

\* A repository file that is whole after a step and was not before is the one
\* that the command saves.
LEMMA WholeWritten ==
  ASSUME Types, WorkInv, CallInv, Adapter, NEW b \in Backends, NEW f \in Files,
         disk'[b].files[f] # disk[b].files[f], disk'[b].files[f] # None, disk'[b].files[f].intact
  PROVE  /\ call.op = "save" /\ f = call.file /\ b = call.on
         /\ disk'[b].files[f].doc = call.doc
<1>1. Running /\ AdapterStep
  BY AdapterFrame, AdapterOutcome
<1>2. /\ b = call.on /\ f = Step.on /\ call.todo # <<>> /\ Step.do \in Changing
      /\ disk'[b].files[f] \in Written(Step.do, call.doc, Old)
      /\ Legal(kind[b], call.op, call.file, Step)
  BY ChangedFile DEF Old
<1>3. disk'[b].files[f] = Whole(call.doc) /\ Step.do \in {"write", "put", "overlay"}
  BY <1>1, <1>2, WrittenContents
<1>4. Whole(call.doc).doc = call.doc
  BY DEF Whole
<1>. QED BY <1>2, <1>3, <1>4 DEF Legal

\* Buckets stay.
LEMMA BucketsStay ==
  ASSUME Types, WorkInv, CallInv, Adapter
  PROVE  /\ \A b \in Backends : disk[b].dirs \subseteq disk'[b].dirs
         /\ \A b \in Backends : Bucket(b) => Bucket(b)'
         /\ \A d \in Documents : Bucketed(d.paths) => \A b \in Range(d.paths) : kind[b] = "s3" => Bucket(b)'
         /\ \A d \in Documents : \A b \in Range(d.paths) : b \in Backends
<1>1. \A b \in Backends : disk[b].dirs \subseteq disk'[b].dirs
  BY AdapterFrame, AdapterChanges DEF Changes
<1>2. \A b \in Backends : Bucket(b) => Bucket(b)'
  BY <1>1 DEF Bucket
<1>3. ASSUME NEW d \in Documents, NEW b \in Range(d.paths) PROVE b \in Backends
  <2>1. d.paths \in Seq(Backends)
    BY DEF Documents
  <2>. QED BY <2>1, ElementOfSeq, LenProperties DEF Range
<1>. QED BY <1>1, <1>2, <1>3 DEF Bucketed

\* The buckets.
LEMMA AdapterBuckets ==
  ASSUME Types, WorkInv, CallInv, BucketInv, Adapter
  PROVE  BucketInv'
<1>1. /\ UNCHANGED kind /\ AdapterStep
      /\ cmd'.name = cmd.name /\ cmd'.state = cmd.state /\ cmd'.work = cmd.work
      /\ cmd'.repo = cmd.repo
  BY AdapterFrame
<1>2. Running /\ SameRequest /\ (Advances \/ EndsOk \/ EndsBadly)
  BY <1>1, AdapterOutcome
<1>3. /\ \A b \in Backends : Bucket(b) => Bucket(b)'
      /\ \A d \in Documents : Bucketed(d.paths) => \A b \in Range(d.paths) : kind[b] = "s3" => Bucket(b)'
      /\ \A d \in Documents : \A b \in Range(d.paths) : b \in Backends
  BY BucketsStay
<1>4. ASSUME NEW d \in Documents, Bucketed(d.paths)
      PROVE  \A c \in Range(d.paths) : kind[c] = "s3" => Bucket(c)'
  BY <1>3, <1>4
<1>5. "repository" \in Files
  BY DEF Files
<1>6. ASSUME NEW b \in Backends, kind[b] = "s3", disk'[b].files["repository"] # None
      PROVE  Bucket(b)'
  <2>1. CASE disk'[b].files["repository"] = disk[b].files["repository"]
    BY <1>3, <1>6, <2>1 DEF BucketInv
  <2>2. CASE disk'[b].files["repository"] # disk[b].files["repository"]
    <3>1. cmd.work # <<>> /\ IsRepoSave(Due) /\ Due.on = b
      BY <1>6, <2>2, RepositoryWritten
    <3>2. Bucketed(cmd.repo.paths) /\ b \in Range(cmd.repo.paths)
      BY <3>1, SavingTheRepository
    <3>. QED BY <1>3, <1>6, <3>2 DEF Bucketed
  <2>. QED BY <2>1, <2>2
<1>7. ASSUME NEW b \in Backends, disk'[b].files["repository"] # None,
             disk'[b].files["repository"].intact
      PROVE  \A c \in Range(disk'[b].files["repository"].doc.paths) : kind[c] = "s3" => Bucket(c)'
  <2>. DEFINE file == disk[b].files["repository"]
              new == disk'[b].files["repository"]
  <2>1. CASE new = file
    <3>1. file.doc \in Documents
      BY <1>5, <1>7, <2>1 DEF Types, DiskType
    <3>2. Bucketed(file.doc.paths)
      BY <1>7, <2>1 DEF BucketInv
    <3>. QED BY <1>4, <2>1, <3>1, <3>2
  <2>2. CASE new # file
    <3>1. call.op = "save" /\ call.file = "repository" /\ call.on = b /\ new.doc = call.doc
      BY <1>5, <1>7, <2>2, WholeWritten
    <3>2. cmd.work # <<>> /\ IsRepoSave(Due)
      BY <1>2, <3>1, AtAStep DEF IsRepoSave
    <3>3. Bucketed(cmd.repo.paths)
      BY <3>2, SavingTheRepository
    <3>4. new.doc = cmd.repo /\ cmd.repo \in Documents
      BY <1>2, <3>1, <3>2, SavedDocument DEF Running
    <3>. QED BY <1>4, <3>3, <3>4
  <2>. QED BY <2>1, <2>2
<1>8. ASSUME call'.op = "load", call'.file = "repository", call'.answer # None, call'.answer.intact
      PROVE  /\ call'.answer.doc \in Documents
             /\ \A c \in Range(call'.answer.doc.paths) : kind[c] = "s3" => Bucket(c)'
  <2>1. call.op = "load" /\ call.file = "repository"
    BY <1>2, <1>8 DEF SameRequest
  <2>2. CASE call'.answer = call.answer
    <3>1. call.answer.doc \in Documents /\ Bucketed(call.answer.doc.paths)
      BY <1>8, <2>1, <2>2 DEF BucketInv
    <3>. QED BY <1>4, <2>2, <3>1
  <2>3. CASE call'.answer # call.answer
    <3>1. /\ call.todo # <<>> /\ Step.do \in {"read", "fetch"}
          /\ call'.answer = IF Served THEN Old ELSE Torn(None)
      BY <1>2, <2>3 DEF Advances, EndsOk, EndsBadly
    <3>2. Torn(None).intact = FALSE
      BY DEF Torn
    <3>3. call'.answer = Old
      BY <1>8, <3>1, <3>2
    <3>4. Step.on = "repository" /\ call.on \in Backends
      BY <1>2, <2>1, <3>1, AtAStep DEF Legal
    <3>5. Old = disk[call.on].files["repository"]
      BY <3>4 DEF Old
    <3>6. Old.doc \in Documents /\ Bucketed(Old.doc.paths)
      BY <1>5, <1>8, <3>3, <3>4, <3>5 DEF Types, DiskType, BucketInv
    <3>. QED BY <1>4, <3>3, <3>6
  <2>. QED BY <2>2, <2>3
<1>9. ASSUME cmd.state = "opened"
      PROVE  \A c \in Range(cmd.repo.paths) : kind[c] = "s3" => Bucket(c)'
  <2>1. cmd.repo \in Documents /\ Bucketed(cmd.repo.paths)
    BY <1>9 DEF Types, CmdType, BucketInv
  <2>. QED BY <1>4, <2>1
<1>10. ASSUME cmd.state = "running", NEW b \in Range(cmd.repo.paths), kind[b] = "s3", ~Bucket(b)'
       PROVE  /\ Initialising(b)
              /\ ~(call'.state = "ok" /\ call'.op = "init" /\ call'.on = b)
              /\ Running' /\ call'.op = "init" /\ call'.on = b =>
                   Do("mkdir", "repositories") \in Range(call'.todo)
  <2>1. b \in Backends
    BY <1>3, <1>10 DEF Types, CmdType
  <2>2. ~Bucket(b)
    BY <1>3, <1>10, <2>1
  <2>3. /\ Initialising(b)
        /\ call.op = "init" /\ call.on = b => Do("mkdir", "repositories") \in Range(call.todo)
    BY <1>2, <1>10, <2>2 DEF BucketInv
  <2>4. ASSUME call'.op = "init", call'.on = b, EndsOk PROVE FALSE
    <3>1. call.op = "init" /\ call.on = b
      BY <1>2, <2>4 DEF SameRequest
    <3>2. Range(call.todo) # {}
      BY <2>3, <3>1
    <3>3. call.todo # <<>>
      BY <3>2 DEF Range
    <3>4. Legal(kind[call.on], call.op, call.file, Step)
      BY <1>2, <3>3, AtAStep
    <3>. QED BY <2>4, <3>1, <3>3, <3>4 DEF EndsOk, Legal
  <2>5. ASSUME call'.op = "init", call'.on = b, Advances
        PROVE  Do("mkdir", "repositories") \in Range(call'.todo)
    <3>1. call.op = "init" /\ call.on = b
      BY <1>2, <2>5 DEF SameRequest
    <3>2. call.todo \in Seq(AllSteps) /\ call.todo # <<>> /\ call'.todo = Tail(call.todo)
      BY <2>5 DEF Advances, Types, CallType
    <3>3. Step = Do("mkdir", "repositories") \/ Do("mkdir", "repositories") \in Range(call'.todo)
      BY <2>3, <3>1, <3>2, RangeTail DEF Step
    <3>4. ASSUME Step = Do("mkdir", "repositories") PROVE FALSE
      <4>1. Step.do = "mkdir" /\ Step.on = "repositories"
        BY <3>4 DEF Do
      <4>2. disk' = [disk EXCEPT ![call.on].dirs = disk[call.on].dirs \cup {Step.on}]
        BY <2>5, <4>1 DEF Advances, DirectoryMade
      <4>3. Bucket(b)'
        BY <2>1, <3>1, <4>1, <4>2 DEF Bucket, Types, DiskType
      <4>. QED BY <1>10, <4>3
    <3>. QED BY <3>3, <3>4
  <2>6. call'.state = "ok" => EndsOk
    BY <1>2 DEF Advances, EndsBadly
  <2>7. Running' => Advances
    BY <1>2 DEF EndsOk, EndsBadly, Running
  <2>. QED BY <2>3, <2>4, <2>5, <2>6, <2>7
<1>. QED
  <2>1. cmd'.state = "running" => \A b \in Range(cmd'.repo.paths) : kind'[b] = "s3" =>
         \/ Bucket(b)'
         \/ /\ Initialising(b)'
            /\ ~(call'.state = "ok" /\ call'.op = "init" /\ call'.on = b)
            /\ Running' /\ call'.op = "init" /\ call'.on = b =>
                 Do("mkdir", "repositories") \in Range(call'.todo)
    BY <1>1, <1>10 DEF Initialising
  <2>. QED BY <1>1, <1>6, <1>7, <1>8, <1>9, <2>1 DEF BucketInv, Bucketed, Bucket

\* What a command knows of the backend it prepares: the step that looks for a
\* repository is the only one after which there may be none.
LEMMA AdapterInit ==
  ASSUME Types, WorkInv, CallInv, BucketInv, InitInv, Adapter
  PROVE  InitInv'
<1>1. /\ UNCHANGED kind /\ AdapterStep
      /\ cmd'.name = cmd.name /\ cmd'.state = cmd.state /\ cmd'.work = cmd.work
      /\ cmd'.repo = cmd.repo /\ cmd'.arg = cmd.arg
      /\ ~cmd'.blind => ~cmd.blind
      /\ Step.do = "absent" /\ call'.state = "running" /\ There(Step.on) /\ call.todo # <<>>
           => cmd'.blind
  BY AdapterFrame
<1>2. Running /\ SameRequest /\ (Advances \/ EndsOk \/ EndsBadly)
  BY <1>1, AdapterOutcome
<1>3. SUFFICES ASSUME NEW b \in Backends, Prepares(b), cmd.state = "running", ~cmd'.blind,
                      kind[b] \notin {"http", "backblaze"}
               PROVE  \/ Clear(b)'
                      \/ \A o \in Range(cmd.work) : o.on # b
                      \/ /\ Initialising(b)
                         /\ ~(call'.state = "ok" /\ call'.op = "init" /\ call'.on = b)
                         /\ Running' /\ call'.op = "init" /\ call'.on = b =>
                              LooksFor(kind[b]) \in Range(call'.todo)
  BY <1>1 DEF InitInv, Prepares, Initialising
<1>4. \/ Clear(b)
      \/ \A o \in Range(cmd.work) : o.on # b
      \/ /\ Initialising(b)
         /\ ~(call.state = "ok" /\ call.op = "init" /\ call.on = b)
         /\ Running /\ call.op = "init" /\ call.on = b =>
              LooksFor(kind[b]) \in Range(call.todo)
  BY <1>1, <1>3 DEF InitInv
<1>5. ASSUME disk'[b].files["repository"] # disk[b].files["repository"] PROVE Clear(b)'
  <2>1. /\ call.op = "save" /\ call.file = "repository" /\ call.doc = cmd.repo /\ call.on = b
        /\ Step.do \in {"truncate", "allocate", "write", "put", "overlay", "drop", "remove"}
    BY <1>3, <1>5, RepositoryWritten
  <2>2. "repository" \in Files
    BY DEF Files
  <2>3. /\ disk'[b].files["repository"] \in Written(Step.do, call.doc, disk[b].files["repository"])
        /\ Legal(kind[b], call.op, call.file, Step)
    BY <1>5, <2>2, ChangedFile
  <2>4. Step.do # "overlay"
    BY <1>3, <2>3 DEF Legal
  <2>5. disk'[b].files["repository"] \in {None, Torn(cmd.repo), Blank(cmd.repo), Whole(cmd.repo)}
    BY <2>1, <2>3, <2>4 DEF Written
  <2>. QED BY <1>1, <2>5 DEF Clear, Torn, Blank, Whole
<1>6. CASE Clear(b)
  <2>1. CASE disk'[b].files["repository"] = disk[b].files["repository"]
    BY <1>1, <1>6, <2>1 DEF Clear
  <2>. QED BY <1>5, <2>1
<1>7. CASE \A o \in Range(cmd.work) : o.on # b
  BY <1>7
<1>8. CASE /\ Initialising(b)
           /\ ~(call.state = "ok" /\ call.op = "init" /\ call.on = b)
           /\ Running /\ call.op = "init" /\ call.on = b => LooksFor(kind[b]) \in Range(call.todo)
  <2>1. ASSUME call'.op = "init", call'.on = b, EndsOk PROVE FALSE
    <3>1. call.op = "init" /\ call.on = b
      BY <1>2, <2>1 DEF SameRequest
    <3>2. Range(call.todo) # {}
      BY <1>2, <1>8, <3>1
    <3>3. call.todo # <<>>
      BY <3>2 DEF Range
    <3>4. Legal(kind[call.on], call.op, call.file, Step)
      BY <1>2, <3>3, AtAStep
    <3>. QED BY <2>1, <3>1, <3>3, <3>4 DEF EndsOk, Legal
  <2>2. ASSUME call'.op = "init", call'.on = b, Advances
        PROVE  LooksFor(kind[b]) \in Range(call'.todo) \/ Clear(b)'
    <3>1. call.op = "init" /\ call.on = b
      BY <1>2, <2>2 DEF SameRequest
    <3>2. /\ call.todo \in Seq(AllSteps) /\ call.todo # <<>> /\ call'.todo = Tail(call.todo)
          /\ call'.state = "running"
      BY <2>2 DEF Advances, Types, CallType
    <3>3. Step = LooksFor(kind[b]) \/ LooksFor(kind[b]) \in Range(call'.todo)
      BY <1>2, <1>8, <3>1, <3>2, RangeTail DEF Step
    <3>4. ASSUME Step = LooksFor(kind[b]), disk'[b].files["repository"] = disk[b].files["repository"]
          PROVE  Clear(b)'
      <4>1. CASE kind[b] = "s3"
        <5>1. Step.do = "new" /\ Step.on = "repositories"
          BY <3>4, <4>1 DEF LooksFor, Do
        <5>2. ~Bucket(b)
          BY <2>2, <3>1, <5>1 DEF Advances, There, Directories, Bucket
        <5>3. disk[b].files["repository"] = None
          BY <4>1, <5>2 DEF BucketInv
        <5>. QED BY <3>4, <5>3 DEF Clear
      <4>2. CASE kind[b] = "gdrive"
        <5>1. Step.do = "refuse"
          BY <3>4, <4>2 DEF LooksFor, Do
        <5>. QED BY <2>2, <5>1 DEF Advances
      <4>3. CASE kind[b] \notin {"s3", "gdrive"}
        <5>1. Step.do = "absent" /\ Step.on = "repository"
          BY <3>4, <4>3 DEF LooksFor, Do
        <5>2. ~There("repository")
          BY <1>1, <1>3, <3>2, <5>1
        <5>3. disk[b].files["repository"] = None
          BY <3>1, <5>2 DEF There, Directories
        <5>. QED BY <3>4, <5>3 DEF Clear
      <4>. QED BY <4>1, <4>2, <4>3
    <3>. QED BY <1>5, <3>3, <3>4
  <2>3. call'.state = "ok" => EndsOk
    BY <1>2 DEF Advances, EndsBadly
  <2>4. Running' => Advances
    BY <1>2 DEF EndsOk, EndsBadly, Running
  <2>. QED BY <1>8, <2>1, <2>2, <2>3, <2>4
<1>. QED BY <1>4, <1>6, <1>7, <1>8

\* Saving the repository.
LEMMA AdapterSaving ==
  ASSUME Types, WorkInv, CallInv, SavingInv, Adapter
  PROVE  SavingInv' /\ SavedEverywhere'
<1>1. /\ UNCHANGED kind /\ AdapterStep
      /\ cmd'.name = cmd.name /\ cmd'.state = cmd.state /\ cmd'.work = cmd.work
      /\ cmd'.repo = cmd.repo
  BY AdapterFrame
<1>2. /\ Running /\ cmd.work # <<>> /\ Due \in Operations /\ Due \in Range(cmd.work)
      /\ call.on = Due.on
  BY <1>1, AdapterOutcome, AtAStep
<1>3. SavedEverywhere'
  BY <1>1, <1>2 DEF WorkInv, SavedEverywhere, IsIdle
<1>4. SUFFICES ASSUME cmd.state = "running", cmd.name \in {"init", "passwd", "add", "store"}
               PROVE  \A b \in Range(cmd.repo.paths) :
                        kind[b] = "http" \/ Holds(b, cmd.repo)' \/ Pending(b)
  BY <1>1, <1>3 DEF SavingInv, Pending, IsRepoSave, Due, Holds
<1>5. SUFFICES ASSUME NEW b \in Range(cmd.repo.paths), kind[b] # "http", ~Pending(b)
               PROVE  Holds(b, cmd.repo)'
  BY <1>4
<1>6. Holds(b, cmd.repo)
  BY <1>4, <1>5 DEF SavingInv
<1>7. b \in Backends
  <2>1. cmd.repo \in Documents
    BY <1>4 DEF Types, CmdType
  <2>. QED BY <2>1, BucketsStay
<1>8. disk'[b].files["repository"] = disk[b].files["repository"]
  <2>1. SUFFICES ASSUME disk'[b].files["repository"] # disk[b].files["repository"] PROVE FALSE
    OBVIOUS
  <2>2. "repository" \in Files
    BY DEF Files
  <2>3. b = call.on
    BY <1>7, <2>1, <2>2, ChangedFile
  <2>4. CASE IsRepoSave(Due)
    <3>1. Due = Operation("save", b, "repository")
      BY <1>2, <2>3, <2>4 DEF IsRepoSave, Operation, Operations
    <3>. QED BY <1>2, <1>5, <3>1 DEF Pending
  <2>5. CASE ~IsRepoSave(Due)
    BY <1>2, <1>4, <1>5, <2>5 DEF SavingInv
  <2>. QED BY <2>4, <2>5
<1>. QED BY <1>1, <1>6, <1>8 DEF Holds, Whole, Size

\* Every step of an adapter keeps the invariant.
LEMMA AdapterIsSafe ==
  ASSUME IInv, Adapter
  PROVE  IInv'
  BY AdapterTypes, AdapterWork, AdapterCall, AdapterAchieves, AdapterChunk, AdapterKeeps,
     AdapterBuckets, AdapterInit, AdapterSaving DEF IInv

-----------------------------------------------------------------------------
(* The steps of the commands keep the invariant.                           *)

\* A step between two operations leaves the disks alone.
LEMMA BetweenOperations ==
  ASSUME IInv, UNCHANGED <<kind, given, disk, kept>>, call' = NoCall,
         newest' \in 0 .. MaxSaves, CmdType', WorkInv', InitInv', SavingInv', SavedEverywhere',
         cmd'.state = "opened" => \A b \in Range(cmd'.repo.paths) : kind[b] = "s3" => Bucket(b),
         cmd'.state = "running" =>
           \A b \in Range(cmd'.repo.paths) : kind[b] = "s3" => Bucket(b) \/ Initialising(b)'
  PROVE  IInv'
<1>1. /\ call'.state = "none" /\ call'.op = "none" /\ call'.answer = None /\ ~Running'
  BY DEF NoCall, Running
<1>2. CallType'
  <2>1. <<>> \in Seq(AllSteps)
    BY EmptySeq
  <2>2. None \in Contents
    BY DEF Contents
  <2>. QED BY <2>1, <2>2 DEF CallType, NoCall
<1>3. Types'
  BY <1>2 DEF IInv, Types, DiskType
<1>4. CallInv' /\ AchievedInv'
  BY <1>1 DEF CallInv, AchievedInv
<1>5. ChunkInv' /\ AcknowledgedIsKept'
  BY DEF IInv, ChunkInv, AcknowledgedIsKept
<1>6. BucketInv'
  BY <1>1 DEF IInv, BucketInv, Bucketed, Bucket
<1>. QED BY <1>3, <1>4, <1>5, <1>6 DEF IInv

\* There is nothing to do.
LEMMA NoWork ==
  /\ <<>> \in Seq(Operations) /\ Range(<<>>) = {} /\ DOMAIN <<>> = {} /\ Ordered(<<>>)
<1>1. DOMAIN <<>> = {}
  OBVIOUS
<1>. QED BY <1>1, EmptySeq DEF Range, Ordered

\* A command that gives up.
LEMMA GivesUp ==
  ASSUME IInv, GiveUp, UNCHANGED <<kind, given, disk, newest, kept>>
  PROVE  IInv'
<1>1. /\ cmd' = NoCommand /\ call' = NoCall
      /\ cmd'.state = "idle" /\ cmd'.name = "none" /\ cmd'.work = <<>>
  BY DEF GiveUp, NoCommand, Idle
<1>2. CmdType'
  <2>1. 1 \in 1 .. Retries
    BY RepositoryFileOK
  <2>. QED BY <1>1, <2>1, NoWork DEF CmdType, NoCommand, Idle, CommandNames, IsIdle
<1>3. WorkInv'
  BY <1>1, NoWork DEF WorkInv
<1>4. InitInv' /\ SavingInv' /\ SavedEverywhere'
  BY <1>1 DEF InitInv, Prepares, SavingInv, SavedEverywhere
<1>5. newest' \in 0 .. MaxSaves
  BY DEF IInv, Types
<1>. QED BY <1>1, <1>2, <1>3, <1>4, <1>5, BetweenOperations

\* A command that has finished.
LEMMA FinishedIsSafe ==
  ASSUME IInv, Finished
  PROVE  IInv'
<1>1. /\ cmd.state = "running" /\ cmd.work = <<>> /\ call' = NoCall
      /\ cmd' = Idle(cmd.name, cmd.repo) /\ UNCHANGED <<kind, given, disk, newest, kept>>
      /\ cmd'.state = "idle" /\ cmd'.name = cmd.name /\ cmd'.work = <<>> /\ cmd'.repo = cmd.repo
  BY DEF Finished, Idle
<1>2. CmdType'
  <2>1. 1 \in 1 .. Retries
    BY RepositoryFileOK
  <2>. QED BY <1>1, <2>1, NoWork DEF CmdType, Idle, IInv, Types, IsIdle
<1>3. WorkInv'
  BY <1>1, NoWork DEF WorkInv
<1>4. InitInv' /\ SavingInv'
  BY <1>1 DEF InitInv, SavingInv
<1>5. SavedEverywhere'
  <2>1. \A b : ~Pending(b)
    BY <1>1, NoWork DEF Pending
  <2>. QED BY <1>1, <2>1 DEF SavedEverywhere, SavingInv, IInv, Holds, Whole, Size
<1>6. newest' \in 0 .. MaxSaves
  BY <1>1 DEF IInv, Types
<1>. QED BY <1>1, <1>2, <1>3, <1>4, <1>5, <1>6, BetweenOperations

\* A command that fails, and is tried again or goes on without a chunk, leaves
\* everything else to do.
LEMMA GoesOnWithout ==
  ASSUME IInv, UNCHANGED <<kind, given, disk, newest, kept>>, call' = NoCall,
         cmd.work # <<>>, cmd.state \in {"opening", "opened", "running"},
         NEW t \in 1 .. Retries, NEW work \in {cmd.work, Tail(cmd.work)},
         cmd' = [cmd EXCEPT !.try = t, !.work = work],
         work # cmd.work => /\ cmd.state = "running" /\ Due.op \notin {"connect", "init"}
                            /\ ~IsRepoSave(Due)
  PROVE  IInv'
<1>1. /\ cmd.work \in Seq(Operations) /\ Tail(cmd.work) \in Seq(Operations)
      /\ Range(cmd.work) = {Due} \cup Range(Tail(cmd.work))
  BY RangeTail DEF IInv, Types, CmdType, Due
<1>2. /\ cmd'.name = cmd.name /\ cmd'.state = cmd.state /\ cmd'.repo = cmd.repo
      /\ cmd'.arg = cmd.arg /\ cmd'.blind = cmd.blind /\ cmd'.work = work
      /\ work \in Seq(Operations) /\ Range(work) \subseteq Range(cmd.work)
      /\ \A o \in Range(cmd.work) : o \in Range(work) \/ (o = Due /\ work # cmd.work)
  BY <1>1 DEF IInv, Types, CmdType
<1>3. CmdType'
  BY <1>2 DEF IInv, Types, CmdType, IsIdle
<1>4. Ordered(Tail(cmd.work))
  <2>1. /\ DOMAIN Tail(cmd.work) = 1 .. (Len(cmd.work) - 1) /\ DOMAIN cmd.work = 1 .. Len(cmd.work)
        /\ Len(cmd.work) \in Nat
        /\ \A i \in 1 .. (Len(cmd.work) - 1) : Tail(cmd.work)[i] = cmd.work[i + 1]
    BY <1>1, HeadTailProperties, LenProperties, EmptySeq
  <2>2. ASSUME NEW i \in DOMAIN Tail(cmd.work), NEW j \in DOMAIN Tail(cmd.work), i < j,
               IsRepoSave(Tail(cmd.work)[i])
        PROVE  IsRepoSave(Tail(cmd.work)[j])
    <3>1. i + 1 \in DOMAIN cmd.work /\ j + 1 \in DOMAIN cmd.work /\ i + 1 < j + 1
      BY <2>1, <2>2
    <3>2. Tail(cmd.work)[i] = cmd.work[i + 1] /\ Tail(cmd.work)[j] = cmd.work[j + 1]
      BY <2>1
    <3>3. Ordered(cmd.work)
      BY DEF IInv, WorkInv
    <3>4. IsRepoSave(cmd.work[i + 1]) => IsRepoSave(cmd.work[j + 1])
      BY ONLY <3>1, <3>3 DEF Ordered
    <3>. QED BY <2>2, <3>2, <3>4
  <2>. QED BY <2>2 DEF Ordered
<1>5. WorkInv'
  <2>1. Ordered(work)
    BY <1>4 DEF IInv, WorkInv
  <2>2. CASE work = cmd.work
    BY <1>2, <2>1, <2>2 DEF IInv, WorkInv
  <2>3. CASE work # cmd.work
    BY <1>2, <2>1, <2>3 DEF IInv, WorkInv
  <2>. QED BY <2>2, <2>3
<1>6. ASSUME NEW b PROVE /\ Initialising(b) => Initialising(b)'
                         /\ Pending(b) => Pending(b)'
  <2>1. Operation("init", b, "none").op = "init" /\ IsRepoSave(Operation("save", b, "repository"))
    BY DEF Operation, IsRepoSave
  <2>. QED BY <1>2, <2>1 DEF Initialising, Pending
<1>7. call'.state = "none" /\ ~Running'
  BY DEF NoCall, Running
<1>8. InitInv'
  <2>1. \A b \in Backends : Clear(b) => Clear(b)'
    BY <1>2 DEF Clear
  <2>2. ASSUME NEW b \in Backends, Prepares(b)', cmd'.state = "running", ~cmd'.blind,
               kind[b] \notin {"http", "backblaze"}
        PROVE  \/ Clear(b)' \/ Initialising(b)' \/ \A o \in Range(work) : o.on # b
    <3>1. \/ Clear(b) \/ Initialising(b) \/ \A o \in Range(cmd.work) : o.on # b
      BY <1>2, <2>2 DEF IInv, InitInv, Prepares
    <3>. QED BY <1>2, <1>6, <2>1, <3>1
  <2>. QED BY <1>2, <1>7, <2>2 DEF InitInv
<1>9. SavingInv' /\ SavedEverywhere'
  <2>1. ASSUME cmd.state = "running", cmd.name \in {"init", "passwd", "add", "store"}
        PROVE  /\ \A b \in Range(cmd.repo.paths) : kind[b] = "http" \/ Holds(b, cmd.repo) \/ Pending(b)'
               /\ work # <<>> /\ ~IsRepoSave(Due)' => \A b \in Range(cmd.repo.paths) : Pending(b)'
               /\ \A o \in Range(work) : o.op \in {"connect", "init", "save"}
    <3>1. work # cmd.work => ~IsRepoSave(Due)
      OBVIOUS
    <3>2. work = cmd.work => Due' = Due
      BY <1>2 DEF Due
    <3>. QED BY <1>2, <1>6, <2>1, <3>1, <3>2 DEF IInv, SavingInv, IsRepoSave
  <2>2. SavingInv'
    BY <1>2, <2>1 DEF SavingInv, Holds, Whole, Size
  <2>. QED BY <1>2, <2>2 DEF SavedEverywhere, IsIdle
<1>10. newest' \in 0 .. MaxSaves
  BY DEF IInv, Types
<1>11. cmd'.state = "opened" => \A b \in Range(cmd'.repo.paths) : kind[b] = "s3" => Bucket(b)
  BY <1>2 DEF IInv, BucketInv, Bucketed
<1>12. cmd'.state = "running" =>
         \A b \in Range(cmd'.repo.paths) : kind[b] = "s3" => Bucket(b) \/ Initialising(b)'
  BY <1>2, <1>6 DEF IInv, BucketInv
<1>. QED BY <1>3, <1>5, <1>8, <1>9, <1>10, <1>11, <1>12, BetweenOperations

\* A call that is over belongs to the first of the operations that are due.
LEMMA DueOperation ==
  ASSUME IInv, cmd.work # <<>>
  PROVE  /\ cmd.work \in Seq(Operations) /\ Due \in Operations /\ Due \in Range(cmd.work)
         /\ Due = cmd.work[1] /\ WellFormed(Due) /\ Due.on \in Backends /\ Due.op \in Verbs
         /\ cmd.state \in {"opening", "opened", "running"}
         /\ Due.op \notin {"connect", "load"} => cmd.state = "running"
         /\ cmd.state = "opened" => Due.op = "connect"
<1>1. /\ cmd.work \in Seq(Operations) /\ Due \in Operations /\ Due \in Range(cmd.work)
      /\ Due = cmd.work[1]
  BY RangeTail, HeadTailProperties, EmptySeq DEF IInv, Types, CmdType, Due
<1>2. WellFormed(Due)
  BY <1>1 DEF IInv, Types, CmdType
<1>3. cmd.state \in {"opening", "opened", "running"}
  BY DEF IInv, Types, CmdType, WorkInv
<1>4. Due.on \in Backends /\ Due.op \in Verbs
  BY <1>1 DEF Operations
<1>. QED BY <1>1, <1>2, <1>3, <1>4 DEF IInv, WorkInv

\* An operation that has failed.
LEMMA FailedIsSafe ==
  ASSUME IInv, Failed
  PROVE  IInv'
<1>1. /\ call.state = "failed" /\ cmd.work # <<>>
      /\ UNCHANGED <<kind, given, disk, newest, kept>>
  BY DEF Failed, IInv, CallInv
<1>2. /\ cmd.state \in {"opening", "opened", "running"}
      /\ Due.op \notin {"connect", "load"} => cmd.state = "running"
  BY <1>1, DueOperation
<1>3. CmdType /\ Retries \in Nat \ {0}
  BY RepositoryFileOK DEF IInv, Types
<1>4. CASE /\ cmd.try < Tries(Due)
           /\ cmd' = [cmd EXCEPT !.try = cmd.try + 1] /\ call' = NoCall
  <2>. DEFINE t == cmd.try + 1
  <2>1. t \in 1 .. Retries
    BY <1>3, <1>4 DEF Tries, CmdType
  <2>2. cmd' = [cmd EXCEPT !.try = t, !.work = cmd.work]
    BY <1>3, <1>4 DEF CmdType
  <2>. HIDE DEF t
  <2>. QED BY <1>1, <1>2, <1>4, <2>1, <2>2, GoesOnWithout
<1>5. CASE /\ \/ UntilFirst(Due) /\ Cardinality(Alternatives(Due)) > 1
              \/ Due.op = "save" /\ Due.file = "chunk"
           /\ cmd' = [cmd EXCEPT !.try = 1, !.work = Tail(cmd.work)] /\ call' = NoCall
  <2>1. 1 \in 1 .. Retries
    BY <1>3
  <2>2. cmd.state = "running" /\ Due.op \notin {"connect", "init"} /\ ~IsRepoSave(Due)
    BY <1>2, <1>5 DEF UntilFirst, IsRepoSave
  <2>. QED BY <1>1, <1>2, <1>5, <2>1, <2>2, GoesOnWithout
<1>6. CASE GiveUp
  BY <1>1, <1>6, GivesUp
<1>. QED BY <1>4, <1>5, <1>6 DEF Failed

\* An operation starts: what was acknowledged of its file is void.
LEMMA StartIsSafe ==
  ASSUME IInv, Start
  PROVE  IInv'
<1>1. /\ cmd.work # <<>> /\ call.state = "none"
      /\ StartCall(Due.on, Due.op, Due.file, DocFor(Due.file))
      /\ kept' = IF Due.op \in {"save", "delete"}
                   THEN [kept EXCEPT ![Due.on][Due.file] = None] ELSE kept
      /\ UNCHANGED <<kind, given, disk, cmd, newest>>
  BY DEF Start
<1>2. /\ Due \in Operations /\ Due \in Range(cmd.work) /\ WellFormed(Due)
      /\ Due.on \in Backends /\ Due.op \in Verbs
      /\ cmd.state \in {"opening", "opened", "running"}
      /\ Due.op \notin {"connect", "load"} => cmd.state = "running"
  BY <1>1, DueOperation
<1>. DEFINE todo == Program(kind[Due.on], Due.op, Due.file)
            doc == DocFor(Due.file)
<1>3. call' = [state |-> "running", on |-> Due.on, op |-> Due.op, file |-> Due.file,
               doc |-> doc, todo |-> todo, answer |-> None]
  BY <1>1 DEF StartCall
<1>4. doc \in Documents \cup {None}
  <2>1. TheChunk \in Documents
    BY EmptySeq, RepositoryFileOK DEF TheChunk, Documents
  <2>. QED BY <2>1 DEF DocFor, IInv, Types, CmdType
<1>5. IsProgram(kind[Due.on], Due.op, Due.file, todo)
  <2>1. kind[Due.on] \in Kinds
    BY <1>2 DEF IInv, Types
  <2>. QED BY <1>2, <2>1, Programs
<1>6. /\ call'.state = "running" /\ call'.on = Due.on /\ call'.op = Due.op /\ call'.file = Due.file
      /\ call'.doc = doc /\ call'.todo = todo /\ call'.answer = None
  BY <1>3
<1>. HIDE DEF todo, doc
<1>7. todo \in Seq(AllSteps) /\ \A s \in Range(todo) : Legal(kind[Due.on], Due.op, Due.file, s)
  BY <1>5 DEF IsProgram, GoodSteps
<1>8. Due.file \in Files \cup {"none"} /\ (Due.op \in {"save", "delete"} => Due.file \in Files)
  BY <1>2 DEF Operations, WellFormed, Files
<1>9. CallType'
  <2>1. None \in Contents
    BY DEF Contents
  <2>. QED BY <1>2, <1>3, <1>4, <1>7, <1>8, <2>1 DEF CallType
<1>10. /\ kept' \in [Backends -> [Files -> Documents \cup {None}]]
       /\ \A b \in Backends, f \in Files : kept'[b][f] = kept[b][f] \/ kept'[b][f] = None
       /\ Due.op \in {"save", "delete"} => kept'[Due.on][Due.file] = None
  BY <1>1, <1>2, <1>8 DEF IInv, Types
<1>11. Types'
  BY <1>1, <1>9, <1>10 DEF IInv, Types, CmdType, DiskType, IsIdle
<1>12. WorkInv'
  BY <1>1, <1>6 DEF IInv, WorkInv
<1>13. CallInv'
  <2>1. doc = DocFor(call.file)'
    BY <1>1, <1>6 DEF doc, DocFor
  <2>2. Due' = Due
    BY <1>1 DEF Due
  <2>. QED BY <1>1, <1>6, <1>7, <1>10, <2>1, <2>2 DEF CallInv, Running
<1>14. AchievedInv'
  BY <1>5, <1>6 DEF IsProgram, AchievedInv
<1>15. ChunkInv'
  BY <1>1, <1>6 DEF IInv, ChunkInv
<1>16. AcknowledgedIsKept'
  BY <1>1, <1>10 DEF IInv, AcknowledgedIsKept, Untrusted
<1>17. BucketInv'
  <2>1. ASSUME NEW b \in Range(cmd.repo.paths), kind[b] = "s3", call'.op = "init", call'.on = b
        PROVE  Do("mkdir", "repositories") \in Range(call'.todo)
    BY <1>5, <1>6, <2>1 DEF IsProgram
  <2>2. cmd.state = "running" =>
          \A b \in Range(cmd.repo.paths) : kind[b] = "s3" => Bucket(b) \/ Initialising(b)
    BY DEF IInv, BucketInv
  <2>3. cmd'.state = "running" =>
       \A b \in Range(cmd'.repo.paths) : kind'[b] = "s3" =>
         \/ Bucket(b)'
         \/ /\ Initialising(b)'
            /\ ~(call'.state = "ok" /\ call'.op = "init" /\ call'.on = b)
            /\ Running' /\ call'.op = "init" /\ call'.on = b =>
                 Do("mkdir", "repositories") \in Range(call'.todo)
    BY <1>1, <1>6, <2>1, <2>2 DEF Bucket, Initialising
  <2>. QED BY <1>1, <1>6, <2>3 DEF IInv, BucketInv, Bucketed, Bucket
<1>18. InitInv'
  <2>1. ASSUME NEW b \in Backends, kind[b] \notin {"http", "backblaze"},
               call'.op = "init", call'.on = b
        PROVE  LooksFor(kind[b]) \in Range(call'.todo)
    <3>1. Due.op = "init" /\ Due.file = "none" /\ Due.on = b
      BY <1>2, <1>6, <2>1 DEF WellFormed
    <3>. QED BY <1>5, <1>6, <2>1, <3>1 DEF IsProgram
  <2>2. ASSUME NEW b \in Backends, Prepares(b), cmd.state = "running", ~cmd.blind,
               kind[b] \notin {"http", "backblaze"}
        PROVE  Clear(b) \/ (\A o \in Range(cmd.work) : o.on # b) \/ Initialising(b)
    BY <2>2 DEF IInv, InitInv
  <2>. QED BY <1>1, <1>6, <2>1, <2>2 DEF InitInv, Prepares, Clear, Initialising
<1>19. SavingInv' /\ SavedEverywhere'
  BY <1>1 DEF IInv, SavingInv, SavedEverywhere, Pending, Holds, Whole, Size, Due, IsIdle, IsRepoSave
<1>. QED BY <1>11, <1>12, <1>13, <1>14, <1>15, <1>16, <1>17, <1>18, <1>19 DEF IInv

\* What is left to do after an operation is the end of what was to be done: all
\* but the first of the operations, or but its alternatives.
LEMMA RestIsTheEnd ==
  ASSUME IInv, cmd.work # <<>>, NEW rest,
         rest = IF UntilFirst(Due) THEN WithoutAlternatives(Due) ELSE Tail(cmd.work)
  PROVE  /\ rest \in Seq(Operations) /\ Range(rest) \subseteq Range(cmd.work)
         /\ Ordered(rest)
         /\ ~UntilFirst(Due) => Range(cmd.work) = {Due} \cup Range(rest)
<1>1. cmd.work \in Seq(Operations)
  BY DueOperation
<1>2. DOMAIN cmd.work = 1 .. Len(cmd.work) /\ Len(cmd.work) \in Nat \ {0}
  BY <1>1, LenProperties, EmptySeq
<1>3. \E k \in Nat : /\ rest \in Seq(Operations)
                     /\ \A i \in DOMAIN rest : i + k \in DOMAIN cmd.work /\ rest[i] = cmd.work[i + k]
  <2>1. CASE UntilFirst(Due)
    <3>. DEFINE m == Cardinality(Alternatives(Due)) + 1
    <3>1. Cardinality(Alternatives(Due)) \in Nat
      <4>1. Alternatives(Due) \subseteq 1 .. Len(cmd.work)
        BY <1>2 DEF Alternatives
      <4>2. IsFiniteSet(1 .. Len(cmd.work))
        BY <1>2, FS_Interval
      <4>. QED BY <4>1, <4>2, FS_Subset, FS_CardinalityType
    <3>2. m \in Nat \ {0} /\ rest = SubSeq(cmd.work, m, Len(cmd.work))
      BY <2>1, <3>1 DEF WithoutAlternatives
    <3>. HIDE DEF m
    <3>3. /\ rest \in Seq(Operations)
          /\ \A i \in DOMAIN rest : i + m - 1 \in DOMAIN cmd.work /\ rest[i] = cmd.work[i + m - 1]
      <4>1. /\ SubSeq(cmd.work, m, Len(cmd.work)) \in Seq(Operations)
            /\ \A i \in DOMAIN SubSeq(cmd.work, m, Len(cmd.work)) :
                 /\ i + m - 1 \in DOMAIN cmd.work
                 /\ SubSeq(cmd.work, m, Len(cmd.work))[i] = cmd.work[i + m - 1]
        <5>1. m \in Nat \ {0}
          BY <3>2
        <5>. QED BY <1>1, <5>1, RangeSubSeq
      <4>. QED BY <3>2, <4>1
    <3>4. DOMAIN rest = 1 .. Len(rest) /\ Len(rest) \in Nat
      BY <3>3, LenProperties
    <3>5. m - 1 \in Nat /\ \A i \in DOMAIN rest : i + (m - 1) = i + m - 1
      BY <3>2, <3>4
    <3>. QED BY <3>3, <3>5
  <2>2. CASE ~UntilFirst(Due)
    <3>1. /\ rest \in Seq(Operations) /\ DOMAIN rest = 1 .. (Len(cmd.work) - 1)
          /\ \A i \in 1 .. (Len(cmd.work) - 1) : rest[i] = cmd.work[i + 1]
      BY <1>1, <2>2, HeadTailProperties, LenProperties, EmptySeq
    <3>2. \A i \in DOMAIN rest : i + 1 \in DOMAIN cmd.work
      BY <1>2, <3>1
    <3>. QED BY <3>1, <3>2
  <2>. QED BY <2>1, <2>2
<1>4. PICK k \in Nat : /\ rest \in Seq(Operations)
                       /\ \A i \in DOMAIN rest : i + k \in DOMAIN cmd.work /\ rest[i] = cmd.work[i + k]
  BY <1>3
<1>5. Range(rest) \subseteq Range(cmd.work)
  BY <1>4 DEF Range
<1>6. Ordered(rest)
  <2>1. DOMAIN rest = 1 .. Len(rest) /\ Len(rest) \in Nat
    BY <1>4, LenProperties
  <2>2. ASSUME NEW i \in DOMAIN rest, NEW j \in DOMAIN rest, i < j, IsRepoSave(rest[i])
        PROVE  IsRepoSave(rest[j])
    <3>1. i + k \in DOMAIN cmd.work /\ j + k \in DOMAIN cmd.work /\ i + k < j + k
      BY <1>4, <2>1, <2>2
    <3>. QED BY <1>4, <2>2, <3>1 DEF IInv, WorkInv, Ordered
  <2>. QED BY <2>2 DEF Ordered
<1>7. ~UntilFirst(Due) => Range(cmd.work) = {Due} \cup Range(rest)
  BY <1>1, RangeTail DEF Due
<1>. QED BY <1>4, <1>5, <1>6, <1>7

\* An operation that has succeeded: a backend that was prepared has its bucket,
\* and one that was saved to holds the document.
LEMMA SucceededIsSafe ==
  ASSUME IInv, Succeeded
  PROVE  IInv'
<1>. DEFINE rest == IF UntilFirst(Due) THEN WithoutAlternatives(Due) ELSE Tail(cmd.work)
            loaded == cmd.state = "opening" /\ Due.op = "load"
<1>1. /\ call.state = "ok" /\ cmd.work # <<>>
      /\ cmd' = [cmd EXCEPT !.try = 1, !.work = rest]
      /\ kept' = IF Due.op = "save" THEN [kept EXCEPT ![call.on][call.file] = call.doc] ELSE kept
      /\ call' = IF loaded THEN call ELSE NoCall
      /\ UNCHANGED <<kind, given, disk, newest>>
  BY DEF Succeeded
<1>2. /\ rest \in Seq(Operations) /\ Range(rest) \subseteq Range(cmd.work) /\ Ordered(rest)
      /\ ~UntilFirst(Due) => Range(cmd.work) = {Due} \cup Range(rest)
  BY <1>1, RestIsTheEnd
<1>3. /\ cmd.work \in Seq(Operations) /\ Due \in Operations /\ Due \in Range(cmd.work)
      /\ Due = cmd.work[1] /\ WellFormed(Due) /\ Due.on \in Backends /\ Due.op \in Verbs
      /\ cmd.state \in {"opening", "opened", "running"}
      /\ Due.op \notin {"connect", "load"} => cmd.state = "running"
      /\ cmd.state = "opened" => Due.op = "connect"
      /\ call.on = Due.on /\ call.op = Due.op /\ call.file = Due.file
  BY <1>1, DueOperation DEF IInv, CallInv
<1>4. ~UntilFirst(Due) => rest = Tail(cmd.work)
  OBVIOUS
<1>. HIDE DEF rest
<1>5. /\ cmd'.name = cmd.name /\ cmd'.state = cmd.state /\ cmd'.repo = cmd.repo
      /\ cmd'.arg = cmd.arg /\ cmd'.blind = cmd.blind /\ cmd'.work = rest
  BY <1>1 DEF IInv, Types, CmdType
<1>6. 1 \in 1 .. Retries
  BY RepositoryFileOK
<1>7. CmdType'
  BY <1>1, <1>2, <1>5, <1>6 DEF IInv, Types, CmdType, IsIdle
<1>8. Achieved
  BY <1>1 DEF IInv, AchievedInv
<1>9. Due.op = "save" => call.doc \in Documents /\ call.file \in Files
        /\ (call.file = "repository" => call.doc = cmd.repo)
  BY <1>1, <1>3, SavedDocument DEF IInv
<1>10. \/ loaded /\ call' = call
       \/ ~loaded /\ call' = NoCall
  BY <1>1
<1>11. CallType'
  <2>1. CASE call' = call
    BY <2>1 DEF IInv, Types, CallType
  <2>2. CASE call' = NoCall
    <3>1. <<>> \in Seq(AllSteps) /\ None \in Contents
      BY EmptySeq DEF Contents
    <3>. QED BY <2>2, <3>1 DEF CallType, NoCall
  <2>. QED BY <1>10, <2>1, <2>2
<1>12. kept' \in [Backends -> [Files -> Documents \cup {None}]]
  BY <1>1, <1>3, <1>9 DEF IInv, Types
<1>13. Types'
  BY <1>1, <1>7, <1>11, <1>12 DEF IInv, Types, DiskType
<1>14. call'.state # "running" /\ call'.state # "exists" /\ (call' = NoCall => call'.state = "none" /\ call'.op = "none")
  BY <1>1, <1>10 DEF NoCall
<1>15. cmd.state = "opening" =>
         /\ ~UntilFirst(Due) /\ rest = Tail(cmd.work)
         /\ rest # <<>> => rest[Len(rest)].op = "load"
         /\ rest = <<>> => loaded
         /\ loaded => rest = <<>> /\ call.file = "repository"
         /\ \A i \in DOMAIN rest : rest[i].op = "load" => i = Len(rest)
  <2>1. SUFFICES ASSUME cmd.state = "opening"
                 PROVE  /\ ~UntilFirst(Due) /\ rest = Tail(cmd.work)
                        /\ rest # <<>> => rest[Len(rest)].op = "load"
                        /\ rest = <<>> => loaded
                        /\ loaded => rest = <<>> /\ call.file = "repository"
                        /\ \A i \in DOMAIN rest : rest[i].op = "load" => i = Len(rest)
    OBVIOUS
  <2>2. rest = Tail(cmd.work) /\ ~UntilFirst(Due)
    BY <1>4, <2>1 DEF UntilFirst
  <2>3. /\ cmd.work[Len(cmd.work)].op = "load"
        /\ \A i \in DOMAIN cmd.work : cmd.work[i].op = "load" => i = Len(cmd.work)
        /\ \A o \in Range(cmd.work) : o.op = "load" => o.file = "repository"
    BY <1>1, <2>1 DEF IInv, WorkInv
  <2>4. /\ rest = <<>> => Due = cmd.work[Len(cmd.work)]
        /\ rest # <<>> => rest[Len(rest)] = cmd.work[Len(cmd.work)]
    BY <1>1, <1>3, <2>2, RangeTail DEF Due
  <2>5. /\ DOMAIN rest = 1 .. (Len(cmd.work) - 1) /\ Len(rest) = Len(cmd.work) - 1
        /\ Len(cmd.work) \in Nat \ {0} /\ DOMAIN cmd.work = 1 .. Len(cmd.work)
        /\ \A i \in 1 .. (Len(cmd.work) - 1) : rest[i] = cmd.work[i + 1]
    BY <1>1, <1>3, <2>2, HeadTailProperties, LenProperties, EmptySeq
  <2>6. ASSUME NEW i \in DOMAIN rest, rest[i].op = "load" PROVE i = Len(rest)
    <3>1. i + 1 \in DOMAIN cmd.work /\ rest[i] = cmd.work[i + 1] /\ i \in Nat
      BY <2>5
    <3>2. i + 1 = Len(cmd.work)
      BY <2>3, <2>6, <3>1
    <3>. QED BY <2>5, <3>1, <3>2
  <2>7. loaded => rest = <<>>
    <3>1. loaded => 1 = Len(cmd.work)
      <4>1. 1 \in DOMAIN cmd.work
        BY <2>5
      <4>. QED BY <1>3, <2>3, <4>1
    <3>2. loaded => Len(rest) = 0
      BY <2>5, <3>1
    <3>. QED BY <1>2, <3>2, EmptySeq
  <2>8. loaded => call.file = "repository"
    BY <1>3, <2>3
  <2>9. rest = <<>> => loaded
    BY <1>3, <2>1, <2>3, <2>4
  <2>. QED BY <2>2, <2>3, <2>4, <2>6, <2>7, <2>8, <2>9
<1>16. WorkInv'
  BY <1>1, <1>2, <1>3, <1>5, <1>10, <1>15 DEF IInv, WorkInv
<1>17. CallInv'
  <2>1. CASE loaded
    <3>1. call' = call /\ call.state = "ok" /\ call.op = "load" /\ cmd'.state = "opening"
      BY <1>1, <1>3, <1>5, <1>10, <2>1
    <3>2. cmd'.work = <<>>
      BY <1>5, <1>15, <2>1
    <3>. QED BY <3>1, <3>2 DEF CallInv, Running
  <2>2. CASE ~loaded
    <3>1. call'.state = "none" /\ call'.op = "none"
      BY <1>10, <1>14, <2>2
    <3>. QED BY <3>1 DEF CallInv, Running
  <2>. QED BY <2>1, <2>2
<1>18. AchievedInv'
  BY <1>1, <1>8, <1>10, <1>14 DEF AchievedInv, Running, Achieved
<1>19. ChunkInv'
  BY <1>1, <1>14 DEF IInv, ChunkInv
<1>20. AcknowledgedIsKept'
  <2>1. ASSUME NEW b \in Backends, NEW f \in Files, kept'[b][f] # None, ~Untrusted(kind[b], f)
        PROVE  disk[b].files[f] = Whole(kept'[b][f])
    <3>1. CASE Due.op = "save" /\ b = call.on /\ f = call.file
      <4>1. kept'[b][f] = call.doc
        BY <1>1, <3>1 DEF IInv, Types
      <4>2. disk[b].files[f] = Whole(call.doc)
        BY <1>3, <1>8, <2>1, <3>1 DEF Achieved, Untrusted
      <4>. QED BY <4>1, <4>2
    <3>2. CASE ~(Due.op = "save" /\ b = call.on /\ f = call.file)
      <4>1. kept'[b][f] = kept[b][f]
        BY <1>1, <1>3, <1>9, <3>2 DEF IInv, Types
      <4>. QED BY <2>1, <4>1 DEF IInv, AcknowledgedIsKept
    <3>. QED BY <3>1, <3>2
  <2>. QED BY <1>1, <2>1 DEF AcknowledgedIsKept, Untrusted
<1>21. ASSUME NEW b \in Backends, Initialising(b),
              ~(call.state = "ok" /\ call.op = "init" /\ call.on = b)
       PROVE  Initialising(b)' /\ call' = NoCall
  <2>1. /\ Operation("init", b, "none") \in Range(cmd.work)
        /\ Operation("init", b, "none").op = "init" /\ Operation("init", b, "none").on = b
    BY <1>21 DEF Initialising, Operation
  <2>2. cmd.name \in {"init", "add"} /\ cmd.state = "running"
    BY <1>3, <2>1 DEF IInv, WorkInv
  <2>3. Due.op \in {"connect", "init", "save"}
    BY <1>3, <2>2 DEF IInv, SavingInv
  <2>4. ~UntilFirst(Due) /\ ~loaded
    BY <2>2, <2>3 DEF UntilFirst
  <2>5. Due # Operation("init", b, "none")
    BY <1>1, <1>3, <1>21, <2>1
  <2>. QED BY <1>2, <1>5, <1>10, <2>1, <2>4, <2>5 DEF Initialising
<1>22. BucketInv'
  <2>1. ASSUME cmd.state = "running", NEW b \in Range(cmd.repo.paths), kind[b] = "s3", ~Bucket(b)
        PROVE  Initialising(b)' /\ call' = NoCall
    <3>1. b \in Backends
      <4>1. cmd.repo.paths \in Seq(Backends)
        BY <2>1 DEF IInv, Types, CmdType, Documents
      <4>. QED BY <4>1, ElementOfSeq, LenProperties DEF Range
    <3>2. Initialising(b) /\ ~(call.state = "ok" /\ call.op = "init" /\ call.on = b)
      BY <2>1 DEF IInv, BucketInv
    <3>. QED BY <1>21, <3>1, <3>2
  <2>2. cmd'.state = "running" =>
       \A b \in Range(cmd'.repo.paths) : kind'[b] = "s3" =>
         \/ Bucket(b)'
         \/ /\ Initialising(b)'
            /\ ~(call'.state = "ok" /\ call'.op = "init" /\ call'.on = b)
            /\ Running' /\ call'.op = "init" /\ call'.on = b =>
                 Do("mkdir", "repositories") \in Range(call'.todo)
    BY <1>1, <1>5, <1>14, <2>1 DEF Bucket, Running
  <2>. QED BY <1>1, <1>5, <1>10, <1>14, <2>2 DEF IInv, BucketInv, Bucketed, Bucket
<1>23. InitInv'
  <2>1. ASSUME NEW b \in Backends, Prepares(b), cmd.state = "running", ~cmd.blind,
               kind[b] \notin {"http", "backblaze"}
        PROVE  \/ Clear(b) \/ (\A o \in Range(rest) : o.on # b)
               \/ Initialising(b)' /\ call' = NoCall
    BY <1>2, <1>21, <2>1 DEF IInv, InitInv
  <2>. QED BY <1>1, <1>5, <1>14, <2>1 DEF InitInv, Prepares, Clear, Running
<1>24. SavingInv' /\ SavedEverywhere'
  <2>1. SavedEverywhere'
    BY <1>3, <1>5 DEF SavedEverywhere, IsIdle
  <2>2. ASSUME cmd.state = "running", cmd.name \in {"init", "passwd", "add", "store"}
        PROVE  /\ \A b \in Range(cmd.repo.paths) : kind[b] = "http" \/ Holds(b, cmd.repo) \/ Pending(b)'
               /\ rest # <<>> /\ ~IsRepoSave(Due)' => \A b \in Range(cmd.repo.paths) : Pending(b)'
               /\ \A o \in Range(rest) : o.op \in {"connect", "init", "save"}
    <3>1. ~UntilFirst(Due) /\ rest = Tail(cmd.work) /\ Range(cmd.work) = {Due} \cup Range(rest)
      BY <1>2, <1>3, <1>4, <2>2 DEF IInv, SavingInv, UntilFirst
    <3>2. ASSUME NEW b, Pending(b), ~Pending(b)' PROVE Due = Operation("save", b, "repository")
      BY <1>5, <3>1, <3>2 DEF Pending
    <3>3. ASSUME NEW b \in Range(cmd.repo.paths), kind[b] # "http", ~Holds(b, cmd.repo)
          PROVE  Pending(b)'
      <4>1. Pending(b)
        BY <2>2, <3>3 DEF IInv, SavingInv
      <4>2. SUFFICES ASSUME Due = Operation("save", b, "repository") PROVE FALSE
        BY <3>2, <4>1
      <4>3. Due.op = "save" /\ Due.on = b /\ Due.file = "repository"
        BY <4>2 DEF Operation
      <4>4. disk[b].files["repository"] = Whole(cmd.repo)
        BY <1>3, <1>8, <1>9, <3>3, <4>3 DEF Achieved
      <4>. QED BY <3>3, <4>4 DEF Holds
    <3>4. ASSUME rest # <<>>, ~IsRepoSave(Due)', NEW b \in Range(cmd.repo.paths) PROVE Pending(b)'
      <4>1. Due' \in Range(rest)
        BY <1>2, <1>5, <3>4, RangeTail DEF Due
      <4>2. ~IsRepoSave(Due)
        <5>1. IsRepoSave(Due) => \A o \in Range(cmd.work) : IsRepoSave(o)
          BY <1>1, SavingTheRepository DEF IInv
        <5>. QED BY <1>2, <3>4, <4>1, <5>1 DEF IsRepoSave
      <4>3. Pending(b)
        BY <1>1, <2>2, <4>2 DEF IInv, SavingInv
      <4>4. Due # Operation("save", b, "repository")
        BY <4>2 DEF IsRepoSave, Operation
      <4>. QED BY <3>2, <4>3, <4>4
    <3>5. \A o \in Range(rest) : o.op \in {"connect", "init", "save"}
      BY <1>2, <2>2 DEF IInv, SavingInv
    <3>. QED BY <3>3, <3>4, <3>5
  <2>3. SavingInv'
    BY <1>1, <1>5, <2>2 DEF SavingInv, Holds, Whole, Size
  <2>. QED BY <2>1, <2>3
<1>. QED BY <1>13, <1>16, <1>17, <1>18, <1>19, <1>20, <1>22, <1>23, <1>24 DEF IInv

-----------------------------------------------------------------------------
(* Commands that begin keep the invariant.                                 *)

\* What an open repository's command starts to do.
LEMMA WorkBegins ==
  ASSUME IInv, UNCHANGED <<kind, given, disk, kept>>, call' = NoCall,
         newest' \in 0 .. MaxSaves, CmdType', cmd'.state = "running", Ordered(cmd'.work),
         \A o \in Range(cmd'.work) :
           /\ o.op = "init" => cmd'.name \in {"init", "add"}
           /\ IsRepoSave(o) => o.on \in Range(cmd'.repo.paths),
         \A b \in Range(cmd'.repo.paths) : kind[b] = "s3" => Bucket(b) \/ Initialising(b)',
         \A b \in Backends : Prepares(b)' => \/ Initialising(b)'
                                             \/ \A o \in Range(cmd'.work) : o.on # b,
         cmd'.name \in {"init", "passwd", "add", "store"} =>
           /\ \A b \in Range(cmd'.repo.paths) : Pending(b)'
           /\ \A o \in Range(cmd'.work) : o.op \in {"connect", "init", "save"}
  PROVE  IInv'
<1>1. call'.state = "none" /\ ~Running'
  BY DEF NoCall, Running
<1>2. WorkInv'
  BY <1>1 DEF WorkInv
<1>3. InitInv'
  BY <1>1 DEF InitInv
<1>4. SavingInv' /\ SavedEverywhere'
  BY DEF SavingInv, SavedEverywhere, IsIdle
<1>. QED BY <1>2, <1>3, <1>4, BetweenOperations

\* The operations of a command are in order if all that saves the repository
\* comes last.
LEMMA OrderedConcat ==
  ASSUME NEW s \in Seq(Operations), NEW t \in Seq(Operations),
         \A o \in Range(s) : ~IsRepoSave(o), \A o \in Range(t) : IsRepoSave(o)
  PROVE  Ordered(s \o t)
<1>1. /\ DOMAIN (s \o t) = 1 .. (Len(s) + Len(t)) /\ Len(s) \in Nat /\ Len(t) \in Nat
      /\ DOMAIN s = 1 .. Len(s) /\ DOMAIN t = 1 .. Len(t)
      /\ \A i \in 1 .. Len(s) : (s \o t)[i] = s[i]
      /\ \A i \in 1 .. Len(t) : (s \o t)[i + Len(s)] = t[i]
  BY ConcatProperties, LenProperties
<1>. DEFINE u == s \o t
<1>. HIDE DEF u
<1>2. ASSUME NEW i \in DOMAIN u, i <= Len(s) PROVE ~IsRepoSave(u[i])
  <2>1. i \in DOMAIN s /\ u[i] = s[i]
    BY <1>1, <1>2 DEF u
  <2>. QED BY <2>1 DEF Range
<1>3. ASSUME NEW i \in DOMAIN u, ~(i <= Len(s)) PROVE IsRepoSave(u[i])
  <2>1. i - Len(s) \in 1 .. Len(t) /\ (i - Len(s)) + Len(s) = i
    BY <1>1, <1>3 DEF u
  <2>2. u[i] = t[i - Len(s)]
    BY <1>1, <2>1 DEF u
  <2>. QED BY <1>1, <2>1, <2>2 DEF Range
<1>4. \A i, j \in DOMAIN u : i < j /\ IsRepoSave(u[i]) => IsRepoSave(u[j])
  <2>1. ASSUME NEW i \in DOMAIN u, NEW j \in DOMAIN u, i < j, IsRepoSave(u[i])
        PROVE  IsRepoSave(u[j])
    <3>1. ~(i <= Len(s)) /\ ~(j <= Len(s))
      BY <1>1, <1>2, <2>1 DEF u
    <3>. QED BY <1>3, <3>1
  <2>. QED BY <2>1
<1>. QED BY <1>4 DEF u, Ordered

\* They are if nothing or all of it saves the repository.
LEMMA OrderedIfAlike ==
  ASSUME NEW s \in Seq(Operations),
         (\A o \in Range(s) : ~IsRepoSave(o)) \/ (\A o \in Range(s) : IsRepoSave(o))
  PROVE  Ordered(s)
  BY DEF Ordered, Range

\* What is done to prepare a backend and save the repository.
LEMMA PreparationWork ==
  ASSUME NEW c \in Backends, NEW paths \in Seq(Backends), NEW work,
         work = ConnectAll(<<c>>) \o <<Operation("init", c, "none")>> \o SaveAll(paths, "repository")
  PROVE  /\ work \in Seq(Operations) /\ Ordered(work)
         /\ Range(work) = {Operation("connect", c, "none"), Operation("init", c, "none")}
                            \cup {Operation("save", b, "repository") : b \in Range(paths)}
<1>. DEFINE s1 == ConnectAll(<<c>>)
            s2 == <<Operation("init", c, "none")>>
            s3 == SaveAll(paths, "repository")
            s12 == s1 \o s2
<1>1. s1 \in Seq(Operations) /\ Range(s1) = {Operation("connect", c, "none")}
  <2>1. <<c>> \in Seq(Backends) /\ Range(<<c>>) = {c}
    BY RangeOfOne
  <2>2. "connect" \in Verbs /\ "none" \in Files \cup {"none"}
    BY DEF Verbs
  <2>3. /\ OnAll("connect", <<c>>, "none") \in Seq(Operations)
        /\ Range(OnAll("connect", <<c>>, "none")) = {Operation("connect", b, "none") : b \in Range(<<c>>)}
    BY <2>1, <2>2, RangeOnAll
  <2>. QED BY <2>1, <2>3 DEF ConnectAll
<1>2. s2 \in Seq(Operations) /\ Range(s2) = {Operation("init", c, "none")}
  <2>1. Operation("init", c, "none") \in Operations
    BY DEF Operation, Operations, Verbs
  <2>. QED BY <2>1, RangeOfOne
<1>3. s3 \in Seq(Operations) /\ Range(s3) = {Operation("save", b, "repository") : b \in Range(paths)}
  <2>1. "save" \in Verbs /\ "repository" \in Files \cup {"none"}
    BY DEF Verbs, Files
  <2>. QED BY <2>1, RangeOnAll DEF SaveAll
<1>. HIDE DEF s1, s2, s3
<1>4. s12 \in Seq(Operations) /\ Range(s12) = Range(s1) \cup Range(s2)
  BY <1>1, <1>2, RangeConcat
<1>5. work = s12 \o s3
  BY DEF s1, s2, s3
<1>. HIDE DEF s12
<1>6. work \in Seq(Operations) /\ Range(work) = Range(s12) \cup Range(s3)
  <2>1. s12 \in Seq(Operations) /\ s3 \in Seq(Operations)
    BY <1>3, <1>4
  <2>2. s12 \o s3 \in Seq(Operations) /\ Range(s12 \o s3) = Range(s12) \cup Range(s3)
    BY <2>1, RangeConcat
  <2>. QED BY <1>5, <2>2
<1>7. \A o \in Range(s12) : ~IsRepoSave(o)
  BY <1>1, <1>2, <1>4 DEF IsRepoSave, Operation
<1>8. \A o \in Range(s3) : IsRepoSave(o)
  BY <1>3 DEF IsRepoSave, Operation
<1>9. Ordered(work)
  BY <1>3, <1>4, <1>5, <1>7, <1>8, OrderedConcat
<1>. QED BY <1>1, <1>2, <1>3, <1>4, <1>6, <1>9

\* The backends of a document.
LEMMA PathsAreBackends ==
  ASSUME NEW d \in Documents
  PROVE  d.paths \in Seq(Backends) /\ Range(d.paths) \subseteq Backends
<1>1. d.paths \in Seq(Backends)
  BY DEF Documents
<1>. QED BY <1>1, ElementOfSeq, LenProperties DEF Range

\* Making a repository.
LEMMA RepoInitIsSafe ==
  ASSUME IInv, NEW c \in Backends, NEW p \in Passwords, RepoInit(c, p)
  PROVE  IInv'
<1>. DEFINE repo == [id |-> newest + 1, password |-> p, paths |-> <<c>>, version |-> 4]
            work == ConnectAll(<<c>>) \o <<Operation("init", c, "none")>> \o SaveAll(<<c>>, "repository")
<1>1. /\ newest < MaxSaves /\ newest' = newest + 1 /\ call' = NoCall
      /\ cmd' = [NoCommand EXCEPT !.name = "init", !.state = "running", !.repo = repo, !.work = work]
      /\ UNCHANGED <<kind, given, disk, kept>>
  BY DEF RepoInit
<1>2. <<c>> \in Seq(Backends) /\ Range(<<c>>) = {c}
  BY RangeOfOne
<1>3. newest' \in 0 .. MaxSaves
  BY <1>1, RepositoryFileOK DEF IInv, Types
<1>4. repo \in Documents /\ repo.paths = <<c>>
  BY <1>1, <1>2, <1>3 DEF Documents
<1>5. /\ work \in Seq(Operations) /\ Ordered(work)
      /\ Range(work) = {Operation("connect", c, "none"), Operation("init", c, "none")}
                         \cup {Operation("save", b, "repository") : b \in Range(<<c>>)}
  BY <1>2, PreparationWork
<1>. HIDE DEF repo, work
<1>6. /\ cmd'.name = "init" /\ cmd'.state = "running" /\ cmd'.repo = repo /\ cmd'.work = work
      /\ cmd' = [name |-> "init", state |-> "running", work |-> work, repo |-> repo,
                 password |-> None, arg |-> None, try |-> 1, blind |-> FALSE]
  BY <1>1 DEF NoCommand, Idle
<1>7. Range(work) = {Operation("connect", c, "none"), Operation("init", c, "none"),
                     Operation("save", c, "repository")}
  BY <1>2, <1>5
<1>8. /\ Operation("connect", c, "none").op = "connect" /\ Operation("connect", c, "none").on = c
      /\ Operation("init", c, "none").op = "init" /\ Operation("init", c, "none").on = c
      /\ Operation("init", c, "none").file = "none"
      /\ Operation("save", c, "repository").op = "save" /\ Operation("save", c, "repository").on = c
      /\ Operation("save", c, "repository").file = "repository"
  BY DEF Operation
<1>9. \A o \in Range(work) : /\ WellFormed(o) /\ o.on = c /\ o.op \in {"connect", "init", "save"}
  BY <1>7, <1>8 DEF WellFormed, Files
<1>10. CmdType'
  <2>1. 1 \in 1 .. Retries
    BY RepositoryFileOK
  <2>. QED BY <1>4, <1>5, <1>6, <1>9, <2>1 DEF CmdType, CommandNames
<1>11. Initialising(c)' /\ Pending(c)'
  BY <1>6, <1>7 DEF Initialising, Pending
<1>12. Range(cmd'.repo.paths) = {c}
  BY <1>2, <1>4, <1>6
<1>. QED BY <1>1, <1>3, <1>5, <1>6, <1>9, <1>10, <1>11, <1>12, WorkBegins

\* Two operations, one after the other.
LEMMA ConcatOfTwo ==
  ASSUME NEW S, NEW a \in S, NEW b \in S
  PROVE  /\ <<a>> \o <<b>> \in Seq(S) /\ Range(<<a>> \o <<b>>) = {a, b}
         /\ Len(<<a>> \o <<b>>) = 2 /\ (<<a>> \o <<b>>)[1] = a /\ (<<a>> \o <<b>>)[2] = b
         /\ <<a>> \o <<b>> # <<>> /\ DOMAIN (<<a>> \o <<b>>) = {1, 2}
<1>. DEFINE s == <<a>>
            t == <<b>>
<1>1. /\ s \in Seq(S) /\ t \in Seq(S) /\ Len(s) = 1 /\ Len(t) = 1 /\ s[1] = a /\ t[1] = b
      /\ Range(s) = {a} /\ Range(t) = {b}
  BY RangeOfOne
<1>. HIDE DEF s, t
<1>2. /\ s \o t \in Seq(S) /\ Len(s \o t) = Len(s) + Len(t)
      /\ \A i \in 1 .. Len(s) : (s \o t)[i] = s[i]
      /\ \A i \in 1 .. Len(t) : (s \o t)[i + Len(s)] = t[i]
  BY <1>1, ConcatProperties
<1>3. Range(s \o t) = {a, b}
  <2>1. Range(s \o t) = Range(s) \cup Range(t)
    BY <1>1, RangeConcat
  <2>. QED BY <1>1, <2>1
<1>4. Len(s \o t) = 2 /\ (s \o t)[1] = a
  BY <1>1, <1>2
<1>5. (s \o t)[2] = b
  <2>1. 1 \in 1 .. Len(t) /\ 1 + Len(s) = 2
    BY <1>1
  <2>2. (s \o t)[1 + Len(s)] = t[1]
    BY <1>2, <2>1
  <2>. QED BY <1>1, <2>1, <2>2
<1>. DEFINE u == s \o t
<1>. HIDE DEF u
<1>6. u \in Seq(S) /\ Len(u) = 2
  BY <1>2, <1>4 DEF u
<1>7. u # <<>> /\ DOMAIN u = {1, 2}
  <2>1. DOMAIN u = 1 .. 2
    BY <1>6, LenProperties
  <2>. QED BY <1>6, <2>1, EmptySeq
<1>. QED BY <1>2, <1>3, <1>4, <1>5, <1>7 DEF s, t, u

\* Opening a repository.
LEMMA OpenRepositoryIsSafe ==
  ASSUME IInv, NEW b \in Backends, NEW p \in Passwords,
         NEW name \in {"store", "pack", "restore", "passwd", "add"},
         NEW arg \in Passwords \cup Backends \cup {None}, OpenRepository(name, b, p, arg),
         name = "passwd" => arg \in Passwords, name = "add" => arg \in Backends
  PROVE  IInv'
<1>. DEFINE s1 == ConnectAll(<<b>>)
            o2 == Operation("load", b, "repository")
            work == s1 \o <<o2>>
<1>1. /\ call' = NoCall /\ UNCHANGED <<kind, given, disk, kept, newest>>
      /\ cmd' = [name |-> name, state |-> "opening", work |-> work, repo |-> None,
                 password |-> p, arg |-> arg, try |-> 1, blind |-> FALSE]
  BY DEF OpenRepository, Begin
<1>2. s1 = <<Operation("connect", b, "none")>>
  BY DEF ConnectAll, OnAll
<1>3. /\ Operation("connect", b, "none") \in Operations /\ o2 \in Operations
      /\ Operation("connect", b, "none").op = "connect"
      /\ o2.op = "load" /\ o2.file = "repository"
  BY DEF Operation, Operations, Verbs, Files
<1>. DEFINE o1 == Operation("connect", b, "none")
<1>4. work = <<o1>> \o <<o2>> /\ o1 \in Operations /\ o2 \in Operations
  BY <1>2, <1>3
<1>. HIDE DEF o1, o2, work
<1>5. /\ work \in Seq(Operations) /\ Range(work) = {Operation("connect", b, "none"), o2}
      /\ work # <<>> /\ work[Len(work)] = o2 /\ Len(work) = 2 /\ DOMAIN work = {1, 2}
      /\ work[1] = Operation("connect", b, "none") /\ work[2] = o2
  <2>1. /\ work \in Seq(Operations) /\ Range(work) = {o1, o2}
        /\ work # <<>> /\ Len(work) = 2 /\ DOMAIN work = {1, 2} /\ work[1] = o1 /\ work[2] = o2
    BY <1>4, ConcatOfTwo
  <2>. QED BY <2>1 DEF o1
<1>6. /\ cmd'.name = name /\ cmd'.state = "opening" /\ cmd'.work = work /\ cmd'.arg = arg
  BY <1>1
<1>7. \A o \in Range(work) : WellFormed(o) /\ o.op \in {"connect", "load"}
                             /\ (o.op = "load" => o.file = "repository") /\ ~IsRepoSave(o)
  BY <1>3, <1>5 DEF WellFormed, IsRepoSave, Files
<1>8. CmdType'
  <2>1. 1 \in 1 .. Retries
    BY RepositoryFileOK
  <2>. QED BY <1>1, <1>5, <1>6, <1>7, <2>1 DEF CmdType, CommandNames
<1>9. Ordered(work)
  BY <1>5, <1>7, OrderedIfAlike
<1>10. WorkInv'
  BY <1>3, <1>5, <1>6, <1>7, <1>9 DEF WorkInv
<1>11. InitInv' /\ SavingInv' /\ SavedEverywhere'
  BY <1>6 DEF InitInv, SavingInv, SavedEverywhere, IsIdle
<1>12. newest' \in 0 .. MaxSaves
  BY <1>1 DEF IInv, Types
<1>. QED BY <1>1, <1>6, <1>8, <1>10, <1>11, <1>12, BetweenOperations

\* Decoding what was loaded: a repository whose backends have their buckets.
LEMMA DecodeIsSafe ==
  ASSUME IInv, Decode
  PROVE  IInv'
<1>. DEFINE doc == call.answer.doc
            repo == IF doc.version = 3 THEN Migrated(doc) ELSE doc
<1>1. cmd.state = "opening" /\ cmd.work = <<>> /\ UNCHANGED <<kind, given, disk, newest, kept>>
  BY DEF Decode
<1>2. CASE GiveUp
  BY <1>1, <1>2, GivesUp
<1>3. CASE /\ Decodes(call.answer) /\ call' = NoCall
           /\ cmd' = [cmd EXCEPT !.state = "opened", !.repo = repo, !.work = ConnectAll(repo.paths)]
  <2>1. call.state = "ok" /\ call.op = "load" /\ call.file = "repository"
    BY <1>1 DEF IInv, WorkInv
  <2>2. call.answer \in Answers
    BY <2>1 DEF IInv, AchievedInv, Achieved
  <2>3. call.answer # None /\ call.answer.intact
    BY <1>3, <2>2 DEF Answers, Decodes
  <2>4. doc \in Documents /\ Bucketed(doc.paths)
    BY <2>1, <2>3 DEF IInv, BucketInv
  <2>. HIDE DEF doc
  <2>5. repo \in Documents /\ Bucketed(repo.paths)
    <3>1. CASE doc.version = 3
      <4>1. repo = [doc EXCEPT !.version = 4, !.paths = <<>>]
        BY <3>1 DEF Migrated
      <4>2. <<>> \in Seq(Backends) /\ Range(<<>>) = {}
        BY EmptySeq DEF Range
      <4>3. repo \in Documents /\ repo.paths = <<>>
        BY <2>4, <4>1, <4>2 DEF Documents
      <4>. QED BY <4>2, <4>3 DEF Bucketed
    <3>2. CASE doc.version # 3
      BY <2>4, <3>2
    <3>. QED BY <3>1, <3>2
  <2>. HIDE DEF repo
  <2>. DEFINE work == ConnectAll(repo.paths)
  <2>6. /\ work \in Seq(Operations)
        /\ Range(work) = {Operation("connect", b, "none") : b \in Range(repo.paths)}
    <3>1. repo.paths \in Seq(Backends) /\ "connect" \in Verbs /\ "none" \in Files \cup {"none"}
      BY <2>5, PathsAreBackends DEF Verbs
    <3>. QED BY <3>1, RangeOnAll DEF ConnectAll
  <2>. HIDE DEF work
  <2>7. \A o \in Range(work) : WellFormed(o) /\ o.op = "connect" /\ ~IsRepoSave(o)
    BY <2>6 DEF WellFormed, IsRepoSave, Operation
  <2>8. /\ cmd'.name = cmd.name /\ cmd'.state = "opened" /\ cmd'.repo = repo /\ cmd'.work = work
        /\ cmd'.arg = cmd.arg
    BY <1>3 DEF work, IInv, Types, CmdType
  <2>9. CmdType'
    BY <1>1, <1>3, <2>5, <2>6, <2>7, <2>8 DEF work, IInv, Types, CmdType, IsIdle
  <2>10. WorkInv'
    <3>1. Ordered(work)
      BY <2>6, <2>7, OrderedIfAlike
    <3>. QED BY <2>7, <2>8, <3>1 DEF WorkInv
  <2>11. InitInv' /\ SavingInv' /\ SavedEverywhere'
    BY <2>8 DEF InitInv, SavingInv, SavedEverywhere, IsIdle
  <2>12. newest' \in 0 .. MaxSaves
    BY <1>1 DEF IInv, Types
  <2>13. cmd'.state = "opened" => \A b \in Range(cmd'.repo.paths) : kind[b] = "s3" => Bucket(b)
    BY <2>5, <2>8 DEF Bucketed
  <2>14. cmd'.state # "running"
    BY <2>8
  <2>. QED BY <1>1, <1>3, <2>9, <2>10, <2>11, <2>12, <2>13, <2>14, BetweenOperations
<1>. QED BY <1>2, <1>3 DEF Decode

\* A command that has its repository open starts to work.
LEMMA WorkIs ==
  ASSUME IInv, NEW name, Opened(name), NEW repo \in Documents, NEW work \in Seq(Operations),
         \A o \in Range(work) : WellFormed(o),
         cmd' = [cmd EXCEPT !.state = "running", !.repo = repo, !.work = work]
  PROVE  /\ CmdType' /\ cmd'.name = name /\ cmd'.state = "running" /\ cmd'.repo = repo
         /\ cmd'.work = work /\ cmd'.arg = cmd.arg
         /\ cmd.repo \in Documents /\ cmd.repo.paths \in Seq(Backends)
         /\ Range(cmd.repo.paths) \subseteq Backends
         /\ \A b \in Range(cmd.repo.paths) : kind[b] = "s3" => Bucket(b)
         /\ name = "add" => cmd.arg \in Backends
         /\ name = "passwd" => cmd.arg \in Passwords
<1>1. cmd.name = name /\ cmd.state = "opened" /\ CmdType
  BY DEF Opened, IInv, Types
<1>2. cmd.repo \in Documents
  BY <1>1 DEF CmdType
<1>3. /\ cmd'.name = cmd.name /\ cmd'.state = "running" /\ cmd'.repo = repo
      /\ cmd'.work = work /\ cmd'.arg = cmd.arg
  BY <1>1 DEF CmdType
<1>4. CmdType'
  BY <1>1, <1>3 DEF CmdType, IsIdle
<1>5. \A b \in Range(cmd.repo.paths) : kind[b] = "s3" => Bucket(b)
  BY <1>1 DEF IInv, BucketInv, Bucketed
<1>. QED BY <1>1, <1>2, <1>3, <1>4, <1>5, PathsAreBackends DEF CmdType, IsIdle

\* Two facts about an open repository.
LEMMA OpenedFacts ==
  ASSUME IInv, NEW name, Opened(name)
  PROVE  /\ cmd.repo \in Documents /\ cmd.repo.paths \in Seq(Backends)
         /\ Range(cmd.repo.paths) \subseteq Backends
         /\ name = "add" => cmd.arg \in Backends
         /\ name = "passwd" => cmd.arg \in Passwords
<1>1. cmd.name = name /\ cmd.state = "opened" /\ CmdType
  BY DEF Opened, IInv, Types
<1>2. cmd.repo \in Documents
  BY <1>1 DEF CmdType
<1>. QED BY <1>1, <1>2, PathsAreBackends DEF CmdType, IsIdle

\* The next version of a repository.
LEMMA NextVersions ==
  ASSUME IInv, newest < MaxSaves, cmd.repo \in Documents
  PROVE  /\ newest + 1 \in 0 .. MaxSaves
         /\ NextVersion \in Documents /\ NextVersion.paths = cmd.repo.paths
         /\ \A p \in Passwords : /\ [NextVersion EXCEPT !.password = p] \in Documents
                                 /\ [NextVersion EXCEPT !.password = p].paths = cmd.repo.paths
         /\ \A paths \in Seq(Backends) : /\ [NextVersion EXCEPT !.paths = paths] \in Documents
                                         /\ [NextVersion EXCEPT !.paths = paths].paths = paths
<1>1. newest + 1 \in 0 .. MaxSaves
  BY RepositoryFileOK DEF IInv, Types
<1>2. NextVersion \in Documents /\ NextVersion.paths = cmd.repo.paths
  BY <1>1 DEF NextVersion, Documents
<1>. QED BY <1>1, <1>2 DEF Documents

\* Saving, deleting or loading a file on every backend.
LEMMA OnAllIs ==
  ASSUME NEW op \in {"save", "delete", "load"}, NEW paths \in Seq(Backends), NEW f \in Files,
         op = "delete" => f = "chunk"
  PROVE  /\ OnAll(op, paths, f) \in Seq(Operations)
         /\ Range(OnAll(op, paths, f)) = {Operation(op, b, f) : b \in Range(paths)}
         /\ \A o \in Range(OnAll(op, paths, f)) :
              WellFormed(o) /\ o.op = op /\ o.file = f /\ o.on \in Range(paths)
<1>1. /\ OnAll(op, paths, f) \in Seq(Operations)
      /\ Range(OnAll(op, paths, f)) = {Operation(op, b, f) : b \in Range(paths)}
  <2>1. op \in Verbs /\ f \in Files \cup {"none"}
    BY DEF Verbs
  <2>. QED BY <2>1, RangeOnAll
<1>2. \A b : /\ Operation(op, b, f).op = op /\ Operation(op, b, f).file = f
             /\ Operation(op, b, f).on = b
  BY DEF Operation
<1>. QED BY <1>1, <1>2 DEF WellFormed

\* Changing the password.
LEMMA ChangePasswordIsSafe ==
  ASSUME IInv, ChangePassword
  PROVE  IInv'
<1>. DEFINE repo == [NextVersion EXCEPT !.password = cmd.arg]
            work == SaveAll(cmd.repo.paths, "repository")
<1>1. /\ Opened("passwd") /\ newest < MaxSaves /\ newest' = newest + 1 /\ call' = NoCall
      /\ cmd' = [cmd EXCEPT !.state = "running", !.repo = repo, !.work = work]
      /\ UNCHANGED <<kind, given, disk, kept>>
  BY DEF ChangePassword, Work
<1>2. cmd.repo \in Documents /\ cmd.repo.paths \in Seq(Backends) /\ cmd.arg \in Passwords
  BY <1>1, OpenedFacts
<1>3. repo \in Documents /\ repo.paths = cmd.repo.paths /\ newest' \in 0 .. MaxSaves
  BY <1>1, <1>2, NextVersions
<1>4. /\ work \in Seq(Operations)
      /\ Range(work) = {Operation("save", b, "repository") : b \in Range(cmd.repo.paths)}
      /\ \A o \in Range(work) :
           WellFormed(o) /\ o.op = "save" /\ o.file = "repository" /\ o.on \in Range(cmd.repo.paths)
  <2>1. "repository" \in Files
    BY DEF Files
  <2>. QED BY <1>2, <2>1, OnAllIs DEF SaveAll
<1>. HIDE DEF repo, work
<1>5. /\ CmdType' /\ cmd'.name = "passwd" /\ cmd'.state = "running" /\ cmd'.repo = repo
      /\ cmd'.work = work
      /\ \A b \in Range(cmd.repo.paths) : kind[b] = "s3" => Bucket(b)
  BY <1>1, <1>3, <1>4, WorkIs
<1>6. Ordered(work)
  BY <1>4, OrderedIfAlike DEF IsRepoSave
<1>7. \A b \in Range(cmd.repo.paths) : Pending(b)'
  BY <1>4, <1>5 DEF Pending
<1>8. \A b : ~Prepares(b)'
  BY <1>5 DEF Prepares
<1>. QED BY <1>1, <1>3, <1>4, <1>5, <1>6, <1>7, <1>8, WorkBegins

\* Adding a backend.
LEMMA RepoAddIsSafe ==
  ASSUME IInv, RepoAdd
  PROVE  IInv'
<1>. DEFINE c == cmd.arg
            paths == Append(cmd.repo.paths, c)
            repo == [NextVersion EXCEPT !.paths = paths]
            work == ConnectAll(<<c>>) \o <<Operation("init", c, "none")>>
                      \o SaveAll(paths, "repository")
<1>1. /\ Opened("add") /\ newest < MaxSaves /\ newest' = newest + 1 /\ call' = NoCall
      /\ cmd' = [cmd EXCEPT !.state = "running", !.repo = repo, !.work = work]
      /\ UNCHANGED <<kind, given, disk, kept>>
  BY DEF RepoAdd, Work
<1>2. cmd.repo \in Documents /\ cmd.repo.paths \in Seq(Backends) /\ c \in Backends
  BY <1>1, OpenedFacts
<1>3. paths \in Seq(Backends) /\ Range(paths) = Range(cmd.repo.paths) \cup {c}
  <2>1. /\ paths \in Seq(Backends) /\ Len(paths) = Len(cmd.repo.paths) + 1
        /\ \A i \in 1 .. Len(cmd.repo.paths) : paths[i] = cmd.repo.paths[i]
        /\ paths[Len(cmd.repo.paths) + 1] = c
    BY <1>2, AppendProperties
  <2>. DEFINE s == cmd.repo.paths
              n == Len(s)
  <2>. HIDE DEF paths, c
  <2>2. /\ n \in Nat /\ DOMAIN s = 1 .. n /\ DOMAIN paths = 1 .. (n + 1)
    BY <1>2, <2>1, LenProperties
  <2>3. \A i \in 1 .. (n + 1) : i \in 1 .. n \/ i = n + 1
    BY <2>2
  <2>4. \A x \in Range(paths) : x \in Range(s) \cup {c}
    BY <2>1, <2>2, <2>3 DEF Range
  <2>5. \A i \in 1 .. n : i \in 1 .. (n + 1)
    BY <2>2
  <2>6. n + 1 \in 1 .. (n + 1)
    BY <2>2
  <2>7. \A x \in Range(s) : x \in Range(paths)
    BY <2>1, <2>2, <2>5 DEF Range
  <2>8. c \in Range(paths)
    BY <2>1, <2>2, <2>6 DEF Range
  <2>. QED BY <2>1, <2>4, <2>7, <2>8
<1>. HIDE DEF paths
<1>4. repo \in Documents /\ repo.paths = paths /\ newest' \in 0 .. MaxSaves
  BY <1>1, <1>2, <1>3, NextVersions
<1>5. /\ work \in Seq(Operations) /\ Ordered(work)
      /\ Range(work) = {Operation("connect", c, "none"), Operation("init", c, "none")}
                         \cup {Operation("save", b, "repository") : b \in Range(paths)}
  BY <1>2, <1>3, PreparationWork
<1>. HIDE DEF repo, work
<1>6. \A o \in Range(work) : /\ WellFormed(o) /\ o.op \in {"connect", "init", "save"}
                             /\ IsRepoSave(o) => o.on \in Range(paths)
  <2>1. \A b : /\ Operation("save", b, "repository").op = "save"
               /\ Operation("save", b, "repository").file = "repository"
               /\ Operation("save", b, "repository").on = b
    BY DEF Operation
  <2>2. /\ Operation("connect", c, "none").op = "connect"
        /\ Operation("init", c, "none").op = "init" /\ Operation("init", c, "none").file = "none"
    BY DEF Operation
  <2>. QED BY <1>5, <2>1, <2>2 DEF WellFormed, Files, IsRepoSave
<1>7. /\ CmdType' /\ cmd'.name = "add" /\ cmd'.state = "running" /\ cmd'.repo = repo
      /\ cmd'.work = work /\ cmd'.arg = c
      /\ \A b \in Range(cmd.repo.paths) : kind[b] = "s3" => Bucket(b)
  BY <1>1, <1>4, <1>5, <1>6, WorkIs
<1>8. (\A b \in Range(paths) : Pending(b)') /\ Initialising(c)'
  BY <1>5, <1>7 DEF Pending, Initialising
<1>9. \A b : Prepares(b)' => b = c
  BY <1>7 DEF Prepares
<1>10. cmd'.repo.paths = paths
  BY <1>4, <1>7
<1>11. \A b \in Range(cmd'.repo.paths) : kind[b] = "s3" => Bucket(b) \/ Initialising(b)'
  BY <1>3, <1>7, <1>8, <1>10
<1>. QED BY <1>1, <1>4, <1>5, <1>6, <1>7, <1>8, <1>9, <1>10, <1>11, WorkBegins

\* Storing: a chunk on one backend, and the files of the repository on all.
LEMMA StoreIsSafe ==
  ASSUME IInv, Store
  PROVE  IInv'
<1>. DEFINE paths == cmd.repo.paths
            repo == NextVersion
            s2 == SaveAll(paths, "snapshot")
            s3 == SaveAll(paths, "index")
            s4 == SaveAll(paths, "repository")
<1>1. /\ Opened("store") /\ newest < MaxSaves /\ newest' = newest + 1 /\ call' = NoCall
      /\ UNCHANGED <<kind, given, disk, kept>>
      /\ \E b \in Range(paths) :
           cmd' = [cmd EXCEPT !.state = "running", !.repo = repo,
                              !.work = <<Operation("save", b, "chunk")>> \o s2 \o s3 \o s4]
  BY DEF Store, Work
<1>2. /\ cmd.repo \in Documents /\ paths \in Seq(Backends) /\ Range(paths) \subseteq Backends
  BY <1>1, OpenedFacts
<1>3. repo \in Documents /\ repo.paths = paths /\ newest' \in 0 .. MaxSaves
  BY <1>1, <1>2, NextVersions
<1>4. PICK c \in Range(paths) :
        cmd' = [cmd EXCEPT !.state = "running", !.repo = repo,
                           !.work = <<Operation("save", c, "chunk")>> \o s2 \o s3 \o s4]
  BY <1>1
<1>. DEFINE s1 == <<Operation("save", c, "chunk")>>
            good(s) == /\ s \in Seq(Operations)
                       /\ \A o \in Range(s) : WellFormed(o) /\ o.op = "save"
                                              /\ ~IsRepoSave(o)
<1>5. good(s1)
  <2>1. /\ Operation("save", c, "chunk") \in Operations /\ WellFormed(Operation("save", c, "chunk"))
        /\ Operation("save", c, "chunk").op = "save" /\ ~IsRepoSave(Operation("save", c, "chunk"))
    BY <1>2 DEF Operation, Operations, WellFormed, IsRepoSave, Verbs, Files
  <2>. QED BY <2>1, RangeOfOne
<1>6. good(s2) /\ good(s3)
  <2>1. "snapshot" \in Files /\ "index" \in Files /\ "snapshot" # "repository" /\ "index" # "repository"
    BY DEF Files
  <2>. QED BY <1>2, <2>1, OnAllIs DEF SaveAll, IsRepoSave
<1>7. /\ s4 \in Seq(Operations)
      /\ Range(s4) = {Operation("save", b, "repository") : b \in Range(paths)}
      /\ \A o \in Range(s4) : WellFormed(o) /\ o.op = "save" /\ o.on \in Range(paths) /\ IsRepoSave(o)
  <2>1. "repository" \in Files
    BY DEF Files
  <2>. QED BY <1>2, <2>1, OnAllIs DEF SaveAll, IsRepoSave
<1>. DEFINE s12 == s1 \o s2
            s123 == s12 \o s3
            work == s123 \o s4
<1>8. cmd' = [cmd EXCEPT !.state = "running", !.repo = repo, !.work = work]
  BY <1>4
<1>. HIDE DEF s1, s2, s3, s4, repo
<1>9. good(s12)
  <2>1. s1 \in Seq(Operations) /\ s2 \in Seq(Operations)
    BY <1>5, <1>6
  <2>2. s12 \in Seq(Operations) /\ Range(s12) = Range(s1) \cup Range(s2)
    BY <2>1, RangeConcat
  <2>. HIDE DEF s12
  <2>. QED BY <1>5, <1>6, <2>2
<1>. HIDE DEF s12
<1>10. good(s123)
  <2>1. s12 \in Seq(Operations) /\ s3 \in Seq(Operations)
    BY <1>6, <1>9
  <2>2. s123 \in Seq(Operations) /\ Range(s123) = Range(s12) \cup Range(s3)
    BY <2>1, RangeConcat
  <2>. HIDE DEF s123
  <2>. QED BY <1>6, <1>9, <2>2
<1>. HIDE DEF s123
<1>11. work \in Seq(Operations) /\ Range(work) = Range(s123) \cup Range(s4) /\ Ordered(work)
  <2>1. s123 \in Seq(Operations) /\ s4 \in Seq(Operations)
    BY <1>7, <1>10
  <2>2. work \in Seq(Operations) /\ Range(work) = Range(s123) \cup Range(s4)
    BY <2>1, RangeConcat
  <2>3. (\A o \in Range(s123) : ~IsRepoSave(o)) /\ (\A o \in Range(s4) : IsRepoSave(o))
    BY <1>7, <1>10
  <2>4. Ordered(work)
    BY <2>1, <2>3, OrderedConcat
  <2>. QED BY <2>2, <2>4
<1>. HIDE DEF work
<1>12. \A o \in Range(work) : WellFormed(o) /\ o.op = "save" /\ (IsRepoSave(o) => o.on \in Range(paths))
  BY <1>7, <1>10, <1>11
<1>13. /\ CmdType' /\ cmd'.name = "store" /\ cmd'.state = "running" /\ cmd'.repo = repo
       /\ cmd'.work = work
       /\ \A b \in Range(cmd.repo.paths) : kind[b] = "s3" => Bucket(b)
  BY <1>1, <1>3, <1>8, <1>11, <1>12, WorkIs
<1>14. \A b \in Range(paths) : Pending(b)'
  BY <1>7, <1>11, <1>13 DEF Pending
<1>15. \A b : ~Prepares(b)'
  BY <1>13 DEF Prepares
<1>. QED BY <1>1, <1>3, <1>11, <1>12, <1>13, <1>14, <1>15, WorkBegins

\* Storing without backends.
LEMMA StoreRefusedIsSafe ==
  ASSUME IInv, StoreRefused
  PROVE  IInv'
  BY GivesUp DEF StoreRefused

\* Packing: a chunk is deleted, and the chunk-index saved.
LEMMA RepoPackIsSafe ==
  ASSUME IInv, RepoPack
  PROVE  IInv'
<1>. DEFINE paths == cmd.repo.paths
            repo == NextVersion
            s1 == OnAll("delete", paths, "chunk")
            s2 == SaveAll(paths, "index")
            work == s1 \o s2
<1>1. /\ Opened("pack") /\ newest < MaxSaves /\ newest' = newest + 1 /\ call' = NoCall
      /\ cmd' = [cmd EXCEPT !.state = "running", !.repo = repo, !.work = work]
      /\ UNCHANGED <<kind, given, disk, kept>>
  BY DEF RepoPack, Work
<1>2. cmd.repo \in Documents /\ paths \in Seq(Backends)
  BY <1>1, OpenedFacts
<1>3. repo \in Documents /\ repo.paths = paths /\ newest' \in 0 .. MaxSaves
  BY <1>1, <1>2, NextVersions
<1>4. /\ s1 \in Seq(Operations) /\ s2 \in Seq(Operations)
      /\ \A o \in Range(s1) : WellFormed(o) /\ o.op = "delete"
      /\ \A o \in Range(s2) : WellFormed(o) /\ o.op = "save" /\ o.file = "index"
  <2>1. "chunk" \in Files /\ "index" \in Files
    BY DEF Files
  <2>. QED BY <1>2, <2>1, OnAllIs DEF SaveAll
<1>. HIDE DEF s1, s2, repo
<1>5. work \in Seq(Operations) /\ Range(work) = Range(s1) \cup Range(s2)
  BY <1>4, RangeConcat
<1>. HIDE DEF work
<1>6. \A o \in Range(work) : WellFormed(o) /\ ~IsRepoSave(o) /\ o.op # "init"
  BY <1>4, <1>5 DEF IsRepoSave
<1>7. /\ CmdType' /\ cmd'.name = "pack" /\ cmd'.state = "running" /\ cmd'.repo = repo
      /\ cmd'.work = work
      /\ \A b \in Range(cmd.repo.paths) : kind[b] = "s3" => Bucket(b)
  BY <1>1, <1>3, <1>5, <1>6, WorkIs
<1>8. Ordered(work)
  BY <1>5, <1>6, OrderedIfAlike
<1>9. \A b : ~Prepares(b)'
  BY <1>7 DEF Prepares
<1>. QED BY <1>1, <1>3, <1>6, <1>7, <1>8, <1>9, WorkBegins

\* Restoring: a snapshot is loaded.
LEMMA RestoreIsSafe ==
  ASSUME IInv, Restore
  PROVE  IInv'
<1>. DEFINE work == OnAll("load", cmd.repo.paths, "snapshot")
<1>1. /\ Opened("restore") /\ call' = NoCall
      /\ cmd' = [cmd EXCEPT !.state = "running", !.work = work]
      /\ UNCHANGED <<kind, given, disk, newest, kept>>
  BY DEF Restore
<1>2. cmd.repo \in Documents /\ cmd.repo.paths \in Seq(Backends)
  BY <1>1, OpenedFacts
<1>3. /\ work \in Seq(Operations)
      /\ \A o \in Range(work) : WellFormed(o) /\ o.op = "load"
  <2>1. "snapshot" \in Files
    BY DEF Files
  <2>. QED BY <1>2, <2>1, OnAllIs
<1>. HIDE DEF work
<1>4. \A o \in Range(work) : WellFormed(o) /\ ~IsRepoSave(o) /\ o.op # "init"
  BY <1>3 DEF IsRepoSave
<1>5. cmd' = [cmd EXCEPT !.state = "running", !.repo = cmd.repo, !.work = work]
  BY <1>1 DEF IInv, Types, CmdType
<1>6. /\ CmdType' /\ cmd'.name = "restore" /\ cmd'.state = "running" /\ cmd'.repo = cmd.repo
      /\ cmd'.work = work
      /\ \A b \in Range(cmd.repo.paths) : kind[b] = "s3" => Bucket(b)
  BY <1>1, <1>2, <1>3, <1>4, <1>5, WorkIs
<1>7. Ordered(work)
  BY <1>3, <1>4, OrderedIfAlike
<1>8. \A b : ~Prepares(b)'
  BY <1>6 DEF Prepares
<1>9. newest' \in 0 .. MaxSaves
  BY <1>1 DEF IInv, Types
<1>. QED BY <1>1, <1>4, <1>6, <1>7, <1>8, <1>9, WorkBegins

-----------------------------------------------------------------------------
(* The invariant.                                                          *)

\* The invariant holds at the beginning.
LEMMA InitIsSafe ==
  ASSUME Init
  PROVE  IInv
<1>1. /\ kind \in [Backends -> Kinds] /\ given \in [Backends -> {{}, {"user", "password"}}]
      /\ call = NoCall /\ cmd = NoCommand /\ kept = [b \in Backends |-> [f \in Files |-> None]]
  BY DEF Init
<1>2. /\ call.state = "none" /\ call.op = "none" /\ ~Running
      /\ cmd.state = "idle" /\ cmd.name = "none" /\ cmd.work = <<>> /\ IsIdle
  BY <1>1 DEF NoCall, NoCommand, Idle, Running, IsIdle
<1>3. CallType
  <2>1. <<>> \in Seq(AllSteps) /\ None \in Contents
    BY EmptySeq DEF Contents
  <2>. QED BY <1>1, <2>1 DEF CallType, NoCall
<1>4. CmdType
  <2>1. 1 \in 1 .. Retries
    BY RepositoryFileOK
  <2>. QED BY <1>1, <1>2, <2>1, NoWork DEF CmdType, NoCommand, Idle, CommandNames
<1>. DEFINE Empties == \A b \in Backends : disk[b] = Empty
            Old1(repo) == \A b \in Backends : disk[b] = IF b \in Range(repo.paths) THEN Holding(repo)
                                                                                   ELSE Empty
<1>5. /\ disk = [b \in Backends |-> disk[b]] /\ newest \in 0 .. MaxSaves
      /\ Empties \/ \E repo \in Documents : Old1(repo)
  <2>1. CASE disk = [b \in Backends |-> Empty] /\ newest = 0
    BY <2>1, RepositoryFileOK
  <2>2. ASSUME NEW p \in Passwords, NEW paths \in InitialPaths \ {<<>>}, NEW v \in {2, 3, 4},
               disk = [b \in Backends |-> IF b \in Range(paths)
                                           THEN Holding(OldRepository(p, paths, v)) ELSE Empty],
               newest = 1
        PROVE  /\ disk = [b \in Backends |-> disk[b]] /\ newest \in 0 .. MaxSaves
               /\ \E repo \in Documents : Old1(repo)
    <3>. DEFINE repo == OldRepository(p, paths, v)
    <3>1. paths \in Seq(Backends)
      <4>1. Cardinality(Backends) \in Nat
        BY RepositoryFileOK, FS_CardinalityType
      <4>2. PICK n \in 0 .. Cardinality(Backends) : paths \in [1 .. n -> Backends]
        BY <2>2 DEF InitialPaths, SeqOf
      <4>. QED BY <4>1, <4>2, IsASeq
    <3>2. repo \in Documents /\ repo.paths = paths
      BY <3>1, RepositoryFileOK DEF OldRepository, Documents
    <3>. HIDE DEF repo
    <3>3. \A b \in Backends : disk[b] = IF b \in Range(paths) THEN Holding(repo) ELSE Empty
      BY <2>2 DEF repo
    <3>4. newest \in 0 .. MaxSaves
      BY <2>2, RepositoryFileOK
    <3>. QED BY <2>2, <3>2, <3>3, <3>4
  <2>. QED BY <2>1, <2>2 DEF Init
<1>6. /\ Empty.dirs = {} /\ Empty.files = [f \in Files |-> None]
      /\ \A f \in Files : Empty.files[f] = None
  BY DEF Empty
<1>7. ASSUME NEW repo \in Documents
      PROVE  /\ Holding(repo).dirs = Directories
             /\ Holding(repo).files = [f \in Files |-> IF f = "repository" THEN Whole(repo) ELSE None]
             /\ Holding(repo) = [files |-> Holding(repo).files, dirs |-> Holding(repo).dirs]
  BY <1>6 DEF Holding
<1>8. \A b \in Backends :
        \/ disk[b] = Empty
        \/ \E repo \in Documents :
             /\ disk[b] = Holding(repo)
             /\ \A c \in Range(repo.paths) : c \in Backends /\ disk[c] = Holding(repo)
  <2>1. SUFFICES ASSUME NEW repo \in Documents, Old1(repo), NEW b \in Backends
                 PROVE  \/ disk[b] = Empty
                        \/ /\ disk[b] = Holding(repo)
                           /\ \A c \in Range(repo.paths) : c \in Backends /\ disk[c] = Holding(repo)
    BY <1>5
  <2>2. Range(repo.paths) \subseteq Backends
    BY PathsAreBackends
  <2>. QED BY <2>1, <2>2
<1>9. ASSUME NEW b \in Backends
      PROVE  /\ disk[b] \in [files : [Files -> Contents], dirs : SUBSET Directories]
             /\ \A f \in Files : disk[b].files[f] # None /\ disk[b].files[f].intact =>
                                   disk[b].files[f].doc \in Documents
             /\ disk[b].files["chunk"] = None
             /\ disk[b].dirs # {} => disk[b].files["repository"] # None
             /\ disk[b].files["repository"] # None =>
                  /\ Bucket(b) /\ Bucketed(disk[b].files["repository"].doc.paths)
  <2>1. None \in Contents /\ "chunk" \in Files /\ "repository" \in Files
    BY DEF Contents, Files
  <2>2. CASE disk[b] = Empty
    <3>1. Empty \in [files : [Files -> Contents], dirs : SUBSET Directories]
      BY <2>1 DEF Empty
    <3>. QED BY <1>6, <2>1, <2>2, <3>1
  <2>3. ASSUME NEW repo \in Documents, disk[b] = Holding(repo),
               \A c \in Range(repo.paths) : c \in Backends /\ disk[c] = Holding(repo)
        PROVE  /\ disk[b] \in [files : [Files -> Contents], dirs : SUBSET Directories]
               /\ \A f \in Files : disk[b].files[f] # None /\ disk[b].files[f].intact =>
                                     disk[b].files[f].doc \in Documents
               /\ disk[b].files["chunk"] = None
               /\ disk[b].files["repository"] # None
               /\ Bucket(b) /\ Bucketed(disk[b].files["repository"].doc.paths)
    <3>1. Whole(repo) \in Contents /\ Whole(repo) # None /\ Whole(repo).doc = repo
      BY TheContents DEF Whole
    <3>2. /\ Holding(repo).dirs = Directories
          /\ Holding(repo).files = [f \in Files |-> IF f = "repository" THEN Whole(repo) ELSE None]
          /\ Holding(repo) = [files |-> Holding(repo).files, dirs |-> Holding(repo).dirs]
      BY <1>7
    <3>3. Holding(repo).files \in [Files -> Contents]
      BY <2>1, <3>1, <3>2
    <3>4. Holding(repo) \in [files : [Files -> Contents], dirs : SUBSET Directories]
      BY <3>2, <3>3
    <3>5. /\ disk[b].files["chunk"] = None /\ disk[b].files["repository"] = Whole(repo)
          /\ \A f \in Files : f # "repository" => disk[b].files[f] = None
      BY <2>1, <2>3, <3>2
    <3>6. "repositories" \in Directories
      BY DEF Directories
    <3>7. Bucket(b) /\ \A c \in Range(repo.paths) : Bucket(c)
      BY <2>3, <3>2, <3>6 DEF Bucket
    <3>. QED BY <2>3, <3>1, <3>4, <3>5, <3>7 DEF Bucketed
  <2>. QED BY <1>8, <2>2, <2>3
<1>10. Types
  <2>1. DiskType
    BY <1>5, <1>9 DEF DiskType
  <2>. QED BY <1>1, <1>3, <1>4, <1>5, <2>1 DEF Types
<1>11. WorkInv /\ CallInv /\ AchievedInv
  BY <1>2, NoWork DEF WorkInv, CallInv, AchievedInv
<1>12. ChunkInv /\ AcknowledgedIsKept
  BY <1>1, <1>9 DEF ChunkInv, AcknowledgedIsKept
<1>13. BucketInv
  BY <1>2, <1>9 DEF BucketInv
<1>14. InitInv /\ SavingInv /\ SavedEverywhere
  BY <1>2, <1>9 DEF InitInv, SavingInv, SavedEverywhere
<1>. QED BY <1>10, <1>11, <1>12, <1>13, <1>14 DEF IInv

\* Every step keeps the invariant.
LEMMA NextIsSafe ==
  ASSUME IInv, [Next]_vars
  PROVE  IInv'
<1>1. CASE UNCHANGED vars
  <2>1. UNCHANGED <<kind, given, disk, call, cmd, newest, kept>>
    BY <1>1 DEF vars
  <2>2. Types' /\ WorkInv'
    BY <2>1 DEF IInv, Types, CmdType, CallType, DiskType, WorkInv, IsIdle
  <2>3. CallInv'
    BY <2>1 DEF IInv, CallInv, Due, DocFor, Running
  <2>4. AchievedInv'
    BY <2>1 DEF IInv, AchievedInv, Achieved, Running
  <2>5. ChunkInv' /\ AcknowledgedIsKept'
    BY <2>1 DEF IInv, ChunkInv, AcknowledgedIsKept
  <2>6. BucketInv'
    BY <2>1 DEF IInv, BucketInv, Bucketed, Bucket, Initialising, Running
  <2>7. InitInv'
    BY <2>1 DEF IInv, InitInv, Prepares, Clear, Initialising, Running
  <2>8. SavingInv' /\ SavedEverywhere'
    BY <2>1 DEF IInv, SavingInv, SavedEverywhere, Pending, Holds, Due, IsIdle
  <2>. QED BY <2>2, <2>3, <2>4, <2>5, <2>6, <2>7, <2>8 DEF IInv
<1>2. ASSUME Command PROVE IInv'
  <2>1. PICK b \in Backends, p \in Passwords :
          \/ RepoInit(b, p)
          \/ OpenRepository("store", b, p, None)
          \/ OpenRepository("pack", b, p, None)
          \/ OpenRepository("restore", b, p, None)
          \/ \E q \in Passwords \ {p} : OpenRepository("passwd", b, p, q)
          \/ \E c \in Backends \ {b} : OpenRepository("add", b, p, c)
    BY <1>2 DEF Command
  <2>2. CASE RepoInit(b, p)
    BY <2>2, RepoInitIsSafe
  <2>3. ASSUME NEW name \in {"store", "pack", "restore"}, OpenRepository(name, b, p, None) PROVE IInv'
    BY <2>3, OpenRepositoryIsSafe
  <2>4. ASSUME NEW q \in Passwords \ {p}, OpenRepository("passwd", b, p, q) PROVE IInv'
    BY <2>4, OpenRepositoryIsSafe
  <2>5. ASSUME NEW c \in Backends \ {b}, OpenRepository("add", b, p, c) PROVE IInv'
    BY <2>5, OpenRepositoryIsSafe
  <2>. QED BY <2>1, <2>2, <2>3, <2>4, <2>5
<1>3. ASSUME Refused \/ Die PROVE IInv'
  BY <1>3, GivesUp DEF Refused, Die
<1>4. CASE Decode
  BY <1>4, DecodeIsSafe
<1>5. CASE ChangePassword
  BY <1>5, ChangePasswordIsSafe
<1>6. CASE RepoAdd
  BY <1>6, RepoAddIsSafe
<1>7. CASE Store
  BY <1>7, StoreIsSafe
<1>8. CASE StoreRefused
  BY <1>8, StoreRefusedIsSafe
<1>9. CASE RepoPack
  BY <1>9, RepoPackIsSafe
<1>10. CASE Restore
  BY <1>10, RestoreIsSafe
<1>11. CASE Start
  BY <1>11, StartIsSafe
<1>12. CASE Adapter
  BY <1>12, AdapterIsSafe
<1>13. CASE Succeeded
  BY <1>13, SucceededIsSafe
<1>14. CASE Failed
  BY <1>14, FailedIsSafe
<1>15. CASE Finished
  BY <1>15, FinishedIsSafe
<1>. QED BY <1>1, <1>2, <1>3, <1>4, <1>5, <1>6, <1>7, <1>8, <1>9, <1>10, <1>11, <1>12, <1>13,
            <1>14, <1>15 DEF Next

\* The invariant holds in every state of every behaviour.
THEOREM Invariant == Spec => []IInv
<1>1. Init => IInv
  BY InitIsSafe
<1>2. IInv /\ [Next]_vars => IInv'
  BY NextIsSafe
<1>. QED BY <1>1, <1>2, PTL DEF Spec

-----------------------------------------------------------------------------
(* The properties.                                                         *)

\* Every variable has its type, whatever adapters, commands and failures meet.
THEOREM TypeCorrect == Spec => []TypeOK
<1>1. IInv => TypeOK
  BY DEF IInv, Types, CmdType, CallType, DiskType, TypeOK
<1>. QED BY <1>1, Invariant, PTL

\* What a backend has acknowledged (Backend.Store*, Backend.Save*) it keeps, if
\* its adapter can be trusted with the file, however calls fail and processes
\* die.
THEOREM AcknowledgedStaysKept == Spec => []AcknowledgedIsKept
<1>1. IInv => AcknowledgedIsKept
  BY DEF IInv
<1>. QED BY <1>1, Invariant, PTL

\* A command that changes the repository and succeeds has saved it on each of
\* its backends (Repository.Save), unless it has migrated it.
THEOREM SavedIsEverywhere == Spec => []SavedEverywhere
<1>1. IInv => SavedEverywhere
  BY DEF IInv
<1>. QED BY <1>1, Invariant, PTL

\* Nothing but an adapter changes what is on a backend.
LEMMA OnlyAdaptersChange ==
  ASSUME [Next]_vars, ~Adapter
  PROVE  UNCHANGED <<disk, kind>>
  BY DEF Next, vars, Command, RepoInit, OpenRepository, Begin, Decode, ChangePassword, RepoAdd,
     Store, StoreRefused, RepoPack, Restore, Work, Start, Succeeded, Failed, Refused, Finished, Die

\* Initialising a backend (InitRepository) never changes a repository that is
\* there, unless the adapter could not be told of it.
LEMMA InitSpares ==
  ASSUME IInv, [Next]_vars, NEW b \in Backends,
         cmd.name = "init" \/ (cmd.name = "add" /\ b = cmd.arg), ~cmd.blind,
         kind[b] \notin {"http", "backblaze"},
         disk[b].files["repository"] # None, disk[b].files["repository"].intact,
         disk[b].files["repository"].doc # cmd.repo
  PROVE  disk'[b].files["repository"] = disk[b].files["repository"]
<1>1. SUFFICES ASSUME disk'[b].files["repository"] # disk[b].files["repository"] PROVE FALSE
  OBVIOUS
<1>2. Adapter
  BY <1>1, OnlyAdaptersChange
<1>3. Types /\ WorkInv /\ CallInv /\ InitInv
  BY DEF IInv
<1>4. cmd.work # <<>> /\ IsRepoSave(Due) /\ Due.on = b
  BY <1>1, <1>2, <1>3, RepositoryWritten
<1>5. cmd.state = "running" /\ ~Initialising(b)
  BY <1>3, <1>4, SavingTheRepository
<1>6. Due \in Range(cmd.work)
  BY <1>4, DueOperation
<1>7. ~Clear(b) /\ Prepares(b)
  BY DEF Clear, Prepares
<1>. QED BY <1>3, <1>4, <1>5, <1>6, <1>7 DEF InitInv

\* "repository seems to already exist": a repository that is there stays there.
THEOREM InitSparesRepositories == Spec => InitKeepsRepositories
<1>1. IInv /\ [Next]_vars =>
        [\A b \in Backends :
           LET file == disk[b].files["repository"] IN
           /\ cmd.name = "init" \/ (cmd.name = "add" /\ b = cmd.arg)
           /\ ~cmd.blind
           /\ kind[b] \notin {"http", "backblaze"}
           /\ file # None /\ file.intact /\ file.doc # cmd.repo
           => disk'[b].files["repository"] = file]_vars
  BY InitSpares
<1>. QED BY <1>1, Invariant, PTL DEF Spec, InitKeepsRepositories

-----------------------------------------------------------------------------
(* The refinement: adapters whose writes replace a file at one instant.    *)

Places == {b \in Backends : kind[b] \in Atomic} \X Files

Stored == [x \in Places |-> Document(disk[x[1]].files[x[2]])]

\* What a file holds.
LEMMA TheDocument ==
  /\ Document(None) = None
  /\ \A d \in Documents : Document(Whole(d)) = d
  /\ \A x \in Contents : Document(x) \in Documents \cup {None}
<1>1. \A d \in Documents : Whole(d) # None /\ Whole(d).doc = d
  BY TheContents DEF Whole
<1>2. \A x \in Contents : x = None \/ x.doc \in Documents \cup {None}
  BY DEF Contents
<1>. QED BY <1>1, <1>2 DEF Document

\* A step of an adapter leaves the store as it is or puts the document that is
\* saved in its place, or removes the one that is deleted.
LEMMA StoredChanges ==
  ASSUME Types, WorkInv, CallInv, Adapter
  PROVE  \/ Stored' = Stored
         \/ /\ kind[call.on] \in Atomic /\ call.op \in {"save", "delete"}
            /\ <<call.on, call.file>> \in Places
            /\ Stored' = [Stored EXCEPT ![<<call.on, call.file>>] =
                            IF call.op = "save" THEN call.doc ELSE None]
<1>1. UNCHANGED kind
  BY AdapterFrame
<1>2. Places' = Places
  BY <1>1 DEF Places
<1>3. CASE \A b \in Backends, f \in Files :
             kind[b] \in Atomic => disk'[b].files[f] = disk[b].files[f]
  <2>1. \A x \in Places : x[1] \in Backends /\ kind[x[1]] \in Atomic /\ x[2] \in Files
    BY DEF Places
  <2>2. \A x \in Places : disk'[x[1]].files[x[2]] = disk[x[1]].files[x[2]]
    BY <1>3, <2>1
  <2>. QED BY <1>2, <2>2 DEF Stored
<1>4. ASSUME NEW b \in Backends, NEW f \in Files, kind[b] \in Atomic,
             disk'[b].files[f] # disk[b].files[f]
      PROVE  /\ kind[call.on] \in Atomic /\ call.op \in {"save", "delete"}
             /\ <<call.on, call.file>> \in Places
             /\ Stored' = [Stored EXCEPT ![<<call.on, call.file>>] =
                             IF call.op = "save" THEN call.doc ELSE None]
  <2>1. /\ b = call.on /\ f = Step.on /\ call.todo # <<>> /\ Step.do \in Changing
        /\ disk'[b].files[f] \in Written(Step.do, call.doc, disk[b].files[f])
        /\ Legal(kind[b], call.op, call.file, Step)
        /\ \/ f = call.file /\ call.op = "save"
           \/ f = call.file /\ call.op = "delete" /\ f = "chunk"
           \/ kind[b] = "backblaze" /\ f = "repository"
    BY <1>4, ChangedFile
  <2>2. kind[b] \in {"dropbox", "googlecloud", "amazons3", "s3"}
    BY <1>4 DEF Atomic
  <2>3. f = call.file /\ call.op \in {"save", "delete"}
    BY <2>1, <2>2
  <2>4. \/ call.op = "save" /\ Step.do \in {"write", "put"}
        \/ call.op = "delete" /\ Step.do \in {"drop", "remove"}
    BY <2>1, <2>2, <2>3 DEF Legal, Changing
  <2>5. Running /\ AdapterStep
    BY AdapterFrame, AdapterOutcome
  <2>6. call.op = "save" => call.doc \in Documents
    BY <2>5, AtAStep, SavedDocument DEF Running
  <2>. DEFINE new == IF call.op = "save" THEN call.doc ELSE None
  <2>7. Document(disk'[b].files[f]) = new
    <3>1. CASE call.op = "save" /\ Step.do \in {"write", "put"}
      <4>1. disk'[b].files[f] = Whole(call.doc)
        BY <2>1, <3>1 DEF Written
      <4>. QED BY <2>6, <3>1, <4>1, TheDocument
    <3>2. CASE call.op = "delete" /\ Step.do \in {"drop", "remove"}
      <4>1. disk'[b].files[f] = None
        BY <2>1, <3>2 DEF Written
      <4>. QED BY <3>2, <4>1, TheDocument
    <3>. QED BY <2>4, <3>1, <3>2
  <2>8. \A c \in Backends, g \in Files :
          <<c, g>> # <<b, f>> => disk'[c].files[g] = disk[c].files[g]
    <3>1. ASSUME NEW c \in Backends, NEW g \in Files, disk'[c].files[g] # disk[c].files[g]
          PROVE  c = call.on /\ g = Step.on
      BY <3>1, ChangedFile
    <3>. QED BY <2>1, <3>1
  <2>9. <<b, f>> \in Places
    BY <1>4 DEF Places
  <2>. HIDE DEF new
  <2>10. ASSUME NEW x \in Places
         PROVE  Document(disk'[x[1]].files[x[2]]) =
                  IF x = <<b, f>> THEN new ELSE Document(disk[x[1]].files[x[2]])
    <3>1. x = <<x[1], x[2]>> /\ x[1] \in Backends /\ x[2] \in Files
      BY DEF Places
    <3>2. CASE x = <<b, f>>
      BY <2>7, <3>2
    <3>3. CASE x # <<b, f>>
      BY <2>8, <3>1, <3>3
    <3>. QED BY <3>2, <3>3
  <2>11. Stored' = [Stored EXCEPT ![<<b, f>>] = new]
    <3>1. Stored' = [x \in Places |-> IF x = <<b, f>> THEN new ELSE Document(disk[x[1]].files[x[2]])]
      BY <1>2, <2>10 DEF Stored
    <3>. QED BY <2>9, <3>1 DEF Stored
  <2>. QED BY <1>4, <2>1, <2>3, <2>9, <2>11 DEF new
<1>. QED BY <1>3, <1>4

\* A step of an adapter is a step of the store.
LEMMA AdapterImplements ==
  ASSUME IInv, IInv', Adapter
  PROVE  AbstractStore!Next
<1>1. /\ Types /\ WorkInv /\ CallInv /\ AchievedInv /\ AdapterStep /\ UNCHANGED kind
  BY AdapterFrame DEF IInv
<1>2. /\ Running /\ SameRequest /\ (Advances \/ EndsOk \/ EndsBadly)
      /\ call'.on = call.on /\ call'.op = call.op /\ call'.file = call.file /\ call'.doc = call.doc
  BY <1>1, AdapterOutcome DEF SameRequest
<1>3. \/ Stored' = Stored
      \/ /\ kind[call.on] \in Atomic /\ call.op \in {"save", "delete"}
         /\ <<call.on, call.file>> \in Places
         /\ Stored' = [Stored EXCEPT ![<<call.on, call.file>>] =
                         IF call.op = "save" THEN call.doc ELSE None]
  BY <1>1, StoredChanges
<1>. DEFINE Asks == Request'.state \in {"none", "running"} /\ Stored' = Stored
            Performs == /\ Request.state = "running" /\ Request'.state = "running"
                        /\ Request.op \in {"save", "delete"}
                        /\ Stored' = [Stored EXCEPT ![Request.at] =
                                        IF Request.op = "save" THEN Request.doc ELSE None]
            Fails == /\ Request.state = "running" /\ Request'.state \in {"failed", "exists"}
                     /\ \/ Stored' = Stored
                        \/ Request.op = "save" /\ Stored' = [Stored EXCEPT ![Request.at] = Request.doc]
                        \/ Request.op = "delete" /\ Stored' = [Stored EXCEPT ![Request.at] = None]
            Succeeds == /\ Request.state = "running" /\ Request'.state = "ok"
                        /\ Request.op = "save"   => Stored[Request.at] = Request.doc
                        /\ Request.op = "delete" => Stored[Request.at] = None
                        /\ Request.op = "load"   => Stored[Request.at] = Request.doc
                        /\ Stored' = Stored
<1>4. CASE kind[call.on] \notin Atomic
  <2>1. kind'[call'.on] \notin Atomic
    BY <1>1, <1>2, <1>4
  <2>2. Request'.state = "none"
    BY <2>1 DEF Request
  <2>. QED BY <1>3, <1>4, <2>2 DEF AbstractStore!Next, AbstractStore!Ask, Stored, Places
<1>5. ASSUME kind[call.on] \in Atomic PROVE Asks \/ Performs \/ Fails \/ Succeeds
  <2>1. /\ Request.state = "running" /\ Request.op = call.op /\ Request.at = <<call.on, call.file>>
        /\ Request.doc = IF call.op = "load" THEN Document(call.answer) ELSE call.doc
    BY <1>2, <1>5 DEF Request, Running
  <2>2. call'.state \notin {"none", "fatal"} => Request'.state = call'.state
    BY <1>1, <1>2, <1>5 DEF Request
  <2>3. /\ kind[call.on] \in {"dropbox", "googlecloud", "amazons3", "s3"}
    BY <1>5 DEF Atomic
  <2>4. call.todo # <<>> => Legal(kind[call.on], call.op, call.file, Step)
    BY <1>1, <1>2, AtAStep
  <2>5. ASSUME Advances PROVE Asks \/ Performs
    <3>1. Request'.state = "running"
      BY <2>2, <2>5 DEF Advances
    <3>2. CASE Stored' = Stored
      BY <3>1, <3>2
    <3>3. CASE Stored' # Stored
      BY <1>3, <2>1, <3>1, <3>3
    <3>. QED BY <3>2, <3>3
  <2>6. ASSUME EndsBadly PROVE Fails
    <3>1. call'.state # "fatal"
      BY <2>3, <2>4, <2>6 DEF EndsBadly, Legal
    <3>2. Request'.state \in {"failed", "exists"}
      BY <2>2, <2>6, <3>1 DEF EndsBadly
    <3>3. \/ Stored' = Stored
          \/ call.op = "save" /\ Stored' = [Stored EXCEPT ![<<call.on, call.file>>] = call.doc]
          \/ call.op = "delete" /\ Stored' = [Stored EXCEPT ![<<call.on, call.file>>] = None]
      BY <1>3
    <3>. QED BY <2>1, <3>2, <3>3
  <2>7. ASSUME EndsOk PROVE Succeeds
    <3>1. call'.state = "ok" /\ call'.answer = call.answer /\ UNCHANGED disk
      BY <2>3, <2>4, <2>7 DEF EndsOk, Legal
    <3>2. Request'.state = "ok"
      BY <2>2, <3>1
    <3>3. Stored' = Stored
      BY <1>1, <3>1 DEF Stored, Places
    <3>4. Achieved'
      BY <3>1 DEF IInv, AchievedInv
    <3>5. /\ call.op = "save" => disk[call.on].files[call.file] = Whole(call.doc)
          /\ call.op = "delete" => disk[call.on].files[call.file] = None
          /\ call.op = "load" => call.answer = disk[call.on].files[call.file]
      <4>1. /\ kind'[call'.on] # "http"
            /\ ~(kind'[call'.on] = "azurefile" /\ call'.file = "chunk")
        BY <1>1, <1>2, <2>3
      <4>. QED BY <1>2, <3>1, <3>4, <4>1 DEF Achieved
    <3>6. /\ call.op \in {"save", "load", "delete"} => <<call.on, call.file>> \in Places
          /\ call.op = "save" => call.doc \in Documents
      <4>1. /\ call.on \in Backends /\ (call.op = "delete" => call.file = "chunk")
            /\ call.op \in {"load", "save"} => call.file \in Files
            /\ cmd.work # <<>>
        BY <1>1, <1>2, AtAStep
      <4>2. call.op = "save" => call.doc \in Documents
        BY <1>1, <1>2, <4>1, SavedDocument DEF Running
      <4>. QED BY <1>5, <4>1, <4>2 DEF Places, Files
    <3>7. call.op \in {"save", "load", "delete"} =>
            Stored[<<call.on, call.file>>] = Document(disk[call.on].files[call.file])
      BY <3>6 DEF Stored
    <3>8. /\ call.op = "save" => Stored[<<call.on, call.file>>] = call.doc
          /\ call.op = "delete" => Stored[<<call.on, call.file>>] = None
          /\ call.op = "load" => Stored[<<call.on, call.file>>] = Document(call.answer)
      BY <3>5, <3>6, <3>7, TheDocument
    <3>. QED BY <2>1, <3>2, <3>3, <3>8
  <2>. QED BY <1>2, <2>5, <2>6, <2>7
<1>6. Asks => AbstractStore!Next
  BY DEF AbstractStore!Next, AbstractStore!Ask, Stored, Places
<1>7. Performs => AbstractStore!Next
  BY DEF AbstractStore!Next, AbstractStore!Perform, Stored, Places
<1>8. Fails => AbstractStore!Next
  BY DEF AbstractStore!Next, AbstractStore!Fail, Stored, Places
<1>9. Succeeds => AbstractStore!Next
  BY DEF AbstractStore!Next, AbstractStore!Succeed, Stored, Places
<1>. HIDE DEF Asks, Performs, Fails, Succeeds
<1>. QED BY <1>4, <1>5, <1>6, <1>7, <1>8, <1>9

\* Every other step asks for something, or is one that the store does not see.
LEMMA OthersImplement ==
  ASSUME IInv, [Next]_vars, ~Adapter
  PROVE  AbstractStore!Next \/ UNCHANGED AbstractStore!storeVars
<1>1. UNCHANGED <<disk, kind>>
  BY OnlyAdaptersChange
<1>2. Stored' = Stored
  BY <1>1 DEF Stored, Places
<1>3. call' = call \/ call'.state \in {"none", "running"}
  <2>1. NoCall.state = "none"
    BY DEF NoCall
  <2>2. Start => call'.state = "running"
    BY DEF Start, StartCall
  <2>3. GiveUp => call' = NoCall
    BY DEF GiveUp
  <2>. QED BY <2>1, <2>2, <2>3 DEF Next, vars, Command, RepoInit, OpenRepository, Begin, Decode,
         ChangePassword, RepoAdd, Store, StoreRefused, RepoPack, Restore, Work, Succeeded, Failed,
         Refused, Finished, Die
<1>4. CASE call' = call
  <2>1. Request' = Request
    BY <1>1, <1>4 DEF Request
  <2>. QED BY <1>2, <2>1 DEF AbstractStore!storeVars, Stored, Places
<1>5. CASE call'.state \in {"none", "running"}
  <2>1. Request'.state \in {"none", "running"}
    BY <1>5 DEF Request
  <2>. QED BY <1>2, <2>1 DEF AbstractStore!Next, AbstractStore!Ask, Stored, Places
<1>. QED BY <1>3, <1>4, <1>5

\* Behind the adapters of Dropbox, Google Cloud and the two of S3 there is a
\* store of files that are replaced and deleted at one instant, by a request for
\* them, with an answer that tells the truth.
THEOREM Implementation == Spec => ImplementsFileStore
<1>1. Init => AbstractStore!Init
  <2>1. SUFFICES ASSUME Init PROVE AbstractStore!Init
    OBVIOUS
  <2>2. Types
    BY <2>1, InitIsSafe DEF IInv
  <2>3. Request.state = "none"
    BY <2>1 DEF Init, NoCall, Request
  <2>4. \A x \in Places : Stored[x] \in Documents \cup {None}
    <3>1. \A x \in Places : x[1] \in Backends /\ x[2] \in Files
      BY DEF Places
    <3>2. \A x \in Places : disk[x[1]].files[x[2]] \in Contents
      BY <2>2, <3>1 DEF Types, DiskType
    <3>. QED BY <3>2, TheDocument DEF Stored
  <2>5. DOMAIN Stored = Places
    BY DEF Stored
  <2>6. \A x \in DOMAIN Stored : Stored[x] \in Documents \cup {None}
    BY <2>4, <2>5
  <2>. QED BY <2>3, <2>6 DEF AbstractStore!Init, Stored, Places
<1>2. IInv /\ IInv' /\ [Next]_vars => [AbstractStore!Next]_(AbstractStore!storeVars)
  BY AdapterImplements, OthersImplement
<1>. QED BY <1>1, <1>2, Invariant, PTL DEF Spec, ImplementsFileStore, AbstractStore!Spec
=============================================================================
