---------------------------- MODULE RepositoryFile ----------------------------
(***************************************************************************)
(* The repository file on the storage backends of a repository: making,    *)
(* opening and migrating a repository, changing its password, adding a     *)
(* backend, and the order in which the other commands touch the backends.  *)
(*                                                                         *)
(* One process runs one command after another.  A command is a list of     *)
(* operations on backends, each of which takes the steps of its adapter    *)
(* (StorageAdapters).                                                      *)
(***************************************************************************)
EXTENDS Naturals, Sequences, FiniteSets, SequencesExt

CONSTANTS
  Backends,   \* storage backends
  KindsOf,    \* backend -> adapters that may serve it
  Passwords,  \* what users type
  Retries,    \* how often the backend manager tries a call
  MaxSaves,   \* bound: how many versions of the repository are written
  None        \* no file, no document

\* The backends a repository file names, in the order in which they are asked:
\* each of them once, unless one that cannot tell is added again.
InitialPaths == {p \in SeqOf(Backends, Cardinality(Backends)) : IsInjective(p)}

\* The repository in memory and on storage.  The other files a command writes
\* are its own as well: they are told apart by the same number.
Documents == [id : 0 .. MaxSaves, password : Passwords \cup {None}, paths : Seq(Backends),
              version : {2, 3, 4}]

\* Documents differ in length.
Size(d) == 1 + (d.id % 2)

\* None is neither a document nor what a file may hold.
ASSUME RepositoryFileOK ==
  /\ Retries \in Nat \ {0}
  /\ MaxSaves \in Nat \ {0}
  /\ IsFiniteSet(Backends)
  /\ None \notin Documents
  /\ None \notin [doc : Documents \cup {None}, intact : BOOLEAN, size : Nat]

VARIABLES
  kind, given, disk, call, \* as in StorageAdapters
  cmd,       \* the command that runs, or the outcome of the last one
  newest,    \* the number of the version last written
  kept       \* backend, file -> the document that was acknowledged, or None

INSTANCE StorageAdapters

vars == <<kind, given, disk, call, cmd, newest, kept>>

-----------------------------------------------------------------------------
Operation(op, b, f) == [op |-> op, on |-> b, file |-> f]

OnAll(op, paths, f) == [i \in DOMAIN paths |-> Operation(op, paths[i], f)]

ConnectAll(paths) == OnAll("connect", paths, "none")

\* Wrong variant: the file goes to the first backend only.
SaveFirst(paths, f) ==
  IF paths = <<>> THEN <<>> ELSE <<Operation("save", Head(paths), f)>>

\* Repository.Save and its likes: the file goes to every backend.
SaveAll(paths, f) == OnAll("save", paths, f)

\* No command runs; if the last one has succeeded, repo is what it wrote.
Idle(name, repo) ==
  [name |-> name, state |-> "idle", work |-> <<>>, repo |-> repo, password |-> None,
   arg |-> None, try |-> 1, blind |-> FALSE]

NoCommand == Idle("none", None)

IsIdle == cmd.state = "idle"

Empty == [files |-> [f \in Files |-> None], dirs |-> {}]

\* A repository that was there before, on the backends it names.
OldRepository(p, paths, v) == [id |-> 1, password |-> p, paths |-> paths, version |-> v]

Holding(repo) == [files |-> [Empty.files EXCEPT !["repository"] = Whole(repo)],
                  dirs  |-> Directories]

\* The chunk: whoever stores it, it has the same content and name.
TheChunk == [id |-> 0, password |-> None, paths |-> <<>>, version |-> 4]

\* What the command writes to a file.
DocFor(f) == IF f = "chunk" THEN TheChunk ELSE cmd.repo

AsksForCredentials(k) ==
  k = "http" \/ \E i \in DOMAIN Connections[k] : Connections[k][i].do = "need"

\* Empty storages, or a repository of any version on some of them.
Init ==
  /\ kind \in [Backends -> Kinds] /\ \A b \in Backends : kind[b] \in KindsOf[b]
  /\ given \in [Backends -> {{}, {"user", "password"}}]
  /\ \A b \in Backends : given[b] = {} => AsksForCredentials(kind[b])
  /\ \/ disk = [b \in Backends |-> Empty] /\ newest = 0
     \/ \E p \in Passwords, paths \in InitialPaths \ {<<>>}, v \in {2, 3, 4} :
          disk = [b \in Backends |-> IF b \in Range(paths)
                                      THEN Holding(OldRepository(p, paths, v)) ELSE Empty]
          /\ newest = 1
  /\ call = NoCall
  /\ cmd = NoCommand
  /\ kept = [b \in Backends |-> [f \in Files |-> None]]

-----------------------------------------------------------------------------
(* Commands.                                                               *)

Begin(name, p, arg, repo, work) ==
  /\ IsIdle
  /\ call' = NoCall
  /\ cmd' = [name |-> name, state |-> "opening", work |-> work, repo |-> repo,
             password |-> p, arg |-> arg, try |-> 1, blind |-> FALSE]
  /\ UNCHANGED <<kind, given, disk, kept>>

\* executeRepoInit and NewRepository: no opening, but the backend is prepared
\* and the repository saved on it.
RepoInit(b, p) ==
  /\ IsIdle /\ newest < MaxSaves
  /\ newest' = newest + 1
  /\ call' = NoCall
  /\ cmd' = [NoCommand EXCEPT !.name = "init",
               !.state = "running",
               !.repo = [id |-> newest + 1, password |-> p, paths |-> <<b>>, version |-> 4],
               !.work = ConnectAll(<<b>>) \o <<Operation("init", b, "none")>>
                          \o SaveAll(<<b>>, "repository")]
  /\ UNCHANGED <<kind, given, disk, kept>>

\* All other commands open the repository on the backend they are given.
OpenRepository(name, b, p, arg) ==
  /\ Begin(name, p, arg, None,
           ConnectAll(<<b>>) \o <<Operation("load", b, "repository")>>)
  /\ UNCHANGED newest

\* ErrOpenRepositoryFailed, ErrRepositoryIncompatible, and any other error.
GiveUp ==
  /\ cmd' = NoCommand
  /\ call' = NoCall

\* Decoding fails with another password, and on anything but a whole file.
Decodes(answer) ==
  /\ answer.intact
  /\ answer.doc.password = cmd.password

\* Version 3 had no key of its own.  Migrate saves the repository before its
\* backends are known: on none of them, and the list of them is empty from
\* then on.
Migrated(repo) == [repo EXCEPT !.version = 4, !.paths = <<>>]

Decode ==
  /\ cmd.state = "opening" /\ cmd.work = <<>>
  /\ LET doc == call.answer.doc IN
     IF ~Decodes(call.answer) \/ doc.version < 3
       THEN GiveUp
       ELSE LET repo == IF doc.version = 3 THEN Migrated(doc) ELSE doc IN
            /\ cmd' = [cmd EXCEPT !.state = "opened", !.repo = repo,
                                  !.work = ConnectAll(repo.paths)]
            /\ call' = NoCall
  /\ UNCHANGED <<kind, given, disk, newest, kept>>

\* The repository is open, and all its backends are connected.
Opened(name) == cmd.name = name /\ cmd.state = "opened" /\ cmd.work = <<>>

\* What a command does then: it makes a new version, and writes.
Work(repo, work) ==
  /\ newest < MaxSaves
  /\ newest' = newest + 1
  /\ cmd' = [cmd EXCEPT !.state = "running", !.repo = repo, !.work = work]
  /\ call' = NoCall
  /\ UNCHANGED <<kind, given, disk, kept>>

NextVersion == [cmd.repo EXCEPT !.id = newest + 1]

\* executeRepoChangePassword.
ChangePassword ==
  /\ Opened("passwd")
  /\ Work([NextVersion EXCEPT !.password = cmd.arg], SaveAll(cmd.repo.paths, "repository"))

\* executeRepoAdd: the new backend is prepared and gets the repository file;
\* the chunk-index and the snapshots stay where they are.
RepoAdd ==
  LET paths == Append(cmd.repo.paths, cmd.arg) IN
  /\ Opened("add")
  /\ Work([NextVersion EXCEPT !.paths = paths],
          ConnectAll(<<cmd.arg>>) \o <<Operation("init", cmd.arg, "none")>>
            \o SaveAll(paths, "repository"))

\* executeStore: a chunk on one of the backends, then the three files of the
\* repository on all.  The snapshot has an id of its own: there is no file of
\* that name, and as there is one id there is one store.  That OpenChunkIndex
\* loads the chunk-index first, and saves it if it had to be made anew, is left
\* out here and in RepoPack; KnoxiteRepository has it.
Store ==
  /\ Opened("store")
  /\ \A b \in Backends : disk[b].files["snapshot"] = None
  /\ \E b \in Range(cmd.repo.paths) :
       Work(NextVersion,
            <<Operation("save", b, "chunk")>> \o SaveAll(cmd.repo.paths, "snapshot")
              \o SaveAll(cmd.repo.paths, "index") \o SaveAll(cmd.repo.paths, "repository"))

\* store wants more backends than --tolerance asks to do without: with none it
\* returns ErrRedundancyAmount.
StoreRefused ==
  /\ Opened("store")
  /\ cmd.repo.paths = <<>>
  /\ GiveUp
  /\ UNCHANGED <<kind, given, disk, newest, kept>>

\* executeRepoPack: a chunk that is not used any more, and the chunk-index.
RepoPack ==
  /\ Opened("pack")
  /\ Work(NextVersion, OnAll("delete", cmd.repo.paths, "chunk")
                         \o SaveAll(cmd.repo.paths, "index"))

\* Loading a snapshot.
Restore ==
  /\ Opened("restore")
  /\ cmd' = [cmd EXCEPT !.state = "running",
                        !.work = OnAll("load", cmd.repo.paths, "snapshot")]
  /\ call' = NoCall
  /\ UNCHANGED <<kind, given, disk, newest, kept>>

-----------------------------------------------------------------------------
(* The operations of a command, one after the other.                       *)

Due == Head(cmd.work)

\* Wrong variant: one try more than there are retries.
TriesOffByOne(o) ==
  IF cmd.state = "opening" \/ o.op \in {"connect", "init"} THEN 1 ELSE Retries + 1

\* The manager's loops try a call several times; the calls that are not made
\* through it, once.
Tries(o) ==
  IF cmd.state = "opening" \/ o.op \in {"connect", "init"} THEN 1 ELSE Retries

\* A file or chunk is loaded or deleted where it is found first.
UntilFirst(o) == cmd.state = "running" /\ o.op \in {"load", "delete"}

\* The others come right after the first.
Alternatives(o) == {i \in DOMAIN cmd.work : cmd.work[i].op = o.op}

WithoutAlternatives(o) ==
  SubSeq(cmd.work, Cardinality(Alternatives(o)) + 1, Len(cmd.work))

\* What is acknowledged of a file is void from the moment it is written again.
Start ==
  /\ cmd.state # "idle" /\ cmd.work # <<>> /\ call.state = "none"
  /\ StartCall(Due.on, Due.op, Due.file, DocFor(Due.file))
  /\ kept' = IF Due.op \in {"save", "delete"}
               THEN [kept EXCEPT ![Due.on][Due.file] = None]
               ELSE kept
  /\ UNCHANGED <<kind, given, disk, cmd, newest>>

Adapter ==
  /\ AdapterStep
  /\ cmd' = IF Running /\ call.todo # <<>> /\ Step.do = "absent"
               /\ call'.state = "running" /\ There(Step.on)
              THEN [cmd EXCEPT !.blind = TRUE] ELSE cmd
  /\ UNCHANGED <<newest, kept>>

\* An operation has succeeded.
Succeeded ==
  /\ call.state = "ok" /\ cmd.work # <<>>
  /\ cmd' = [cmd EXCEPT
       !.try = 1,
       !.work = IF UntilFirst(Due) THEN WithoutAlternatives(Due) ELSE Tail(cmd.work)]
  /\ kept' = IF Due.op = "save" THEN [kept EXCEPT ![call.on][call.file] = call.doc] ELSE kept
  /\ call' = IF cmd.state = "opening" /\ Due.op = "load" THEN call ELSE NoCall
  /\ UNCHANGED <<kind, given, disk, newest>>

\* It has failed: it is tried again, another backend is asked, or the command
\* ends; only store goes on without a chunk it could not store.
Failed ==
  /\ call.state = "failed"
  /\ IF cmd.try < Tries(Due)
       THEN cmd' = [cmd EXCEPT !.try = cmd.try + 1] /\ call' = NoCall
       ELSE IF \/ UntilFirst(Due) /\ Cardinality(Alternatives(Due)) > 1
               \/ Due.op = "save" /\ Due.file = "chunk"
              THEN /\ cmd' = [cmd EXCEPT !.try = 1, !.work = Tail(cmd.work)]
                   /\ call' = NoCall
              ELSE GiveUp
  /\ UNCHANGED <<kind, given, disk, newest, kept>>

\* ErrRepositoryExists.
Refused ==
  /\ call.state = "exists"
  /\ GiveUp
  /\ UNCHANGED <<kind, given, disk, newest, kept>>

Finished ==
  /\ cmd.state = "running" /\ cmd.work = <<>>
  /\ cmd' = Idle(cmd.name, cmd.repo)
  /\ call' = NoCall
  /\ UNCHANGED <<kind, given, disk, newest, kept>>

\* The process ends: a signal, a crash, or log.Fatal in the HTTP client.
Die ==
  /\ ~IsIdle
  /\ GiveUp
  /\ UNCHANGED <<kind, given, disk, newest, kept>>

-----------------------------------------------------------------------------
Command ==
  \E b \in Backends, p \in Passwords :
    \/ RepoInit(b, p)
    \/ OpenRepository("store", b, p, None)
    \/ OpenRepository("pack", b, p, None)
    \/ OpenRepository("restore", b, p, None)
    \/ \E q \in Passwords \ {p} : OpenRepository("passwd", b, p, q)
    \/ \E c \in Backends \ {b} : OpenRepository("add", b, p, c)

Next ==
  \/ Command
  \/ Decode \/ ChangePassword \/ RepoAdd \/ Store \/ StoreRefused \/ RepoPack \/ Restore
  \/ Start \/ Adapter \/ Succeeded \/ Failed \/ Refused \/ Finished \/ Die

Spec == Init /\ [][Next]_vars

-----------------------------------------------------------------------------
(* Properties.                                                             *)

\* Type invariant.
TypeOK ==
  /\ kind \in [Backends -> Kinds]
  /\ given \in [Backends -> SUBSET {"user", "password"}]
  /\ \A b \in Backends : /\ disk[b].dirs \subseteq Directories
                         /\ \A f \in Files : disk[b].files[f] \in Contents
  /\ call.state \in {"none", "running", "ok", "failed", "exists", "fatal"}
  /\ cmd.state \in {"idle", "opening", "opened", "running"}
  /\ cmd.try \in 1 .. Retries
  /\ newest \in 0 .. MaxSaves
  /\ kept \in [Backends -> [Files -> Documents \cup {None}]]

\* Adapters whose answers cannot be trusted for a file: the HTTP server
\* acknowledges what it has not written and mixes documents; an upload to
\* Backblaze deletes the repository file; a chunk that was cut off on Azure has
\* its full length and is not written again.
Untrusted(k, f) ==
  \/ k = "http"
  \/ k = "backblaze" /\ f = "repository"
  \/ k = "azurefile" /\ f = "chunk"

\* What a backend has acknowledged it keeps: whatever is done to other files,
\* however calls fail and processes die, the file holds the whole document
\* until somebody writes or deletes it again.
AcknowledgedIsKept ==
  \A b \in Backends, f \in Files :
    kept[b][f] # None /\ ~Untrusted(kind[b], f) => disk[b].files[f] = Whole(kept[b][f])

\* A file that can be opened by somebody who knows the password.
Holds(b, repo) == disk[b].files["repository"] = Whole(repo)

\* A command that changes the repository and succeeds has saved it on every
\* backend the repository names.  Commands that have migrated an old repository
\* are left out: it names none from then on, and they save it nowhere.
SavedEverywhere ==
  IsIdle /\ cmd.name \in {"init", "passwd", "add", "store"} =>
    \/ cmd.repo.paths = <<>>
    \/ \A b \in Range(cmd.repo.paths) : kind[b] = "http" \/ Holds(b, cmd.repo)

\* "repository seems to already exist": making a repository on a backend, or
\* adding the backend to one, leaves the repository that is there alone.  The
\* HTTP server and Backblaze are not asked for one; and no adapter of the kind
\* of StorageFilesystem finds it when its Stat fails.
InitKeepsRepositories ==
  [][\A b \in Backends :
       LET file == disk[b].files["repository"] IN
       /\ cmd.name = "init" \/ (cmd.name = "add" /\ b = cmd.arg)
       /\ ~cmd.blind
       /\ kind[b] \notin {"http", "backblaze"}
       /\ file # None /\ file.intact /\ file.doc # cmd.repo
       => disk'[b].files["repository"] = file]_vars

\* An upload "deletes existing versions of a file, before reuploading" it, and
\* leaves the other files alone (BackblazeStorage.upload): what the backend has
\* acknowledged of them stays there.
UploadKeepsOtherFiles ==
  [][\A b \in Backends, f \in Files :
       /\ Running /\ call.op = "save" /\ <<call.on, call.file>> # <<b, f>>
       /\ kept[b][f] # None
       => disk'[b].files[f] = disk[b].files[f]]_vars

-----------------------------------------------------------------------------
(* The abstract specification.                                             *)

\* Adapters whose writes replace a file at one instant.
Atomic == {"dropbox", "googlecloud", "amazons3", "s3"}

Document(content) == IF content = None THEN None ELSE content.doc

Request ==
  IF call.state \in {"none", "fatal"} \/ kind[call.on] \notin Atomic
    THEN [state |-> "none", op |-> "none", at |-> None, doc |-> None]
    ELSE [state |-> call.state, op |-> call.op, at |-> <<call.on, call.file>>,
          doc |-> IF call.op = "load" THEN Document(call.answer) ELSE call.doc]

AbstractStore == INSTANCE FileStore WITH
  stored  <- [x \in {b \in Backends : kind[b] \in Atomic} \X Files |->
                Document(disk[x[1]].files[x[2]])],
  request <- Request

\* Behind these adapters there is a store of files as the rest of knoxite
\* imagines it.
ImplementsFileStore == AbstractStore!Spec
=============================================================================
