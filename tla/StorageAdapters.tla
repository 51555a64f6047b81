--------------------------- MODULE StorageAdapters ---------------------------
(***************************************************************************)
(* The storage backends of knoxite: what each operation of the interface   *)
(* Backend asks of the local disk or of a remote service.                  *)
(*                                                                         *)
(* An operation is a sequence of steps, each of them one call to the disk, *)
(* the service or the HTTP server; between two steps the process may die,  *)
(* and every step may fail, with its effect or without.                    *)
(*                                                                         *)
(* Documents (what is put in a file) are abstract; what matters is whether *)
(* a file holds the whole of one, and how long it is.                      *)
(***************************************************************************)
EXTENDS Naturals, Sequences

CONSTANTS
  Backends,  \* storage backends
  Documents, \* what files may hold
  Size(_),   \* the length of a document, at least 1
  None       \* no file, no document

VARIABLES
  kind,      \* backend -> the adapter that serves it
  given,     \* backend -> the credentials in its URL or in the environment
  disk,      \* backend -> its files and directories (or buckets)
  call       \* the operation that runs, or the outcome of the last one

adapterVars == <<kind, given, disk, call>>

-----------------------------------------------------------------------------
Files == {"repository", "index", "snapshot", "chunk"}

\* Directories that adapters make, or the buckets of s3.
Directories == {"chunks", "snapshots", "repositories"}

DirOf(f) == CASE f \in {"chunk", "index"} -> "chunks"
              [] f = "snapshot"           -> "snapshots"
              [] f = "repository"         -> "repositories"

Whole(d) == [doc |-> d, intact |-> TRUE, size |-> Size(d)]

\* Cut off at the beginning, or of full length and not written yet.
Torn(d)  == [doc |-> d, intact |-> FALSE, size |-> 0]
Blank(d) == [doc |-> d, intact |-> FALSE, size |-> Size(d)]

\* Written over another file without cutting that off first.
Overlaid(old, d) ==
  IF old # None /\ old.size > Size(d)
    THEN [doc |-> d, intact |-> FALSE, size |-> old.size]
    ELSE Whole(d)

Contents == [doc : Documents \cup {None}, intact : BOOLEAN, size : Nat] \cup {None}

-----------------------------------------------------------------------------
(* Steps.                                                                  *)

Do(what, on) == [do |-> what, on |-> on]

Steps(whats, on) == [i \in DOMAIN whats |-> Do(whats[i], on)]

-----------------------------------------------------------------------------
(* The adapters that serve StorageFilesystem with five operations on files:*)
(* what connecting needs, whether there are directories, how a file is     *)
(* written, and whether one may be removed that is not there.              *)

StorageLocal ==
  [mkdir |-> <<"mkdir">>, write |-> <<"inDir", "truncate", "write">>, remove |-> "remove"]

\* CreatePath ignores the errors of MakeDir.
FTPStorage ==
  [mkdir |-> <<"tryMkdir">>, write |-> <<"inDir", "truncate", "write">>, remove |-> "remove"]

SFTPStorage ==
  [mkdir |-> <<"mkdir">>, write |-> <<"inDir", "truncate", "write">>, remove |-> "remove"]

WebDAVStorage ==
  [mkdir |-> <<"mkdir">>, write |-> <<"truncate", "write">>, remove |-> "drop"]

DropboxStorage ==
  [mkdir |-> <<"mkdir">>, write |-> <<"put">>, remove |-> "remove"]

\* "if the file exists it needs to be deleted before re-uploading"
MegaStorage ==
  [mkdir |-> <<"mkdir">>, write |-> <<"drop", "inDir", "put">>, remove |-> "remove"]

\* Wrong variant: an existing object is deleted before it is written.
GoogleCloudDeletesFirst ==
  [mkdir |-> <<>>, write |-> <<"drop", "put">>, remove |-> "remove"]

\* Objects have no directories; the object is there when the writer is closed.
GoogleCloudStorage ==
  [mkdir |-> <<>>, write |-> <<"put">>, remove |-> "remove"]

\* The file is made with its full length, and then filled.
AzureFileStorage ==
  [mkdir |-> <<"mkdir">>, write |-> <<"inDir", "allocate", "write">>, remove |-> "remove"]

AmazonS3StorageBackend ==
  [mkdir |-> <<>>, write |-> <<"put">>, remove |-> "drop"]

Filesystems ==
  [local |-> StorageLocal, ftp |-> FTPStorage, sftp |-> SFTPStorage,
   webdav |-> WebDAVStorage, dropbox |-> DropboxStorage, mega |-> MegaStorage,
   googlecloud |-> GoogleCloudStorage, azurefile |-> AzureFileStorage,
   amazons3 |-> AmazonS3StorageBackend]

-----------------------------------------------------------------------------
(* StorageFilesystem.                                                      *)

CreatePath(fs, d) == Steps(fs.mkdir, d)

WriteFile(fs, f) ==
  [i \in DOMAIN fs.write |->
     Do(fs.write[i], IF fs.write[i] = "inDir" THEN DirOf(f) ELSE f)]

\* Wrong variant: a file is taken for the chunk whatever its length.
StoreChunkIfAbsent(fs) ==
  <<Do("skipIfThere", "chunk")>> \o CreatePath(fs, "chunks") \o WriteFile(fs, "chunk")

StoreChunk(fs) ==
  <<Do("skipIfSame", "chunk")>> \o CreatePath(fs, "chunks") \o WriteFile(fs, "chunk")

\* Wrong variant: the repository file is not looked for.
InitDirectories(fs) ==
  Steps(<<"absent">>, "chunks") \o CreatePath(fs, "chunks")
    \o Steps(<<"absent">>, "snapshots") \o CreatePath(fs, "snapshots")

InitRepository(fs) ==
  <<Do("absent", "repository")>>
    \o Steps(<<"absent">>, "chunks") \o CreatePath(fs, "chunks")
    \o Steps(<<"absent">>, "snapshots") \o CreatePath(fs, "snapshots")

FilesystemProgram(fs, op, f) ==
  CASE op = "init"                -> InitRepository(fs)
    [] op = "load"                -> <<Do("read", f)>>
    [] op = "save" /\ f = "chunk" -> StoreChunk(fs)
    [] op = "save" /\ f # "chunk" -> WriteFile(fs, f)
    [] op = "delete"              -> <<Do(fs.remove, f)>>

-----------------------------------------------------------------------------
(* The adapters that serve the interface Backend by themselves.            *)

\* Three buckets, each of which must not be there before.
S3InitRepository ==
  <<Do("new", "chunks"), Do("mkdir", "chunks"),
    Do("new", "snapshots"), Do("mkdir", "snapshots"),
    Do("new", "repositories"), Do("mkdir", "repositories")>>

S3StoreChunk == <<Do("skipIfThere", "chunk"), Do("put", "chunk")>>

S3Program(op, f) ==
  CASE op = "init"                -> S3InitRepository
    [] op = "load"                -> <<Do("read", f)>>
    [] op = "save" /\ f = "chunk" -> S3StoreChunk
    [] op = "save" /\ f # "chunk" -> <<Do("put", f)>>
    [] op = "delete"              -> <<Do("drop", f)>>

\* Whatever is uploaded, it is the repository file that is deleted before.
Upload(what, f) == <<Do("drop", "repository"), Do(what, f)>>

BackblazeProgram(op, f) ==
  CASE op = "init"                -> Upload("placeholder", "repository")
    [] op = "load"                -> <<Do("read", f)>>
    [] op = "save" /\ f = "chunk" -> <<Do("skipIfSame", f)>> \o Upload("put", f)
    [] op = "save" /\ f # "chunk" -> Upload("put", f)
    [] op = "delete"              -> <<Do("remove", f)>>

\* The handlers of the HTTP server that store a file: the status 200 is on its
\* way before the file is opened, and it is opened without O_TRUNC.
ServerWrites(f) == <<Do("inDirOrNothing", DirOf(f)), Do("overlay", f)>>

authPath(f) == <<Do("authorise", f)>>

upload         == authPath("chunk") \o ServerWrites("chunk")
uploadRepo     == authPath("repository") \o ServerWrites("repository")
uploadSnapshot == authPath("snapshot") \o ServerWrites("snapshot")

\* Loading a chunk, the client looks at the status of the answer.
download == authPath("chunk") \o <<Do("read", "chunk")>>

\* Loading anything else it does not: an error page is as good as a file.
downloadRepo     == <<Do("fetch", "repository")>>
downloadSnapshot == <<Do("fetch", "snapshot")>>

\* There is no handler for the chunk-index.
LoadChunkIndex == <<Do("fetch", "index")>>
SaveChunkIndex == <<Do("refuse", "index")>>

HTTPLoad(f) ==
  CASE f = "chunk"      -> download
    [] f = "snapshot"   -> downloadSnapshot
    [] f = "index"      -> LoadChunkIndex
    [] f = "repository" -> downloadRepo

HTTPSave(f) ==
  CASE f = "chunk"      -> upload
    [] f = "snapshot"   -> uploadSnapshot
    [] f = "index"      -> SaveChunkIndex
    [] f = "repository" -> uploadRepo

\* InitRepository does nothing, and DeleteChunk is to be written yet.
HTTPProgram(op, f) ==
  CASE op = "init"   -> <<>>
    [] op = "load"   -> HTTPLoad(f)
    [] op = "save"   -> HTTPSave(f)
    [] op = "delete" -> <<Do("refuse", f)>>

\* Nothing is implemented.
GoogleDriveProgram(op, f) == <<Do("refuse", f)>>

-----------------------------------------------------------------------------
(* NewBackend: the credentials that must be given, and who must answer.    *)

StorageLocalConnect == <<>>
FTPConnect          == <<Do("dial", "server")>>
SFTPConnect         == <<Do("dial", "server")>>
WebDAVConnect       == <<>>
DropboxConnect      == <<Do("need", "user")>>
MegaConnect         == <<Do("need", "user"), Do("need", "password"), Do("dial", "server")>>
GoogleCloudConnect  == <<Do("need", "user"), Do("dial", "server")>>
AzureConnect        == <<Do("need", "user"), Do("need", "password")>>
AmazonS3Connect     == <<>>
S3Connect           == <<Do("need", "user"), Do("need", "password")>>
BackblazeConnect    == <<Do("need", "user"), Do("need", "password"), Do("dial", "server")>>
HTTPConnect         == <<>>
GoogleDriveConnect  == <<Do("refuse", "server")>>

Connections ==
  [local |-> StorageLocalConnect, ftp |-> FTPConnect, sftp |-> SFTPConnect,
   webdav |-> WebDAVConnect, dropbox |-> DropboxConnect, mega |-> MegaConnect,
   googlecloud |-> GoogleCloudConnect, azurefile |-> AzureConnect,
   amazons3 |-> AmazonS3Connect, s3 |-> S3Connect, backblaze |-> BackblazeConnect,
   http |-> HTTPConnect, gdrive |-> GoogleDriveConnect]

Kinds == DOMAIN Connections

Program(k, op, f) ==
  CASE op = "connect"  -> Connections[k]
    [] k = "s3"        /\ op # "connect" -> S3Program(op, f)
    [] k = "backblaze" /\ op # "connect" -> BackblazeProgram(op, f)
    [] k = "http"      /\ op # "connect" -> HTTPProgram(op, f)
    [] k = "gdrive"    /\ op # "connect" -> GoogleDriveProgram(op, f)
    [] k \in DOMAIN Filesystems /\ op # "connect" -> FilesystemProgram(Filesystems[k], op, f)

-----------------------------------------------------------------------------
(* An operation: it starts, takes its steps, and ends with an outcome.     *)

NoCall == [state |-> "none", on |-> None, op |-> "none", file |-> "none",
           doc |-> None, todo |-> <<>>, answer |-> None]

\* The outcomes: "ok", "failed", "exists" (ErrRepositoryExists), "fatal" (the
\* adapter has ended the process).
StartCall(b, op, f, d) ==
  call' = [state |-> "running", on |-> b, op |-> op, file |-> f, doc |-> d,
           todo |-> Program(kind[b], op, f), answer |-> None]

Running == call.state = "running"

CallEnds(state) == call' = [call EXCEPT !.state = state, !.todo = <<>>]

GoOn == call' = [call EXCEPT !.todo = Tail(call.todo)]

Step == Head(call.todo)

AtStep(whats) == Running /\ call.todo # <<>> /\ Step.do \in whats

There(what) ==
  IF what \in Directories THEN what \in disk[call.on].dirs
                          ELSE disk[call.on].files[what] # None

\* The file of the step.
Old == disk[call.on].files[Step.on]

\* What the steps that change something leave behind.
Effect ==
  CASE Step.do \in {"truncate"}             -> Torn(call.doc)
    [] Step.do \in {"allocate"}             -> Blank(call.doc)
    [] Step.do \in {"write", "put"}         -> Whole(call.doc)
    [] Step.do \in {"placeholder"}          -> Torn(None)
    [] Step.do \in {"overlay"}              -> Overlaid(Old, call.doc)
    [] Step.do \in {"drop", "remove"}       -> None

Changing == {"truncate", "allocate", "write", "put", "placeholder", "overlay",
             "drop", "remove"}

TakesEffect ==
  disk' = IF Step.do \in {"mkdir", "tryMkdir"}
            THEN [disk EXCEPT ![call.on].dirs = disk[call.on].dirs \cup {Step.on}]
            ELSE [disk EXCEPT ![call.on].files[Step.on] = Effect]

-----------------------------------------------------------------------------
(* The steps.                                                              *)

\* A service that answers; credentials that are given.
Check ==
  /\ AtStep({"dial", "need", "authorise", "refuse"})
  /\ IF \/ Step.do \in {"dial"}
        \/ Step.do = "authorise" /\ "user" \in given[call.on]
        \/ Step.do = "need" /\ Step.on \in given[call.on]
       THEN GoOn
       ELSE CallEnds("failed")
  /\ UNCHANGED disk

\* A new repository is not made where there is one; a file is not written to
\* a directory that is not there, although the HTTP server says it is.
Look ==
  /\ AtStep({"absent", "new", "inDir", "inDirOrNothing"})
  /\ CASE Step.do \in {"absent", "new"} ->
            IF There(Step.on) THEN CallEnds("exists") ELSE GoOn
       [] Step.do = "inDir" ->
            IF There(Step.on) \/ Step.on = "repositories" THEN GoOn ELSE CallEnds("failed")
       [] Step.do = "inDirOrNothing" ->
            IF There(Step.on) \/ Step.on = "repositories" THEN GoOn ELSE CallEnds("ok")
  /\ UNCHANGED disk

\* The chunk is stored already: a file of its name, or of its name and length.
Skip ==
  /\ AtStep({"skipIfThere", "skipIfSame"})
  /\ IF Old # None /\ (Step.do = "skipIfSame" => Old.size = Size(call.doc))
       THEN CallEnds("ok")
       ELSE GoOn
  /\ UNCHANGED disk

Change ==
  /\ AtStep(Changing \cup {"mkdir", "tryMkdir"})
  /\ IF Step.do = "remove" /\ Old = None
       THEN CallEnds("failed") /\ UNCHANGED disk
       ELSE GoOn /\ TakesEffect

\* What the service answers to a request for a file; for "fetch" an error page
\* is as good as a file, be it for a missing file or for a missing name.
Served == Old # None /\ (Step.do = "fetch" => "user" \in given[call.on])

Answer ==
  /\ AtStep({"read", "fetch"})
  /\ IF Step.do = "read" /\ Old = None
       THEN CallEnds("failed")
       ELSE call' = [call EXCEPT !.todo = Tail(call.todo),
                                 !.answer = IF Served THEN Old ELSE Torn(None)]
  /\ UNCHANGED disk

\* A step that is a call to somebody else fails, before or after its effect.
\* Some failures go unnoticed: a Stat that fails means that there is nothing,
\* and what the HTTP server cannot write it has acknowledged already.
StepFails ==
  /\ Running /\ call.todo # <<>>
  /\ Step.do \notin {"need", "refuse"}
  /\ \/ UNCHANGED disk
     \/ Step.do \in Changing \cup {"mkdir", "tryMkdir"} /\ TakesEffect
     \/ /\ Step.do = "overlay"
        /\ disk' = [disk EXCEPT ![call.on].files[Step.on] = Torn(call.doc)]
  /\ CASE Step.do \in {"absent", "skipIfThere", "skipIfSame", "tryMkdir"} -> GoOn
       [] Step.do = "fetch"                         -> CallEnds("fatal")
       [] Step.do = "overlay"                       -> CallEnds("failed") \/ CallEnds("ok")
       [] OTHER                                     -> CallEnds("failed")

Succeed ==
  /\ Running /\ call.todo = <<>>
  /\ CallEnds("ok")
  /\ UNCHANGED disk

AdapterStep ==
  /\ Check \/ Look \/ Skip \/ Change \/ Answer \/ StepFails \/ Succeed
  /\ UNCHANGED <<kind, given>>
=============================================================================
