-------------------------------- MODULE Adding --------------------------------
(***************************************************************************)
(* The store loop of the commands store and clone: a goroutine walks the   *)
(* targets and collects what it finds in batches, goroutines deliver the   *)
(* batches, another goroutine (Snapshot.Add) turns what arrives into       *)
(* archives of the snapshot and reports its progress, and the main         *)
(* goroutine (store) listens to that, may give up, and saves the snapshot. *)
(*                                                                         *)
(* All channels are unbuffered.  How one file becomes chunks is the        *)
(* specification ChunkStream, which ChunkPipeline implements.              *)
(***************************************************************************)
EXTENDS Naturals, Sequences, FiniteSets, SequencesExt, FiniteSetsExt

CONSTANTS
  Targets,   \* the targets, each a sequence of paths in the order of the walk
  TypeOf,    \* path -> "file", "dir", "link" or "other"
  Above,     \* path -> the directories on the way to it
  Excluded,  \* paths that match an exclude filter
  Special,   \* paths that are never stored, like the root
  NumChunks, \* chunks of a file
  BatchSize, \* how many results are delivered by one goroutine
  None       \* no path

ASSUME AddingOK ==
  /\ Targets \in Seq(Seq(DOMAIN TypeOf))
  /\ NumChunks \in Nat
  /\ BatchSize \in Nat \ {0}

VARIABLES
  scan,      \* the goroutine that walks: where it is, what it has collected
  senders,   \* the goroutines that deliver batches
  wg,        \* the counter of the WaitGroup they share
  adder,     \* Snapshot.Add: where it is, and the path it works on
  pending, consumer, archive, \* the chunks of that file, as in ChunkStream
  offer,     \* the progress that Snapshot.Add sends, or "none"
  snapshot,  \* path -> the chunks of its archive
  main,      \* store and its caller: where it is, and what it has been told
  signal,    \* whether a signal has been sent to the process
  found      \* paths that the walk has turned up, but for files that were gone
             \* when they were to be opened

scanVars  == <<scan, senders, wg, found>>
fileVars  == <<pending, consumer, archive>>
vars == <<scan, senders, wg, adder, pending, consumer, archive, offer, snapshot,
          main, signal, found>>

Stream == INSTANCE ChunkStream

-----------------------------------------------------------------------------
Paths == UNION {Range(Targets[i]) : i \in DOMAIN Targets}

Files == {p \in Paths : TypeOf[p] = "file"}

\* What the walk sends, and where it was then: no two results are the same.
Result(p, good) == [path |-> p, good |-> good, at |-> <<scan.target, scan.entry>>]

\* After an error a pedantic command stops.
Pedantic == main.pedantic

\* store looks at the options of the command store, whichever command it is.
StoreOptsPedantic == main.pedantic /\ main.command = "store"

NoFile(pedantic) == [pc |-> "end", chunk |-> 0, error |-> FALSE, pedantic |-> pedantic]

\* The repository is open, the snapshot is new (what a clone begins with is
\* left out), and the shutdown lock is released.
Init ==
  /\ scan = [pc |-> "walk", target |-> 1, entry |-> 1, passed |-> {}, batch |-> <<>>]
  /\ senders = {}
  /\ wg = 0
  /\ adder = [pc |-> "receive", path |-> None]
  /\ offer = "none"
  /\ snapshot = [p \in {} |-> {}]
  /\ \E command \in {"store", "clone"}, pedantic \in BOOLEAN :
       /\ main = [pc |-> "listen", command |-> command, pedantic |-> pedantic,
                  told |-> {}, silent |-> FALSE, saved |-> {}]
       /\ consumer = NoFile(pedantic)
  /\ pending = {}
  /\ archive = {}
  /\ signal = FALSE
  /\ found = {}

-----------------------------------------------------------------------------
(* The walk: findFiles, and the loop of gatherTargetInformation over what  *)
(* it finds.                                                               *)

Walking == scan.pc = "walk" /\ scan.target <= Len(Targets)

Entry == Targets[scan.target][scan.entry]

HasEntry == Walking /\ scan.entry <= Len(Targets[scan.target])

NextEntry == [scan EXCEPT !.entry = scan.entry + 1]

NextTarget == [scan EXCEPT !.target = scan.target + 1, !.entry = 1, !.passed = {}]

\* Directories that are excluded or gone are not entered.
Visible == Above[Entry] \cap scan.passed = {}

\* Not in the archive: what is below such a directory, what is excluded or
\* gone, symbolic links that cannot be read, devices and the like.
PassOver ==
  /\ HasEntry
  /\ scan' = [NextEntry EXCEPT !.passed =
                IF Visible THEN scan.passed \cup {Entry} ELSE scan.passed]
  /\ UNCHANGED <<senders, wg, adder, fileVars, offer, snapshot, main, signal, found>>

\* Wrong variant: a batch may be larger by one.
CollectOffByOne(result, next) ==
  LET batch == Append(scan.batch, result) IN
  /\ wg' = wg + 1
  /\ IF Len(batch) > BatchSize
       THEN /\ scan' = [next EXCEPT !.batch = <<>>]
            /\ senders' = senders \cup {[todo |-> batch, sent |-> FALSE]}
       ELSE /\ scan' = [next EXCEPT !.batch = batch]
            /\ UNCHANGED senders

\* A result is counted; a full batch is given to a goroutine.
Collect(result, next) ==
  LET batch == Append(scan.batch, result) IN
  /\ wg' = wg + 1
  /\ IF Len(batch) >= BatchSize
       THEN /\ scan' = [next EXCEPT !.batch = <<>>]
            /\ senders' = senders \cup {[todo |-> batch, sent |-> FALSE]}
       ELSE /\ scan' = [next EXCEPT !.batch = batch]
            /\ UNCHANGED senders

Find ==
  /\ HasEntry /\ Visible
  /\ Entry \notin Excluded /\ TypeOf[Entry] # "other"
  /\ IF Entry \in Special
       THEN scan' = NextEntry /\ UNCHANGED <<senders, wg, found>>
       ELSE /\ Collect(Result(Entry, TRUE), NextEntry)
            /\ found' = found \cup {Entry}
  /\ UNCHANGED <<adder, fileVars, offer, snapshot, main, signal>>

\* An entry that cannot be read ends the walk of its target; the error comes
\* without an archive.
FindFails ==
  /\ HasEntry /\ Visible
  /\ Collect(Result(None, FALSE), NextTarget)
  /\ UNCHANGED <<adder, fileVars, offer, snapshot, main, signal, found>>

EndTarget ==
  /\ Walking /\ ~HasEntry
  /\ scan' = NextTarget
  /\ UNCHANGED <<senders, wg, adder, fileVars, offer, snapshot, main, signal, found>>

\* The rest of the results.
EndWalk ==
  /\ scan.pc = "walk" /\ ~Walking
  /\ scan' = [scan EXCEPT !.pc = "wait", !.batch = <<>>]
  /\ senders' = IF scan.batch = <<>> THEN senders
                  ELSE senders \cup {[todo |-> scan.batch, sent |-> FALSE]}
  /\ UNCHANGED <<wg, adder, fileVars, offer, snapshot, main, signal, found>>

\* Wrong variant: the channel is closed when the walk is over.
CloseAtOnce ==
  /\ scan.pc = "wait"
  /\ scan' = [scan EXCEPT !.pc = "end"]
  /\ UNCHANGED <<senders, wg, adder, fileVars, offer, snapshot, main, signal, found>>

\* wg.Wait, and the channel is closed.
CloseScan ==
  /\ scan.pc = "wait" /\ wg = 0
  /\ scan' = [scan EXCEPT !.pc = "end"]
  /\ UNCHANGED <<senders, wg, adder, fileVars, offer, snapshot, main, signal, found>>

-----------------------------------------------------------------------------
(* The goroutines that deliver, and Snapshot.Add that receives.            *)

\* newProgressError is given a path of the archive, of which there is none for
\* an error of the walk: a nil pointer is dereferenced and the process ends.
Receive(s) ==
  /\ s.todo # <<>> /\ ~s.sent
  /\ adder.pc = "receive"
  /\ senders' = (senders \ {s}) \cup {[s EXCEPT !.sent = TRUE]}
  /\ LET r == Head(s.todo) IN
     IF r.good
       THEN /\ adder' = [pc |-> "begin", path |-> r.path]
            /\ offer' = "ok"
            /\ UNCHANGED main
       ELSE /\ main' = [main EXCEPT !.pc = "crashed"]
            /\ UNCHANGED <<adder, offer>>
  /\ UNCHANGED <<scan, wg, fileVars, snapshot, signal, found>>

\* Wrong variant: a goroutine counts its batch as one result.
DoneOnce(s) ==
  /\ s.sent
  /\ wg' = IF Len(s.todo) = 1 THEN wg - 1 ELSE wg
  /\ senders' = (senders \ {s}) \cup
       (IF Len(s.todo) = 1 THEN {} ELSE {[todo |-> Tail(s.todo), sent |-> FALSE]})
  /\ UNCHANGED <<scan, adder, fileVars, offer, snapshot, main, signal, found>>

Done(s) ==
  /\ s.sent
  /\ wg' = wg - 1
  /\ senders' = (senders \ {s}) \cup
       (IF Len(s.todo) = 1 THEN {} ELSE {[todo |-> Tail(s.todo), sent |-> FALSE]})
  /\ UNCHANGED <<scan, adder, fileVars, offer, snapshot, main, signal, found>>

-----------------------------------------------------------------------------
(* Snapshot.Add.  Nothing goes on until its progress has been received.    *)

May(pc) == adder.pc = pc /\ offer = "none"

\* chunkFile opens the file; a file that is gone by now is ignored.
Open ==
  /\ May("begin")
  /\ IF adder.path \notin Files
       THEN adder' = [adder EXCEPT !.pc = "add"] /\ UNCHANGED <<fileVars, found>>
       ELSE \/ /\ adder' = [adder EXCEPT !.pc = "chunks"]
               /\ pending' = Stream!Chunks \cup {NumChunks}
               /\ consumer' = [NoFile(Pedantic) EXCEPT !.pc = "receive"]
               /\ UNCHANGED <<archive, found>>
            \/ /\ adder' = [pc |-> "receive", path |-> None]
               /\ found' = found \ {adder.path}
               /\ UNCHANGED fileVars
  /\ UNCHANGED <<scan, senders, wg, offer, snapshot, main, signal>>

OpenFails ==
  /\ May("begin") /\ adder.path \in Files
  /\ adder' = [adder EXCEPT !.pc = IF Pedantic THEN "stop" ELSE "failed"]
  /\ offer' = "error"
  /\ UNCHANGED <<scanVars, fileVars, snapshot, main, signal>>

\* A chunk arrives; it is stored; each of them may fail.  An error of the
\* pipeline is reported as no error.
TakeChunk ==
  /\ May("chunks") /\ Stream!TakeChunk
  /\ UNCHANGED <<scanVars, adder, offer, snapshot, main, signal>>

TakeError ==
  /\ May("chunks") /\ Stream!TakeError
  /\ offer' = "silent"
  /\ UNCHANGED <<scanVars, adder, snapshot, main, signal>>

EndOfFile ==
  /\ adder.pc = "chunks" /\ Stream!EndOfFile
  /\ UNCHANGED <<scanVars, adder, offer, snapshot, main, signal>>

StoreChunk ==
  /\ May("chunks") /\ Stream!StoreChunk
  /\ offer' = "ok"
  /\ UNCHANGED <<scanVars, adder, snapshot, main, signal>>

StoreChunkFails ==
  /\ May("chunks") /\ Stream!StoreChunkFails
  /\ offer' = "error"
  /\ UNCHANGED <<scanVars, adder, snapshot, main, signal>>

EndOfChunks ==
  /\ May("chunks") /\ Stream!EndOfChunks
  /\ adder' = [adder EXCEPT !.pc = "add"]
  /\ UNCHANGED <<scanVars, offer, snapshot, main, signal>>

\* The archive, with the chunks that could be stored, is put in the snapshot.
AddArchive ==
  /\ May("add")
  /\ snapshot' = [p \in DOMAIN snapshot \cup {adder.path} |->
                    IF p = adder.path THEN archive ELSE snapshot[p]]
  /\ archive' = {}
  /\ adder' = [pc |-> "receive", path |-> None]
  /\ UNCHANGED <<scanVars, pending, consumer, offer, main, signal>>

\* The next result, or after an error none.
GoOn ==
  /\ \/ May("failed") /\ adder' = [pc |-> "receive", path |-> None]
     \/ May("stop") /\ adder' = [pc |-> "end", path |-> None]
     \/ /\ May("chunks") /\ consumer.pc = "stop"
        /\ adder' = [pc |-> "end", path |-> None]
  /\ UNCHANGED <<scanVars, fileVars, offer, snapshot, main, signal>>

\* The channel is closed, and so is that of the progress.
EndOfResults ==
  /\ May("receive") /\ scan.pc = "end"
  /\ adder' = [adder EXCEPT !.pc = "end"]
  /\ UNCHANGED <<scanVars, fileVars, offer, snapshot, main, signal>>

-----------------------------------------------------------------------------
(* The main goroutine.                                                     *)

\* The loop of store over the progress.
Listen ==
  /\ main.pc = "listen" /\ offer # "none" /\ ~signal
  /\ main' = [main EXCEPT
       !.told = IF offer = "error" THEN main.told \cup {adder.path} ELSE main.told,
       !.silent = main.silent \/ offer = "silent",
       !.pc = IF offer = "error" /\ StoreOptsPedantic THEN "failed" ELSE "listen"]
  /\ offer' = "none"
  /\ UNCHANGED <<scanVars, adder, fileVars, snapshot, signal>>

EndOfProgress ==
  /\ main.pc = "listen" /\ adder.pc = "end" /\ offer = "none"
  /\ main' = [main EXCEPT !.pc = "lock"]
  /\ UNCHANGED <<scanVars, adder, fileVars, offer, snapshot, signal>>

\* store is told of the shutdown and returns no error.
Cancel ==
  /\ main.pc = "listen" /\ offer # "none" /\ signal
  /\ main' = [main EXCEPT !.pc = "lock"]
  /\ offer' = "none"
  /\ UNCHANGED <<scanVars, adder, fileVars, snapshot, signal>>

\* Wrong variant: the shutdown lock is taken for granted.
LockAnyway ==
  /\ main.pc = "lock"
  /\ main' = [main EXCEPT !.pc = "save"]
  /\ UNCHANGED <<scanVars, adder, fileVars, offer, snapshot, signal>>

\* There is no lock any more once a shutdown has begun.
Lock ==
  /\ main.pc = "lock"
  /\ main' = [main EXCEPT !.pc = IF signal THEN "end" ELSE "save"]
  /\ UNCHANGED <<scanVars, adder, fileVars, offer, snapshot, signal>>

\* The snapshot, the chunk-index and the repository are saved, one by one.
SaveOrder == <<"snapshot", "index", "repository">>

Save ==
  /\ main.pc = "save"
  /\ \/ \E i \in DOMAIN SaveOrder :
          /\ main.saved = {SaveOrder[j] : j \in 1 .. i - 1}
          /\ main' = [main EXCEPT !.saved = main.saved \cup {SaveOrder[i]},
                                  !.pc = IF i = Len(SaveOrder) THEN "end" ELSE "save"]
     \/ main' = [main EXCEPT !.pc = "failed"]
  /\ UNCHANGED <<scanVars, adder, fileVars, offer, snapshot, signal>>

\* A signal may be sent at any time.
Signal ==
  /\ ~signal
  /\ signal' = TRUE
  /\ UNCHANGED <<scanVars, adder, fileVars, offer, snapshot, main>>

\* The handler of the signal gives the main goroutine some time to notice, or to
\* release the shutdown lock it saves under, and then ends the process wherever
\* it is: main leaves the timeout of the library as it is.
Exit ==
  /\ signal
  /\ main' = [main EXCEPT !.pc = "exited"]
  /\ UNCHANGED <<scanVars, adder, fileVars, offer, snapshot, signal>>

-----------------------------------------------------------------------------
Scan == PassOver \/ Find \/ FindFails \/ EndTarget \/ EndWalk \/ CloseScan

Deliver == \E s \in senders : Receive(s) \/ Done(s)

Add == \/ Open \/ OpenFails \/ TakeChunk \/ TakeError \/ EndOfFile \/ StoreChunk \/ StoreChunkFails
       \/ EndOfChunks \/ AddArchive \/ GoOn \/ EndOfResults

Main == Listen \/ EndOfProgress \/ Cancel \/ Lock \/ Save

Over == main.pc \in {"end", "failed", "crashed", "exited"}

\* With the main goroutine all others end.
Work == ~Over /\ (Scan \/ Deliver \/ Add \/ Main)

Next == Work \/ (~Over /\ (Signal \/ Exit))

\* Go runs goroutines that can run; no sequence of their steps is endless, so
\* it is enough that some goroutine is run.  Nobody need send a signal.
Spec == Init /\ [][Next]_vars /\ WF_vars(Work)

-----------------------------------------------------------------------------
(* Properties.                                                             *)

\* Type invariant.
TypeOK ==
  /\ scan.pc \in {"walk", "wait", "end"}
  /\ scan.target \in 1 .. Len(Targets) + 1
  /\ Len(scan.batch) < BatchSize
  /\ wg \in Nat
  /\ adder.pc \in {"receive", "begin", "chunks", "add", "failed", "stop", "end"}
  /\ adder.path \in Paths \cup {None}
  /\ pending \subseteq 0 .. NumChunks /\ archive \subseteq Stream!Chunks
  /\ offer \in {"none", "ok", "silent", "error"}
  /\ DOMAIN snapshot \subseteq Paths /\ found \subseteq Paths
  /\ main.pc \in {"listen", "lock", "save"} \/ Over
  /\ main.told \subseteq Files

\* The channel of gatherTargetInformation is closed when every batch has been
\* delivered, whatever goroutines are late: nobody sends on a closed channel.
NoSendOnClosed == scan.pc = "end" => senders = {}

Complete(p) ==
  /\ p \in DOMAIN snapshot
  /\ p \in Files => snapshot[p] = Stream!Chunks

\* A snapshot that is saved, in full or in part, has all that was found, but for
\* files that were gone when it was their turn and errors that have been told, and
\* a snapshot that is not finished is not saved: neither one that a signal has
\* interrupted nor that of a pedantic store ("exit on first error").  Two ways in
\* which the code falls short are left out: an error of the pipeline is told to
\* nobody, and a pedantic clone saves what it has got at the first error.
SavedIsComplete ==
  main.saved # {} /\ ~main.silent /\ ~(Pedantic /\ main.command = "clone" /\ main.told # {}) =>
    \A p \in found \ main.told : Complete(p)

\* Whatever fails and whoever gives up, the command ends: nobody waits for a
\* goroutine that waits itself.
Ends == <>Over
=============================================================================
