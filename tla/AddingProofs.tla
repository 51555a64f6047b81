----------------------------- MODULE AddingProofs -----------------------------
(***************************************************************************)
(* Proofs about Adding, for any targets, batches of any size and files of  *)
(* any number of chunks: nobody sends on the channel of results after it   *)
(* has been closed, and what is saved is complete, or was reported.        *)
(***************************************************************************)
EXTENDS Adding, FiniteSetTheorems, SequenceTheorems, TLAPS

-----------------------------------------------------------------------------
(* The inductive invariant: types.                                         *)

Results ==
  {r \in [path : Paths \cup {None}, good : BOOLEAN, at : Nat \X Nat] : r.good => r.path \in Paths}

ScanType ==
  scan \in [pc : {"walk", "wait", "end"}, target : 1 .. Len(Targets) + 1, entry : Nat \ {0},
            passed : SUBSET Paths, batch : Seq(Results)]

SendersType == senders \subseteq [todo : Seq(Results) \ {<<>>}, sent : BOOLEAN]

\* States of Snapshot.Add in which it works on a path.
Busy == adder.pc \in {"begin", "chunks", "add", "failed", "stop"}

AdderType ==
  /\ adder \in [pc : {"receive", "begin", "chunks", "add", "failed", "stop", "end"},
                path : Paths \cup {None}]
  /\ Busy => adder.path \in Paths
  /\ adder.pc \in {"chunks", "failed", "stop"} => adder.path \in Files

FileType ==
  /\ consumer \in [pc : {"receive", "store", "stop", "end"}, chunk : Nat, error : BOOLEAN,
                   pedantic : BOOLEAN]
  /\ consumer.pedantic = main.pedantic
  /\ consumer.pc = "store" => consumer.chunk \in Stream!Chunks
  /\ pending \subseteq 0 .. NumChunks
  /\ archive \subseteq Stream!Chunks

\* Only a Snapshot.Add that works on a path has a progress to offer.
OfferType ==
  /\ offer \in {"none", "ok", "silent", "error"}
  /\ offer # "none" => adder.pc \in {"begin", "chunks", "failed", "stop"}
  /\ offer = "error" => adder.pc \in {"chunks", "failed", "stop"}

MainType ==
  /\ main \in [pc : {"listen", "lock", "save", "end", "failed", "crashed", "exited"},
               command : {"store", "clone"}, pedantic : BOOLEAN, told : SUBSET Files,
               silent : BOOLEAN, saved : SUBSET Range(SaveOrder)]
  /\ signal \in BOOLEAN

SnapshotType == DOMAIN snapshot \subseteq Paths /\ found \subseteq Paths

OtherTypes == AdderType /\ FileType /\ OfferType /\ MainType /\ SnapshotType

-----------------------------------------------------------------------------
(* The inductive invariant: what the counter of the WaitGroup counts.      *)

\* Results that have been counted and for which wg.Done is still to come.
Outstanding == Range(scan.batch) \cup UNION {Range(s.todo) : s \in senders}

NoDuplicates(seq) == \A i, j \in DOMAIN seq : seq[i] = seq[j] => i = j

\* Each of them is in one place.
Distinct ==
  /\ NoDuplicates(scan.batch)
  /\ \A s \in senders : NoDuplicates(s.todo) /\ Range(s.todo) \cap Range(scan.batch) = {}
  /\ \A s, t \in senders : s # t => Range(s.todo) \cap Range(t.todo) = {}

\* Each of them was found before the walk came to where it is.
Past(r) ==
  \/ r.at[1] < scan.target
  \/ r.at[1] = scan.target /\ r.at[2] < scan.entry

CountInv ==
  /\ \A r \in Outstanding : Past(r)
  /\ IsFiniteSet(Outstanding) /\ wg = Cardinality(Outstanding)
  /\ Len(scan.batch) < BatchSize
  /\ scan.pc # "walk" => scan.batch = <<>>
  /\ scan.pc = "end" => senders = {}

CountingInv == ScanType /\ SendersType /\ Distinct /\ CountInv

-----------------------------------------------------------------------------
(* The inductive invariant: what becomes of a path that is found.          *)

\* The results that Snapshot.Add has still to receive.
Unreceived(s) == Range(IF s.sent THEN Tail(s.todo) ELSE s.todo)

Waiting == Range(scan.batch) \cup UNION {Unreceived(s) : s \in senders}

\* An error on the path that Snapshot.Add works on is told, or about to be.
Reported ==
  adder.path \in main.told \/ offer \in {"error", "silent"} \/ main.silent

\* A chunk of the file is still to come, being stored, or in the archive.
ChunksInv ==
  /\ adder.pc = "chunks" =>
       \/ Reported
       \/ \A n \in Stream!Chunks :
            n \in pending \/ n \in archive \/ (consumer.pc = "store" /\ consumer.chunk = n)
  /\ adder.pc = "add" /\ adder.path \in Files => Reported \/ archive = Stream!Chunks
  /\ adder.pc \in {"receive", "begin", "failed"} => archive = {}
  /\ adder.pc \in {"failed", "stop"} => Reported

\* Somebody may give up, after an error.
Excused ==
  \/ main.silent \/ offer = "silent"
  \/ main.pedantic /\ (main.told # {} \/ offer = "error")

GivenUpInv ==
  /\ adder.pc = "stop" => Excused
  /\ adder.pc = "chunks" /\ consumer.pc = "stop" => Excused
  /\ adder.pc = "end" => Excused \/ scan.pc = "end"

Accounted(p) ==
  \/ \E r \in Waiting : r.good /\ r.path = p
  \/ Busy /\ adder.path = p
  \/ Complete(p)
  \/ p \in main.told

\* As long as store listens nothing that is found is lost without a word.
Lossless == ChunksInv /\ GivenUpInv /\ (Excused \/ \A p \in found : Accounted(p))

ListenInv == main.pc = "listen" => Lossless

\* Snapshot.Add is done, and all that was found is complete unless it was told
\* or somebody gave up.
Finished ==
  /\ adder.pc = "end" /\ offer = "none"
  /\ \/ main.silent
     \/ main.pedantic /\ main.told # {}
     \/ scan.pc = "end" /\ \A p \in found \ main.told : Complete(p)

\* Once it saves, it is too late to lose anything.
SavingInv ==
  (main.pc = "lock" /\ ~signal) \/ main.pc = "save" \/ main.saved # {} => Finished

\* Nothing is saved before the lock, and a pedantic store that has been told of an
\* error does not come to it.
MainInv ==
  /\ main.pc \in {"listen", "lock"} => main.saved = {}
  /\ StoreOptsPedantic /\ main.told # {} => main.pc = "failed" /\ main.saved = {}

IInv == OtherTypes /\ CountingInv /\ ListenInv /\ SavingInv /\ MainInv

-----------------------------------------------------------------------------
(* Sequences.                                                              *)

\* Appending adds to what is in a sequence, and repeats nothing that is new.
LEMMA RangeOfAppend ==
  ASSUME NEW S, NEW seq \in Seq(S), NEW e \in S
  PROVE  /\ Range(Append(seq, e)) = Range(seq) \cup {e}
         /\ NoDuplicates(seq) /\ e \notin Range(seq) => NoDuplicates(Append(seq, e))
<1>1. /\ Append(seq, e) \in Seq(S) /\ Len(Append(seq, e)) = Len(seq) + 1
      /\ \A i \in 1 .. Len(seq) : Append(seq, e)[i] = seq[i]
      /\ Append(seq, e)[Len(seq) + 1] = e
  BY AppendProperties
<1>2. Len(seq) \in Nat /\ DOMAIN seq = 1 .. Len(seq) /\ DOMAIN Append(seq, e) = 1 .. Len(seq) + 1
  BY <1>1, LenProperties
<1>3. Range(Append(seq, e)) = Range(seq) \cup {e}
  BY <1>1, <1>2 DEF Range
<1>4. ASSUME NoDuplicates(seq), e \notin Range(seq) PROVE NoDuplicates(Append(seq, e))
  BY <1>1, <1>2, <1>4 DEF NoDuplicates, Range
<1>. QED BY <1>3, <1>4

\* What is in a sequence is its head, or in its tail.
LEMMA RangeOfTail ==
  ASSUME NEW S, NEW seq \in Seq(S), seq # <<>>
  PROVE  /\ Head(seq) \in S /\ Tail(seq) \in Seq(S)
         /\ Range(seq) = {Head(seq)} \cup Range(Tail(seq))
         /\ NoDuplicates(seq) => NoDuplicates(Tail(seq)) /\ Head(seq) \notin Range(Tail(seq))
         /\ Len(seq) = 1 <=> Tail(seq) = <<>>
<1>1. /\ Tail(seq) \in Seq(S) /\ Len(Tail(seq)) = Len(seq) - 1 /\ Head(seq) \in S
      /\ \A i \in 1 .. Len(Tail(seq)) : Tail(seq)[i] = seq[i + 1]
  BY HeadTailProperties
<1>2. /\ Len(seq) \in Nat \ {0} /\ DOMAIN seq = 1 .. Len(seq)
      /\ DOMAIN Tail(seq) = 1 .. Len(seq) - 1 /\ Head(seq) = seq[1]
  BY <1>1, LenProperties, EmptySeq
<1>3. Len(seq) = 1 <=> Tail(seq) = <<>>
  BY <1>1, <1>2, EmptySeq
<1>4. Range(seq) = {Head(seq)} \cup Range(Tail(seq))
  <2>1. Range(Tail(seq)) \subseteq Range(seq) /\ Head(seq) \in Range(seq)
    BY <1>1, <1>2 DEF Range
  <2>2. ASSUME NEW i \in DOMAIN seq, i # 1 PROVE seq[i] \in Range(Tail(seq))
    <3>1. i - 1 \in 1 .. Len(Tail(seq)) /\ Tail(seq)[i - 1] = seq[i - 1 + 1]
      BY <1>1, <1>2, <2>2
    <3>2. i - 1 \in DOMAIN Tail(seq) /\ Tail(seq)[i - 1] = seq[i]
      BY <1>1, <1>2, <3>1
    <3>. QED BY <3>2 DEF Range
  <2>. QED BY <1>2, <2>1, <2>2 DEF Range
<1>5. ASSUME NoDuplicates(seq)
      PROVE  NoDuplicates(Tail(seq)) /\ Head(seq) \notin Range(Tail(seq))
  BY <1>1, <1>2, <1>5 DEF NoDuplicates, Range
<1>. QED BY <1>1, <1>3, <1>4, <1>5

-----------------------------------------------------------------------------
(* The channel of results is closed when all of them have been delivered.  *)

\* The walk begins with nothing.
LEMMA InitCounting == Init => CountingInv
<1>. SUFFICES ASSUME Init PROVE CountingInv
  OBVIOUS
<1>1. scan = [pc |-> "walk", target |-> 1, entry |-> 1, passed |-> {}, batch |-> <<>>]
      /\ senders = {} /\ wg = 0
  BY DEF Init
<1>2. Len(Targets) \in Nat
  BY AddingOK
<1>3. ScanType /\ SendersType
  BY <1>1, <1>2 DEF ScanType, SendersType
<1>4. Outstanding = {}
  BY <1>1 DEF Outstanding, Range
<1>5. Distinct
  BY <1>1 DEF Distinct, NoDuplicates
<1>6. CountInv
  BY <1>1, <1>4, FS_EmptySet, AddingOK DEF CountInv
<1>. QED BY <1>3, <1>5, <1>6 DEF CountingInv

\* The target where the walk is.
LEMMA WalkingType ==
  ASSUME ScanType, Walking
  PROVE  /\ scan.target \in 1 .. Len(Targets) /\ scan.entry \in Nat \ {0}
         /\ scan.target + 1 \in 1 .. Len(Targets) + 1 /\ scan.entry + 1 \in Nat \ {0}
         /\ scan.pc = "walk"
BY AddingOK DEF ScanType, Walking

\* The entry where the walk is.
LEMMA EntryType ==
  ASSUME ScanType, HasEntry
  PROVE  Entry \in Paths
<1>1. scan.target \in 1 .. Len(Targets) /\ scan.entry \in Nat \ {0}
  BY WalkingType DEF HasEntry
<1>2. Targets[scan.target] \in Seq(DOMAIN TypeOf) /\ scan.target \in DOMAIN Targets
  BY <1>1, AddingOK, ElementOfSeq
<1>3. scan.entry \in DOMAIN Targets[scan.target]
  BY <1>1, <1>2 DEF HasEntry
<1>4. Entry \in Range(Targets[scan.target])
  BY <1>3 DEF Entry, Range
<1>. QED BY <1>2, <1>4 DEF Paths

\* Where the walk may go.
LEMMA NextScan ==
  ASSUME ScanType, Walking, NEW next \in {NextEntry, NextTarget}
  PROVE  /\ next \in [pc : {"walk"}, target : 1 .. Len(Targets) + 1, entry : Nat \ {0},
                       passed : SUBSET Paths, batch : Seq(Results)]
         /\ next.batch = scan.batch
         /\ \/ next.target = scan.target /\ next.entry = scan.entry + 1
            \/ next.target = scan.target + 1
<1>1. scan.target + 1 \in 1 .. Len(Targets) + 1 /\ scan.entry + 1 \in Nat \ {0} /\ 1 \in Nat \ {0}
      /\ scan.pc = "walk"
  BY WalkingType
<1>2. CASE next = NextEntry
  BY <1>1, <1>2 DEF ScanType, NextEntry
<1>3. CASE next = NextTarget
  BY <1>1, <1>3 DEF ScanType, NextTarget
<1>. QED BY <1>2, <1>3

\* A step of the walk to a place that is not before the present one, without a
\* result, disturbs nothing.
LEMMA WalkCounting ==
  ASSUME CountingInv, Walking,
         \/ scan' \in {NextEntry, NextTarget}
         \/ \E passed \in SUBSET Paths : scan' = [NextEntry EXCEPT !.passed = passed],
         UNCHANGED <<senders, wg>>
  PROVE  CountingInv'
<1>. USE DEF CountingInv
<1>1. /\ scan' \in [pc : {"walk"}, target : 1 .. Len(Targets) + 1, entry : Nat \ {0},
                    passed : SUBSET Paths, batch : Seq(Results)]
      /\ scan'.batch = scan.batch
      /\ \/ scan'.target = scan.target /\ scan'.entry = scan.entry + 1
         \/ scan'.target = scan.target + 1
  <2>1. CASE scan' \in {NextEntry, NextTarget}
    BY <2>1, NextScan
  <2>2. ASSUME NEW passed \in SUBSET Paths, scan' = [NextEntry EXCEPT !.passed = passed]
        PROVE  <1>1
    BY <2>2, NextScan, NextEntry \in {NextEntry, NextTarget}
  <2>. QED BY <2>1, <2>2
<1>2. Outstanding' = Outstanding
  BY <1>1 DEF Outstanding
<1>3. \A r \in Outstanding : Past(r)'
  <2>. SUFFICES ASSUME NEW r \in Outstanding PROVE Past(r)'
    OBVIOUS
  <2>1. Past(r)
    BY DEF CountInv
  <2>2. r \in Results
    BY RangeOfSeq DEF ScanType, SendersType, Outstanding
  <2>3. r.at[1] \in Nat /\ r.at[2] \in Nat
    BY <2>2 DEF Results
  <2>4. scan.target \in Nat /\ scan.entry \in Nat
    BY WalkingType
  <2>. QED BY <1>1, <2>1, <2>3, <2>4 DEF Past
<1>4. ScanType' /\ SendersType'
  BY <1>1 DEF ScanType, SendersType
<1>5. Distinct'
  BY <1>1 DEF Distinct, NoDuplicates
<1>6. CountInv'
  BY <1>1, <1>2, <1>3 DEF CountInv
<1>. QED BY <1>4, <1>5, <1>6

\* A result is counted where it is put.
LEMMA CollectCounting ==
  ASSUME CountingInv, Walking, NEW next \in {NextEntry, NextTarget},
         NEW r \in Results, r.at = <<scan.target, scan.entry>>,
         Collect(r, next)
  PROVE  CountingInv'
<1>. USE DEF CountingInv
<1>. DEFINE batch == Append(scan.batch, r)
            new == [todo |-> batch, sent |-> FALSE]
<1>1. /\ next \in [pc : {"walk"}, target : 1 .. Len(Targets) + 1, entry : Nat \ {0},
                   passed : SUBSET Paths, batch : Seq(Results)]
      /\ \/ next.target = scan.target /\ next.entry = scan.entry + 1
         \/ next.target = scan.target + 1
  BY NextScan
<1>2. scan.target \in Nat /\ scan.entry \in Nat
  BY WalkingType
<1>3. ~Past(r)
  BY <1>2 DEF Past
<1>4. r \notin Outstanding
  BY <1>3 DEF CountInv
<1>5. scan.batch \in Seq(Results) /\ batch \in Seq(Results) \ {<<>>}
  BY AppendProperties DEF ScanType
<1>6. Range(batch) = Range(scan.batch) \cup {r} /\ NoDuplicates(batch)
  BY <1>4, <1>5, RangeOfAppend DEF Outstanding, Distinct
<1>7. \A s \in senders : Range(s.todo) \cap Range(batch) = {}
  BY <1>4, <1>6 DEF Outstanding, Distinct
<1>8. wg' = wg + 1 /\ scan' \in [pc : {"walk"}, target : 1 .. Len(Targets) + 1, entry : Nat \ {0},
                   passed : SUBSET Paths, batch : Seq(Results)]
      /\ scan'.target = next.target /\ scan'.entry = next.entry
      /\ \/ /\ scan'.batch = <<>>
            /\ senders' = senders \cup {new}
         \/ /\ scan'.batch = batch /\ Len(batch) < BatchSize
            /\ senders' = senders
  <2>1. CASE Len(batch) >= BatchSize
    <3>1. scan' = [next EXCEPT !.batch = <<>>] /\ wg' = wg + 1
          /\ senders' = senders \cup {new}
      BY <2>1 DEF Collect
    <3>2. <<>> \in Seq(Results)
      BY EmptySeq
    <3>. HIDE DEF batch
    <3>. QED BY <1>1, <3>1, <3>2
  <2>2. CASE ~(Len(batch) >= BatchSize)
    <3>1. scan' = [next EXCEPT !.batch = batch] /\ wg' = wg + 1 /\ senders' = senders
      BY <2>2 DEF Collect
    <3>2. Len(batch) < BatchSize
      BY <1>5, <2>2, LenProperties, AddingOK
    <3>. HIDE DEF batch
    <3>. QED BY <1>1, <1>5, <3>1, <3>2
  <2>. QED BY <2>1, <2>2
<1>. HIDE DEF batch
<1>9. new.todo = batch /\ new \in [todo : Seq(Results) \ {<<>>}, sent : BOOLEAN]
  BY <1>5
<1>. HIDE DEF new
<1>10. Range(<<>>) = {} /\ NoDuplicates(<<>>) /\ Len(<<>>) = 0 /\ <<>> \in Seq(Results)
  BY DEF Range, NoDuplicates
<1>11. ScanType' /\ SendersType'
  BY <1>9, <1>5, <1>8, <1>10 DEF ScanType, SendersType
<1>12. Distinct'
  <2>1. CASE scan'.batch = <<>> /\ senders' = senders \cup {new}
    BY <1>9, <1>6, <1>7, <1>10, <2>1 DEF Distinct
  <2>2. CASE scan'.batch = batch /\ senders' = senders
    BY <1>6, <1>7, <2>2 DEF Distinct
  <2>. QED BY <1>8, <2>1, <2>2
<1>13. Outstanding' = Outstanding \cup {r}
  <2>1. CASE scan'.batch = <<>> /\ senders' = senders \cup {new}
    BY <1>9, <1>6, <1>10, <2>1 DEF Outstanding
  <2>2. CASE scan'.batch = batch /\ senders' = senders
    BY <1>6, <2>2 DEF Outstanding
  <2>. QED BY <1>8, <2>1, <2>2
<1>14. \A q \in Outstanding \cup {r} : Past(q)'
  <2>. SUFFICES ASSUME NEW q \in Outstanding \cup {r} PROVE Past(q)'
    OBVIOUS
  <2>0. \/ scan'.target = scan.target /\ scan'.entry = scan.entry + 1
        \/ scan'.target = scan.target + 1
    BY <1>1, <1>8
  <2>1. CASE q = r
    <3>1. q.at[1] = scan.target /\ q.at[2] = scan.entry
      BY <2>1
    <3>. QED BY ONLY <1>2, <2>0, <3>1 DEF Past
  <2>2. CASE q \in Outstanding
    <3>1. Past(q)
      BY <2>2 DEF CountInv
    <3>2. q \in Results
      BY <2>2, RangeOfSeq DEF ScanType, SendersType, Outstanding
    <3>3. q.at[1] \in Nat /\ q.at[2] \in Nat
      BY <3>2 DEF Results
    <3>. QED BY ONLY <1>2, <2>0, <3>1, <3>3 DEF Past
  <2>. QED BY <2>1, <2>2
<1>15. IsFiniteSet(Outstanding') /\ wg' = Cardinality(Outstanding')
  BY <1>4, <1>8, <1>13, FS_AddElement DEF CountInv
<1>16. Len(scan'.batch) < BatchSize
  BY <1>8, <1>10, AddingOK
<1>. QED BY <1>8, <1>11, <1>12, <1>13, <1>14, <1>15, <1>16 DEF CountInv

\* The rest of the results is given to a goroutine: it was counted before.
LEMMA EndWalkCounting ==
  ASSUME CountingInv, scan.pc = "walk",
         scan' = [scan EXCEPT !.pc = "wait", !.batch = <<>>],
         senders' = IF scan.batch = <<>> THEN senders
                      ELSE senders \cup {[todo |-> scan.batch, sent |-> FALSE]},
         wg' = wg
  PROVE  CountingInv'
<1>. USE DEF CountingInv
<1>. DEFINE new == [todo |-> scan.batch, sent |-> FALSE]
<1>1. scan.batch \in Seq(Results)
  BY DEF ScanType
<1>2. new.todo = scan.batch /\ new.sent = FALSE
      /\ (scan.batch # <<>> => new \in [todo : Seq(Results) \ {<<>>}, sent : BOOLEAN])
  BY <1>1
<1>3. senders' = IF scan.batch = <<>> THEN senders ELSE senders \cup {new}
  OBVIOUS
<1>. HIDE DEF new
<1>4. /\ scan'.pc = "wait" /\ scan'.batch = <<>>
      /\ scan'.target = scan.target /\ scan'.entry = scan.entry
      /\ ScanType'
  BY EmptySeq DEF ScanType
<1>5. Range(<<>>) = {} /\ NoDuplicates(<<>>) /\ Len(<<>>) = 0
  BY DEF Range, NoDuplicates
<1>6. SendersType'
  BY <1>2, <1>3 DEF SendersType
<1>7. Distinct'
  <2>1. CASE scan.batch = <<>>
    BY <1>3, <1>4, <2>1 DEF Distinct
  <2>2. CASE scan.batch # <<>>
    BY <1>2, <1>3, <1>4, <1>5, <2>2 DEF Distinct
  <2>. QED BY <2>1, <2>2
<1>8. Outstanding' = Outstanding
  <2>1. CASE scan.batch = <<>>
    BY <1>3, <1>4, <2>1 DEF Outstanding
  <2>2. CASE scan.batch # <<>>
    BY <1>2, <1>3, <1>4, <1>5, <2>2 DEF Outstanding
  <2>. QED BY <2>1, <2>2
<1>9. \A q : Past(q)' <=> Past(q)
  BY <1>4 DEF Past
<1>. QED BY <1>4, <1>5, <1>6, <1>7, <1>8, <1>9, AddingOK DEF CountInv

\* A goroutine that has sent its result but not counted it still has it.
LEMMA ReceiveCounting ==
  ASSUME CountingInv, NEW s \in senders, ~s.sent,
         senders' = (senders \ {s}) \cup {[s EXCEPT !.sent = TRUE]},
         UNCHANGED <<scan, wg>>
  PROVE  CountingInv'
<1>. USE DEF CountingInv
<1>. DEFINE new == [s EXCEPT !.sent = TRUE]
<1>1. s \in [todo : Seq(Results) \ {<<>>}, sent : BOOLEAN]
  BY DEF SendersType
<1>2. new \in [todo : Seq(Results) \ {<<>>}, sent : BOOLEAN] /\ new.todo = s.todo
      /\ senders' = (senders \ {s}) \cup {new}
  BY <1>1
<1>. HIDE DEF new
<1>3. ScanType' /\ SendersType'
  BY <1>2 DEF ScanType, SendersType
<1>4. Distinct'
  BY <1>2 DEF Distinct
<1>5. Outstanding' = Outstanding
  BY <1>2 DEF Outstanding
<1>6. \A q : Past(q)' <=> Past(q)
  BY DEF Past
<1>7. scan.pc # "end"
  BY DEF CountInv
<1>. QED BY <1>3, <1>4, <1>5, <1>6, <1>7 DEF CountInv

\* The counter goes down by the one result that the goroutine no longer has.
LEMMA DoneCounting ==
  ASSUME CountingInv, NEW s \in senders, Done(s)
  PROVE  CountingInv'
<1>. USE DEF CountingInv
<1>. DEFINE new == [todo |-> Tail(s.todo), sent |-> FALSE]
            r == Head(s.todo)
<1>1. s.todo \in Seq(Results) \ {<<>>}
  BY DEF SendersType
<1>2. /\ r \in Results /\ Tail(s.todo) \in Seq(Results)
      /\ Range(s.todo) = {r} \cup Range(Tail(s.todo))
      /\ NoDuplicates(Tail(s.todo)) /\ r \notin Range(Tail(s.todo))
      /\ Len(s.todo) = 1 <=> Tail(s.todo) = <<>>
  BY <1>1, RangeOfTail DEF Distinct
<1>3. new.todo = Tail(s.todo)
      /\ (Len(s.todo) # 1 => new \in [todo : Seq(Results) \ {<<>>}, sent : BOOLEAN])
  BY <1>2
<1>4. /\ wg' = wg - 1 /\ UNCHANGED scan
      /\ senders' = (senders \ {s}) \cup (IF Len(s.todo) = 1 THEN {} ELSE {new})
  BY DEF Done
<1>. HIDE DEF new, r
<1>5. Range(<<>>) = {}
  BY DEF Range
<1>6. ScanType' /\ SendersType'
  <2>1. CASE Len(s.todo) = 1
    BY <1>4, <2>1 DEF ScanType, SendersType
  <2>2. CASE Len(s.todo) # 1
    BY <1>3, <1>4, <2>2 DEF ScanType, SendersType
  <2>. QED BY <2>1, <2>2
<1>7. Distinct'
  <2>1. CASE Len(s.todo) = 1
    BY <1>4, <2>1 DEF Distinct
  <2>2. CASE Len(s.todo) # 1
    BY <1>2, <1>3, <1>4, <2>2 DEF Distinct
  <2>. QED BY <2>1, <2>2
<1>8. r \in Outstanding /\ Outstanding' = Outstanding \ {r}
  <2>1. r \in Outstanding
    BY <1>2 DEF Outstanding
  <2>2. \A t \in senders \ {s} : r \notin Range(t.todo)
    BY <1>2 DEF Distinct
  <2>3. r \notin Range(scan.batch)
    BY <1>2 DEF Distinct
  <2>4. UNION {Range(t.todo) : t \in senders'} = (UNION {Range(t.todo) : t \in senders}) \ {r}
    <3>1. CASE Len(s.todo) = 1
      BY <1>2, <1>4, <1>5, <2>2, <3>1
    <3>2. CASE Len(s.todo) # 1
      BY <1>2, <1>3, <1>4, <2>2, <3>2
    <3>. QED BY <3>1, <3>2
  <2>. QED BY <1>4, <2>1, <2>3, <2>4 DEF Outstanding
<1>9. \A q : Past(q)' <=> Past(q)
  BY <1>4 DEF Past
<1>10. IsFiniteSet(Outstanding') /\ wg' = Cardinality(Outstanding')
  BY <1>4, <1>8, FS_RemoveElement DEF CountInv
<1>11. scan.pc # "end"
  BY DEF CountInv
<1>. QED BY <1>4, <1>6, <1>7, <1>8, <1>9, <1>10, <1>11 DEF CountInv

\* When the counter is 0 no goroutine has results left.
LEMMA CloseCounting ==
  ASSUME CountingInv, scan.pc = "wait", wg = 0, scan' = [scan EXCEPT !.pc = "end"],
         UNCHANGED <<senders, wg>>
  PROVE  CountingInv'
<1>. USE DEF CountingInv
<1>1. Outstanding = {}
  BY FS_EmptySet DEF CountInv
<1>2. senders = {}
  <2>. SUFFICES ASSUME NEW s \in senders PROVE FALSE
    OBVIOUS
  <2>1. s.todo \in Seq(Results) /\ s.todo # <<>>
    BY DEF SendersType
  <2>2. Head(s.todo) \in Range(s.todo)
    BY <2>1, RangeOfTail
  <2>. QED BY <1>1, <2>2 DEF Outstanding
<1>3. /\ scan'.pc = "end" /\ scan'.batch = scan.batch
      /\ scan'.target = scan.target /\ scan'.entry = scan.entry
      /\ ScanType'
  BY DEF ScanType
<1>4. SendersType' /\ Distinct'
  BY <1>3 DEF SendersType, Distinct
<1>5. Outstanding' = Outstanding
  BY <1>3 DEF Outstanding
<1>6. \A q : Past(q)' <=> Past(q)
  BY <1>3 DEF Past
<1>. QED BY <1>2, <1>3, <1>4, <1>5, <1>6 DEF CountInv

\* Every step counts right.
LEMMA StepCounting == CountingInv /\ [Next]_vars => CountingInv'
<1>. SUFFICES ASSUME CountingInv, [Next]_vars PROVE CountingInv'
  OBVIOUS
<1>1. CASE UNCHANGED <<scan, senders, wg>>
  BY <1>1 DEF CountingInv, ScanType, SendersType, Distinct, CountInv, Outstanding, Past
<1>2. CASE PassOver
  <2>1. Walking /\ UNCHANGED <<senders, wg>>
        /\ \E passed \in SUBSET Paths : scan' = [NextEntry EXCEPT !.passed = passed]
    <3>1. HasEntry /\ Entry \in Paths /\ scan.passed \in SUBSET Paths
      BY <1>2, EntryType DEF PassOver, CountingInv, ScanType, HasEntry
    <3>2. (IF Visible THEN scan.passed \cup {Entry} ELSE scan.passed) \in SUBSET Paths
      BY <3>1
    <3>. QED BY <1>2, <3>1, <3>2 DEF PassOver, HasEntry
  <2>. QED BY <2>1, WalkCounting
<1>3. CASE Find
  <2>1. CASE Entry \in Special
    BY <1>3, <2>1, WalkCounting DEF Find, HasEntry
  <2>2. CASE Entry \notin Special
    <3>1. HasEntry /\ Collect(Result(Entry, TRUE), NextEntry)
      BY <1>3, <2>2 DEF Find
    <3>2. Result(Entry, TRUE) \in Results /\ Result(Entry, TRUE).at = <<scan.target, scan.entry>>
      BY <3>1, EntryType, WalkingType, AddingOK DEF CountingInv, HasEntry, Result, Results
    <3>. QED BY <3>1, <3>2, CollectCounting DEF HasEntry
  <2>. QED BY <2>1, <2>2
<1>4. CASE FindFails
  <2>1. HasEntry /\ Collect(Result(None, FALSE), NextTarget)
    BY <1>4 DEF FindFails
  <2>2. Result(None, FALSE) \in Results /\ Result(None, FALSE).at = <<scan.target, scan.entry>>
    BY <2>1, EntryType, WalkingType, AddingOK DEF CountingInv, HasEntry, Result, Results
  <2>. QED BY <2>1, <2>2, CollectCounting DEF HasEntry
<1>5. CASE EndTarget
  BY <1>5, WalkCounting DEF EndTarget
<1>6. CASE EndWalk
  BY <1>6, EndWalkCounting DEF EndWalk
<1>7. CASE CloseScan
  BY <1>7, CloseCounting DEF CloseScan
<1>8. ASSUME NEW s \in senders, Receive(s) PROVE CountingInv'
  BY <1>8, ReceiveCounting DEF Receive
<1>9. ASSUME NEW s \in senders, Done(s) PROVE CountingInv'
  BY <1>9, DoneCounting
<1>10. CASE Add \/ Main \/ Signal \/ Exit
  <2>1. UNCHANGED <<scan, senders, wg>>
    BY <1>10 DEF Add, Main, Open, OpenFails, TakeChunk, TakeError, EndOfFile, StoreChunk,
       StoreChunkFails, EndOfChunks, AddArchive, GoOn, EndOfResults, Listen, EndOfProgress,
       Cancel, Lock, Save, Signal, Exit, scanVars
  <2>. QED BY <1>1, <2>1
<1>. QED BY <1>1, <1>2, <1>3, <1>4, <1>5, <1>6, <1>7, <1>8, <1>9, <1>10
     DEF Next, Work, Scan, Deliver, vars

\* The channel of gatherTargetInformation is closed when nobody can send on it
\* any more, whatever goroutines are late.
THEOREM SendsAreSafe == Spec => []NoSendOnClosed
<1>1. CountingInv => NoSendOnClosed
  BY DEF CountingInv, CountInv, NoSendOnClosed
<1>. QED BY <1>1, InitCounting, StepCounting, PTL DEF Spec

-----------------------------------------------------------------------------
(* Types.                                                                  *)

\* At the start everything has its type.
LEMMA InitType == Init => OtherTypes
<1>. SUFFICES ASSUME Init PROVE OtherTypes
  OBVIOUS
<1>1. AdderType /\ OfferType /\ SnapshotType
  BY DEF Init, AdderType, Busy, OfferType, SnapshotType
<1>2. PICK command \in {"store", "clone"}, pedantic \in BOOLEAN :
        /\ main = [pc |-> "listen", command |-> command, pedantic |-> pedantic,
                   told |-> {}, silent |-> FALSE, saved |-> {}]
        /\ consumer = NoFile(pedantic)
  BY DEF Init
<1>3. MainType
  BY <1>2 DEF Init, MainType
<1>4. FileType
  BY <1>2, AddingOK DEF Init, FileType, NoFile
<1>. QED BY <1>1, <1>3, <1>4 DEF OtherTypes

\* A path that Snapshot.Add receives is one of those that were found.
LEMMA ReceiveType ==
  ASSUME OtherTypes, SendersType, NEW s \in senders, Receive(s)
  PROVE  OtherTypes'
<1>. USE DEF OtherTypes
<1>1. s.todo \in Seq(Results) /\ s.todo # <<>>
  BY DEF SendersType, Receive
<1>2. Head(s.todo) \in Results
  BY <1>1, RangeOfTail
<1>3. CASE Head(s.todo).good
  <2>1. /\ adder' = [pc |-> "begin", path |-> Head(s.todo).path] /\ offer' = "ok"
        /\ UNCHANGED <<main, fileVars, snapshot, signal, found>>
    BY <1>3 DEF Receive
  <2>2. Head(s.todo).path \in Paths
    BY <1>2, <1>3 DEF Results
  <2>3. AdderType' /\ OfferType'
    BY <2>1, <2>2 DEF AdderType, OfferType, Busy
  <2>. QED BY <2>1, <2>3 DEF FileType, MainType, SnapshotType, fileVars
<1>4. CASE ~Head(s.todo).good
  <2>1. /\ main' = [main EXCEPT !.pc = "crashed"]
        /\ UNCHANGED <<adder, offer, fileVars, snapshot, signal, found>>
    BY <1>4 DEF Receive
  <2>2. MainType' /\ main'.pedantic = main.pedantic
    BY <2>1 DEF MainType
  <2>. QED BY <2>1, <2>2 DEF AdderType, OfferType, Busy, FileType, SnapshotType, fileVars
<1>. QED BY <1>3, <1>4

\* Snapshot.Add keeps types.
LEMMA AddType ==
  ASSUME OtherTypes, Add
  PROVE  OtherTypes'
<1>. USE DEF OtherTypes
<1>. SUFFICES AdderType' /\ FileType' /\ OfferType' /\ SnapshotType' /\ UNCHANGED <<main, signal>>
  BY DEF MainType
<1>1. CASE Open
  <2>1. adder.pc = "begin" /\ offer = "none" /\ adder.path \in Paths
        /\ UNCHANGED <<offer, snapshot, main, signal>>
    BY <1>1 DEF Open, May, AdderType, Busy
  <2>2. CASE adder.path \notin Files
    <3>1. adder' = [adder EXCEPT !.pc = "add"] /\ UNCHANGED <<fileVars, found>>
      BY <1>1, <2>2 DEF Open
    <3>. QED BY <2>1, <3>1 DEF AdderType, Busy, FileType, OfferType, SnapshotType, fileVars
  <2>3. CASE /\ adder.path \in Files /\ adder' = [adder EXCEPT !.pc = "chunks"]
             /\ pending' = Stream!Chunks \cup {NumChunks}
             /\ consumer' = [NoFile(Pedantic) EXCEPT !.pc = "receive"]
             /\ UNCHANGED <<archive, found>>
    <3>1. AdderType' /\ OfferType' /\ SnapshotType'
      BY <2>1, <2>3 DEF AdderType, Busy, OfferType, SnapshotType
    <3>2. pending' \subseteq 0 .. NumChunks
      BY <2>3, AddingOK DEF Stream!Chunks
    <3>3. consumer' = [pc |-> "receive", chunk |-> 0, error |-> FALSE, pedantic |-> main.pedantic]
      BY <2>3 DEF NoFile, Pedantic
    <3>4. main.pedantic \in BOOLEAN /\ archive' \subseteq Stream!Chunks
      BY <2>3 DEF MainType, FileType
    <3>5. FileType'
      BY <2>1, <3>2, <3>3, <3>4 DEF FileType
    <3>. QED BY <2>1, <3>1, <3>5
  <2>4. CASE /\ adder' = [pc |-> "receive", path |-> None]
             /\ found' = found \ {adder.path}
             /\ UNCHANGED fileVars
    BY <2>1, <2>4 DEF AdderType, Busy, FileType, OfferType, SnapshotType, fileVars
  <2>. QED BY <1>1, <2>2, <2>3, <2>4 DEF Open
<1>2. CASE OpenFails
  BY <1>2 DEF OpenFails, May, AdderType, Busy, FileType, OfferType, SnapshotType, scanVars, fileVars
<1>3. CASE TakeChunk
  <2>1. PICK n \in pending \cap Stream!Chunks :
          /\ pending' = pending \ {n} /\ consumer' = [consumer EXCEPT !.pc = "store", !.chunk = n]
    BY <1>3 DEF TakeChunk, Stream!TakeChunk
  <2>2. UNCHANGED <<adder, archive, offer, snapshot, main, signal, found>>
    BY <1>3 DEF TakeChunk, Stream!TakeChunk, scanVars
  <2>3. n \in Nat /\ n \in Stream!Chunks
    BY DEF Stream!Chunks
  <2>4. FileType'
    BY <2>1, <2>2, <2>3 DEF FileType
  <2>. QED BY <2>2, <2>4 DEF AdderType, Busy, OfferType, SnapshotType
<1>4. CASE TakeError
  BY <1>4 DEF TakeError, Stream!TakeError, May, AdderType, Busy, FileType, OfferType, SnapshotType,
     scanVars
<1>5. CASE EndOfFile
  BY <1>5 DEF EndOfFile, Stream!EndOfFile, AdderType, Busy, FileType, OfferType, SnapshotType, scanVars
<1>6. CASE StoreChunk
  BY <1>6 DEF StoreChunk, Stream!StoreChunk, May, AdderType, Busy, FileType, OfferType, SnapshotType,
     scanVars
<1>7. CASE StoreChunkFails
  BY <1>7 DEF StoreChunkFails, Stream!StoreChunkFails, May, AdderType, Busy, FileType, OfferType,
     SnapshotType, scanVars
<1>8. CASE EndOfChunks
  BY <1>8 DEF EndOfChunks, Stream!EndOfChunks, May, AdderType, Busy, FileType, OfferType, SnapshotType,
     scanVars
<1>9. CASE AddArchive
  BY <1>9 DEF AddArchive, May, AdderType, Busy, FileType, OfferType, SnapshotType, scanVars
<1>10. CASE GoOn
  BY <1>10 DEF GoOn, May, AdderType, Busy, FileType, OfferType, SnapshotType, scanVars, fileVars
<1>11. CASE EndOfResults
  BY <1>11 DEF EndOfResults, May, AdderType, Busy, FileType, OfferType, SnapshotType, scanVars, fileVars
<1>. QED BY <1>1, <1>2, <1>3, <1>4, <1>5, <1>6, <1>7, <1>8, <1>9, <1>10, <1>11 DEF Add

\* The main goroutine keeps types.
LEMMA MainKeepsType ==
  ASSUME OtherTypes, Main \/ Signal \/ Exit
  PROVE  OtherTypes'
<1>. USE DEF OtherTypes
<1>1. UNCHANGED <<adder, fileVars, snapshot, found>>
  BY DEF Main, Listen, EndOfProgress, Cancel, Lock, Save, Signal, Exit, scanVars
<1>. SUFFICES MainType' /\ OfferType' /\ main'.pedantic = main.pedantic
  BY <1>1 DEF AdderType, Busy, FileType, SnapshotType, fileVars
<1>2. CASE Listen
  <2>1. offer' = "none" /\ signal' = signal
        /\ main' = [main EXCEPT
             !.told = IF offer = "error" THEN main.told \cup {adder.path} ELSE main.told,
             !.silent = main.silent \/ offer = "silent",
             !.pc = IF offer = "error" /\ StoreOptsPedantic THEN "failed" ELSE "listen"]
    BY <1>2 DEF Listen
  <2>2. (IF offer = "error" THEN main.told \cup {adder.path} ELSE main.told) \in SUBSET Files
    BY DEF MainType, OfferType, AdderType
  <2>3. (main.silent \/ offer = "silent") \in BOOLEAN
    BY DEF MainType
  <2>. QED BY <2>1, <2>2, <2>3 DEF MainType, OfferType
<1>3. CASE EndOfProgress \/ Cancel \/ Lock
  BY <1>1, <1>3 DEF EndOfProgress, Cancel, Lock, MainType, OfferType
<1>4. CASE Save
  <2>1. UNCHANGED <<offer, signal, adder>>
    BY <1>4 DEF Save
  <2>2. CASE main' = [main EXCEPT !.pc = "failed"]
    BY <2>1, <2>2 DEF MainType, OfferType
  <2>3. ASSUME NEW i \in DOMAIN SaveOrder,
               main' = [main EXCEPT !.saved = main.saved \cup {SaveOrder[i]},
                                    !.pc = IF i = Len(SaveOrder) THEN "end" ELSE "save"]
        PROVE  MainType' /\ OfferType' /\ main'.pedantic = main.pedantic
    <3>1. main.saved \cup {SaveOrder[i]} \in SUBSET Range(SaveOrder)
      BY DEF MainType, Range
    <3>2. (IF i = Len(SaveOrder) THEN "end" ELSE "save") \in {"end", "save"}
      OBVIOUS
    <3>. QED BY <2>1, <2>3, <3>1, <3>2 DEF MainType, OfferType
  <2>. QED BY <1>4, <2>2, <2>3 DEF Save
<1>5. CASE Signal \/ Exit
  BY <1>1, <1>5 DEF Signal, Exit, MainType, OfferType
<1>. QED BY <1>2, <1>3, <1>4, <1>5 DEF Main

\* Every step keeps types.
LEMMA StepType ==
  ASSUME OtherTypes, ScanType, SendersType, [Next]_vars
  PROVE  OtherTypes'
<1>1. CASE UNCHANGED <<adder, fileVars, offer, snapshot, main, signal>> /\ found' \subseteq found \cup Paths
  BY <1>1 DEF OtherTypes, AdderType, Busy, FileType, OfferType, MainType, SnapshotType, fileVars
<1>2. CASE UNCHANGED vars
  BY <1>1, <1>2 DEF vars, fileVars
<1>3. CASE Scan
  <2>1. Find => Entry \in Paths
    BY EntryType DEF Find
  <2>. QED BY <1>1, <1>3, <2>1
       DEF Scan, PassOver, Find, FindFails, EndTarget, EndWalk, CloseScan
<1>4. ASSUME NEW s \in senders, Receive(s) PROVE OtherTypes'
  BY <1>4, ReceiveType
<1>5. ASSUME NEW s \in senders, Done(s) PROVE OtherTypes'
  BY <1>1, <1>5 DEF Done
<1>. QED BY <1>2, <1>3, <1>4, <1>5, AddType, MainKeepsType DEF Next, Work, Deliver

\* The types, and what is counted.
LEMMA TypesAndCounting == Spec => [](OtherTypes /\ CountingInv)
<1>1. OtherTypes /\ CountingInv /\ [Next]_vars => (OtherTypes /\ CountingInv)'
  BY StepType, StepCounting DEF CountingInv
<1>. QED BY <1>1, InitType, InitCounting, PTL DEF Spec

\* Type correctness.
THEOREM TypeCorrect == Spec => []TypeOK
<1>1. OtherTypes /\ CountingInv => TypeOK
  <2>. SUFFICES ASSUME OtherTypes, CountingInv PROVE TypeOK
    OBVIOUS
  <2>1. wg \in Nat /\ Len(scan.batch) < BatchSize
    BY FS_CardinalityType DEF CountingInv, CountInv
  <2>2. scan.pc \in {"walk", "wait", "end"} /\ scan.target \in 1 .. Len(Targets) + 1
    BY DEF CountingInv, ScanType
  <2>3. main.pc \in {"listen", "lock", "save"} \/ Over
    BY DEF OtherTypes, MainType, Over
  <2>. QED BY <2>1, <2>2, <2>3
       DEF OtherTypes, AdderType, FileType, OfferType, MainType, SnapshotType, TypeOK
<1>. QED BY <1>1, TypesAndCounting, PTL

-----------------------------------------------------------------------------
(* Who comes to the saves.                                                 *)

\* Only Listen changes what has been told, and only Save what is saved.
LEMMA StepMain ==
  ASSUME OtherTypes, MainInv, [Next]_vars
  PROVE  MainInv'
<1>1. CASE UNCHANGED main
  BY <1>1 DEF MainInv, StoreOptsPedantic
<1>2. CASE ~Over /\ main' \in {[main EXCEPT !.pc = "crashed"], [main EXCEPT !.pc = "failed"],
                              [main EXCEPT !.pc = "exited"]}
  BY <1>2 DEF Over, MainInv, StoreOptsPedantic, OtherTypes, MainType
<1>3. CASE Listen
  BY <1>3 DEF Listen, MainInv, StoreOptsPedantic, OtherTypes, MainType
<1>4. CASE EndOfProgress \/ Cancel \/ Lock
  BY <1>4 DEF EndOfProgress, Cancel, Lock, MainInv, StoreOptsPedantic, OtherTypes, MainType
<1>5. CASE Save
  <2>1. main.pc = "save" /\ ~Over
    BY <1>5 DEF Save, Over
  <2>2. ~(StoreOptsPedantic /\ main.told # {})
    BY <2>1 DEF MainInv
  <2>3. CASE main' = [main EXCEPT !.pc = "failed"]
    BY <1>2, <2>1, <2>3
  <2>4. ASSUME NEW i \in DOMAIN SaveOrder,
               main' = [main EXCEPT !.saved = main.saved \cup {SaveOrder[i]},
                                    !.pc = IF i = Len(SaveOrder) THEN "end" ELSE "save"]
        PROVE  MainInv'
    <3>1. main'.pc \in {"end", "save"} /\ UNCHANGED <<main.told, main.pedantic, main.command>>
      BY <2>4 DEF OtherTypes, MainType
    <3>. QED BY <2>2, <3>1 DEF MainInv, StoreOptsPedantic
  <2>. QED BY <1>5, <2>3, <2>4 DEF Save
<1>6. CASE ~Over /\ Exit
  BY <1>2, <1>6 DEF Exit
<1>7. CASE ~Over /\ (Scan \/ Deliver \/ Add \/ Signal)
  <2>1. UNCHANGED main \/ main' = [main EXCEPT !.pc = "crashed"]
    BY <1>7 DEF Scan, Deliver, Receive, Done, Add, Signal, PassOver, Find, FindFails, EndTarget,
       EndWalk, CloseScan, Open, OpenFails, TakeChunk, TakeError, EndOfFile, StoreChunk,
       StoreChunkFails, EndOfChunks, AddArchive, GoOn, EndOfResults
  <2>. QED BY <1>1, <1>2, <1>7, <2>1
<1>. QED BY <1>1, <1>3, <1>4, <1>5, <1>6, <1>7 DEF Next, Work, Main, vars

\* At the start nothing is saved or told.
LEMMA InitMain == Init => MainInv
<1>1. Init => main.pc = "listen" /\ main.told = {} /\ main.saved = {}
  BY DEF Init
<1>. QED BY <1>1 DEF MainInv

-----------------------------------------------------------------------------
(* What is found is saved, or was told.                                    *)

\* Who has still to receive what after a step of the walk or of a delivery.
LEMMA WaitingAfterWalk ==
  ASSUME CountingInv, Scan
  PROVE  /\ Waiting \subseteq Waiting'
         /\ \A p \in found' \ found : \E r \in Waiting' : r.good /\ r.path = p
<1>1. CASE UNCHANGED senders /\ scan'.batch = scan.batch /\ found' = found
  BY <1>1 DEF Waiting, Unreceived
<1>2. ASSUME NEW r \in Results, NEW next, Collect(r, next), next \in {NextEntry, NextTarget}
      PROVE  Waiting' = Waiting \cup {r}
  <2>. DEFINE batch == Append(scan.batch, r)
              new == [todo |-> batch, sent |-> FALSE]
  <2>1. scan.batch \in Seq(Results)
    BY DEF CountingInv, ScanType
  <2>2. Range(batch) = Range(scan.batch) \cup {r}
    BY <2>1, RangeOfAppend
  <2>. Range(<<>>) = {}
    BY DEF Range
  <2>3. Unreceived(new) = Range(batch)
    BY DEF Unreceived
  <2>4. \/ scan'.batch = <<>> /\ senders' = senders \cup {new}
        \/ scan'.batch = batch /\ senders' = senders
    BY <1>2 DEF Collect, NextEntry, NextTarget, CountingInv, ScanType
  <2>. HIDE DEF batch, new
  <2>5. \A s : Unreceived(s)' = Unreceived(s)
    BY DEF Unreceived
  <2>6. CASE scan'.batch = <<>> /\ senders' = senders \cup {new}
    BY <2>2, <2>3, <2>5, <2>6 DEF Waiting
  <2>7. CASE scan'.batch = batch /\ senders' = senders
    BY <2>2, <2>5, <2>7 DEF Waiting
  <2>. QED BY <2>4, <2>6, <2>7
<1>3. CASE PassOver \/ EndTarget \/ CloseScan
  BY <1>1, <1>3 DEF PassOver, EndTarget, CloseScan, NextEntry, NextTarget, CountingInv, ScanType
<1>4. CASE Find
  <2>1. CASE Entry \in Special
    BY <1>1, <1>4, <2>1 DEF Find, NextEntry, CountingInv, ScanType
  <2>2. CASE Entry \notin Special
    <3>1. HasEntry /\ Collect(Result(Entry, TRUE), NextEntry) /\ found' = found \cup {Entry}
      BY <1>4, <2>2 DEF Find
    <3>2. Result(Entry, TRUE) \in Results /\ Result(Entry, TRUE).good
          /\ Result(Entry, TRUE).path = Entry
      BY <3>1, EntryType, WalkingType, AddingOK DEF CountingInv, HasEntry, Result, Results
    <3>3. Waiting' = Waiting \cup {Result(Entry, TRUE)}
      BY <1>2, <3>1, <3>2
    <3>. QED BY <3>1, <3>2, <3>3
  <2>. QED BY <2>1, <2>2
<1>5. CASE FindFails
  <2>1. HasEntry /\ Collect(Result(None, FALSE), NextTarget) /\ found' = found
    BY <1>5 DEF FindFails
  <2>2. Result(None, FALSE) \in Results
    BY <2>1, EntryType, WalkingType, AddingOK DEF CountingInv, HasEntry, Result, Results
  <2>. QED BY <1>2, <2>1, <2>2
<1>6. CASE EndWalk
  <2>. DEFINE new == [todo |-> scan.batch, sent |-> FALSE]
  <2>1. Unreceived(new) = Range(scan.batch) /\ Range(<<>>) = {}
    BY DEF Unreceived, Range
  <2>2. scan'.batch = <<>> /\ found' = found
        /\ senders' = IF scan.batch = <<>> THEN senders ELSE senders \cup {new}
    BY <1>6 DEF EndWalk, CountingInv, ScanType
  <2>. HIDE DEF new
  <2>3. \A s : Unreceived(s)' = Unreceived(s)
    BY DEF Unreceived
  <2>4. CASE scan.batch = <<>>
    BY <2>2, <2>3, <2>4 DEF Waiting
  <2>5. CASE scan.batch # <<>>
    <3>1. Waiting' = UNION {Unreceived(s) : s \in senders \cup {new}}
      BY <2>1, <2>2, <2>3, <2>5 DEF Waiting
    <3>. QED BY <2>1, <2>2, <3>1 DEF Waiting
  <2>. QED BY <2>4, <2>5
<1>. QED BY <1>3, <1>4, <1>5, <1>6 DEF Scan

\* Only the result that is received is no longer waited for.
LEMMA WaitingAfterReceive ==
  ASSUME CountingInv, NEW s \in senders, Receive(s)
  PROVE  Waiting \subseteq Waiting' \cup {Head(s.todo)}
<1>. DEFINE new == [s EXCEPT !.sent = TRUE]
<1>1. s \in [todo : Seq(Results) \ {<<>>}, sent : BOOLEAN] /\ ~s.sent
  BY DEF CountingInv, SendersType, Receive
<1>2. new.todo = s.todo /\ new.sent
  BY <1>1
<1>3. Unreceived(s) = Range(s.todo) /\ Unreceived(new) = Range(Tail(s.todo))
  BY <1>1, <1>2 DEF Unreceived
<1>4. Range(s.todo) = {Head(s.todo)} \cup Range(Tail(s.todo))
  BY <1>1, RangeOfTail
<1>5. UNCHANGED scan /\ senders' = (senders \ {s}) \cup {new}
  BY DEF Receive
<1>. HIDE DEF new
<1>6. \A t : Unreceived(t)' = Unreceived(t)
  BY DEF Unreceived
<1>. QED BY <1>3, <1>4, <1>5, <1>6 DEF Waiting

\* What has been counted was received before.
LEMMA WaitingAfterDone ==
  ASSUME CountingInv, NEW s \in senders, Done(s)
  PROVE  Waiting \subseteq Waiting'
<1>. DEFINE new == [todo |-> Tail(s.todo), sent |-> FALSE]
<1>1. s \in [todo : Seq(Results) \ {<<>>}, sent : BOOLEAN] /\ s.sent
  BY DEF CountingInv, SendersType, Done
<1>2. Unreceived(s) = Range(Tail(s.todo)) /\ Unreceived(new) = Range(Tail(s.todo))
  BY <1>1 DEF Unreceived
<1>3. Len(s.todo) = 1 <=> Tail(s.todo) = <<>>
  BY <1>1, RangeOfTail
<1>4. UNCHANGED scan /\ senders' = (senders \ {s}) \cup (IF Len(s.todo) = 1 THEN {} ELSE {new})
      /\ Range(<<>>) = {}
  BY DEF Done, Range
<1>. HIDE DEF new
<1>5. \A t : Unreceived(t)' = Unreceived(t)
  BY DEF Unreceived
<1>6. CASE Len(s.todo) = 1
  <2>1. senders' = senders \ {s} /\ Unreceived(s) = {}
    BY <1>2, <1>3, <1>4, <1>6
  <2>. QED BY <1>4, <1>5, <2>1 DEF Waiting
<1>7. CASE Len(s.todo) # 1
  <2>1. senders' = (senders \ {s}) \cup {new}
    BY <1>4, <1>7
  <2>. QED BY <1>2, <1>4, <1>5, <2>1 DEF Waiting
<1>. QED BY <1>6, <1>7

\* The walk and the deliveries lose nothing.
LEMMA ScanLossless ==
  ASSUME CountingInv, Lossless, Scan
  PROVE  Lossless'
<1>. USE DEF Lossless
<1>1. UNCHANGED <<adder, fileVars, offer, snapshot, main>>
  BY DEF Scan, PassOver, Find, FindFails, EndTarget, EndWalk, CloseScan
<1>2. ChunksInv'
  BY <1>1 DEF ChunksInv, Reported, fileVars
<1>3. scan.pc = "end" => scan'.pc = "end"
  BY DEF Scan, PassOver, Find, FindFails, EndTarget, EndWalk, CloseScan, HasEntry, Walking
<1>4. GivenUpInv'
  BY <1>1, <1>3 DEF GivenUpInv, Excused, fileVars
<1>5. Excused' <=> Excused
  BY <1>1 DEF Excused
<1>6. \A p : Accounted(p) => Accounted(p)'
  BY <1>1, WaitingAfterWalk DEF Accounted, Busy, Complete
<1>7. \A p \in found' \ found : Accounted(p)'
  BY WaitingAfterWalk DEF Accounted
<1>. QED BY <1>2, <1>4, <1>5, <1>6, <1>7

\* A path that is received is worked on.
LEMMA ReceiveLossless ==
  ASSUME OtherTypes, CountingInv, Lossless, NEW s \in senders, Receive(s), main'.pc = "listen"
  PROVE  Lossless'
<1>. USE DEF Lossless
<1>1. Head(s.todo).good
  <2>1. [main EXCEPT !.pc = "crashed"].pc = "crashed"
    BY DEF OtherTypes, MainType
  <2>. QED BY <2>1 DEF Receive
<1>2. /\ adder.pc = "receive"
      /\ adder' = [pc |-> "begin", path |-> Head(s.todo).path] /\ offer' = "ok"
      /\ UNCHANGED <<scan, pending, consumer, archive, snapshot, main, found>>
  BY <1>1 DEF Receive, fileVars
<1>3. ChunksInv' /\ GivenUpInv'
  BY <1>2 DEF ChunksInv, GivenUpInv
<1>4. offer = "none"
  BY <1>2 DEF OtherTypes, OfferType
<1>5. Excused => Excused'
  BY <1>2, <1>4 DEF Excused
<1>6. ASSUME NEW p, Accounted(p) PROVE Accounted(p)'
  <2>1. CASE \E r \in Waiting : r.good /\ r.path = p
    <3>1. CASE Head(s.todo).path = p
      BY <1>2, <3>1 DEF Accounted, Busy
    <3>2. CASE Head(s.todo).path # p
      BY <2>1, <3>2, WaitingAfterReceive DEF Accounted
    <3>. QED BY <3>1, <3>2
  <2>2. CASE Complete(p) \/ p \in main.told
    BY <1>2, <2>2 DEF Accounted, Complete
  <2>. QED BY <1>2, <1>6, <2>1, <2>2 DEF Accounted, Busy
<1>. QED BY <1>2, <1>3, <1>5, <1>6

\* What has been counted was received before.
LEMMA DoneLossless ==
  ASSUME CountingInv, Lossless, NEW s \in senders, Done(s)
  PROVE  Lossless'
<1>. USE DEF Lossless
<1>1. UNCHANGED <<scan, adder, pending, consumer, archive, offer, snapshot, main, found>>
  BY DEF Done, fileVars
<1>2. ChunksInv' /\ GivenUpInv' /\ (Excused' <=> Excused)
  BY <1>1 DEF ChunksInv, Reported, GivenUpInv, Excused
<1>3. \A p : Accounted(p) => Accounted(p)'
  BY <1>1, WaitingAfterDone DEF Accounted, Busy, Complete
<1>. QED BY <1>1, <1>2, <1>3

\* What a step of Snapshot.Add that is not its last for a path leaves accounted.
LEMMA StillAccounted ==
  ASSUME Lossless, UNCHANGED <<scanVars, snapshot, main>>, Busy', adder'.path = adder.path,
         offer = "none" \/ offer' = offer
  PROVE  Excused' \/ \A p \in found' : Accounted(p)'
<1>1. Excused => Excused'
  BY DEF Excused
<1>2. Waiting' = Waiting /\ found' = found
  BY DEF Waiting, Unreceived, scanVars
<1>3. \A p : Accounted(p) => Accounted(p)'
  BY <1>2 DEF Accounted, Complete
<1>. QED BY <1>1, <1>2, <1>3 DEF Lossless

\* A path stays accounted for while its file is opened.
LEMMA OpenLossless ==
  ASSUME OtherTypes, Lossless, Open \/ OpenFails
  PROVE  Lossless'
<1>. USE DEF Lossless
<1>1. /\ adder.pc = "begin" /\ offer = "none" /\ archive = {}
      /\ UNCHANGED <<scan, senders, wg, snapshot, main>>
  BY DEF Open, OpenFails, May, scanVars, ChunksInv
<1>2. CASE adder.path \notin Files /\ Open
  <2>1. /\ adder'.pc = "add" /\ adder'.path = adder.path
        /\ UNCHANGED <<offer, fileVars, found>>
    BY <1>2 DEF Open, OtherTypes, AdderType
  <2>2. ChunksInv' /\ GivenUpInv'
    BY <1>2, <2>1 DEF ChunksInv, GivenUpInv, Files
  <2>. QED BY <1>1, <2>1, <2>2, StillAccounted DEF Busy, scanVars
<1>3. CASE /\ offer' = offer /\ adder' = [adder EXCEPT !.pc = "chunks"]
           /\ pending' = Stream!Chunks \cup {NumChunks}
           /\ consumer' = [NoFile(Pedantic) EXCEPT !.pc = "receive"]
           /\ UNCHANGED <<archive, found>>
  <2>1. adder'.pc = "chunks" /\ adder'.path = adder.path /\ consumer'.pc = "receive"
    BY <1>3 DEF OtherTypes, AdderType, NoFile
  <2>2. ChunksInv' /\ GivenUpInv'
    BY <1>3, <2>1 DEF ChunksInv, GivenUpInv, Stream!Chunks
  <2>. QED BY <1>1, <1>3, <2>1, <2>2, StillAccounted DEF Busy, scanVars
<1>4. CASE /\ offer' = offer /\ adder' = [pc |-> "receive", path |-> None]
           /\ found' = found \ {adder.path}
           /\ UNCHANGED fileVars
  <2>1. ChunksInv' /\ GivenUpInv'
    BY <1>1, <1>4 DEF ChunksInv, GivenUpInv, fileVars
  <2>2. Excused => Excused'
    BY <1>1, <1>4 DEF Excused
  <2>3. Waiting' = Waiting
    BY <1>1 DEF Waiting, Unreceived
  <2>4. \A p \in found' : Accounted(p) => Accounted(p)'
    BY <1>1, <1>4, <2>3 DEF Accounted, Busy, Complete
  <2>. QED BY <1>4, <2>1, <2>2, <2>4
<1>5. CASE OpenFails
  <2>1. /\ adder'.pc = (IF Pedantic THEN "stop" ELSE "failed") /\ adder'.path = adder.path
        /\ offer' = "error" /\ UNCHANGED <<scanVars, fileVars>>
    BY <1>5 DEF OpenFails, OtherTypes, AdderType
  <2>2. ChunksInv'
    BY <1>1, <2>1 DEF ChunksInv, Reported, fileVars
  <2>3. GivenUpInv'
    BY <1>1, <2>1 DEF GivenUpInv, Excused, Pedantic
  <2>. QED BY <1>1, <2>1, <2>2, <2>3, StillAccounted DEF Busy
<1>. QED BY <1>2, <1>3, <1>4, <1>5 DEF Open

\* No chunk gets lost without an error.
LEMMA ChunksLossless ==
  ASSUME OtherTypes, Lossless,
         TakeChunk \/ TakeError \/ EndOfFile \/ StoreChunk \/ StoreChunkFails \/ EndOfChunks
  PROVE  Lossless'
<1>. USE DEF Lossless
<1>1. /\ adder.pc = "chunks" /\ UNCHANGED <<scanVars, snapshot, main>>
      /\ adder'.path = adder.path /\ adder'.pc \in {"chunks", "add"}
      /\ offer = "none" \/ offer' = offer
  BY DEF TakeChunk, TakeError, EndOfFile, StoreChunk, StoreChunkFails, EndOfChunks, May,
     OtherTypes, AdderType
<1>2. Excused' \/ \A p \in found' : Accounted(p)'
  BY <1>1, StillAccounted DEF Busy
<1>3. Reported => Reported'
  BY <1>1 DEF Reported
<1>4. Excused => Excused'
  BY <1>1 DEF Excused
<1>. SUFFICES ChunksInv' /\ GivenUpInv'
  BY <1>2
<1>. DEFINE There(n) == n \in pending \/ n \in archive \/ (consumer.pc = "store" /\ consumer.chunk = n)
<1>5. Reported \/ \A n \in Stream!Chunks : There(n)
  BY <1>1 DEF ChunksInv
<1>6. consumer.pc = "stop" => Excused
  BY <1>1 DEF GivenUpInv
<1>7. CASE TakeChunk
  <2>1. PICK n \in pending \cap Stream!Chunks :
          /\ pending' = pending \ {n} /\ consumer' = [consumer EXCEPT !.pc = "store", !.chunk = n]
    BY <1>7 DEF TakeChunk, Stream!TakeChunk
  <2>2. consumer.pc = "receive" /\ UNCHANGED <<adder, archive>>
    BY <1>7 DEF TakeChunk, Stream!TakeChunk
  <2>3. consumer'.pc = "store" /\ consumer'.chunk = n
    BY <2>1 DEF OtherTypes, FileType
  <2>4. \A m \in Stream!Chunks : There(m) => There(m)'
    BY <2>1, <2>2, <2>3
  <2>5. ChunksInv'
    BY <1>1, <1>3, <1>5, <2>2, <2>4 DEF ChunksInv
  <2>. QED BY <1>1, <2>2, <2>3, <2>5 DEF GivenUpInv
<1>8. CASE TakeError
  <2>1. offer' = "silent" /\ UNCHANGED adder
    BY <1>8 DEF TakeError
  <2>. QED BY <1>1, <2>1 DEF ChunksInv, GivenUpInv, Reported, Excused
<1>9. CASE EndOfFile
  <2>1. pending' = pending \ {NumChunks} /\ UNCHANGED <<adder, consumer, archive>>
    BY <1>9 DEF EndOfFile, Stream!EndOfFile
  <2>2. \A n \in Stream!Chunks : There(n) => There(n)'
    BY <2>1, AddingOK DEF Stream!Chunks
  <2>3. ChunksInv'
    BY <1>1, <1>3, <1>5, <2>1, <2>2 DEF ChunksInv
  <2>. QED BY <1>1, <1>4, <1>6, <2>1, <2>3 DEF GivenUpInv
<1>10. CASE StoreChunk
  <2>1. /\ archive' = archive \cup {consumer.chunk} /\ consumer' = [consumer EXCEPT !.pc = "receive"]
        /\ UNCHANGED <<adder, pending>>
    BY <1>10 DEF StoreChunk, Stream!StoreChunk
  <2>2. consumer'.pc = "receive"
    BY <2>1 DEF OtherTypes, FileType
  <2>3. \A n \in Stream!Chunks : There(n) => There(n)'
    BY <2>1
  <2>4. ChunksInv'
    BY <1>1, <1>3, <1>5, <2>1, <2>3 DEF ChunksInv
  <2>. QED BY <1>1, <2>1, <2>2, <2>4 DEF GivenUpInv
<1>11. CASE StoreChunkFails
  <2>1. /\ offer' = "error" /\ UNCHANGED adder
        /\ consumer'.pc = (IF main.pedantic THEN "stop" ELSE "receive")
    BY <1>11 DEF StoreChunkFails, Stream!StoreChunkFails, OtherTypes, FileType
  <2>. QED BY <1>1, <2>1 DEF ChunksInv, GivenUpInv, Reported, Excused
<1>12. CASE EndOfChunks
  <2>1. /\ pending = {} /\ consumer.pc = "receive" /\ adder'.pc = "add" /\ UNCHANGED archive
    BY <1>12 DEF EndOfChunks, Stream!EndOfChunks, OtherTypes, AdderType
  <2>2. Reported \/ archive = Stream!Chunks
    BY <1>5, <2>1 DEF OtherTypes, FileType
  <2>3. ChunksInv'
    BY <1>1, <1>3, <2>1, <2>2 DEF ChunksInv
  <2>. QED BY <2>1, <2>3 DEF GivenUpInv
<1>. QED BY <1>7, <1>8, <1>9, <1>10, <1>11, <1>12

\* An archive that is put in the snapshot has all chunks of its file.
LEMMA ArchiveLossless ==
  ASSUME OtherTypes, Lossless, AddArchive
  PROVE  Lossless'
<1>. USE DEF Lossless
<1>1. /\ adder.pc = "add" /\ offer = "none" /\ adder.path \in Paths
      /\ adder' = [pc |-> "receive", path |-> None] /\ archive' = {}
      /\ snapshot' = [p \in DOMAIN snapshot \cup {adder.path} |->
                        IF p = adder.path THEN archive ELSE snapshot[p]]
      /\ UNCHANGED <<scanVars, offer, main>>
  BY DEF AddArchive, May, OtherTypes, AdderType, Busy
<1>2. ChunksInv' /\ GivenUpInv' /\ (Excused' <=> Excused)
  BY <1>1 DEF ChunksInv, GivenUpInv, Excused
<1>. SUFFICES ASSUME ~Excused, NEW p \in found PROVE Accounted(p)'
  BY <1>1, <1>2 DEF scanVars
<1>3. Accounted(p)
  OBVIOUS
<1>4. CASE p = adder.path
  <2>1. p \in Files => archive = Stream!Chunks \/ p \in main.told
    BY <1>1, <1>4 DEF ChunksInv, Reported, Excused
  <2>. QED BY <1>1, <1>4, <2>1 DEF Accounted, Complete
<1>5. CASE p # adder.path
  <2>1. Waiting' = Waiting
    BY <1>1 DEF Waiting, Unreceived, scanVars
  <2>2. Complete(p) => Complete(p)'
    BY <1>1, <1>5 DEF Complete
  <2>. QED BY <1>1, <1>3, <1>5, <2>1, <2>2 DEF Accounted
<1>. QED BY <1>4, <1>5

\* Snapshot.Add gives up after an error, and ends when there is nothing left.
LEMMA GoOnLossless ==
  ASSUME OtherTypes, Lossless, GoOn \/ EndOfResults
  PROVE  Lossless'
<1>. USE DEF Lossless
<1>1. offer = "none" /\ UNCHANGED <<scanVars, fileVars, offer, snapshot, main>>
  BY DEF GoOn, EndOfResults, May
<1>2. Excused' <=> Excused
  BY <1>1 DEF Excused
<1>3. Waiting' = Waiting /\ found' = found
  BY <1>1 DEF Waiting, Unreceived, scanVars
<1>4. \A p : Complete(p) => Complete(p)'
  BY <1>1 DEF Complete
<1>5. CASE adder.pc = "failed" /\ adder' = [pc |-> "receive", path |-> None]
  <2>1. ChunksInv' /\ GivenUpInv'
    BY <1>1, <1>5 DEF ChunksInv, GivenUpInv, fileVars
  <2>2. Excused \/ adder.path \in main.told
    BY <1>1, <1>5 DEF ChunksInv, Reported, Excused
  <2>. QED BY <1>1, <1>2, <1>3, <1>4, <2>1, <2>2 DEF Accounted
<1>6. CASE Excused /\ adder' = [pc |-> "end", path |-> None]
  BY <1>2, <1>6 DEF ChunksInv, GivenUpInv
<1>7. CASE adder.pc = "receive" /\ scan.pc = "end" /\ adder' = [adder EXCEPT !.pc = "end"]
  <2>1. adder'.pc = "end" /\ scan'.pc = "end"
    BY <1>1, <1>7 DEF OtherTypes, AdderType, scanVars
  <2>2. ChunksInv' /\ GivenUpInv'
    BY <2>1 DEF ChunksInv, GivenUpInv
  <2>3. \A p : Accounted(p) => Accounted(p)'
    BY <1>1, <1>3, <1>4, <1>7 DEF Accounted, Busy
  <2>. QED BY <1>2, <1>3, <2>2, <2>3
<1>. QED BY <1>5, <1>6, <1>7 DEF GoOn, EndOfResults, May, GivenUpInv

\* What store is told it remembers.
LEMMA ListenLossless ==
  ASSUME OtherTypes, Lossless, Listen
  PROVE  Lossless'
<1>. USE DEF Lossless
<1>1. /\ offer # "none" /\ UNCHANGED <<scanVars, adder, fileVars, snapshot>>
      /\ main'.told = (IF offer = "error" THEN main.told \cup {adder.path} ELSE main.told)
      /\ main'.silent = (main.silent \/ offer = "silent")
      /\ main'.pedantic = main.pedantic
  BY DEF Listen, OtherTypes, MainType
<1>2. (Reported => Reported') /\ (Excused => Excused')
  BY <1>1 DEF Reported, Excused
<1>3. ChunksInv'
  BY <1>1, <1>2 DEF ChunksInv, fileVars
<1>4. GivenUpInv'
  BY <1>1, <1>2 DEF GivenUpInv, fileVars, scanVars
<1>5. Waiting' = Waiting /\ found' = found
  BY <1>1 DEF Waiting, Unreceived, scanVars
<1>6. \A p : Accounted(p) => Accounted(p)'
  BY <1>1, <1>5 DEF Accounted, Busy, Complete
<1>. QED BY <1>2, <1>3, <1>4, <1>5, <1>6

\* Steps after which store does not listen.
LEMMA StopsListening ==
  ASSUME OtherTypes, EndOfProgress \/ Cancel \/ Lock \/ Save \/ Exit
  PROVE  main'.pc # "listen"
<1>1. CASE EndOfProgress \/ Cancel
  BY <1>1 DEF EndOfProgress, Cancel, OtherTypes, MainType
<1>2. CASE Lock
  BY <1>2 DEF Lock, OtherTypes, MainType
<1>3. CASE Save
  BY <1>3 DEF Save, OtherTypes, MainType
<1>4. CASE Exit
  BY <1>4 DEF Exit, OtherTypes, MainType
<1>. QED BY <1>1, <1>2, <1>3, <1>4

\* As long as store listens, every step is lossless.
LEMMA StepListen ==
  ASSUME OtherTypes, CountingInv, ListenInv, [Next]_vars
  PROVE  ListenInv'
<1>. SUFFICES ASSUME main'.pc = "listen" PROVE Lossless'
  BY DEF ListenInv
<1>1. main.pc = "listen"
  <2>1. [main EXCEPT !.pc = "crashed"].pc = "crashed"
    BY DEF OtherTypes, MainType
  <2>2. CASE UNCHANGED vars
    BY <2>2 DEF vars
  <2>3. CASE Scan \/ Deliver \/ Add \/ Signal
    <3>1. UNCHANGED main \/ main' = [main EXCEPT !.pc = "crashed"]
      BY <2>3 DEF Scan, Deliver, Receive, Done, Add, Signal, PassOver, Find, FindFails, EndTarget,
         EndWalk, CloseScan, Open, OpenFails, TakeChunk, TakeError, EndOfFile, StoreChunk,
         StoreChunkFails, EndOfChunks, AddArchive, GoOn, EndOfResults
    <3>. QED BY <2>1, <3>1
  <2>4. CASE Listen
    BY <2>4 DEF Listen
  <2>. QED BY <2>2, <2>3, <2>4, StopsListening DEF Next, Work, Main
<1>2. Lossless
  BY <1>1 DEF ListenInv
<1>3. CASE UNCHANGED <<scanVars, adder, fileVars, offer, snapshot, main>>
  BY <1>2, <1>3 DEF Lossless, ChunksInv, Reported, GivenUpInv, Excused, Accounted, Waiting,
     Unreceived, Busy, Complete, scanVars, fileVars
<1>4. CASE Scan
  BY <1>2, <1>4, ScanLossless
<1>5. CASE Deliver
  BY <1>2, <1>5, ReceiveLossless, DoneLossless DEF Deliver
<1>6. CASE Add
  BY <1>2, <1>6, OpenLossless, ChunksLossless, ArchiveLossless, GoOnLossless DEF Add
<1>7. CASE Listen
  BY <1>2, <1>7, ListenLossless
<1>8. ~(EndOfProgress \/ Cancel \/ Lock \/ Save \/ Exit)
  BY StopsListening
<1>9. UNCHANGED vars \/ Signal => UNCHANGED <<scanVars, adder, fileVars, offer, snapshot, main>>
  BY DEF vars, Signal, scanVars, fileVars
<1>. QED BY <1>3, <1>4, <1>5, <1>6, <1>7, <1>8, <1>9 DEF Next, Work, Main

\* Once it has all been reported or finished it stays so.
LEMMA StaysFinished ==
  ASSUME CountingInv, Finished, UNCHANGED <<adder, offer, snapshot>>,
         main'.silent = main.silent, main'.pedantic = main.pedantic, main'.told = main.told,
         Scan \/ UNCHANGED <<scan, found>>
  PROVE  Finished'
<1>1. scan.pc = "end" => UNCHANGED <<scan, found>>
  BY DEF Scan, PassOver, Find, FindFails, EndTarget, EndWalk, CloseScan, HasEntry, Walking
<1>. QED BY <1>1 DEF Finished, Complete

\* Everything that was found has been reported or finished when store stops
\* to listen and no signal has been sent.
LEMMA EndsFinished ==
  ASSUME OtherTypes, CountingInv, ListenInv, EndOfProgress
  PROVE  Finished'
<1>1. /\ main.pc = "listen" /\ adder.pc = "end" /\ offer = "none"
      /\ UNCHANGED <<scanVars, adder, offer, snapshot>>
      /\ main'.silent = main.silent /\ main'.pedantic = main.pedantic /\ main'.told = main.told
  BY DEF EndOfProgress, OtherTypes, MainType
<1>2. GivenUpInv /\ (Excused \/ \A p \in found : Accounted(p))
  BY <1>1 DEF ListenInv, Lossless
<1>3. Finished
  <2>1. CASE Excused
    BY <1>1, <2>1 DEF Excused, Finished
  <2>2. CASE ~Excused
    <3>1. scan.pc = "end"
      BY <1>1, <1>2, <2>2 DEF GivenUpInv
    <3>2. senders = {} /\ scan.batch = <<>>
      BY <3>1 DEF CountingInv, CountInv
    <3>3. Waiting = {}
      BY <3>2 DEF Waiting, Range
    <3>4. \A p \in found : Complete(p) \/ p \in main.told
      BY <1>1, <1>2, <2>2, <3>3 DEF Accounted, Busy
    <3>. QED BY <1>1, <3>1, <3>4 DEF Finished
  <2>. QED BY <2>1, <2>2
<1>. QED BY <1>1, <1>3, StaysFinished DEF scanVars

\* What is saved stays finished.
LEMMA StepSaving ==
  ASSUME OtherTypes, CountingInv, MainInv, ListenInv, SavingInv, [Next]_vars
  PROVE  SavingInv'
<1>. DEFINE Begun == (main.pc = "lock" /\ ~signal) \/ main.pc = "save" \/ main.saved # {}
<1>. SUFFICES ASSUME Begun' PROVE Finished'
  BY DEF SavingInv
<1>1. Begun => Finished
  BY DEF SavingInv
<1>2. CASE UNCHANGED vars
  BY <1>1, <1>2, StaysFinished DEF vars
<1>3. CASE Scan
  <2>1. UNCHANGED <<adder, offer, snapshot, main, signal>>
    BY <1>3 DEF Scan, PassOver, Find, FindFails, EndTarget, EndWalk, CloseScan
  <2>. QED BY <1>1, <1>3, <2>1, StaysFinished
<1>4. ASSUME NEW s \in senders, Receive(s) PROVE Finished'
  <2>1. adder.pc = "receive" /\ signal' = signal
    BY <1>4 DEF Receive
  <2>2. main'.saved = main.saved
        /\ (main'.pc = main.pc \/ main'.pc = "crashed")
    BY <1>4 DEF Receive, OtherTypes, MainType
  <2>. QED BY <1>1, <2>1, <2>2 DEF Finished
<1>5. ASSUME NEW s \in senders, Done(s) PROVE Finished'
  BY <1>1, <1>5, StaysFinished DEF Done
<1>6. CASE Add
  <2>1. Finished => FALSE
    BY <1>6 DEF Finished, Add, Open, OpenFails, TakeChunk, TakeError, EndOfFile, StoreChunk,
       StoreChunkFails, EndOfChunks, AddArchive, GoOn, EndOfResults, May
  <2>2. UNCHANGED <<main, signal>>
    BY <1>6 DEF Add, Open, OpenFails, TakeChunk, TakeError, EndOfFile, StoreChunk,
       StoreChunkFails, EndOfChunks, AddArchive, GoOn, EndOfResults
  <2>. QED BY <1>1, <2>1, <2>2
<1>7. CASE Listen
  <2>1. main.saved = {} /\ main'.saved = main.saved /\ main'.pc \in {"listen", "failed"}
    BY <1>7 DEF Listen, OtherTypes, MainType, MainInv
  <2>. QED BY <2>1
<1>8. CASE EndOfProgress
  BY <1>8, EndsFinished
<1>9. CASE Cancel
  <2>1. main.saved = {} /\ main'.saved = main.saved /\ main'.pc = "lock" /\ signal'
    BY <1>9 DEF Cancel, OtherTypes, MainType, MainInv
  <2>. QED BY <2>1
<1>10. CASE Lock
  <2>1. /\ main.saved = {} /\ main'.saved = main.saved
        /\ main.pc = "lock" /\ (main'.pc = IF signal THEN "end" ELSE "save")
        /\ main'.silent = main.silent /\ main'.pedantic = main.pedantic /\ main'.told = main.told
        /\ UNCHANGED <<adder, offer, snapshot, scan, found>>
    BY <1>10 DEF Lock, OtherTypes, MainType, MainInv, scanVars
  <2>. QED BY <1>1, <2>1, StaysFinished
<1>11. CASE Save
  <2>1. /\ main.pc = "save" /\ UNCHANGED <<adder, offer, snapshot, scan, found>>
        /\ main'.silent = main.silent /\ main'.pedantic = main.pedantic /\ main'.told = main.told
    BY <1>11 DEF Save, OtherTypes, MainType, scanVars
  <2>. QED BY <1>1, <2>1, StaysFinished
<1>12. CASE Signal
  BY <1>1, <1>12, StaysFinished DEF Signal, scanVars
<1>13. CASE ~Over /\ Exit
  <2>1. /\ main'.saved = main.saved /\ main'.pc = "exited"
        /\ main'.silent = main.silent /\ main'.pedantic = main.pedantic /\ main'.told = main.told
        /\ UNCHANGED <<adder, offer, snapshot, scan, found>>
    BY <1>13 DEF Exit, OtherTypes, MainType, scanVars
  <2>. QED BY <1>1, <2>1, StaysFinished
<1>. QED BY <1>2, <1>3, <1>4, <1>5, <1>6, <1>7, <1>8, <1>9, <1>10, <1>11, <1>12, <1>13
     DEF Next, Work, Deliver, Main

\* At the start nothing is found and nothing is saved.
LEMMA InitListen == Init => ListenInv /\ SavingInv
<1>. SUFFICES ASSUME Init PROVE ListenInv /\ SavingInv
  OBVIOUS
<1>1. main.pc = "listen" /\ main.saved = {} /\ adder.pc = "receive" /\ archive = {} /\ found = {}
  BY DEF Init
<1>. QED BY <1>1 DEF ListenInv, Lossless, SavingInv, ChunksInv, GivenUpInv

\* The inductive invariant.
LEMMA Invariant == Spec => []IInv
<1>1. Init => IInv
  BY InitType, InitCounting, InitMain, InitListen DEF IInv
<1>2. IInv /\ [Next]_vars => IInv'
  BY StepType, StepCounting, StepMain, StepListen, StepSaving DEF IInv, CountingInv
<1>. QED BY <1>1, <1>2, PTL DEF Spec

\* A snapshot that is saved, wholly or in part when a signal ends the process, has
\* all that was found, but for what was told; a pedantic store that was told of an
\* error saves nothing.
THEOREM SavedIsWhole == Spec => []SavedIsComplete
<1>1. OtherTypes /\ SavingInv /\ MainInv => SavedIsComplete
  <2>. SUFFICES ASSUME OtherTypes, SavingInv, MainInv, main.saved # {}, ~main.silent,
                       ~(Pedantic /\ main.command = "clone" /\ main.told # {}),
                       NEW p \in found \ main.told
                PROVE  Complete(p)
    BY DEF SavedIsComplete
  <2>1. Finished
    BY DEF SavingInv
  <2>2. ~(main.pedantic /\ main.told # {})
    BY DEF MainInv, StoreOptsPedantic, Pedantic, OtherTypes, MainType
  <2>. QED BY <2>1, <2>2 DEF Finished
<1>2. IInv => SavedIsComplete
  BY <1>1 DEF IInv
<1>. QED BY <1>2, Invariant, PTL
=============================================================================
