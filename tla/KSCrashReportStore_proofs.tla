----------------------- MODULE KSCrashReportStore_proofs -----------------------
(***************************************************************************)
(* Proofs about the report store, for any number of threads, reports and   *)
(* launches.                                                               *)
(*                                                                         *)
(* Three things are inductive together: where files and their serials may  *)
(* be (FileInv, CrashInv), what a send that saw no change in the directory *)
(* still has to read or has handed over (SendInv), and how far identifiers *)
(* have come (IDInv), on which it rests that reports are as old as their   *)
(* identifiers say (OrderInv), and that pruning takes the oldest           *)
(* (PruneInv).                                                             *)
(***************************************************************************)
EXTENDS KSCrashReportStore, FiniteSetTheorems, SequenceTheorems, TLAPS

Files == [id : Nat, ext : {"json", "old"}, serial : Nat]
Values(q) == {q[i] : i \in 1 .. Len(q)}

Sends == [pc : Steps, file : Seq(Nat), count : Nat, ids : Seq(Nat), loaded : SUBSET Nat,
          torn : SUBSET Nat, victims : SUBSET Files, since : Nat, changed : BOOLEAN]
Crashes == [pc : {"none", "writing", "renamed", "embedding", "closing", "done"}, file : Seq(Files)]
Lost == [id : Nat, serial : Nat, since : Nat, torn : BOOLEAN, changed : BOOLEAN]
Histories == [launches : Nat, serial : Nat, pruned : SUBSET Nat, sent : SUBSET Nat,
              lost : SUBSET Lost, crashed : Nat, started : Nat, back : BOOLEAN]

StoreTypes ==
  /\ app \in {"dead", "pruning", "running", "crashing"} /\ now \in 1 .. MaxNow
  /\ g_nextUniqueID \in [high : Nat, low : 0 .. LowSize - 1]
  /\ dir \in SUBSET Files /\ done \in SUBSET Nat /\ doomed \in Seq(Nat)
  /\ send \in [Senders -> Sends] /\ crash \in Crashes /\ hist \in Histories
  /\ hist.serial <= MaxSerial

\* One name, one file; a report is in one file, but while a recrash has its old
\* one aside; and what is aside was never written to its end.
FileInv ==
  /\ IsFiniteSet(dir)
  /\ \A f, g \in dir : f.id = g.id /\ f.ext = g.ext => f = g
  /\ \A f \in dir : f.serial \in 1 .. hist.serial
  /\ done \subseteq 1 .. hist.serial /\ hist.sent \subseteq done
  /\ \A f, g \in dir : f.serial = g.serial /\ f # g => f.serial \notin done
  /\ \A f \in dir : f.ext = "old" => f.serial \notin done

\* Nobody sends, reports or prunes where there is no one to do it.
StageInv ==
  /\ app \in {"dead", "pruning"} => send = [s \in Senders |-> Quiet]
  /\ app = "crashing" <=> crash.pc # "none"
  /\ app # "pruning" => doomed = <<>>

\* Where the crash's report is, at each step of writing it.
CrashInv ==
  crash.pc # "none" =>
    /\ Len(crash.file) = 1 /\ Crashed.ext = "json" /\ Crashed.serial \in 1 .. hist.serial
    /\ crash.pc # "done" => Crashed.serial \notin done
    /\ crash.pc \in {"writing", "embedding", "closing"} => Crashed \in dir
    /\ crash.pc \in {"writing", "closing"} => \A f \in dir : f.serial = Crashed.serial => f = Crashed
    /\ crash.pc = "renamed" => /\ OldFile \in dir /\ ~Exists(Crashed.id, "json")
                               /\ \A f \in dir : f.serial = Crashed.serial => f = OldFile
    /\ crash.pc = "embedding" => \A f \in dir : f.serial = Crashed.serial => f \in {Crashed, OldFile}

\* A report a thread is writing is in one file, and not set aside.
WritingInv(s) ==
  send[s].pc = "writing" =>
    /\ Len(send[s].file) = 1 /\ Head(send[s].file) \in 1 .. hist.serial
    /\ \A f \in dir : f.serial = Head(send[s].file) => f.ext = "json"
    /\ \A f, g \in dir : f.serial = Head(send[s].file) /\ g.serial = Head(send[s].file) => f = g

\* A send that saw no change still counts right; then what it counted it has read
\* or will read; and then has handed over, or read too early.
Covered(s, f) ==
  CASE send[s].pc = "reading"  -> f.id \in Values(send[s].ids) \/ f.serial \in send[s].loaded \cup send[s].torn
    [] send[s].pc = "deleting" -> f.serial \in hist.sent \cup send[s].torn
    [] OTHER -> TRUE
SendingInv(s) ==
  /\ send[s].since <= hist.serial /\ send[s].loaded \subseteq done
  /\ ~send[s].changed =>
       /\ send[s].pc = "counted" => send[s].count = Cardinality(Counted)
       /\ \A f \in Counted : f.ext = "json" /\ f.serial <= send[s].since => Covered(s, f)
SendInv == app = "running" => \A s \in Senders : WritingInv(s) /\ SendingInv(s)

\* How many identifiers a launch has used; its files come after all others, as
\* long as the identifiers of each launch begin after those of the last one.
Start(second) == initializeIDs(second).low
Used == NextID - Start(hist.started)
IDInv ==
  /\ app \in {"running", "crashing"} =>
       /\ hist.started # 0 /\ Used \in 0 .. hist.serial
       /\ g_nextUniqueID.high = 0 /\ g_nextUniqueID.low + Block <= LowSize + Used
       /\ ~hist.back => \A f \in dir : f.id < NextID
  /\ app \in {"dead", "pruning"} =>
       /\ hist.started = 0 => dir = {}
       /\ ~hist.back => \A f \in dir : f.id < Start(hist.started) + Block
  /\ app = "pruning" /\ ~hist.back => ~NotAfterLast

\* So files are as old as their identifiers say.
OrderInv == ~hist.back => \A f, g \in dir : f.id < g.id => f.serial < g.serial

\* A finished crash is stored, in its process and after it.
StoredInv ==
  ~hist.back =>
    /\ crash.pc = "done" => Crashed.serial \in done /\ \E f \in dir : f.serial = Crashed.serial
    /\ app = "dead" /\ hist.crashed # 0 =>
         hist.crashed \in done /\ \E f \in dir : f.serial = hist.crashed

\* What will be pruned has smaller identifiers than what is counted and kept, and
\* what was pruned is older.
PruneInv ==
  app = "pruning" =>
    \A f \in Counted : f.ext = "json" /\ f.id \notin Values(doomed) =>
      /\ \A id \in Values(doomed) : id < f.id
      /\ ~hist.back => \A serial \in hist.pruned : serial < f.serial

\* The inductive invariant.
StoreInv ==
  /\ StoreTypes /\ FileInv /\ StageInv /\ CrashInv /\ SendInv /\ IDInv /\ OrderInv
  /\ StoredInv /\ PruneInv /\ LostOnlyInARace

-----------------------------------------------------------------------------
(* Types *)

\* Replacing what one thread does leaves the others alone.
LEMMA OneSender ==
  ASSUME NEW sends \in [Senders -> Sends], NEW s \in Senders, NEW r \in Sends
  PROVE  /\ [sends EXCEPT ![s] = r] \in [Senders -> Sends]
         /\ [sends EXCEPT ![s] = r][s] = r
         /\ \A u \in Senders : u # s => [sends EXCEPT ![s] = r][u] = sends[u]
OBVIOUS

LEMMA QuietIsASend == Quiet \in Sends
<1>1. <<>> \in Seq(Nat)
  BY EmptySeq
<1> QED BY <1>1 DEF Quiet, Sends, Steps, Files

\* A change in the directory is noted by those who have counted, and by nobody else.
LEMMA ChangedSends ==
  ASSUME send \in [Senders -> Sends]
  PROVE  /\ Changed(send) \in [Senders -> Sends]
         /\ \A s \in Senders :
              /\ send[s].pc # "counted" => Changed(send)[s] = send[s]
              /\ send[s].pc = "counted" => Changed(send)[s] = [send[s] EXCEPT !.changed = TRUE]
              /\ send[s].pc = "counted" => Changed(send)[s].pc = "counted" /\ Changed(send)[s].changed
<1>1. ASSUME NEW s \in Senders
      PROVE  [send[s] EXCEPT !.changed = TRUE] \in Sends
  BY DEF Sends
<1>2. \A s \in Senders : Changed(send)[s] = IF send[s].pc = "counted" THEN [send[s] EXCEPT !.changed = TRUE]
                                            ELSE send[s]
  BY DEF Changed
<1>3. Changed(send) \in [Senders -> Sends]
  BY <1>1 DEF Changed
<1>4. ASSUME NEW s \in Senders
      PROVE  [send[s] EXCEPT !.changed = TRUE].pc = send[s].pc /\ [send[s] EXCEPT !.changed = TRUE].changed
  BY DEF Sends
<1> QED BY <1>2, <1>3, <1>4

\* The record of a sender, with the fields of a step replaced.
LEMMA SendFields ==
  ASSUME NEW r \in Sends
  PROVE  /\ \A p \in Steps : [r EXCEPT !.pc = p] \in Sends
         /\ r.pc \in Steps /\ r.file \in Seq(Nat) /\ r.count \in Nat /\ r.ids \in Seq(Nat)
         /\ r.loaded \in SUBSET Nat /\ r.torn \in SUBSET Nat /\ r.victims \in SUBSET Files
         /\ r.since \in Nat /\ r.changed \in BOOLEAN
BY DEF Sends

\* Identifiers are numbers.
LEMMA NextIDType ==
  ASSUME StoreTypes
  PROVE  /\ NextID \in Nat /\ NextID = g_nextUniqueID.high + g_nextUniqueID.low
         /\ hist.serial \in Nat /\ hist.serial + 1 \in Nat
         /\ File(NextID, "json", hist.serial + 1) \in Files
         /\ File(NextID, "json", hist.serial + 1).id = NextID
         /\ File(NextID, "json", hist.serial + 1).ext = "json"
         /\ File(NextID, "json", hist.serial + 1).serial = hist.serial + 1
<1>1. NextID \in Nat
  BY StoreAssumption DEF StoreTypes, NextID
<1>2. hist.serial \in Nat
  BY DEF StoreTypes, Histories
<1> QED BY <1>1, <1>2 DEF File, Files, NextID

LEMMA NextIDTypes ==
  ASSUME StoreTypes, getNextUniqueID
  PROVE  g_nextUniqueID' \in [high : Nat, low : 0 .. LowSize - 1]
<1>1. LowSize \in Nat \ {0} /\ g_nextUniqueID.low \in Nat /\ g_nextUniqueID.high \in Nat
  BY StoreAssumption DEF StoreTypes
<1>2. (g_nextUniqueID.low + 1) % LowSize \in 0 .. LowSize - 1
  BY <1>1
<1> QED BY <1>2 DEF StoreTypes, getNextUniqueID

\* The directory stays one of files.
LEMMA BeginTypes ==
  ASSUME StoreTypes, Begin(hist.serial + 1)
  PROVE  /\ dir' \in SUBSET Files /\ g_nextUniqueID' \in [high : Nat, low : 0 .. LowSize - 1]
         /\ hist.serial + 1 <= MaxSerial
BY NextIDType, NextIDTypes DEF Begin, StoreTypes

-----------------------------------------------------------------------------
(* The order of the identifiers *)

OneName(files) == \A f, g \in files : f.id = g.id /\ f.ext = g.ext => f = g
Before(files, f) == {g \in files : ById(g, f)}
Rank(files, f) == Cardinality(Before(files, f))

\* Two files with different names are one before the other.
LEMMA FilesInOrder ==
  ASSUME NEW files \in SUBSET Files, OneName(files)
  PROVE  /\ \A f \in files : ~ById(f, f)
         /\ \A f, g \in files : f # g => ById(f, g) \/ ById(g, f)
         /\ \A f, g, h \in files : ById(f, g) /\ ById(g, h) => ById(f, h)
<1>1. \A f \in files : f.id \in Nat /\ f.ext \in {"json", "old"}
  BY DEF Files
<1>2. \A f \in files : ~ById(f, f)
  BY <1>1 DEF ById
<1>3. \A f, g \in files : f # g => ById(f, g) \/ ById(g, f)
  BY <1>1 DEF ById, OneName
<1>4. ASSUME NEW f \in files, NEW g \in files, NEW h \in files, ById(f, g), ById(g, h)
      PROVE  ById(f, h)
  BY <1>1, <1>4 DEF ById
<1> QED BY <1>2, <1>3, <1>4

LEMMA RankBelow ==
  ASSUME NEW files \in SUBSET Files, IsFiniteSet(files), OneName(files), NEW f \in files
  PROVE  /\ Rank(files, f) \in 0 .. Cardinality(files) - 1
         /\ \A g \in files : ById(f, g) => Rank(files, f) < Rank(files, g)
<1>1. IsFiniteSet(files \ {f}) /\ Cardinality(files \ {f}) = Cardinality(files) - 1
  BY FS_RemoveElement
<1>2. Cardinality(files) \in Nat
  BY FS_CardinalityType
<1>3. Before(files, f) \in SUBSET (files \ {f})
  BY FilesInOrder DEF Before
<1>4. /\ IsFiniteSet(Before(files, f)) /\ Rank(files, f) \in Nat
      /\ Rank(files, f) <= Cardinality(files \ {f})
  BY <1>1, <1>3, FS_Subset, FS_CardinalityType DEF Rank
<1>5. ASSUME NEW g \in files, ById(f, g)
      PROVE  Rank(files, f) < Rank(files, g)
  <2>1. Before(files, g) \in SUBSET files
    BY DEF Before
  <2>2. IsFiniteSet(Before(files, g))
    BY <2>1, FS_Subset
  <2>3. Before(files, f) \cup {f} \in SUBSET Before(files, g)
    BY <1>5, FilesInOrder DEF Before
  <2>4. f \notin Before(files, f)
    BY <1>3
  <2>5. Cardinality(Before(files, f) \cup {f}) = Rank(files, f) + 1
    BY <1>4, <2>4, FS_AddElement DEF Rank
  <2>6. Cardinality(Before(files, f) \cup {f}) <= Rank(files, g) /\ Rank(files, g) \in Nat
    BY <2>2, <2>3, FS_Subset, FS_CardinalityType DEF Rank
  <2> QED BY <2>5, <2>6, <1>4
<1> QED BY <1>1, <1>2, <1>4, <1>5

\* Every place in the order has one file.
LEMMA EveryRank ==
  ASSUME NEW files \in SUBSET Files, IsFiniteSet(files), OneName(files)
  PROVE  /\ Cardinality(files) \in Nat
         /\ \A i \in 1 .. Cardinality(files) : \E f \in files : Rank(files, f) = i - 1
         /\ \A f, g \in files : Rank(files, f) = Rank(files, g) => f = g
<1> DEFINE N == Cardinality(files)
           R == [f \in files |-> Rank(files, f)]
<1>1. N \in Nat
  BY FS_CardinalityType
<1>2. \A f \in files : Rank(files, f) \in 0 .. N - 1
  BY RankBelow
<1>3. \A f, g \in files : Rank(files, f) = Rank(files, g) => f = g
  <2> SUFFICES ASSUME NEW f \in files, NEW g \in files, Rank(files, f) = Rank(files, g), f # g
               PROVE  FALSE
    OBVIOUS
  <2>1. ById(f, g) \/ ById(g, f)
    BY FilesInOrder
  <2>2. Rank(files, f) < Rank(files, g) \/ Rank(files, g) < Rank(files, f)
    BY <2>1, RankBelow
  <2> QED BY <2>2, <1>1, <1>2
<1>4. R \in [files -> 0 .. N - 1] /\ \A f, g \in files : R[f] = R[g] => f = g
  BY <1>2, <1>3
<1>5. R \in Injection(files, 0 .. N - 1)
  BY <1>4 DEF Injection, IsInjective
<1>6. IsFiniteSet(0 .. N - 1) /\ Cardinality(0 .. N - 1) = N
  <2>1. 0 \in Int /\ N - 1 \in Int
    BY <1>1
  <2>2. IsFiniteSet(0 .. N - 1) /\ Cardinality(0 .. N - 1) = IF 0 > N - 1 THEN 0 ELSE (N - 1) - 0 + 1
    BY <2>1, FS_Interval
  <2> QED BY <2>2, <1>1
<1> HIDE DEF N, R
<1>7. R \in Surjection(files, 0 .. N - 1)
  BY <1>5, <1>6, FS_Injection DEF N
<1>8. \A k \in 0 .. N - 1 : \E f \in files : R[f] = k
  BY <1>7 DEF Surjection
<1>9. ASSUME NEW i \in 1 .. N PROVE \E f \in files : Rank(files, f) = i - 1
  <2>1. i - 1 \in 0 .. N - 1
    BY <1>1
  <2> QED BY <2>1, <1>8 DEF R
<1> QED BY <1>1, <1>3, <1>9 DEF N

\* The sorted identifiers are those of the files, from the first to the last.
LEMMA SortedInOrder ==
  ASSUME NEW files \in SUBSET Files, IsFiniteSet(files), OneName(files)
  PROVE  /\ SortedIDs(files) \in Seq(Nat) /\ Len(SortedIDs(files)) = Cardinality(files)
         /\ \A i \in 1 .. Cardinality(files) :
              \E f \in files : Rank(files, f) = i - 1 /\ SortedIDs(files)[i] = f.id
         /\ \A f \in files : /\ Rank(files, f) + 1 \in 1 .. Cardinality(files)
                             /\ SortedIDs(files)[Rank(files, f) + 1] = f.id
<1> DEFINE N == Cardinality(files)
           At(i) == CHOOSE f \in files : Rank(files, f) = i - 1
<1>1. N \in Nat
  BY FS_CardinalityType
<1>2. \A i \in 1 .. N : At(i) \in files /\ Rank(files, At(i)) = i - 1
  BY EveryRank
<1>3. SortedIDs(files) = [i \in 1 .. N |-> At(i).id]
  BY DEF SortedIDs, Rank, Before
<1>4. \A i \in 1 .. N : SortedIDs(files)[i] = At(i).id /\ At(i).id \in Nat
  BY <1>2, <1>3 DEF Files
<1>5. SortedIDs(files) \in [1 .. N -> Nat]
  BY <1>3, <1>4
<1>6. SortedIDs(files) \in Seq(Nat) /\ Len(SortedIDs(files)) = N
  <2>1. SortedIDs(files) \in Seq(Nat)
    BY <1>1, <1>5, SeqDef
  <2>2. DOMAIN SortedIDs(files) = 1 .. Len(SortedIDs(files)) /\ Len(SortedIDs(files)) \in Nat
    BY <2>1, LenProperties
  <2>3. DOMAIN SortedIDs(files) = 1 .. N
    BY <1>5
  <2> QED BY <2>1, <2>2, <2>3, <1>1
<1> HIDE DEF N, At
<1>7. ASSUME NEW f \in files
      PROVE  Rank(files, f) + 1 \in 1 .. N /\ SortedIDs(files)[Rank(files, f) + 1] = f.id
  <2>1. Rank(files, f) \in 0 .. N - 1
    BY RankBelow DEF N
  <2>2. Rank(files, f) + 1 \in 1 .. N /\ (Rank(files, f) + 1) - 1 = Rank(files, f)
    BY <2>1, <1>1
  <2>3. At(Rank(files, f) + 1) \in files /\ Rank(files, At(Rank(files, f) + 1)) = Rank(files, f)
    BY <2>2, <1>2
  <2>4. At(Rank(files, f) + 1) = f
    BY <2>3, EveryRank
  <2> QED BY <2>2, <2>4, <1>4
<1> QED BY <1>2, <1>4, <1>6, <1>7 DEF N

\* What is first in the order has identifiers below those of every finished
\* report that is not among it.
LEMMA OldestFirst ==
  ASSUME NEW files \in SUBSET Files, IsFiniteSet(files), OneName(files),
         NEW n \in 0 .. Cardinality(files)
  PROVE  LET oldest == SubSeq(SortedIDs(files), 1, n)
         IN /\ oldest \in Seq(Nat) /\ Len(oldest) = n
            /\ \A i \in 1 .. n : oldest[i] = SortedIDs(files)[i]
            /\ \A f \in files : f.ext = "json" /\ f.id \notin Values(oldest) =>
                 \A id \in Values(oldest) : id < f.id
<1> DEFINE ids == SortedIDs(files)
           oldest == SubSeq(ids, 1, n)
<1>1. Cardinality(files) \in Nat /\ n \in Nat /\ n <= Cardinality(files)
  BY FS_CardinalityType
<1>2. ids \in Seq(Nat) /\ Len(ids) = Cardinality(files)
  BY SortedInOrder
<1> HIDE DEF ids
<1>3. oldest \in Seq(Nat) /\ Len(oldest) = n /\ \A i \in 1 .. n : oldest[i] = ids[i]
  <2>1. /\ 1 \in Int /\ n \in Int /\ \A i \in 1 .. n : ids[i] \in Nat
        /\ n - 1 + 1 = n /\ \A i \in 1 .. n : 1 + i - 1 = i
    BY <1>1, <1>2, ElementOfSeq
  <2>2. /\ oldest \in Seq(Nat) /\ Len(oldest) = IF 1 <= n THEN n - 1 + 1 ELSE 0
        /\ \A i \in 1 .. n - 1 + 1 : oldest[i] = ids[1 + i - 1]
    BY <2>1, SubSeqProperties
  <2> QED BY <2>1, <2>2, <1>1
<1> HIDE DEF oldest
<1>4. Values(oldest) = {ids[i] : i \in 1 .. n}
  BY <1>3 DEF Values
<1>5. ASSUME NEW f \in files, f.ext = "json", f.id \notin Values(oldest), NEW i \in 1 .. n
      PROVE  ids[i] < f.id
  <2>1. PICK g \in files : Rank(files, g) = i - 1 /\ ids[i] = g.id
    <3>1. i \in 1 .. Cardinality(files)
      BY <1>1
    <3> QED BY <3>1, SortedInOrder DEF ids
  <2>2. /\ Rank(files, f) + 1 \in 1 .. Cardinality(files) /\ ids[Rank(files, f) + 1] = f.id
        /\ Rank(files, f) \in Nat
    BY SortedInOrder, RankBelow DEF ids
  <2>3. ~(Rank(files, f) + 1 \in 1 .. n)
    BY <2>2, <1>4, <1>5
  <2>4. Rank(files, g) < Rank(files, f)
    BY <2>1, <2>2, <2>3, <1>1
  <2>5. f # g /\ ~ById(f, g)
    <3>1. ById(f, g) => Rank(files, f) < Rank(files, g)
      BY RankBelow
    <3> QED BY <3>1, <2>1, <2>2, <2>4
  <2>6. ById(g, f)
    BY <2>5, FilesInOrder
  <2> QED BY <2>1, <2>6, <1>5 DEF ById
<1> QED BY <1>3, <1>4, <1>5 DEF ids, oldest

\* What a list has is its head and what its tail has.
LEMMA ValuesOfTail ==
  ASSUME NEW ids \in Seq(Nat), ids # <<>>
  PROVE  /\ Tail(ids) \in Seq(Nat) /\ Head(ids) \in Values(ids) /\ Values(Tail(ids)) \subseteq Values(ids)
         /\ \A id \in Values(ids) : id = Head(ids) \/ id \in Values(Tail(ids))
<1>1. /\ Tail(ids) \in Seq(Nat) /\ Len(Tail(ids)) = Len(ids) - 1 /\ Len(ids) \in Nat \ {0}
      /\ \A i \in 1 .. Len(Tail(ids)) : Tail(ids)[i] = ids[i + 1]
      /\ Head(ids) = ids[1]
  BY HeadTailProperties, LenProperties, EmptySeq
<1>2. ASSUME NEW i \in 1 .. Len(ids), i # 1
      PROVE  i - 1 \in 1 .. Len(Tail(ids)) /\ Tail(ids)[i - 1] = ids[i]
  <2>1. i - 1 \in 1 .. Len(Tail(ids)) /\ (i - 1) + 1 = i
    BY <1>1, <1>2
  <2> QED BY <2>1, <1>1
<1>3. \A id \in Values(ids) : id = Head(ids) \/ id \in Values(Tail(ids))
  BY <1>1, <1>2 DEF Values
<1>4. Head(ids) \in Values(ids)
  <2>1. 1 \in 1 .. Len(ids)
    BY <1>1
  <2> QED BY <2>1, <1>1 DEF Values
<1>5. ASSUME NEW i \in 1 .. Len(Tail(ids)) PROVE Tail(ids)[i] \in Values(ids)
  <2>1. i + 1 \in 1 .. Len(ids)
    BY <1>1
  <2> QED BY <2>1, <1>1 DEF Values
<1> QED BY <1>1, <1>3, <1>4, <1>5 DEF Values
\* What is counted is some of the files.
LEMMA CountedFiles ==
  ASSUME StoreTypes, FileInv
  PROVE  /\ Counted \in SUBSET dir /\ Counted \in SUBSET Files
         /\ IsFiniteSet(Counted) /\ Cardinality(Counted) \in Nat /\ OneName(Counted)
<1>1. Counted \in SUBSET dir
  BY DEF Counted
<1>2. IsFiniteSet(Counted) /\ Cardinality(Counted) \in Nat
  BY <1>1, FS_Subset, FS_CardinalityType DEF FileInv
<1> QED BY <1>1, <1>2 DEF StoreTypes, FileInv, OneName

-----------------------------------------------------------------------------
(* Every step keeps the types *)

\* The history with some of its fields replaced.
LEMMA HistFields ==
  ASSUME StoreTypes
  PROVE  /\ hist.launches \in Nat /\ hist.serial \in Nat /\ hist.pruned \in SUBSET Nat
         /\ hist.sent \in SUBSET Nat /\ hist.lost \in SUBSET Lost /\ hist.crashed \in Nat
         /\ hist.started \in Nat /\ hist.back \in BOOLEAN /\ MaxSerial \in Nat
BY StoreAssumption DEF StoreTypes, Histories

\* Only the number of reports grows.
LEMMA SerialUp ==
  ASSUME StoreTypes, hist' = [hist EXCEPT !.serial = @ + 1]
  PROVE  /\ hist' \in Histories /\ hist'.serial = hist.serial + 1
         /\ hist'.launches = hist.launches /\ hist'.pruned = hist.pruned /\ hist'.sent = hist.sent
         /\ hist'.lost = hist.lost /\ hist'.crashed = hist.crashed /\ hist'.started = hist.started
         /\ hist'.back = hist.back
<1>1. hist \in Histories /\ hist.serial + 1 \in Nat
  BY HistFields DEF StoreTypes
<1> QED BY <1>1 DEF Histories

LEMMA TypesStart == Init => StoreTypes
<1> SUFFICES ASSUME Init PROVE StoreTypes
  OBVIOUS
<1>1. <<>> \in Seq(Nat) /\ <<>> \in Seq(Files)
  BY EmptySeq
<1>2. send \in [Senders -> Sends]
  BY QuietIsASend DEF Init
<1>3. crash \in Crashes
  BY <1>1 DEF Init, NoCrash, Crashes
<1>4. hist \in Histories /\ hist.serial <= MaxSerial
  BY StoreAssumption DEF Init, Histories, Lost
<1>5. g_nextUniqueID \in [high : Nat, low : 0 .. LowSize - 1]
  BY StoreAssumption DEF Init
<1> QED BY <1>1, <1>2, <1>3, <1>4, <1>5, StoreAssumption DEF Init, StoreTypes

LEMMA PruningTypes ==
  ASSUME StoreTypes, FileInv, pruneReports \/ pruneOne \/ startIDs
  PROVE  StoreTypes'
<1>1. CASE pruneReports
  <2>1. /\ Cardinality(Counted) \in Nat /\ OneName(Counted) /\ g_maxReportCount \in Nat
        /\ IsFiniteSet(Counted) /\ Counted \in SUBSET Files
    BY StoreAssumption, CountedFiles
  <2>2. doomed' \in Seq(Nat)
    <3> DEFINE n == Cardinality(Counted) - g_maxReportCount
    <3>1. doomed' = IF n > 0 THEN SubSeq(SortedIDs(Counted), 1, n) ELSE <<>>
      BY <1>1 DEF pruneReports
    <3>2. n > 0 => n \in 0 .. Cardinality(Counted)
      BY <2>1
    <3> HIDE DEF n
    <3>3. n > 0 => SubSeq(SortedIDs(Counted), 1, n) \in Seq(Nat)
      BY <3>2, <2>1, OldestFirst
    <3> QED BY <3>1, <3>3, EmptySeq
  <2>3. hist' \in Histories /\ hist'.serial = hist.serial
    <3> DEFINE back == hist.back \/ NotAfterLast
    <3>1. hist \in Histories /\ hist.launches + 1 \in Nat /\ back \in BOOLEAN
      BY HistFields DEF StoreTypes
    <3>2. hist' = [hist EXCEPT !.launches = @ + 1, !.pruned = {}, !.crashed = 0, !.back = back]
      BY <1>1 DEF pruneReports
    <3> HIDE DEF back
    <3> QED BY <3>1, <3>2 DEF Histories
  <2> QED BY <1>1, <2>2, <2>3 DEF pruneReports, StoreTypes
<1>2. CASE pruneOne
  <2>1. doomed \in Seq(Nat) /\ doomed # <<>>
    BY <1>2 DEF pruneOne, StoreTypes
  <2>2. Head(doomed) \in Nat /\ Tail(doomed) \in Seq(Nat)
    BY <2>1, HeadTailProperties
  <2> DEFINE gone == {f.serial : f \in {g \in dir : g.id = Head(doomed) /\ g.ext = "json"}}
  <2>3. gone \in SUBSET Nat /\ hist' = [hist EXCEPT !.pruned = @ \cup gone]
    BY <1>2 DEF pruneOne, StoreTypes, Files
  <2> HIDE DEF gone
  <2>4. hist' \in Histories /\ hist'.serial = hist.serial
    BY <2>3, HistFields DEF StoreTypes, Histories
  <2> QED BY <1>2, <2>2, <2>4 DEF pruneOne, StoreTypes
<1>3. CASE startIDs
  <2>1. LowSize \in Nat \ {0} /\ Block \in Nat \ {0} /\ now \in Nat
    BY StoreAssumption DEF StoreTypes
  <2>2. baseID(now) \in Nat
    BY <2>1 DEF baseID
  <2>3. baseID(now) % LowSize \in 0 .. LowSize - 1
    BY <2>1, <2>2
  <2>4. g_nextUniqueID' \in [high : Nat, low : 0 .. LowSize - 1]
    BY <1>3, <2>3 DEF startIDs, initializeIDs
  <2>5. hist' \in Histories /\ hist'.serial = hist.serial
    BY <1>3, <2>1, HistFields DEF startIDs, StoreTypes, Histories
  <2> QED BY <1>3, <2>4, <2>5 DEF startIDs, StoreTypes
<1> QED BY <1>1, <1>2, <1>3

LEMMA ReportTypes ==
  ASSUME StoreTypes, SendInv, NEW s \in Senders,
         reportUserException(s) \/ reportWritten(s)
  PROVE  StoreTypes'
<1>1. CASE reportUserException(s)
  <2>1. /\ dir' \in SUBSET Files /\ g_nextUniqueID' \in [high : Nat, low : 0 .. LowSize - 1]
        /\ hist.serial + 1 <= MaxSerial
    BY <1>1, BeginTypes DEF reportUserException
  <2>2. hist' \in Histories /\ hist'.serial = hist.serial + 1
    BY <1>1, SerialUp DEF reportUserException
  <2> DEFINE r == [Quiet EXCEPT !.pc = IF Exists(NextID, "json") THEN "written" ELSE "writing",
                                !.file = IF Exists(NextID, "json") THEN <<>> ELSE <<hist.serial + 1>>]
  <2>3. <<>> \in Seq(Nat) /\ <<hist.serial + 1>> \in Seq(Nat)
    BY HistFields, EmptySeq
  <2>4. r \in Sends
    BY <2>3, QuietIsASend DEF Sends, Steps
  <2>5. send' = [Changed(send) EXCEPT ![s] = r]
    BY <1>1 DEF reportUserException
  <2> HIDE DEF r
  <2>6. send' \in [Senders -> Sends]
    BY <2>4, <2>5, ChangedSends, OneSender DEF StoreTypes
  <2> QED BY <1>1, <2>1, <2>2, <2>6 DEF reportUserException, StoreTypes
<1>2. CASE reportWritten(s)
  <2>1. send[s] \in Sends /\ send[s].pc = "writing" /\ app = "running"
    BY <1>2 DEF reportWritten, StoreTypes, Running
  <2>2. Head(send[s].file) \in 1 .. hist.serial
    BY <2>1 DEF SendInv, WritingInv
  <2>3. Head(send[s].file) \in Nat
    BY <2>2, HistFields
  <2>4. [Quiet EXCEPT !.pc = "written"] \in Sends
    BY QuietIsASend, SendFields DEF Steps
  <2>5. send' \in [Senders -> Sends]
    BY <1>2, <2>4, OneSender DEF reportWritten, SetSend, StoreTypes
  <2> QED BY <1>2, <2>3, <2>5 DEF reportWritten, StoreTypes
<1> QED BY <1>1, <1>2

LEMMA SendingTypes ==
  ASSUME StoreTypes, FileInv, NEW s \in Senders,
         getReportCount(s) \/ getReportIDs(s) \/ readReport(s) \/ sinkDone(s)
  PROVE  StoreTypes'
<1>1. send[s] \in Sends /\ IsFiniteSet(Counted) /\ OneName(Counted) /\ Counted \in SUBSET Files
  BY CountedFiles DEF StoreTypes
<1>2. CASE getReportCount(s)
  <2>1. Cardinality(Counted) \in Nat /\ hist.serial \in Nat
    BY CountedFiles, HistFields
  <2>2. [send[s] EXCEPT !.pc = "counted", !.count = Cardinality(Counted), !.since = hist.serial] \in Sends
    BY <2>1, <1>1 DEF Sends, Steps
  <2>3. send' \in [Senders -> Sends]
    BY <1>2, <2>2, OneSender DEF getReportCount, SetSend, StoreTypes
  <2> QED BY <1>2, <2>3 DEF getReportCount, StoreTypes
<1>3. CASE getReportIDs(s)
  <2>1. PICK files \in SUBSET Counted, junk \in 0 .. send[s].count :
          /\ junk <= send[s].count - Cardinality(files) /\ junk <= Cardinality(files)
          /\ SetSend(s, [send[s] EXCEPT !.pc = "reading", !.count = 0,
                           !.ids = SubSeq(SortedIDs(files), 1, Cardinality(files) - junk)])
    BY <1>3 DEF getReportIDs
  <2>2. IsFiniteSet(files) /\ Cardinality(files) \in Nat /\ OneName(files) /\ files \in SUBSET Files
    BY <1>1, FS_Subset, FS_CardinalityType DEF OneName
  <2> DEFINE m == Cardinality(files) - junk
             ids == SubSeq(SortedIDs(files), 1, m)
  <2>3. m \in 0 .. Cardinality(files)
    BY <2>1, <2>2, SendFields, <1>1
  <2> HIDE DEF m
  <2>4. ids \in Seq(Nat)
    BY <2>2, <2>3, OldestFirst
  <2> HIDE DEF ids
  <2>5. [send[s] EXCEPT !.pc = "reading", !.count = 0, !.ids = ids] \in Sends
    BY <2>4, <1>1 DEF Sends, Steps
  <2>6. send' \in [Senders -> Sends]
    BY <2>1, <2>5, OneSender DEF SetSend, StoreTypes, ids, m
  <2> QED BY <1>3, <2>6 DEF getReportIDs, StoreTypes
<1>4. CASE readReport(s)
  <2> DEFINE read == {f \in dir : f.id = Head(send[s].ids) /\ f.ext = "json"}
             in == {f.serial : f \in read}
             r == [send[s] EXCEPT !.ids = Tail(@), !.loaded = @ \cup (in \cap done),
                                  !.torn = @ \cup (in \ done)]
  <2>1. in \in SUBSET Nat
    BY DEF StoreTypes, Files
  <2>2. Tail(send[s].ids) \in Seq(Nat)
    BY <1>1, <1>4, SendFields, HeadTailProperties DEF readReport
  <2>3. send' = [send EXCEPT ![s] = r]
    BY <1>4 DEF readReport, SetSend
  <2> HIDE DEF in
  <2>4. r \in Sends
    BY <2>1, <2>2, <1>1 DEF Sends, StoreTypes
  <2> HIDE DEF r
  <2>5. send' \in [Senders -> Sends]
    BY <2>3, <2>4, OneSender DEF StoreTypes
  <2> QED BY <1>4, <2>5 DEF readReport, StoreTypes
<1>5. CASE sinkDone(s)
  <2>1. [send[s] EXCEPT !.pc = "deleting", !.victims = dir, !.loaded = {}] \in Sends
    BY <1>1 DEF Sends, Steps, StoreTypes
  <2>2. send' \in [Senders -> Sends]
    BY <1>5, <2>1, OneSender DEF sinkDone, SetSend, StoreTypes
  <2>3. send[s].loaded \in SUBSET Nat
    BY <1>1, SendFields
  <2>4. hist' \in Histories /\ hist'.serial = hist.serial
    BY <1>5, <2>3, HistFields DEF sinkDone, StoreTypes, Histories
  <2> QED BY <1>5, <2>2, <2>4 DEF sinkDone, StoreTypes
<1> QED BY <1>2, <1>3, <1>4, <1>5

LEMMA DeletingTypes ==
  ASSUME StoreTypes, NEW s \in Senders, deleteEntry(s) \/ sendDone(s)
  PROVE  StoreTypes'
<1>1. CASE deleteEntry(s)
  <2>1. PICK f \in send[s].victims :
          LET gone == {g \in dir : g.id = f.id /\ g.ext = f.ext}
          IN /\ dir' = dir \ gone
             /\ hist' = [hist EXCEPT !.sent = @ \ {g.serial : g \in gone}, !.lost =
                           {[id |-> g.id, serial |-> g.serial, since |-> send[s].since,
                             torn |-> g.serial \in send[s].torn,
                             changed |-> send[s].changed] :
                               g \in {h \in gone : h.serial \in done \ hist.sent}}]
             /\ send' = [Changed(send) EXCEPT ![s].victims = @ \ {f}]
    BY <1>1 DEF deleteEntry
  <2> DEFINE gone == {g \in dir : g.id = f.id /\ g.ext = f.ext}
             lost == {[id |-> g.id, serial |-> g.serial, since |-> send[s].since, torn |-> g.serial \in send[s].torn,
                       changed |-> send[s].changed] : g \in {h \in gone : h.serial \in done \ hist.sent}}
             sent == hist.sent \ {g.serial : g \in gone}
             r == [Changed(send)[s] EXCEPT !.victims = @ \ {f}]
  <2>2. send[s] \in Sends /\ Changed(send) \in [Senders -> Sends] /\ Changed(send)[s] \in Sends
    BY ChangedSends DEF StoreTypes
  <2>3. lost \in SUBSET Lost
    <3>1. send[s].since \in Nat /\ send[s].changed \in BOOLEAN
      BY <2>2, SendFields
    <3>2. ASSUME NEW g \in gone
          PROVE  [id |-> g.id, serial |-> g.serial, since |-> send[s].since, torn |-> g.serial \in send[s].torn,
                  changed |-> send[s].changed] \in Lost
      <4>1. g.serial \in Nat /\ g.id \in Nat
        BY DEF StoreTypes, Files
      <4> QED BY <3>1, <4>1 DEF Lost
    <3> HIDE DEF gone
    <3> QED BY <3>2
  <2>4. sent \in SUBSET Nat
    BY HistFields
  <2>5. hist' = [hist EXCEPT !.sent = sent, !.lost = lost]
    BY <2>1
  <2>6. r \in Sends
    BY <2>2 DEF Sends
  <2>7. send' = [Changed(send) EXCEPT ![s] = r]
    BY <2>1, <2>2
  <2> HIDE DEF lost, sent, r
  <2>8. hist' \in Histories /\ hist'.serial = hist.serial
    BY <2>3, <2>4, <2>5 DEF StoreTypes, Histories
  <2>9. send' \in [Senders -> Sends]
    BY <2>2, <2>6, <2>7, OneSender
  <2> QED BY <1>1, <2>1, <2>8, <2>9 DEF deleteEntry, StoreTypes
<1>2. CASE sendDone(s)
  <2>1. send' \in [Senders -> Sends]
    BY <1>2, QuietIsASend, OneSender DEF sendDone, SetSend, StoreTypes
  <2> QED BY <1>2, <2>1 DEF sendDone, StoreTypes
<1> QED BY <1>1, <1>2

LEMMA OtherReportTypes ==
  ASSUME StoreTypes, addUserReport \/ \E f \in dir : deleteReportWithID(f)
  PROVE  StoreTypes'
<1>1. CASE addUserReport
  <2>1. hist' \in Histories /\ hist'.serial = hist.serial + 1 /\ hist'.serial <= MaxSerial
    BY <1>1, SerialUp, HistFields DEF addUserReport
  <2>2. dir' \in SUBSET Files
    BY <1>1, NextIDType DEF addUserReport, StoreTypes
  <2>3. g_nextUniqueID' \in [high : Nat, low : 0 .. LowSize - 1]
    BY <1>1, NextIDTypes DEF addUserReport
  <2>4. send' \in [Senders -> Sends]
    BY <1>1, ChangedSends DEF addUserReport, StoreTypes
  <2>5. done' \in SUBSET Nat
    BY <1>1, NextIDType DEF addUserReport, StoreTypes
  <2> QED BY <1>1, <2>1, <2>2, <2>3, <2>4, <2>5 DEF addUserReport, StoreTypes
<1>2. CASE \E f \in dir : deleteReportWithID(f)
  <2>1. send' \in [Senders -> Sends]
    BY <1>2, ChangedSends DEF deleteReportWithID, StoreTypes
  <2> QED BY <1>2, <2>1 DEF deleteReportWithID, StoreTypes
<1> QED BY <1>1, <1>2

\* What the crash's file is.
LEMMA CrashedFile ==
  ASSUME StoreTypes, CrashInv, crash.pc # "none"
  PROVE  /\ Crashed \in Files /\ OldFile \in Files /\ Crashed.ext = "json" /\ OldFile.ext = "old"
         /\ OldFile.id = Crashed.id /\ OldFile.serial = Crashed.serial /\ OldFile # Crashed
<1>1. crash.file \in Seq(Files) /\ Len(crash.file) = 1
  BY DEF StoreTypes, Crashes, CrashInv
<1>2. crash.file # <<>>
  <2>1. Len(<<>>) = 0 /\ 0 # 1
    BY EmptySeq
  <2>2. \A q : Len(q) = 1 => q # <<>>
    BY <2>1
  <2> QED BY <1>1, <2>2
<1>3. Crashed \in Files
  BY <1>1, <1>2, HeadTailProperties DEF Crashed
<1>4. Crashed.ext = "json"
  BY DEF CrashInv
<1> QED BY <1>3, <1>4 DEF OldFile, Files

LEMMA CrashTypes ==
  ASSUME StoreTypes, CrashInv,
         onCrash \/ closeReport \/ recrashRename \/ recrashOpen \/ recrashRemoveOld \/ recrashClose
  PROVE  StoreTypes'
<1>1. CASE onCrash
  <2>1. /\ dir' \in SUBSET Files /\ g_nextUniqueID' \in [high : Nat, low : 0 .. LowSize - 1]
        /\ hist.serial + 1 <= MaxSerial
    BY <1>1, BeginTypes DEF onCrash
  <2>2. hist' \in Histories /\ hist'.serial = hist.serial + 1
    BY <1>1, SerialUp DEF onCrash
  <2>3. crash' \in Crashes
    <3>1. <<File(NextID, "json", hist.serial + 1)>> \in Seq(Files)
      BY NextIDType
    <3> QED BY <1>1, <3>1 DEF onCrash, Crashes
  <2> QED BY <1>1, <2>1, <2>2, <2>3 DEF onCrash, StoreTypes
<1>2. ASSUME NEW from, NEW to \in {"none", "writing", "renamed", "embedding", "closing", "done"},
             CrashStep(from, to), dir' \in SUBSET Files, done' \in SUBSET Nat
      PROVE  StoreTypes'
  <2>1. crash' \in Crashes
    BY <1>2 DEF CrashStep, StoreTypes, Crashes
  <2> QED BY <1>2, <2>1 DEF CrashStep, StoreTypes
<1>3. CASE closeReport \/ recrashRename \/ recrashOpen \/ recrashRemoveOld \/ recrashClose
  <2>1. crash.pc # "none"
    BY <1>3 DEF closeReport, recrashRename, recrashOpen, recrashRemoveOld, recrashClose, CrashStep
  <2>2. Crashed \in Files /\ OldFile \in Files /\ Crashed.serial \in Nat
    BY <2>1, CrashedFile DEF Files
  <2>3. dir' \in SUBSET Files /\ done' \in SUBSET Nat
    BY <1>3, <2>2 DEF closeReport, recrashRename, recrashOpen, recrashRemoveOld, recrashClose, StoreTypes
  <2> QED BY <1>2, <1>3, <2>3 DEF closeReport, recrashRename, recrashOpen, recrashRemoveOld, recrashClose
<1> QED BY <1>1, <1>3

LEMMA EndTypes ==
  ASSUME StoreTypes, CrashInv, Die \/ Tick \/ UNCHANGED vars
  PROVE  StoreTypes'
<1>1. CASE Die
  <2>1. crash.pc = "done" => Crashed.serial \in Nat
    BY CrashedFile DEF Files
  <2>2. hist' \in Histories /\ hist'.serial = hist.serial
    BY <1>1, <2>1, HistFields DEF Die, StoreTypes, Histories
  <2>3. send' \in [Senders -> Sends] /\ crash' \in Crashes /\ doomed' \in Seq(Nat)
    BY <1>1, QuietIsASend, EmptySeq DEF Die, NoCrash, Crashes
  <2> QED BY <1>1, <2>2, <2>3 DEF Die, StoreTypes
<1>2. CASE Tick
  BY <1>2, StoreAssumption DEF Tick, StoreTypes
<1>3. CASE UNCHANGED vars
  BY <1>3 DEF vars, StoreTypes
<1> QED BY <1>1, <1>2, <1>3

LEMMA TypesStep ==
  ASSUME StoreTypes, FileInv, SendInv, CrashInv, [Next]_vars
  PROVE  StoreTypes'
BY PruningTypes, ReportTypes, SendingTypes, DeletingTypes, OtherReportTypes, CrashTypes, EndTypes
   DEF Next


-----------------------------------------------------------------------------
(* Files and their reports *)

LEMMA FileStart == Init => FileInv
<1> SUFFICES ASSUME Init PROVE FileInv
  OBVIOUS
<1>1. IsFiniteSet({})
  BY FS_EmptySet
<1> QED BY <1>1 DEF Init, FileInv

\* A directory that only lost files.
LEMMA FilesGone ==
  ASSUME FileInv, dir' \in SUBSET dir, done' = done, hist'.serial = hist.serial,
         hist'.sent \in SUBSET done
  PROVE  FileInv'
<1>1. IsFiniteSet(dir')
  BY FS_Subset DEF FileInv
<1> QED BY <1>1 DEF FileInv

\* A directory with the file of a new report.
LEMMA FileNew ==
  ASSUME StoreTypes, FileInv, NEW kept \in SUBSET dir,
         ~\E f \in kept : f.id = NextID /\ f.ext = "json",
         dir' \in {kept, kept \cup {File(NextID, "json", hist.serial + 1)}},
         done' \in {done, done \cup {hist.serial + 1}},
         hist'.serial = hist.serial + 1, hist'.sent = hist.sent
  PROVE  FileInv'
<1> DEFINE new == File(NextID, "json", hist.serial + 1)
<1>1. /\ hist.serial \in Nat /\ new.id = NextID /\ new.ext = "json" /\ new.serial = hist.serial + 1
      /\ \A x \in 1 .. hist.serial : x \in 1 .. hist.serial + 1 /\ x # hist.serial + 1
      /\ hist.serial + 1 \in 1 .. hist.serial + 1
  BY NextIDType
<1>2. IsFiniteSet(dir')
  <2>1. IsFiniteSet(kept)
    BY FS_Subset DEF FileInv
  <2> QED BY <2>1, FS_AddElement
<1>3. \A f \in dir' : f \in kept \/ f = new
  OBVIOUS
<1>4. \A f \in kept : f \in dir /\ f.serial \in 1 .. hist.serial
  BY DEF FileInv
<1> HIDE DEF new
<1>5. \A f, g \in dir' : f.id = g.id /\ f.ext = g.ext => f = g
  BY <1>1, <1>3, <1>4 DEF FileInv
<1>6. \A f \in dir' : f.serial \in 1 .. hist'.serial
  BY <1>1, <1>3, <1>4
<1>7. done' \subseteq 1 .. hist'.serial /\ hist'.sent \subseteq done'
  BY <1>1 DEF FileInv
<1>8. ASSUME NEW f \in dir', NEW g \in dir', f.serial = g.serial, f # g
      PROVE  f.serial \notin done'
  <2>1. f \in kept /\ g \in kept
    BY <1>1, <1>3, <1>4, <1>8
  <2> QED BY <1>1, <1>4, <1>8, <2>1 DEF FileInv
<1>9. ASSUME NEW f \in dir', f.ext = "old"
      PROVE  f.serial \notin done'
  <2>1. f \in kept
    BY <1>1, <1>3, <1>9
  <2> QED BY <1>1, <1>4, <1>9, <2>1 DEF FileInv
<1> QED BY <1>2, <1>5, <1>6, <1>7, <1>8, <1>9 DEF FileInv

\* A report that is in one file, and not in one set aside, comes to its end.
LEMMA FileEnded ==
  ASSUME FileInv, NEW serial \in 1 .. hist.serial,
         \A f \in dir : f.serial = serial => f.ext = "json",
         \A f, g \in dir : f.serial = serial /\ g.serial = serial => f = g,
         dir' = dir, done' = done \cup {serial}, hist' = hist
  PROVE  FileInv'
BY DEF FileInv

LEMMA FileBegun ==
  ASSUME StoreTypes, FileInv,
         (\E s \in Senders : reportUserException(s)) \/ addUserReport \/ onCrash
  PROVE  FileInv'
<1>1. hist'.serial = hist.serial + 1 /\ hist'.sent = hist.sent
  BY SerialUp DEF reportUserException, addUserReport, onCrash
<1>2. CASE addUserReport
  <2> DEFINE kept == {f \in dir : ~(f.id = NextID /\ f.ext = "json")}
  <2>1. /\ kept \in SUBSET dir /\ ~\E f \in kept : f.id = NextID /\ f.ext = "json"
        /\ dir' = kept \cup {File(NextID, "json", hist.serial + 1)}
        /\ done' = done \cup {hist.serial + 1}
    BY <1>2 DEF addUserReport
  <2> HIDE DEF kept
  <2> QED BY <1>1, <2>1, FileNew
<1>3. CASE (\E s \in Senders : reportUserException(s)) \/ onCrash
  <2>1. Begin(hist.serial + 1) /\ done' = done
    BY <1>3 DEF reportUserException, onCrash
  <2>2. CASE Exists(NextID, "json")
    <3>1. dir' = dir /\ \A x \in 1 .. hist.serial : x \in 1 .. hist'.serial
      BY <2>1, <2>2, <1>1, NextIDType DEF Begin
    <3> QED BY <3>1, <2>1, <1>1 DEF FileInv
  <2>3. CASE ~Exists(NextID, "json")
    <3>1. dir' = dir \cup {File(NextID, "json", hist.serial + 1)} /\ dir \in SUBSET dir
      BY <2>1, <2>3 DEF Begin
    <3> QED BY <3>1, <2>1, <2>3, <1>1, FileNew DEF Exists
  <2> QED BY <2>2, <2>3
<1> QED BY <1>2, <1>3

LEMMA FileCrashed ==
  ASSUME StoreTypes, FileInv, CrashInv,
         closeReport \/ recrashRename \/ recrashOpen \/ recrashRemoveOld \/ recrashClose
  PROVE  FileInv'
<1>1. crash.pc # "none" /\ hist' = hist
  BY DEF closeReport, recrashRename, recrashOpen, recrashRemoveOld, recrashClose, CrashStep
<1>2. /\ Crashed \in Files /\ OldFile \in Files /\ Crashed.ext = "json" /\ OldFile.ext = "old"
      /\ OldFile.id = Crashed.id /\ OldFile.serial = Crashed.serial /\ OldFile # Crashed
      /\ Crashed.serial \in 1 .. hist.serial
  BY <1>1, CrashedFile DEF CrashInv
<1>3. CASE closeReport \/ recrashClose
  BY <1>1, <1>2, <1>3, FileEnded DEF closeReport, recrashClose, CrashStep, CrashInv
<1>4. CASE recrashRename
  <2>1. /\ dir' = {f \in dir : f # Crashed /\ ~(f.id = OldFile.id /\ f.ext = "old")} \cup {OldFile}
        /\ done' = done /\ Crashed.serial \notin done /\ \A f \in dir : f.serial = Crashed.serial => f = Crashed
    BY <1>4 DEF recrashRename, CrashStep, CrashInv
  <2> DEFINE kept == {f \in dir : f # Crashed /\ ~(f.id = OldFile.id /\ f.ext = "old")}
  <2>2. IsFiniteSet(dir')
    <3>1. IsFiniteSet(kept)
      BY FS_Subset DEF FileInv
    <3> QED BY <2>1, <3>1, FS_AddElement
  <2>3. \A f, g \in dir' : f.id = g.id /\ f.ext = g.ext => f = g
    BY <2>1, <1>2 DEF FileInv
  <2>4. \A f, g \in dir' : f.serial = g.serial /\ f # g => f.serial \notin done
    BY <2>1, <1>2 DEF FileInv
  <2> QED BY <2>1, <2>2, <2>3, <2>4, <1>1, <1>2 DEF FileInv
<1>5. CASE recrashOpen
  <2>1. /\ dir' = dir \cup {Crashed} /\ done' = done /\ Crashed.serial \notin done
        /\ ~Exists(Crashed.id, "json") /\ \A f \in dir : f.serial = Crashed.serial => f = OldFile
    BY <1>5 DEF recrashOpen, CrashStep, CrashInv
  <2>2. IsFiniteSet(dir')
    BY <2>1, FS_AddElement DEF FileInv
  <2>3. \A f, g \in dir' : f.id = g.id /\ f.ext = g.ext => f = g
    BY <2>1, <1>2 DEF FileInv, Exists
  <2> QED BY <2>1, <2>2, <2>3, <1>1, <1>2 DEF FileInv
<1>6. CASE recrashRemoveOld
  BY <1>1, <1>6, FilesGone DEF recrashRemoveOld, CrashStep, FileInv
<1> QED BY <1>3, <1>4, <1>5, <1>6

LEMMA FileStep ==
  ASSUME StoreTypes, FileInv, CrashInv, SendInv, [Next]_vars
  PROVE  FileInv'
<1>1. /\ dir \in SUBSET dir /\ hist.sent \in SUBSET done
      /\ hist.serial \in Nat /\ hist \in Histories
  BY HistFields DEF FileInv, StoreTypes
<1>2. CASE pruneReports \/ pruneOne \/ startIDs \/ Die \/ Tick \/ UNCHANGED vars
  <2>1. dir' \in SUBSET dir /\ done' = done
    BY <1>2 DEF pruneReports, pruneOne, startIDs, Die, Tick, vars
  <2>2. hist'.serial = hist.serial /\ hist'.sent = hist.sent
    BY <1>1, <1>2 DEF pruneReports, pruneOne, startIDs, Die, Tick, vars, Histories
  <2> QED BY <2>1, <2>2, <1>1, FilesGone
<1>3. ASSUME NEW s \in Senders,
             reportWritten(s) \/ getReportCount(s) \/ getReportIDs(s) \/ readReport(s) \/ sinkDone(s)
             \/ deleteEntry(s) \/ sendDone(s)
      PROVE  FileInv'
  <2>1. WritingInv(s) /\ SendingInv(s)
    BY <1>3 DEF SendInv, Running, reportWritten, getReportCount, getReportIDs, readReport, sinkDone,
                deleteEntry, sendDone
  <2>2. CASE reportWritten(s)
    BY <2>1, <2>2, FileEnded DEF reportWritten, WritingInv
  <2>3. CASE sinkDone(s)
    <3>1. hist'.serial = hist.serial /\ hist'.sent = hist.sent \cup send[s].loaded
      BY <2>3, <1>1 DEF sinkDone, Histories
    <3> QED BY <3>1, <2>1, <2>3, <1>1, FilesGone DEF sinkDone, SendingInv
  <2>4. CASE deleteEntry(s)
    <3>1. hist'.serial = hist.serial /\ hist'.sent \in SUBSET hist.sent /\ dir' \in SUBSET dir
      BY <2>4, <1>1 DEF deleteEntry, Histories
    <3> QED BY <3>1, <2>4, <1>1, FilesGone DEF deleteEntry
  <2>5. CASE getReportCount(s) \/ getReportIDs(s) \/ readReport(s) \/ sendDone(s)
    BY <2>5, <1>1, FilesGone DEF getReportCount, getReportIDs, readReport, sendDone
  <2> QED BY <1>3, <2>2, <2>3, <2>4, <2>5
<1>4. CASE \E f \in dir : deleteReportWithID(f)
  BY <1>1, <1>4, FilesGone DEF deleteReportWithID
<1> QED BY <1>2, <1>3, <1>4, FileBegun, FileCrashed DEF Next

-----------------------------------------------------------------------------
(* Who is at work *)

LEMMA StageStart == Init => StageInv
BY DEF Init, StageInv, NoCrash

LEMMA StageStep ==
  ASSUME StoreTypes, StageInv, [Next]_vars
  PROVE  StageInv'
<1>1. CASE pruneReports \/ pruneOne \/ startIDs
  BY <1>1 DEF pruneReports, pruneOne, startIDs, StageInv
<1>2. CASE \E s \in Senders : \/ reportUserException(s) \/ reportWritten(s)
                              \/ getReportCount(s) \/ getReportIDs(s) \/ readReport(s)
                              \/ sinkDone(s) \/ deleteEntry(s) \/ sendDone(s)
  <2>1. app = "running" /\ app' = app /\ doomed' = doomed /\ crash' = crash
    BY <1>2 DEF reportUserException, reportWritten, getReportCount, getReportIDs, readReport, sinkDone,
                deleteEntry, sendDone, Running
  <2> QED BY <2>1 DEF StageInv
<1>3. CASE addUserReport \/ \E f \in dir : deleteReportWithID(f)
  BY <1>3 DEF addUserReport, deleteReportWithID, Running, StageInv
<1>4. CASE onCrash
  <2>1. crash'.pc # "none"
    BY <1>4 DEF onCrash
  <2> QED BY <1>4, <2>1 DEF onCrash, Running, StageInv
<1>5. CASE closeReport \/ recrashRename \/ recrashOpen \/ recrashRemoveOld \/ recrashClose
  <2>1. crash'.pc # "none"
    BY <1>5 DEF closeReport, recrashRename, recrashOpen, recrashRemoveOld, recrashClose, CrashStep,
                StoreTypes, Crashes
  <2>2. app = "crashing" /\ app' = app /\ doomed' = doomed
    BY <1>5 DEF closeReport, recrashRename, recrashOpen, recrashRemoveOld, recrashClose, CrashStep
  <2> QED BY <2>1, <2>2 DEF StageInv
<1>6. CASE Die \/ Tick \/ UNCHANGED vars
  BY <1>6 DEF Die, Tick, vars, StageInv, NoCrash
<1> QED BY <1>1, <1>2, <1>3, <1>4, <1>5, <1>6 DEF Next

LEMMA CrashStart == Init => CrashInv
BY DEF Init, CrashInv, NoCrash

\* A crash that begins its report: the file is the only one of its report.
LEMMA CrashBegins ==
  ASSUME StoreTypes, FileInv, onCrash
  PROVE  CrashInv'
<1> DEFINE new == File(NextID, "json", hist.serial + 1)
<1>1. /\ hist.serial \in Nat /\ new.id = NextID /\ new.ext = "json" /\ new.serial = hist.serial + 1
      /\ hist.serial + 1 \in 1 .. hist.serial + 1 /\ hist.serial + 1 \notin 1 .. hist.serial
  BY NextIDType
<1>2. hist'.serial = hist.serial + 1 /\ done' = done
  BY SerialUp DEF onCrash
<1>3. crash' = [pc |-> IF Exists(NextID, "json") THEN "done" ELSE "writing", file |-> <<new>>]
  BY DEF onCrash
<1>4. dir' = IF Exists(NextID, "json") THEN dir ELSE dir \cup {new}
  BY DEF onCrash, Begin
<1> HIDE DEF new
<1>5. /\ Len(crash'.file) = 1 /\ Crashed' = new
      /\ crash'.pc = IF Exists(NextID, "json") THEN "done" ELSE "writing"
  BY <1>3 DEF Crashed
<1>6. new.serial \notin done /\ \A f \in dir : f.serial # new.serial
  BY <1>1 DEF FileInv
<1> QED BY <1>1, <1>2, <1>4, <1>5, <1>6 DEF CrashInv

LEMMA CrashGoesOn ==
  ASSUME StoreTypes, FileInv, CrashInv,
         closeReport \/ recrashRename \/ recrashOpen \/ recrashRemoveOld \/ recrashClose
  PROVE  CrashInv'
<1>1. /\ crash.pc # "none" /\ hist' = hist /\ crash'.file = crash.file
      /\ Len(crash.file) = 1 /\ Crashed.serial \in 1 .. hist.serial
  BY DEF closeReport, recrashRename, recrashOpen, recrashRemoveOld, recrashClose, CrashStep, CrashInv,
         StoreTypes, Crashes
<1>2. Crashed' = Crashed /\ OldFile' = OldFile
  BY <1>1 DEF Crashed, OldFile
<1>3. /\ Crashed \in Files /\ OldFile \in Files /\ Crashed.ext = "json" /\ OldFile.ext = "old"
      /\ OldFile.id = Crashed.id /\ OldFile.serial = Crashed.serial /\ OldFile # Crashed
  BY <1>1, CrashedFile
<1>4. ASSUME closeReport \/ recrashClose PROVE crash'.pc = "done"
  BY <1>4 DEF closeReport, recrashClose, CrashStep, StoreTypes, Crashes
<1>5. CASE closeReport \/ recrashClose
  BY <1>1, <1>2, <1>3, <1>4, <1>5 DEF CrashInv
<1>6. CASE recrashRename
  <2>1. crash.pc = "writing" /\ crash'.pc = "renamed" /\ done' = done
    BY <1>6 DEF recrashRename, CrashStep, StoreTypes, Crashes
  <2>2. dir' = {f \in dir : f # Crashed /\ ~(f.id = OldFile.id /\ f.ext = "old")} \cup {OldFile}
    BY <1>6 DEF recrashRename
  <2>3. /\ Crashed.serial \notin done /\ Crashed \in dir
        /\ \A f \in dir : f.serial = Crashed.serial => f = Crashed
    BY <2>1 DEF CrashInv
  <2>4. ~\E f \in dir' : f.id = Crashed.id /\ f.ext = "json"
    BY <2>2, <2>3, <1>3 DEF FileInv
  <2>5. OldFile \in dir' /\ \A f \in dir' : f.serial = Crashed.serial => f = OldFile
    BY <2>2, <2>3
  <2> QED BY <2>1, <2>3, <2>4, <2>5, <1>1, <1>2, <1>3 DEF CrashInv, Exists
<1>7. CASE recrashOpen
  <2>1. crash.pc = "renamed" /\ crash'.pc = "embedding" /\ done' = done /\ dir' = dir \cup {Crashed}
    BY <1>7 DEF recrashOpen, CrashStep, StoreTypes, Crashes
  <2>2. Crashed.serial \notin done /\ \A f \in dir : f.serial = Crashed.serial => f = OldFile
    BY <2>1 DEF CrashInv
  <2> QED BY <2>1, <2>2, <1>1, <1>2, <1>3 DEF CrashInv
<1>8. CASE recrashRemoveOld
  <2>1. crash.pc = "embedding" /\ crash'.pc = "closing" /\ done' = done /\ dir' = dir \ {OldFile}
    BY <1>8 DEF recrashRemoveOld, CrashStep, StoreTypes, Crashes
  <2>2. /\ Crashed.serial \notin done /\ Crashed \in dir
        /\ \A f \in dir : f.serial = Crashed.serial => f \in {Crashed, OldFile}
    BY <2>1 DEF CrashInv
  <2> QED BY <2>1, <2>2, <1>1, <1>2, <1>3 DEF CrashInv
<1> QED BY <1>5, <1>6, <1>7, <1>8

LEMMA CrashInvStep ==
  ASSUME StoreTypes, FileInv, StageInv, CrashInv, [Next]_vars
  PROVE  CrashInv'
<1>1. CASE crash' = crash /\ crash.pc = "none"
  BY <1>1 DEF CrashInv
<1>2. CASE UNCHANGED vars
  BY <1>2 DEF vars, CrashInv, Crashed, OldFile, Exists
<1>3. CASE Die
  BY <1>3 DEF Die, NoCrash, CrashInv
<1>4. ASSUME NEW s \in Senders,
             \/ reportUserException(s) \/ reportWritten(s)
             \/ getReportCount(s) \/ getReportIDs(s) \/ readReport(s)
             \/ sinkDone(s) \/ deleteEntry(s) \/ sendDone(s)
      PROVE  crash' = crash /\ crash.pc = "none"
  BY <1>4 DEF reportUserException, reportWritten, getReportCount, getReportIDs, readReport, sinkDone,
              deleteEntry, sendDone, Running, StageInv
<1>5. ASSUME pruneReports \/ pruneOne \/ startIDs \/ addUserReport \/ Tick
             \/ \E f \in dir : deleteReportWithID(f)
      PROVE  crash' = crash /\ crash.pc = "none"
  BY <1>5 DEF pruneReports, pruneOne, startIDs, addUserReport, Tick, deleteReportWithID, Running, StageInv
<1> QED BY <1>1, <1>2, <1>3, <1>4, <1>5, CrashBegins, CrashGoesOn DEF Next

-----------------------------------------------------------------------------
(* What a send still has to read, or has handed over *)

LEMMA SendStart == Init => SendInv
BY DEF Init, SendInv

\* A thread that neither writes nor sends has nothing to keep.
LEMMA AtRest ==
  ASSUME NEW s \in Senders, send'[s].pc \in {"idle", "written"},
         send'[s].since <= hist'.serial, send'[s].loaded \subseteq done'
  PROVE  WritingInv(s)' /\ SendingInv(s)'
BY DEF WritingInv, SendingInv, Covered

\* What the other threads do leaves a send right: new files are of newer reports,
\* and what is deleted and forgotten is not in the directory any more.
LEMMA SeenByOthers ==
  ASSUME StoreTypes, NEW s \in Senders, WritingInv(s), SendingInv(s),
         \/ send'[s] = send[s] /\ (dir' = dir \/ send[s].pc # "counted")
         \/ send[s].pc = "counted" /\ send'[s] = [send[s] EXCEPT !.changed = TRUE],
         \A f \in dir' : f \in dir \/ f.serial = hist.serial + 1,
         hist'.serial \in {hist.serial, hist.serial + 1}, done \subseteq done',
         \A f \in dir' : f.serial \in hist.sent => f.serial \in hist'.sent
  PROVE  WritingInv(s)' /\ SendingInv(s)'
<1>1. /\ send[s] \in Sends /\ hist.serial \in Nat /\ send[s].since \in Nat
      /\ send[s].since <= hist.serial /\ send[s].loaded \subseteq done
  BY HistFields, SendFields DEF StoreTypes, SendingInv
<1>2. send[s].since <= hist'.serial /\ send[s].loaded \subseteq done'
  BY <1>1
<1>3. ASSUME NEW f \in dir', f.serial <= send[s].since PROVE f \in dir
  BY <1>1, <1>3
<1>4. ASSUME NEW f \in dir', f.serial \in 1 .. hist.serial PROVE f \in dir
  BY <1>1, <1>4
<1>5. CASE send'[s] = send[s] /\ (dir' = dir \/ send[s].pc # "counted")
  <2>1. WritingInv(s)'
    <3>1. send[s].pc = "writing" => Head(send[s].file) \in 1 .. hist'.serial
      BY <1>1 DEF WritingInv
    <3> QED BY <3>1, <1>4, <1>5 DEF WritingInv
  <2>2. ASSUME ~send[s].changed, NEW f \in Counted', f.ext = "json", f.serial <= send[s].since
        PROVE  Covered(s, f)'
    <3>1. f \in dir' /\ f \in Counted /\ Covered(s, f)
      BY <1>3, <2>2 DEF SendingInv, Counted
    <3> QED BY <3>1, <1>5 DEF Covered
  <2>3. ~send[s].changed /\ send[s].pc = "counted" => send[s].count = Cardinality(Counted')
    BY <1>5 DEF SendingInv, Counted
  <2> QED BY <1>2, <1>5, <2>1, <2>2, <2>3 DEF SendingInv
<1>6. CASE send[s].pc = "counted" /\ send'[s] = [send[s] EXCEPT !.changed = TRUE]
  <2>1. /\ send'[s].changed /\ send'[s].pc = "counted" /\ send'[s].since = send[s].since
        /\ send'[s].loaded = send[s].loaded
    BY <1>1, <1>6 DEF Sends
  <2> QED BY <2>1, <1>2 DEF WritingInv, SendingInv
<1> QED BY <1>5, <1>6

\* A step that does not touch reports nor the directory, but for one thread.
LEMMA OneSends ==
  ASSUME StoreTypes, SendInv, app = "running", NEW s \in Senders, NEW r \in Sends, SetSend(s, r),
         dir' = dir, done \subseteq done', hist'.serial = hist.serial, hist.sent \subseteq hist'.sent,
         WritingInv(s)' /\ SendingInv(s)'
  PROVE  SendInv'
<1>1. send'[s] = r /\ \A u \in Senders : u # s => send'[u] = send[u]
  BY OneSender DEF SetSend, StoreTypes
<1>2. ASSUME NEW u \in Senders, u # s
      PROVE  WritingInv(u)' /\ SendingInv(u)'
  <2>1. WritingInv(u) /\ SendingInv(u) /\ send'[u] = send[u]
    BY <1>1, <1>2 DEF SendInv
  <2> QED BY <2>1, SeenByOthers
<1> QED BY <1>2 DEF SendInv

LEMMA ReportedSends ==
  ASSUME StoreTypes, FileInv, SendInv, NEW s \in Senders, reportUserException(s)
  PROVE  SendInv'
<1> DEFINE new == File(NextID, "json", hist.serial + 1)
           r == [Quiet EXCEPT !.pc = IF Exists(NextID, "json") THEN "written" ELSE "writing",
                              !.file = IF Exists(NextID, "json") THEN <<>> ELSE <<hist.serial + 1>>]
<1>1. /\ app = "running" /\ send' = [Changed(send) EXCEPT ![s] = r] /\ done' = done
      /\ hist'.serial = hist.serial + 1 /\ hist'.sent = hist.sent
      /\ dir' = IF Exists(NextID, "json") THEN dir ELSE dir \cup {new}
  BY SerialUp DEF reportUserException, Running, Begin
<1>2. /\ r.pc = IF Exists(NextID, "json") THEN "written" ELSE "writing"
      /\ r.file = IF Exists(NextID, "json") THEN <<>> ELSE <<hist.serial + 1>>
      /\ r.since = 0 /\ r.loaded = {} /\ ~r.changed
  BY DEF Quiet
<1>3. /\ hist.serial \in Nat /\ new.id = NextID /\ new.ext = "json" /\ new.serial = hist.serial + 1
      /\ hist.serial + 1 \in 1 .. hist.serial + 1 /\ \A x \in 1 .. hist.serial : ~(x <= 0) /\ x # hist.serial + 1
  BY NextIDType
<1>4. Changed(send) \in [Senders -> Sends]
  BY ChangedSends DEF StoreTypes
<1> HIDE DEF r, new
<1>5. send'[s] = r /\ \A u \in Senders : u # s => send'[u] = Changed(send)[u]
  BY <1>1, <1>4
<1>6. \A f \in dir : f.serial \in 1 .. hist.serial
  BY DEF FileInv
<1>7. WritingInv(s)' /\ SendingInv(s)'
  <2>1. CASE Exists(NextID, "json")
    BY <2>1, <1>2, <1>3, <1>1, <1>5, AtRest
  <2>2. CASE ~Exists(NextID, "json")
    <3>1. /\ send'[s].pc = "writing" /\ Len(send'[s].file) = 1 /\ Head(send'[s].file) = hist.serial + 1
          /\ send'[s].since = 0 /\ send'[s].loaded = {}
      BY <2>2, <1>2, <1>5
    <3>2. \A f \in dir' : f.serial = hist.serial + 1 => f = new
      BY <1>1, <2>2, <1>3, <1>6
    <3>3. SendingInv(s)'
      BY <3>1, <1>1, <1>3 DEF SendingInv, Covered
    <3> QED BY <3>1, <3>2, <3>3, <1>1, <1>3 DEF WritingInv
  <2> QED BY <2>1, <2>2
<1>8. ASSUME NEW u \in Senders, u # s
      PROVE  WritingInv(u)' /\ SendingInv(u)'
  <2>1. /\ WritingInv(u) /\ SendingInv(u) /\ send'[u] = Changed(send)[u]
        /\ \A f \in dir' : f \in dir \/ f.serial = hist.serial + 1
    BY <1>1, <1>3, <1>5, <1>8 DEF SendInv
  <2>2. \/ send'[u] = send[u] /\ send[u].pc # "counted"
        \/ send[u].pc = "counted" /\ send'[u] = [send[u] EXCEPT !.changed = TRUE]
    BY <2>1, ChangedSends DEF StoreTypes
  <2> QED BY <2>1, <2>2, <1>1, SeenByOthers
<1> QED BY <1>7, <1>8 DEF SendInv

\* A change that everybody sees.
LEMMA AllSee ==
  ASSUME StoreTypes, SendInv, app = "running", send' = Changed(send),
         \A f \in dir' : f \in dir \/ f.serial = hist.serial + 1,
         hist'.serial \in {hist.serial, hist.serial + 1}, done \subseteq done', hist'.sent = hist.sent
  PROVE  SendInv'
<1>1. ASSUME NEW u \in Senders
      PROVE  WritingInv(u)' /\ SendingInv(u)'
  <2>1. WritingInv(u) /\ SendingInv(u) /\ send'[u] = Changed(send)[u]
    BY DEF SendInv
  <2>2. \/ send'[u] = send[u] /\ send[u].pc # "counted"
        \/ send[u].pc = "counted" /\ send'[u] = [send[u] EXCEPT !.changed = TRUE]
    BY <2>1, ChangedSends DEF StoreTypes
  <2> QED BY <2>1, <2>2, SeenByOthers
<1> QED BY <1>1 DEF SendInv

\* The list of a send that saw no change is all that is counted.
LEMMA WholeList ==
  ASSUME StoreTypes, FileInv, NEW files \in SUBSET Counted, NEW junk \in Nat,
         Cardinality(files) = Cardinality(Counted), junk <= Cardinality(Counted) - Cardinality(files)
  PROVE  \A f \in Counted : f.id \in Values(SubSeq(SortedIDs(files), 1, Cardinality(files) - junk))
<1>1. /\ IsFiniteSet(Counted) /\ OneName(Counted) /\ Cardinality(Counted) \in Nat
      /\ Counted \in SUBSET Files
  BY CountedFiles
<1>2. files = Counted
  BY <1>1, FS_Subset
<1> DEFINE N == Cardinality(Counted)
           all == SortedIDs(Counted)
           ids == SubSeq(all, 1, N)
<1>3. Cardinality(files) - junk = N /\ N \in 0 .. N
  BY <1>1
<1>4. Len(ids) = N /\ \A i \in 1 .. N : ids[i] = all[i]
  BY <1>1, <1>3, OldestFirst
<1>5. ASSUME NEW f \in Counted PROVE f.id \in Values(ids)
  <2>1. Rank(Counted, f) + 1 \in 1 .. N /\ all[Rank(Counted, f) + 1] = f.id
    BY <1>1, SortedInOrder
  <2> HIDE DEF ids, all, N
  <2> QED BY <2>1, <1>4 DEF Values
<1> QED BY <1>2, <1>3, <1>5

LEMMA CountedSends ==
  ASSUME StoreTypes, FileInv, SendInv, NEW s \in Senders, getReportCount(s)
  PROVE  SendInv'
<1> DEFINE r == [send[s] EXCEPT !.pc = "counted", !.count = Cardinality(Counted), !.since = hist.serial]
<1>1. /\ app = "running" /\ SetSend(s, r) /\ dir' = dir /\ done' = done /\ hist' = hist
      /\ send[s] \in Sends /\ hist.serial \in Nat /\ Cardinality(Counted) \in Nat /\ send[s].loaded \subseteq done
      /\ Counted' = Counted
  BY CountedFiles, HistFields DEF Counted, getReportCount, Running, StoreTypes, FileInv, SendInv, SendingInv
<1>2. r \in Sends
  BY <1>1 DEF Sends, Steps
<1>3. /\ r.pc = "counted" /\ r.count = Cardinality(Counted) /\ r.since = hist.serial
      /\ r.loaded = send[s].loaded
  BY <1>1 DEF Sends
<1> HIDE DEF r
<1>4. send'[s] = r
  BY <1>1, <1>2, OneSender DEF SetSend, StoreTypes
<1>5. WritingInv(s)' /\ SendingInv(s)'
  BY <1>1, <1>3, <1>4 DEF WritingInv, SendingInv, Covered
<1> QED BY <1>1, <1>2, <1>5, OneSends

LEMMA ListedSends ==
  ASSUME StoreTypes, FileInv, SendInv, NEW s \in Senders, getReportIDs(s)
  PROVE  SendInv'
<1>1. /\ app = "running" /\ send[s].pc = "counted" /\ dir' = dir /\ done' = done /\ hist' = hist
      /\ send[s] \in Sends /\ Cardinality(Counted) \in Nat /\ Counted \in SUBSET Files /\ SendingInv(s)
      /\ IsFiniteSet(Counted) /\ OneName(Counted) /\ send[s].count \in Nat /\ hist.serial \in Nat
      /\ Counted' = Counted
  <2>1. dir' = dir => Counted' = Counted
    BY DEF Counted
  <2> QED BY <2>1, CountedFiles, SendFields, HistFields DEF getReportIDs, Running, StoreTypes, SendInv
<1>2. PICK files \in SUBSET Counted, junk \in 0 .. send[s].count :
        /\ Cardinality(files) = IF Cardinality(Counted) < send[s].count THEN Cardinality(Counted) ELSE send[s].count
        /\ junk <= send[s].count - Cardinality(files) /\ junk <= Cardinality(files)
        /\ SetSend(s, [send[s] EXCEPT !.pc = "reading", !.count = 0,
                         !.ids = SubSeq(SortedIDs(files), 1, Cardinality(files) - junk)])
  BY <1>1 DEF getReportIDs
<1> DEFINE ids == SubSeq(SortedIDs(files), 1, Cardinality(files) - junk)
           r == [send[s] EXCEPT !.pc = "reading", !.count = 0, !.ids = ids]
<1>3. ids \in Seq(Nat)
  <2>1. IsFiniteSet(files) /\ Cardinality(files) \in Nat /\ OneName(files) /\ files \in SUBSET Files
    BY <1>1, FS_Subset, FS_CardinalityType DEF OneName
  <2>2. Cardinality(files) - junk \in 0 .. Cardinality(files)
    BY <2>1, <1>1, <1>2
  <2> QED BY <2>1, <2>2, OldestFirst
<1>4. ~send[s].changed => \A f \in Counted : f.id \in Values(ids)
  <2> SUFFICES ASSUME ~send[s].changed PROVE \A f \in Counted : f.id \in Values(ids)
    OBVIOUS
  <2>1. send[s].count = Cardinality(Counted)
    BY <1>1 DEF SendingInv
  <2>2. /\ junk \in Nat /\ Cardinality(files) = Cardinality(Counted)
        /\ junk <= Cardinality(Counted) - Cardinality(files)
    BY <2>1, <1>1, <1>2
  <2> QED BY <2>2, <1>1, WholeList
<1> HIDE DEF ids
<1>5. /\ r \in Sends /\ r.pc = "reading" /\ r.ids = ids /\ r.since = send[s].since
      /\ r.loaded = send[s].loaded /\ r.changed = send[s].changed
  BY <1>1, <1>3 DEF Sends, Steps
<1>6. SetSend(s, r)
  BY <1>2 DEF ids
<1> HIDE DEF r
<1>7. send'[s] = r
  BY <1>5, <1>6, OneSender DEF SetSend, StoreTypes
<1>8. WritingInv(s)' /\ SendingInv(s)'
  BY <1>1, <1>4, <1>5, <1>7 DEF WritingInv, SendingInv, Covered
<1> QED BY <1>1, <1>5, <1>6, <1>8, OneSends

LEMMA ReadSends ==
  ASSUME StoreTypes, SendInv, NEW s \in Senders, readReport(s)
  PROVE  SendInv'
<1> DEFINE read == {f \in dir : f.id = Head(send[s].ids) /\ f.ext = "json"}
           in == {f.serial : f \in read}
           r == [send[s] EXCEPT !.ids = Tail(@), !.loaded = @ \cup (in \cap done),
                                !.torn = @ \cup (in \ done)]
<1>1. /\ app = "running" /\ send[s].pc = "reading" /\ dir' = dir /\ done' = done /\ hist' = hist
      /\ send[s] \in Sends /\ SendingInv(s) /\ SetSend(s, r)
      /\ send[s].ids \in Seq(Nat) /\ send[s].ids # <<>> /\ hist.serial \in Nat
  BY SendFields, HistFields DEF readReport, Running, StoreTypes, SendInv
<1>2. in \in SUBSET Nat
  BY DEF StoreTypes, Files
<1>3. /\ Tail(send[s].ids) \in Seq(Nat)
      /\ \A id \in Values(send[s].ids) : id = Head(send[s].ids) \/ id \in Values(Tail(send[s].ids))
  BY <1>1, ValuesOfTail
<1>4. \A f \in dir : f.ext = "json" /\ f.id = Head(send[s].ids) => f.serial \in in
  OBVIOUS
<1> HIDE DEF in
<1>5. /\ r \in Sends /\ r.pc = "reading" /\ r.ids = Tail(send[s].ids) /\ r.since = send[s].since
      /\ r.loaded = send[s].loaded \cup (in \cap done) /\ r.torn = send[s].torn \cup (in \ done)
      /\ r.changed = send[s].changed
  BY <1>1, <1>2, <1>3 DEF Sends, StoreTypes
<1> HIDE DEF r
<1>6. send'[s] = r
  BY <1>1, <1>5, OneSender DEF SetSend, StoreTypes
<1>7. ASSUME ~r.changed, NEW f \in Counted, f.ext = "json", f.serial <= r.since
      PROVE  f.id \in Values(r.ids) \/ f.serial \in r.loaded \cup r.torn
  <2>1. f \in dir /\ (f.id \in Values(send[s].ids) \/ f.serial \in send[s].loaded \cup send[s].torn)
    BY <1>1, <1>5, <1>7 DEF SendingInv, Covered, Counted
  <2> QED BY <2>1, <1>3, <1>4, <1>5, <1>7
<1>8. WritingInv(s)' /\ SendingInv(s)'
  <2>1. r.since <= hist'.serial /\ r.loaded \subseteq done'
    BY <1>1, <1>5 DEF SendingInv
  <2>2. \A f \in Counted' : ~r.changed /\ f.ext = "json" /\ f.serial <= r.since => Covered(s, f)'
    BY <1>1, <1>5, <1>6, <1>7 DEF Covered, Counted
  <2> QED BY <2>1, <2>2, <1>1, <1>5, <1>6 DEF WritingInv, SendingInv
<1> QED BY <1>1, <1>5, <1>8, OneSends

LEMMA HandedOverSends ==
  ASSUME StoreTypes, SendInv, NEW s \in Senders, sinkDone(s)
  PROVE  SendInv'
<1> DEFINE r == [send[s] EXCEPT !.pc = "deleting", !.victims = dir, !.loaded = {}]
<1>1. /\ app = "running" /\ send[s].pc = "reading" /\ dir' = dir /\ done' = done
      /\ send[s] \in Sends /\ SendingInv(s) /\ SetSend(s, r) /\ send[s].ids = <<>>
  BY DEF sinkDone, Running, StoreTypes, SendInv
<1>2. hist'.serial = hist.serial /\ hist'.sent = hist.sent \cup send[s].loaded
  BY DEF sinkDone, StoreTypes, Histories
<1>3. Values(send[s].ids) = {}
  <2>1. Len(send[s].ids) = 0 /\ 1 .. 0 = {}
    BY <1>1, EmptySeq
  <2> QED BY <2>1 DEF Values
<1>4. /\ r \in Sends /\ r.pc = "deleting" /\ r.since = send[s].since
      /\ r.loaded = {} /\ r.torn = send[s].torn /\ r.changed = send[s].changed
  BY <1>1 DEF Sends, Steps, StoreTypes
<1> HIDE DEF r
<1>5. send'[s] = r
  BY <1>1, <1>4, OneSender DEF SetSend, StoreTypes
<1>6. ASSUME ~r.changed, NEW f \in Counted, f.ext = "json", f.serial <= r.since
      PROVE  f.serial \in hist'.sent \cup r.torn
  <2>1. Covered(s, f)
    BY <1>1, <1>4, <1>6 DEF SendingInv
  <2> QED BY <2>1, <1>1, <1>2, <1>3, <1>4 DEF Covered
<1>7. WritingInv(s)' /\ SendingInv(s)'
  <2>1. r.since <= hist'.serial /\ r.loaded \subseteq done'
    BY <1>1, <1>2, <1>4 DEF SendingInv
  <2>2. \A f \in Counted' : ~r.changed /\ f.ext = "json" /\ f.serial <= r.since => Covered(s, f)'
    BY <1>1, <1>4, <1>5, <1>6 DEF Covered, Counted
  <2> QED BY <2>1, <2>2, <1>1, <1>4, <1>5 DEF WritingInv, SendingInv
<1> QED BY <1>1, <1>2, <1>4, <1>7, OneSends

\* What is deleted is not in the directory under another name, once it is sent.
LEMMA DeletedSends ==
  ASSUME StoreTypes, FileInv, SendInv, NEW s \in Senders, deleteEntry(s)
  PROVE  SendInv'
<1>1. PICK f \in send[s].victims :
        LET gone == {g \in dir : g.id = f.id /\ g.ext = f.ext}
        IN /\ dir' = dir \ gone
           /\ hist' = [hist EXCEPT !.sent = @ \ {g.serial : g \in gone}, !.lost =
                         {[id |-> g.id, serial |-> g.serial, since |-> send[s].since,
                           torn |-> g.serial \in send[s].torn,
                           changed |-> send[s].changed] :
                             g \in {h \in gone : h.serial \in done \ hist.sent}}]
           /\ send' = [Changed(send) EXCEPT ![s].victims = @ \ {f}]
  BY DEF deleteEntry
<1> DEFINE gone == {g \in dir : g.id = f.id /\ g.ext = f.ext}
<1>2. /\ app = "running" /\ send[s].pc = "deleting" /\ done' = done /\ dir' = dir \ gone
      /\ hist'.serial = hist.serial /\ hist'.sent = hist.sent \ {g.serial : g \in gone}
      /\ send[s] \in Sends
  BY <1>1 DEF deleteEntry, Running, StoreTypes, Histories
<1>3. /\ send'[s] = [send[s] EXCEPT !.victims = @ \ {f}]
      /\ \A u \in Senders : u # s => send'[u] = Changed(send)[u]
  BY <1>1, <1>2, ChangedSends DEF StoreTypes
<1>4. ASSUME NEW h \in dir', h.serial \in hist.sent PROVE h.serial \in hist'.sent
  <2>1. h \in dir /\ h.serial \in done
    BY <1>2, <1>4 DEF FileInv
  <2>2. \A g \in gone : g.serial # h.serial
    BY <2>1, <1>2 DEF FileInv
  <2> QED BY <2>2, <1>2, <1>4
<1> HIDE DEF gone
<1>5. WritingInv(s)' /\ SendingInv(s)'
  <2>1. /\ send'[s].pc = "deleting" /\ send'[s].since = send[s].since /\ send'[s].loaded = send[s].loaded
        /\ send'[s].torn = send[s].torn /\ send'[s].changed = send[s].changed
    BY <1>2, <1>3 DEF Sends
  <2>2. SendingInv(s)
    BY <1>2 DEF SendInv
  <2>3. ASSUME ~send[s].changed, NEW h \in Counted', h.ext = "json", h.serial <= send[s].since
        PROVE  Covered(s, h)'
    <3>1. h \in dir' /\ Covered(s, h)
      BY <1>2, <2>2, <2>3 DEF SendingInv, Counted
    <3> QED BY <3>1, <2>1, <1>2, <1>4 DEF Covered
  <2> QED BY <2>1, <2>2, <2>3, <1>2 DEF WritingInv, SendingInv
<1>6. ASSUME NEW u \in Senders, u # s
      PROVE  WritingInv(u)' /\ SendingInv(u)'
  <2>1. /\ WritingInv(u) /\ SendingInv(u) /\ send'[u] = Changed(send)[u]
        /\ \A g \in dir' : g \in dir \/ g.serial = hist.serial + 1
    BY <1>2, <1>3, <1>6 DEF SendInv
  <2>2. \/ send'[u] = send[u] /\ send[u].pc # "counted"
        \/ send[u].pc = "counted" /\ send'[u] = [send[u] EXCEPT !.changed = TRUE]
    BY <2>1, ChangedSends DEF StoreTypes
  <2> QED BY <2>1, <2>2, <1>2, <1>4, SeenByOthers
<1> QED BY <1>5, <1>6 DEF SendInv

LEMMA SendStep ==
  ASSUME StoreTypes, FileInv, StageInv, SendInv, [Next]_vars
  PROVE  SendInv'
<1>1. hist \in Histories /\ hist.serial \in Nat
  BY HistFields DEF StoreTypes
<1>2. CASE startIDs
  <2>1. /\ send' = [s \in Senders |-> Quiet] /\ hist'.serial = hist.serial
        /\ Quiet.pc = "idle" /\ Quiet.since = 0 /\ Quiet.loaded = {}
    BY <1>1, <1>2 DEF startIDs, StageInv, Quiet, Histories
  <2>2. ASSUME NEW s \in Senders PROVE WritingInv(s)' /\ SendingInv(s)'
    <3>1. send'[s].pc = "idle" /\ send'[s].since <= hist'.serial /\ send'[s].loaded \subseteq done'
      BY <2>1, <1>1
    <3> QED BY <3>1, AtRest
  <2> QED BY <2>2 DEF SendInv
<1>3. ASSUME NEW s \in Senders, reportWritten(s) \/ sendDone(s)
      PROVE  SendInv'
  <2> DEFINE r == IF reportWritten(s) THEN [Quiet EXCEPT !.pc = "written"] ELSE Quiet
  <2>1. /\ r \in Sends /\ r.pc \in {"idle", "written"} /\ r.since = 0 /\ r.loaded = {}
    BY QuietIsASend, SendFields DEF Quiet, Steps
  <2>2. /\ app = "running" /\ SetSend(s, r) /\ dir' = dir /\ done \subseteq done' /\ hist' = hist
    BY <1>3 DEF reportWritten, sendDone, Running
  <2> HIDE DEF r
  <2>3. send'[s] = r
    BY <2>1, <2>2, OneSender DEF SetSend, StoreTypes
  <2>4. WritingInv(s)' /\ SendingInv(s)'
    BY <2>1, <2>2, <2>3, <1>1, AtRest
  <2> QED BY <2>1, <2>2, <2>4, OneSends
<1>4. CASE addUserReport
  <2>1. /\ app = "running" /\ send' = Changed(send) /\ done \subseteq done'
        /\ \A f \in dir' : f \in dir \/ f.serial = hist.serial + 1
        /\ hist'.serial = hist.serial + 1 /\ hist'.sent = hist.sent
    BY <1>4, SerialUp, NextIDType DEF addUserReport, Running
  <2> QED BY <2>1, AllSee
<1>5. CASE \E f \in dir : deleteReportWithID(f)
  <2>1. /\ app = "running" /\ send' = Changed(send) /\ done' = done /\ hist' = hist
        /\ \A f \in dir' : f \in dir \/ f.serial = hist.serial + 1
    BY <1>5 DEF deleteReportWithID, Running
  <2> QED BY <2>1, AllSee
<1>6. CASE UNCHANGED vars
  BY <1>6 DEF vars, SendInv, WritingInv, SendingInv, Covered, Counted
<1>7. ASSUME \/ pruneReports \/ pruneOne \/ onCrash \/ Die \/ Tick
             \/ closeReport \/ recrashRename \/ recrashOpen \/ recrashRemoveOld \/ recrashClose
      PROVE  SendInv'
  <2>1. app' # "running"
    BY <1>7 DEF pruneReports, pruneOne, onCrash, Die, Tick, CrashStep,
                closeReport, recrashRename, recrashOpen, recrashRemoveOld, recrashClose
  <2> QED BY <2>1 DEF SendInv
<1> QED BY <1>2, <1>3, <1>4, <1>5, <1>6, <1>7, ReportedSends, CountedSends, ListedSends, ReadSends,
           HandedOverSends, DeletedSends
        DEF Next

-----------------------------------------------------------------------------
(* How far identifiers have come *)

\* A multiple of m below another one leaves room for m.
LEMMA RoomBetween ==
  ASSUME NEW m \in Nat \ {0}, NEW x \in Int, NEW q \in Int, x * m < q * m
  PROVE  x * m + m <= q * m
<1>1. ASSUME q <= x PROVE FALSE
  <2>1. x - q \in Nat /\ (x - q) * m \in Nat
    BY <1>1
  <2>2. x * m = q * m + (x - q) * m
    BY <2>1
  <2>3. x * m \in Int /\ q * m \in Int
    OBVIOUS
  <2> QED BY <2>1, <2>2, <2>3
<1>2. q - (x + 1) \in Nat
  BY <1>1
<1>3. (q - (x + 1)) * m \in Nat
  BY <1>2
<1>4. q * m = (x * m + m) + (q - (x + 1)) * m
  BY <1>2
<1> QED BY <1>3, <1>4

\* A second's identifiers are in the low part, and below its end; and those of two
\* seconds are all of one before all of the other.
LEMMA InitialIDs ==
  ASSUME NEW second \in Nat
  PROVE  /\ initializeIDs(second).high = 0 /\ initializeIDs(second).low = Start(second)
         /\ Start(second) \in Nat /\ Start(second) + Block <= LowSize
         /\ \E m \in Int : Start(second) = m * Block
<1> DEFINE h == baseID(second) \div LowSize
           l == baseID(second) % LowSize
           q == LowSize \div Block
<1>1. Block \in Nat \ {0} /\ LowSize \in Nat \ {0} /\ LowSize % Block = 0
  BY StoreAssumption, BlockAssumption
<1>2. baseID(second) = second * Block /\ baseID(second) \in Nat
  BY <1>1 DEF baseID
<1>3. h \in Int /\ l \in 0 .. LowSize - 1 /\ baseID(second) = h * LowSize + l
  <2>1. \A x \in Nat : x \div LowSize \in Int /\ x % LowSize \in 0 .. LowSize - 1
    BY <1>1
  <2>2. \A x \in Nat : x = (x \div LowSize) * LowSize + (x % LowSize)
    BY <1>1
  <2> QED BY <2>1, <2>2, <1>2
<1>4. q \in Int /\ LowSize = q * Block
  BY <1>1
<1>5. initializeIDs(second).high = 0 /\ initializeIDs(second).low = l /\ Start(second) = l
  BY DEF initializeIDs, Start
<1> HIDE DEF h, l, q
<1>6. second - h * q \in Int /\ l = (second - h * q) * Block
  <2>1. h * q \in Int /\ (h * q) * Block = h * LowSize
    BY <1>1, <1>3, <1>4
  <2>2. (second - h * q) * Block = second * Block - (h * q) * Block
    BY <2>1, <1>1
  <2>3. second * Block \in Int /\ h * LowSize \in Int /\ l \in Int
    BY <1>1, <1>3
  <2>4. l = second * Block - h * LowSize
    BY <2>3, <1>2, <1>3
  <2> QED BY <2>1, <2>2, <2>4
<1>7. l + Block <= LowSize
  <2>1. l < LowSize
    BY <1>1, <1>3
  <2>2. (second - h * q) * Block < q * Block
    BY <2>1, <1>4, <1>6
  <2>3. (second - h * q) * Block + Block <= q * Block
    BY <2>2, <1>1, <1>4, <1>6, RoomBetween
  <2> QED BY <2>3, <1>4, <1>6
<1>8. l \in Nat
  BY <1>1, <1>3
<1> QED BY <1>5, <1>6, <1>7, <1>8

LEMMA StartsApart ==
  ASSUME NEW a \in Nat, NEW b \in Nat, Start(a) < Start(b)
  PROVE  Start(a) + Block <= Start(b)
<1>1. PICK m \in Int : Start(a) = m * Block
  BY InitialIDs
<1>2. PICK n \in Int : Start(b) = n * Block
  BY InitialIDs
<1>3. Block \in Nat \ {0}
  BY StoreAssumption
<1> QED BY <1>1, <1>2, <1>3, RoomBetween

LEMMA IDStart == Init => IDInv
BY DEF Init, IDInv

LEMMA OrderStart == Init => OrderInv
BY DEF Init, OrderInv

\* No identifier is taken twice while the low part has room.
LEMMA NextIDs ==
  ASSUME StoreTypes, IDInv, app = "running", getNextUniqueID, hist.serial + 1 <= MaxSerial
  PROVE  /\ NextID' = NextID + 1 /\ g_nextUniqueID'.low = g_nextUniqueID.low + 1
         /\ g_nextUniqueID'.high = g_nextUniqueID.high
         /\ ~hist.back => ~Exists(NextID, "json")
<1>1. /\ LowSize \in Nat \ {0} /\ g_nextUniqueID \in [high : Nat, low : 0 .. LowSize - 1]
      /\ Block \in Nat /\ MaxSerial \in Nat /\ MaxSerial < Block /\ hist.serial \in Nat
  BY StoreAssumption, BlockAssumption, HistFields DEF StoreTypes
<1>2. Used \in 0 .. hist.serial /\ g_nextUniqueID.low + Block <= LowSize + Used
  BY DEF IDInv
<1>3. g_nextUniqueID.low + 1 < LowSize
  BY <1>1, <1>2
<1>4. (g_nextUniqueID.low + 1) % LowSize = g_nextUniqueID.low + 1
  BY <1>1, <1>3
<1>5. /\ g_nextUniqueID'.low = g_nextUniqueID.low + 1 /\ g_nextUniqueID'.high = g_nextUniqueID.high
  BY <1>1, <1>4 DEF getNextUniqueID
<1>6. ~hist.back => ~Exists(NextID, "json")
  <2>1. ~hist.back => \A f \in dir : f.id < NextID
    BY DEF IDInv
  <2> QED BY <2>1, NextIDType DEF Exists
<1> QED BY <1>1, <1>5, <1>6 DEF NextID

LEMMA IDKept ==
  ASSUME StoreTypes, IDInv, app \in {"running", "crashing"}, app' \in {"running", "crashing"},
         now' = now, g_nextUniqueID' = g_nextUniqueID, hist'.started = hist.started,
         hist'.back = hist.back, hist'.serial = hist.serial,
         \A f \in dir' : \E g \in dir : f.id = g.id
  PROVE  IDInv'
<1>1. NextID' = NextID /\ Used' = Used
  BY DEF NextID, Used, Start, initializeIDs, baseID
<1>2. ~hist.back => \A f \in dir' : f.id < NextID
  BY DEF IDInv
<1> QED BY <1>1, <1>2 DEF IDInv

LEMMA IDTaken ==
  ASSUME StoreTypes, IDInv,
         (\E s \in Senders : reportUserException(s)) \/ addUserReport \/ onCrash
  PROVE  IDInv'
<1>1. /\ app = "running" /\ app' \in {"running", "crashing"} /\ getNextUniqueID /\ now' = now
      /\ hist.serial + 1 <= MaxSerial
      /\ \A f \in dir' : f \in dir \/ f = File(NextID, "json", hist.serial + 1)
  BY HistFields, NextIDType DEF reportUserException, addUserReport, onCrash, Running, Begin
<1>2. hist'.serial = hist.serial + 1 /\ hist'.started = hist.started /\ hist'.back = hist.back
  BY SerialUp DEF reportUserException, addUserReport, onCrash
<1>3. /\ NextID' = NextID + 1 /\ g_nextUniqueID'.low = g_nextUniqueID.low + 1
      /\ g_nextUniqueID'.high = g_nextUniqueID.high
  BY <1>1, NextIDs
<1>4. NextID \in Nat /\ hist.serial \in Nat /\ Start(hist.started) \in Nat
  BY NextIDType, HistFields, InitialIDs
<1>5. Used' = Used + 1
  <2>1. Start(hist.started)' = Start(hist.started)
    BY <1>2 DEF Start, initializeIDs, baseID
  <2> QED BY <2>1, <1>3, <1>4 DEF Used
<1>6. /\ Used \in 0 .. hist.serial /\ g_nextUniqueID.low + Block <= LowSize + Used
      /\ ~hist.back => \A f \in dir : f.id < NextID
      /\ hist.started # 0 /\ g_nextUniqueID.high = 0
  BY <1>1 DEF IDInv
<1>7. g_nextUniqueID.low \in Nat /\ Block \in Nat /\ LowSize \in Nat
  BY StoreAssumption DEF StoreTypes
<1>8. Used' \in 0 .. hist'.serial /\ g_nextUniqueID'.low + Block <= LowSize + Used'
  BY <1>2, <1>3, <1>4, <1>5, <1>6, <1>7
<1>9. ~hist.back => \A f \in dir' : f.id < NextID'
  <2>1. File(NextID, "json", hist.serial + 1).id = NextID /\ NextID < NextID + 1
    BY NextIDType
  <2>2. \A f \in dir : f.id \in Nat /\ (f.id < NextID => f.id < NextID + 1)
    BY <1>4 DEF StoreTypes, Files
  <2> QED BY <2>1, <2>2, <1>1, <1>3, <1>6
<1> QED BY <1>1, <1>2, <1>3, <1>6, <1>8, <1>9 DEF IDInv

LEMMA IDLaunch ==
  ASSUME StoreTypes, IDInv, pruneReports \/ pruneOne \/ startIDs \/ Die \/ Tick
  PROVE  IDInv'
<1>1. /\ hist \in Histories /\ hist.started \in Nat /\ now \in Nat \ {0}
      /\ hist.back \in BOOLEAN /\ hist.serial \in Nat
      /\ hist.serial <= MaxSerial /\ MaxSerial < Block /\ Block \in Nat /\ MaxSerial \in Nat
  BY StoreAssumption, BlockAssumption, HistFields DEF StoreTypes
<1>2. \A f \in dir : f.id \in Nat
  BY DEF StoreTypes, Files
<1>3. ASSUME hist'.started = hist.started PROVE Start(hist.started)' = Start(hist.started)
  BY <1>3 DEF Start, initializeIDs, baseID
<1>4. ASSUME hist'.started = hist.started, now' = now PROVE NotAfterLast' = NotAfterLast
  BY <1>4 DEF NotAfterLast, initializeIDs, baseID
<1>5. CASE pruneReports
  <2>1. /\ app = "dead" /\ app' = "pruning" /\ dir' = dir /\ now' = now
        /\ hist'.started = hist.started /\ hist'.back = (hist.back \/ NotAfterLast)
    BY <1>1, <1>5 DEF pruneReports, Histories
  <2>2. ~hist'.back => ~hist.back /\ ~NotAfterLast
    BY <2>1, Zenon
  <2> QED BY <2>1, <2>2, <1>3, <1>4 DEF IDInv
<1>6. CASE pruneOne
  <2>1. /\ app = "pruning" /\ app' = "pruning" /\ dir' \in SUBSET dir /\ now' = now
        /\ hist'.started = hist.started /\ hist'.back = hist.back
    BY <1>1, <1>6 DEF pruneOne, Histories
  <2> QED BY <2>1, <1>3, <1>4 DEF IDInv
<1>7. CASE startIDs
  <2>1. /\ app = "pruning" /\ app' = "running" /\ dir' = dir /\ now' = now
        /\ g_nextUniqueID' = initializeIDs(now) /\ hist'.serial = hist.serial
        /\ hist'.started = now /\ hist'.back = hist.back
    BY <1>1, <1>7 DEF startIDs, Histories
  <2>2. /\ g_nextUniqueID'.high = 0 /\ g_nextUniqueID'.low = Start(now)
        /\ Start(now) + Block <= LowSize /\ Start(now) \in Nat
    BY <2>1, <1>1, InitialIDs
  <2>3. NextID' = Start(now) /\ Used' = 0
    <3>1. Start(hist.started)' = Start(now)
      BY <2>1 DEF Start, initializeIDs, baseID
    <3> QED BY <3>1, <2>2 DEF NextID, Used
  <2>4. 0 \in 0 .. hist'.serial /\ LowSize + 0 = LowSize
    BY <2>1, <1>1, StoreAssumption
  <2>5. ~hist.back => \A f \in dir : f.id < Start(now)
    <3>1. hist.started # 0 /\ ~hist.back => Start(hist.started) < Start(now)
      <4>1. ~hist.back /\ hist.started # 0 => ~(initializeIDs(now).low <= initializeIDs(hist.started).low)
        BY <2>1 DEF IDInv, NotAfterLast
      <4>2. Start(hist.started) \in Nat /\ initializeIDs(hist.started).low = Start(hist.started)
        BY <1>1, InitialIDs
      <4>3. initializeIDs(now).low = Start(now)
        BY <1>1, InitialIDs
      <4> QED BY <4>1, <4>2, <4>3, <2>2
    <3>2. Start(hist.started) < Start(now) => Start(hist.started) + Block <= Start(now)
      BY <1>1, StartsApart
    <3>3. Start(hist.started) \in Nat
      BY <1>1, InitialIDs
    <3>4. /\ hist.started = 0 => dir = {}
          /\ ~hist.back => \A f \in dir : f.id < Start(hist.started) + Block
      BY <2>1 DEF IDInv
    <3> QED BY <3>1, <3>2, <3>3, <3>4, <2>2, <1>1, <1>2
  <2>6. /\ hist'.started # 0 /\ Used' \in 0 .. hist'.serial /\ g_nextUniqueID'.high = 0
        /\ g_nextUniqueID'.low + Block <= LowSize + Used'
    BY <2>1, <2>2, <2>3, <2>4, <1>1
  <2>7. ~hist'.back => \A f \in dir' : f.id < NextID'
    BY <2>1, <2>3, <2>5
  <2> QED BY <2>1, <2>6, <2>7 DEF IDInv
<1>8. CASE Die
  <2>1. /\ app # "dead" /\ app' = "dead" /\ dir' = dir /\ now' = now
        /\ hist'.started = hist.started /\ hist'.back = hist.back
    BY <1>1, <1>8 DEF Die, Histories
  <2>2. CASE app = "pruning"
    BY <2>1, <2>2, <1>3 DEF IDInv
  <2>3. CASE app \in {"running", "crashing"}
    <3>1. Start(hist.started) \in Nat /\ NextID \in Nat
      BY <1>1, InitialIDs, NextIDType
    <3>2. NextID < Start(hist.started) + Block
      BY <3>1, <2>3, <1>1 DEF IDInv, Used
    <3>3. ~hist.back => \A f \in dir : f.id < Start(hist.started) + Block
      <4>1. ~hist.back => \A f \in dir : f.id < NextID
        BY <2>3 DEF IDInv
      <4> QED BY <4>1, <3>1, <3>2, <1>1, <1>2
    <3>4. hist.started # 0
      BY <2>3 DEF IDInv
    <3> QED BY <3>3, <3>4, <2>1, <1>3 DEF IDInv
  <2> QED BY <2>1, <2>2, <2>3 DEF StoreTypes
<1>9. CASE Tick
  <2>1. app = "dead" /\ app' = "dead" /\ dir' = dir /\ hist' = hist
    BY <1>9 DEF Tick
  <2> QED BY <2>1, <1>3 DEF IDInv
<1> QED BY <1>5, <1>6, <1>7, <1>8, <1>9

LEMMA IDStep ==
  ASSUME StoreTypes, CrashInv, IDInv, [Next]_vars
  PROVE  IDInv'
<1>1. hist \in Histories
  BY DEF StoreTypes
<1>2. ASSUME NEW s \in Senders,
             reportWritten(s) \/ getReportCount(s) \/ getReportIDs(s) \/ readReport(s) \/ sinkDone(s)
             \/ deleteEntry(s) \/ sendDone(s)
      PROVE  IDInv'
  <2>1. app = "running" /\ app' = app /\ now' = now /\ g_nextUniqueID' = g_nextUniqueID /\ dir' \in SUBSET dir
    BY <1>2 DEF reportWritten, getReportCount, getReportIDs, readReport, sinkDone, deleteEntry, sendDone,
                Running
  <2>2. hist'.started = hist.started /\ hist'.back = hist.back /\ hist'.serial = hist.serial
    BY <1>1, <1>2 DEF reportWritten, getReportCount, getReportIDs, readReport, sinkDone, deleteEntry,
                      sendDone, Histories
  <2> QED BY <2>1, <2>2, IDKept
<1>3. CASE \E f \in dir : deleteReportWithID(f)
  <2>1. /\ app = "running" /\ app' = app /\ now' = now /\ g_nextUniqueID' = g_nextUniqueID
        /\ dir' \in SUBSET dir /\ hist' = hist
    BY <1>3 DEF deleteReportWithID, Running
  <2> QED BY <2>1, IDKept
<1>4. CASE closeReport \/ recrashRename \/ recrashOpen \/ recrashRemoveOld \/ recrashClose
  <2>1. /\ app = "crashing" /\ app' = app /\ now' = now /\ g_nextUniqueID' = g_nextUniqueID /\ hist' = hist
        /\ crash.pc # "none"
    BY <1>4 DEF closeReport, recrashRename, recrashOpen, recrashRemoveOld, recrashClose, CrashStep
  <2>2. OldFile.id = Crashed.id
    BY <2>1, CrashedFile
  <2>3. recrashRename => Crashed \in dir
    BY DEF recrashRename, CrashStep, CrashInv
  <2>4. recrashOpen => OldFile \in dir
    BY DEF recrashOpen, CrashStep, CrashInv
  <2>5. \A f \in dir' : \E g \in dir : f.id = g.id
    BY <2>2, <2>3, <2>4, <1>4 DEF closeReport, recrashRename, recrashOpen, recrashRemoveOld, recrashClose
  <2> QED BY <2>1, <2>5, IDKept
<1>5. CASE UNCHANGED vars
  BY <1>5 DEF vars, IDInv, Used, NextID, Start, initializeIDs, baseID, NotAfterLast
<1> QED BY <1>2, <1>3, <1>4, <1>5, IDTaken, IDLaunch DEF Next

\* A file of a report that has one already changes nothing; a new report has the
\* largest identifier and the largest serial.
LEMMA OrderStep ==
  ASSUME StoreTypes, FileInv, CrashInv, IDInv, OrderInv, [Next]_vars
  PROVE  OrderInv'
<1>1. hist \in Histories /\ hist.serial \in Nat
  BY HistFields DEF StoreTypes
<1>2. ASSUME \A f \in dir' : \E g \in dir : f.id = g.id /\ f.serial = g.serial, ~hist'.back => ~hist.back
      PROVE  OrderInv'
  <2> SUFFICES ASSUME ~hist'.back, NEW f \in dir', NEW g \in dir', f.id < g.id PROVE f.serial < g.serial
    BY DEF OrderInv
  <2>1. PICK e \in dir : f.id = e.id /\ f.serial = e.serial
    BY <1>2
  <2>2. PICK h \in dir : g.id = h.id /\ g.serial = h.serial
    BY <1>2
  <2> QED BY <2>1, <2>2, <1>2 DEF OrderInv
<1>3. ASSUME NEW s \in Senders,
             reportWritten(s) \/ getReportCount(s) \/ getReportIDs(s) \/ readReport(s) \/ sinkDone(s)
             \/ deleteEntry(s) \/ sendDone(s)
      PROVE  dir' \in SUBSET dir /\ hist'.back = hist.back
  BY <1>1, <1>3 DEF reportWritten, getReportCount, getReportIDs, readReport, sinkDone, deleteEntry,
                    sendDone, Histories
<1>4. ASSUME pruneOne \/ startIDs \/ Die \/ Tick \/ (\E f \in dir : deleteReportWithID(f)) \/ UNCHANGED vars
      PROVE  dir' \in SUBSET dir /\ hist'.back = hist.back
  BY <1>1, <1>4 DEF pruneOne, startIDs, Die, Tick, deleteReportWithID, vars, Histories
<1>5. ASSUME pruneReports
      PROVE  dir' \in SUBSET dir /\ (~hist'.back => ~hist.back)
  <2>1. dir' = dir /\ hist'.back = (hist.back \/ NotAfterLast)
    BY <1>1, <1>5 DEF pruneReports, Histories
  <2> QED BY <2>1, Zenon
<1>6. dir' \in SUBSET dir => \A f \in dir' : \E g \in dir : f.id = g.id /\ f.serial = g.serial
  OBVIOUS
<1>7. CASE closeReport \/ recrashRename \/ recrashOpen \/ recrashRemoveOld \/ recrashClose
  <2>1. crash.pc # "none" /\ hist' = hist
    BY <1>7 DEF closeReport, recrashRename, recrashOpen, recrashRemoveOld, recrashClose, CrashStep
  <2>2. OldFile.id = Crashed.id /\ OldFile.serial = Crashed.serial
    BY <2>1, CrashedFile
  <2>3. recrashRename => Crashed \in dir
    BY DEF recrashRename, CrashStep, CrashInv
  <2>4. recrashOpen => OldFile \in dir
    BY DEF recrashOpen, CrashStep, CrashInv
  <2>5. \A f \in dir' : \E g \in dir : f.id = g.id /\ f.serial = g.serial
    BY <2>2, <2>3, <2>4, <1>7 DEF closeReport, recrashRename, recrashOpen, recrashRemoveOld, recrashClose
  <2> QED BY <2>1, <2>5, <1>2
<1>8. CASE (\E s \in Senders : reportUserException(s)) \/ addUserReport \/ onCrash
  <2> DEFINE new == File(NextID, "json", hist.serial + 1)
  <2>1. app = "running" /\ \A f \in dir' : f \in dir \/ f = new
    BY <1>8 DEF reportUserException, addUserReport, onCrash, Running, Begin
  <2>2. hist'.back = hist.back
    BY <1>8, SerialUp DEF reportUserException, addUserReport, onCrash
  <2>3. new.id = NextID /\ NextID \in Nat /\ new.serial = hist.serial + 1
    BY NextIDType
  <2> HIDE DEF new
  <2>4. \A f \in dir : f.serial < hist.serial + 1 /\ f.id \in Nat
    BY <1>1 DEF FileInv, StoreTypes, Files
  <2>5. ~hist.back => \A f \in dir : f.id < NextID
    BY <2>1 DEF IDInv
  <2>6. ASSUME ~hist.back, NEW f \in dir', NEW g \in dir', f.id < g.id PROVE f.serial < g.serial
    <3>1. f \in dir
      <4> SUFFICES ASSUME f = new, f # g PROVE g.id < NextID
        BY <2>1, <2>3, <2>4, <2>6
      <4> QED BY <2>1, <2>5, <2>6
    <3> QED BY <3>1, <2>1, <2>3, <2>4, <2>6 DEF OrderInv
  <2> QED BY <2>2, <2>6 DEF OrderInv
<1> QED BY <1>2, <1>3, <1>4, <1>5, <1>6, <1>7, <1>8 DEF Next

-----------------------------------------------------------------------------
(* The crash's report, pruning, and what is lost *)

LEMMA StoredStart == Init => StoredInv
BY DEF Init, StoredInv, NoCrash

LEMMA StoredStep ==
  ASSUME StoreTypes, FileInv, StageInv, CrashInv, IDInv, StoredInv, [Next]_vars
  PROVE  StoredInv'
<1>1. hist \in Histories /\ (crash.pc # "none" <=> app = "crashing")
  BY DEF StoreTypes, StageInv
<1>2. CASE pruneReports
  <2>1. app' = "pruning" /\ crash' = crash /\ crash.pc = "none"
    BY <1>1, <1>2 DEF pruneReports
  <2> QED BY <2>1 DEF StoredInv
<1>3. ASSUME app' = "running" \/ app' = "pruning", crash' = crash, crash.pc = "none"
      PROVE  StoredInv'
  BY <1>3 DEF StoredInv
<1>4. CASE onCrash
  <2>1. /\ app = "running" /\ app' = "crashing" /\ hist'.back = hist.back /\ Begin(hist.serial + 1)
        /\ crash'.pc = IF Exists(NextID, "json") THEN "done" ELSE "writing"
    BY <1>4, SerialUp DEF onCrash, Running
  <2>2. ~hist.back => ~Exists(NextID, "json")
    BY <2>1, NextIDs DEF Begin
  <2> QED BY <2>1, <2>2 DEF StoredInv
<1>5. CASE closeReport \/ recrashClose
  <2>1. /\ app' = "crashing" /\ dir' = dir /\ done' = done \cup {Crashed.serial} /\ crash'.file = crash.file
        /\ Crashed \in dir
    BY <1>5 DEF closeReport, recrashClose, CrashStep, CrashInv, StoreTypes, Crashes
  <2>2. Crashed' = Crashed
    BY <2>1 DEF Crashed
  <2> QED BY <2>1, <2>2 DEF StoredInv
<1>6. CASE recrashRename \/ recrashOpen \/ recrashRemoveOld
  <2>1. app' = "crashing" /\ crash'.pc # "done"
    BY <1>6 DEF recrashRename, recrashOpen, recrashRemoveOld, CrashStep, StoreTypes, Crashes
  <2> QED BY <2>1 DEF StoredInv
<1>7. CASE Die
  <2>1. /\ crash'.pc = "none" /\ dir' = dir /\ done' = done /\ hist'.back = hist.back
        /\ hist'.crashed = IF crash.pc = "done" THEN Crashed.serial ELSE 0
    BY <1>1, <1>7 DEF Die, NoCrash, Histories
  <2> QED BY <2>1 DEF StoredInv
<1>8. CASE Tick \/ UNCHANGED vars
  BY <1>8 DEF Tick, vars, StoredInv, Crashed
<1>9. ASSUME NEW s \in Senders,
             \/ reportUserException(s) \/ reportWritten(s)
             \/ getReportCount(s) \/ getReportIDs(s) \/ readReport(s)
             \/ sinkDone(s) \/ deleteEntry(s) \/ sendDone(s)
      PROVE  app' = "running" /\ crash' = crash /\ crash.pc = "none"
  BY <1>1, <1>9 DEF reportUserException, reportWritten, getReportCount, getReportIDs, readReport, sinkDone,
                    deleteEntry, sendDone, Running
<1>10. ASSUME pruneOne \/ startIDs \/ addUserReport \/ \E f \in dir : deleteReportWithID(f)
       PROVE  (app' = "running" \/ app' = "pruning") /\ crash' = crash /\ crash.pc = "none"
  BY <1>1, <1>10 DEF pruneOne, startIDs, addUserReport, deleteReportWithID, Running
<1> QED BY <1>2, <1>3, <1>4, <1>5, <1>6, <1>7, <1>8, <1>9, <1>10 DEF Next

LEMMA PruneStart == Init => PruneInv
BY DEF Init, PruneInv

LEMMA PruneStep ==
  ASSUME StoreTypes, FileInv, OrderInv, PruneInv, [Next]_vars
  PROVE  PruneInv'
<1>1. CASE pruneReports
  <2>1. /\ Cardinality(Counted) \in Nat /\ OneName(Counted) /\ g_maxReportCount \in Nat
        /\ IsFiniteSet(Counted) /\ Counted \in SUBSET Files /\ Counted' = Counted
    <3>1. dir' = dir
      BY <1>1 DEF pruneReports
    <3>2. Counted' = Counted
      BY <3>1 DEF Counted
    <3> QED BY <3>2, StoreAssumption, CountedFiles
  <2>2. hist'.pruned = {}
    BY <1>1 DEF pruneReports, StoreTypes, Histories
  <2> DEFINE n == Cardinality(Counted) - g_maxReportCount
  <2>3. doomed' = IF n > 0 THEN SubSeq(SortedIDs(Counted), 1, n) ELSE <<>>
    BY <1>1 DEF pruneReports
  <2>4. n > 0 => n \in 0 .. Cardinality(Counted)
    BY <2>1
  <2> HIDE DEF n
  <2>5. CASE n > 0
    <3>1. \A f \in Counted : f.ext = "json" /\ f.id \notin Values(doomed') => \A id \in Values(doomed') : id < f.id
      BY <2>1, <2>3, <2>4, <2>5, OldestFirst
    <3> QED BY <3>1, <2>1, <2>2 DEF PruneInv
  <2>6. CASE ~(n > 0)
    <3>1. Len(doomed') = 0 /\ 1 .. 0 = {}
      BY <2>3, <2>6, EmptySeq
    <3>2. Values(doomed') = {}
      BY <3>1 DEF Values
    <3> QED BY <3>2, <2>2 DEF PruneInv
  <2> QED BY <2>5, <2>6
<1>2. CASE pruneOne
  <2> DEFINE gone == {f \in dir : f.id = Head(doomed) /\ f.ext = "json"}
  <2>1. /\ app = "pruning" /\ doomed \in Seq(Nat) /\ doomed # <<>> /\ doomed' = Tail(doomed)
        /\ dir' = dir \ gone
    BY <1>2 DEF pruneOne, StoreTypes
  <2>2. hist'.pruned = hist.pruned \cup {f.serial : f \in gone} /\ hist'.back = hist.back
    BY <1>2 DEF pruneOne, StoreTypes, Histories
  <2>3. /\ Head(doomed) \in Values(doomed) /\ Values(Tail(doomed)) \subseteq Values(doomed)
        /\ \A id \in Values(doomed) : id = Head(doomed) \/ id \in Values(Tail(doomed))
    BY <2>1, ValuesOfTail
  <2>4. ASSUME NEW f \in Counted', f.ext = "json", f.id \notin Values(doomed')
        PROVE  /\ \A id \in Values(doomed') : id < f.id
               /\ ~hist.back => \A serial \in hist'.pruned : serial < f.serial
    <3>1. f \in Counted /\ f \in dir /\ f.id \notin Values(doomed)
      BY <2>1, <2>3, <2>4 DEF Counted
    <3>2. /\ \A id \in Values(doomed) : id < f.id
          /\ ~hist.back => \A serial \in hist.pruned : serial < f.serial
      BY <3>1, <2>1, <2>4 DEF PruneInv
    <3>3. ~hist.back => \A g \in gone : g.serial < f.serial
      BY <3>1, <3>2, <2>3 DEF OrderInv
    <3> QED BY <3>2, <3>3, <2>1, <2>2, <2>3
  <2> QED BY <2>2, <2>4 DEF PruneInv
<1>3. CASE UNCHANGED vars
  BY <1>3 DEF vars, PruneInv, Counted
<1>4. ASSUME NEW s \in Senders,
             \/ reportUserException(s) \/ reportWritten(s)
             \/ getReportCount(s) \/ getReportIDs(s) \/ readReport(s)
             \/ sinkDone(s) \/ deleteEntry(s) \/ sendDone(s)
      PROVE  app' # "pruning"
  BY <1>4 DEF reportUserException, reportWritten, getReportCount, getReportIDs, readReport, sinkDone,
              deleteEntry, sendDone, Running
<1>5. ASSUME \/ startIDs \/ addUserReport \/ \E f \in dir : deleteReportWithID(f)
             \/ onCrash \/ closeReport \/ recrashRename \/ recrashOpen \/ recrashRemoveOld \/ recrashClose
             \/ Die \/ Tick
      PROVE  app' # "pruning"
  BY <1>5 DEF startIDs, addUserReport, deleteReportWithID, Running, onCrash, closeReport, recrashRename,
              recrashOpen, recrashRemoveOld, recrashClose, CrashStep, Die, Tick
<1>6. app' # "pruning" => PruneInv'
  BY DEF PruneInv
<1> QED BY <1>1, <1>2, <1>3, <1>4, <1>5, <1>6 DEF Next

LEMMA LostStart == Init => LostOnlyInARace
BY DEF Init, LostOnlyInARace

\* What a send deletes unsent was read too early, or a change stood between.
LEMMA LostByDeleting ==
  ASSUME StoreTypes, FileInv, SendInv, NEW s \in Senders, deleteEntry(s)
  PROVE  LostOnlyInARace'
<1>1. PICK f \in send[s].victims :
        LET gone == {g \in dir : g.id = f.id /\ g.ext = f.ext}
        IN hist' = [hist EXCEPT !.sent = @ \ {g.serial : g \in gone}, !.lost =
                      {[id |-> g.id, serial |-> g.serial, since |-> send[s].since,
                        torn |-> g.serial \in send[s].torn,
                        changed |-> send[s].changed] :
                          g \in {h \in gone : h.serial \in done \ hist.sent}}]
  BY DEF deleteEntry
<1> DEFINE gone == {g \in dir : g.id = f.id /\ g.ext = f.ext}
           lost(g) == [id |-> g.id, serial |-> g.serial, since |-> send[s].since, torn |-> g.serial \in send[s].torn,
                       changed |-> send[s].changed]
<1>2. hist'.lost = {lost(g) : g \in {h \in gone : h.serial \in done \ hist.sent}}
  BY <1>1 DEF StoreTypes, Histories
<1>3. send[s].pc = "deleting" /\ SendingInv(s) /\ send[s].since \in Nat
  BY SendFields DEF deleteEntry, Running, SendInv, StoreTypes
<1>4. ASSUME NEW g \in gone, g.serial \in done \ hist.sent
      PROVE  g.serial > send[s].since \/ g.serial \in send[s].torn \/ send[s].changed \/ g.id = 0
  <2>1. g \in dir /\ g.ext = "json" /\ g.serial \in Nat /\ (g.id = 0 \/ g \in Counted)
    BY <1>4 DEF FileInv, StoreTypes, Files, Counted
  <2>2. g \in Counted /\ ~send[s].changed /\ g.serial <= send[s].since => g.serial \in hist.sent \cup send[s].torn
    BY <2>1, <1>3 DEF SendingInv, Covered
  <2> QED BY <2>1, <2>2, <1>3, <1>4
<1> HIDE DEF gone
<1>5. ASSUME NEW l \in hist'.lost PROVE l.serial > l.since \/ l.torn \/ l.changed \/ l.id = 0
  <2>1. PICK g \in gone : g.serial \in done \ hist.sent /\ l = lost(g)
    BY <1>2, <1>5
  <2>2. /\ l.serial = g.serial /\ l.since = send[s].since /\ l.torn = (g.serial \in send[s].torn)
        /\ l.changed = send[s].changed /\ l.id = g.id
    BY <2>1
  <2> QED BY <2>1, <2>2, <1>4
<1> QED BY <1>5 DEF LostOnlyInARace

LEMMA LostStep ==
  ASSUME StoreTypes, FileInv, SendInv, LostOnlyInARace, [Next]_vars
  PROVE  LostOnlyInARace'
<1>1. hist \in Histories
  BY DEF StoreTypes
<1>2. CASE \E s \in Senders : deleteEntry(s)
  BY <1>2, LostByDeleting
<1>3. ASSUME NEW s \in Senders,
             reportUserException(s) \/ reportWritten(s) \/ getReportCount(s) \/ getReportIDs(s)
             \/ readReport(s) \/ sinkDone(s) \/ sendDone(s)
      PROVE  hist'.lost = hist.lost
  BY <1>1, <1>3 DEF reportUserException, reportWritten, getReportCount, getReportIDs, readReport, sinkDone,
                    sendDone, Histories
<1>4. ASSUME \/ pruneReports \/ pruneOne \/ startIDs \/ addUserReport \/ onCrash \/ Die
      PROVE  hist'.lost = hist.lost
  BY <1>1, <1>4 DEF pruneReports, pruneOne, startIDs, addUserReport, onCrash, Die, Histories
<1>5. ASSUME \/ \E f \in dir : deleteReportWithID(f)
             \/ closeReport \/ recrashRename \/ recrashOpen \/ recrashRemoveOld \/ recrashClose
             \/ Tick \/ UNCHANGED vars
      PROVE  hist'.lost = hist.lost
  BY <1>5 DEF deleteReportWithID, closeReport, recrashRename, recrashOpen, recrashRemoveOld, recrashClose,
              CrashStep, Tick, vars
<1>6. hist'.lost = hist.lost => LostOnlyInARace'
  BY DEF LostOnlyInARace
<1> QED BY <1>2, <1>3, <1>4, <1>5, <1>6 DEF Next

-----------------------------------------------------------------------------
(* What a sender has loaded is complete, whatever the process does *)

LoadedInv == \A s \in Senders : send[s].loaded \subseteq done

LEMMA LoadedStep ==
  ASSUME StoreTypes, LoadedInv, [Next]_vars
  PROVE  LoadedInv'
<1>1. /\ send \in [Senders -> Sends] /\ Changed(send) \in [Senders -> Sends]
      /\ \A s \in Senders : Changed(send)[s].loaded = send[s].loaded
  <2>1. \A s \in Senders : [send[s] EXCEPT !.changed = TRUE].loaded = send[s].loaded
    BY DEF StoreTypes, Sends
  <2> QED BY <2>1, ChangedSends DEF StoreTypes
<1>2. Quiet.loaded = {} /\ \A p : [Quiet EXCEPT !.pc = p].loaded = {}
  BY DEF Quiet
<1>3. ASSUME NEW s \in Senders, reportUserException(s)
      PROVE  LoadedInv'
  <2> DEFINE r == [Quiet EXCEPT !.pc = IF Exists(NextID, "json") THEN "written" ELSE "writing",
                                !.file = IF Exists(NextID, "json") THEN <<>> ELSE <<hist.serial + 1>>]
  <2>1. r.loaded = {} /\ send' = [Changed(send) EXCEPT ![s] = r] /\ done' = done
    BY <1>3 DEF reportUserException, Quiet
  <2> HIDE DEF r
  <2> QED BY <2>1, <1>1 DEF LoadedInv
<1>4. ASSUME NEW s \in Senders, reportWritten(s) \/ sendDone(s)
      PROVE  LoadedInv'
  <2>1. done \subseteq done' /\ \E r : r.loaded = {} /\ send' = [send EXCEPT ![s] = r]
    BY <1>2, <1>4 DEF reportWritten, sendDone, SetSend
  <2> QED BY <2>1, <1>1 DEF LoadedInv
<1>5. ASSUME NEW s \in Senders, NEW r, r.loaded \subseteq send[s].loaded \cup done, SetSend(s, r), done' = done
      PROVE  LoadedInv'
  BY <1>1, <1>5 DEF LoadedInv, SetSend
<1>6. ASSUME NEW s \in Senders, getReportCount(s) \/ getReportIDs(s) \/ readReport(s) \/ sinkDone(s)
      PROVE  LoadedInv'
  <2>1. send[s] \in Sends /\ done' = done
    BY <1>1, <1>6 DEF getReportCount, getReportIDs, readReport, sinkDone
  <2>2. CASE getReportCount(s)
    <3> DEFINE r == [send[s] EXCEPT !.pc = "counted", !.count = Cardinality(Counted), !.since = hist.serial]
    <3>1. r.loaded \subseteq send[s].loaded \cup done /\ SetSend(s, r)
      BY <2>1, <2>2 DEF getReportCount, Sends
    <3> HIDE DEF r
    <3> QED BY <3>1, <2>1, <1>5
  <2>3. CASE getReportIDs(s)
    <3>1. PICK files, junk :
            SetSend(s, [send[s] EXCEPT !.pc = "reading", !.count = 0,
                          !.ids = SubSeq(SortedIDs(files), 1, Cardinality(files) - junk)])
      BY <2>3 DEF getReportIDs
    <3> DEFINE r == [send[s] EXCEPT !.pc = "reading", !.count = 0,
                       !.ids = SubSeq(SortedIDs(files), 1, Cardinality(files) - junk)]
    <3>2. r.loaded \subseteq send[s].loaded \cup done /\ SetSend(s, r)
      BY <2>1, <3>1 DEF Sends
    <3> HIDE DEF r
    <3> QED BY <3>2, <2>1, <1>5
  <2>4. CASE readReport(s)
    <3> DEFINE in == {f.serial : f \in {g \in dir : g.id = Head(send[s].ids) /\ g.ext = "json"}}
               r == [send[s] EXCEPT !.ids = Tail(@), !.loaded = @ \cup (in \cap done),
                                    !.torn = @ \cup (in \ done)]
    <3>1. SetSend(s, r)
      BY <2>4 DEF readReport
    <3> HIDE DEF in
    <3>2. r.loaded \subseteq send[s].loaded \cup done
      BY <2>1 DEF Sends
    <3> HIDE DEF r
    <3> QED BY <3>1, <3>2, <2>1, <1>5
  <2>5. CASE sinkDone(s)
    <3> DEFINE r == [send[s] EXCEPT !.pc = "deleting", !.victims = dir, !.loaded = {}]
    <3>1. r.loaded \subseteq send[s].loaded \cup done /\ SetSend(s, r)
      BY <2>1, <2>5 DEF sinkDone, Sends
    <3> HIDE DEF r
    <3> QED BY <3>1, <2>1, <1>5
  <2> QED BY <1>6, <2>2, <2>3, <2>4, <2>5
<1>7. ASSUME NEW s \in Senders, deleteEntry(s)
      PROVE  LoadedInv'
  <2>1. PICK f : send' = [Changed(send) EXCEPT ![s].victims = @ \ {f}]
    BY <1>7 DEF deleteEntry
  <2>2. done' = done /\ [Changed(send)[s] EXCEPT !.victims = @ \ {f}].loaded = send[s].loaded
    BY <1>1, <1>7 DEF deleteEntry, Sends
  <2> QED BY <2>1, <2>2, <1>1 DEF LoadedInv
<1>8. ASSUME send' \in {send, Changed(send), [s \in Senders |-> Quiet]}, done \subseteq done'
      PROVE  LoadedInv'
  BY <1>1, <1>2, <1>8 DEF LoadedInv
<1>9. ASSUME \/ pruneReports \/ pruneOne \/ startIDs \/ addUserReport \/ \E f \in dir : deleteReportWithID(f)
             \/ Die \/ Tick \/ UNCHANGED vars
      PROVE  send' \in {send, Changed(send), [s \in Senders |-> Quiet]} /\ done \subseteq done'
  BY <1>9 DEF pruneReports, pruneOne, startIDs, addUserReport, deleteReportWithID, Die, Tick, vars
<1>10. ASSUME onCrash \/ closeReport \/ recrashRename \/ recrashOpen \/ recrashRemoveOld \/ recrashClose
       PROVE  send' = send /\ done \subseteq done'
  BY <1>10 DEF onCrash, closeReport, recrashRename, recrashOpen, recrashRemoveOld, recrashClose, CrashStep
<1> QED BY <1>3, <1>4, <1>5, <1>6, <1>7, <1>8, <1>9, <1>10 DEF Next

-----------------------------------------------------------------------------
(* The results *)

\* At every step of any number of threads, launches and crashes, files and
\* reports, sends, identifiers and pruning are as the invariant says.
THEOREM StoreInvariant == Spec => []StoreInv
<1>1. Init => StoreInv
  BY TypesStart, FileStart, StageStart, CrashStart, SendStart, IDStart, OrderStart, StoredStart,
     PruneStart, LostStart
  DEF StoreInv
<1>2. StoreInv /\ [Next]_vars => StoreInv'
  <2> SUFFICES ASSUME StoreInv, [Next]_vars PROVE StoreInv'
    OBVIOUS
  <2> USE DEF StoreInv
  <2>1. StoreTypes' /\ FileInv' /\ StageInv'
    BY TypesStep, FileStep, StageStep
  <2>2. CrashInv' /\ SendInv' /\ IDInv' /\ OrderInv'
    BY CrashInvStep, SendStep, IDStep, OrderStep
  <2>3. StoredInv' /\ PruneInv' /\ LostOnlyInARace'
    BY StoredStep, PruneStep, LostStep
  <2> QED BY <2>1, <2>2, <2>3
<1> QED BY <1>1, <1>2, PTL DEF Spec

\* The store is typed; no two files have one name, and what a sender has loaded
\* was written to its end.
THEOREM StoreTypeCorrect == Spec => []TypeOK
<1>1. Init => LoadedInv
  BY DEF Init, LoadedInv, Quiet
<1>2. StoreInv /\ LoadedInv /\ [Next]_vars => LoadedInv'
  BY LoadedStep DEF StoreInv
<1>3. StoreInv /\ LoadedInv => TypeOK
  <2> SUFFICES ASSUME StoreInv, LoadedInv PROVE TypeOK
    OBVIOUS
  <2>1. \A s \in Senders : send[s].pc \in Steps
    BY SendFields DEF StoreInv, StoreTypes
  <2> QED BY <2>1 DEF StoreInv, StoreTypes, FileInv, LoadedInv, TypeOK, Files
<1> QED BY <1>1, <1>2, <1>3, StoreInvariant, PTL DEF Spec

\* Whatever a launch prunes was begun before every report it counts and keeps, as long as the
\* identifiers of each launch came after those of the launches before it.
THEOREM PrunesOldest == Spec => []PruneKeepsNewest
<1>1. StoreInv => PruneKeepsNewest
  <2> SUFFICES ASSUME StoreInv, app = "pruning", doomed = <<>> PROVE PruneKeepsNewest
    BY DEF PruneKeepsNewest, PrunedAreOldest
  <2>1. Len(doomed) = 0 /\ 1 .. 0 = {}
    BY EmptySeq
  <2>2. Values(doomed) = {}
    BY <2>1 DEF Values
  <2> QED BY <2>2 DEF StoreInv, PruneInv, PruneKeepsNewest, PrunedAreOldest
<1> QED BY <1>1, StoreInvariant, PTL

\* A complete report is deleted unsent only by a send that could not know it,
\* read it half written, or counted before the directory changed; or it has the
\* identifier 0, which no send lists.
THEOREM LostInARace == Spec => []LostOnlyInARace
<1>1. StoreInv => LostOnlyInARace
  BY DEF StoreInv
<1> QED BY <1>1, StoreInvariant, PTL

\* A crash whose report could be written leaves it behind, complete, as long as no
\* launch had the identifiers of an earlier one.
THEOREM CrashStored == Spec => []CrashIsStored
<1>1. StoreInv => CrashIsStored
  BY DEF StoreInv, StoredInv, CrashIsStored
<1> QED BY <1>1, StoreInvariant, PTL
=============================================================================
