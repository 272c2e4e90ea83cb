------------------------ MODULE KSCrashReport_proofs ------------------------
(***************************************************************************)
(* Safety of the cache of names and of the report writer for any lists of  *)
(* threads, any number of updates, any object graphs and any settings.     *)
(* CacheInv says where the old and the new lists are at each step of their *)
(* exchange; ThreadsInv says how far the section of threads has come.      *)
(***************************************************************************)
EXTENDS KSCrashReport, SequenceTheorems, WellFoundedInduction, FiniteSetTheorems, TLAPS

\* Every set of numbers that has a member has a least one.
LEMMA LeastOf ==
  ASSUME NEW T \in SUBSET Nat, T # {}
  PROVE  \E x \in T : \A y \in T : x <= y
<1>1. IsWellFoundedOn(OpToRel(<, Nat), Nat)
  BY NatLessThanWellFounded
<1>2. \E x \in T : \A y \in T : ~(<<y, x>> \in OpToRel(<, Nat))
  BY <1>1, WFMin
<1>3. \A x, y \in Nat : <<y, x>> \in OpToRel(<, Nat) <=> y < x
  BY DEF OpToRel
<1>4. \E x \in T : \A y \in T : ~(y < x)
  BY <1>2, <1>3, Zenon
<1> QED BY <1>4

-----------------------------------------------------------------------------
(* The cache.                                                               *)

Threads == UNION {Range(list) : list \in ThreadLists}
ThreadNames == [of : Threads, number : Nat]

Caches == [mach : Seq(Threads), names : Seq(ThreadNames), count : Nat]
Updates == [pc : {"idle", "list", "shrink", "mach", "names", "count", "free"},
            mach : Seq(Threads), names : Seq(ThreadNames), oldCount : Nat, number : Nat]

CacheTypeOK ==
  /\ live \in ThreadLists
  /\ cache \in Caches /\ update \in Updates
  /\ semaphore \in Nat /\ freed \in SUBSET Nat /\ suspended \in BOOLEAN

\* Names that one update asked for.
OfUpdate(names, number) == \A i \in DOMAIN names : names[i].number = number

\* Before the exchange, the cache is whole and the update has the count it had.
BeforeSwap ==
  update.pc \in {"idle", "list", "shrink"} =>
    /\ cache.count = Len(cache.mach) /\ Len(cache.names) = Len(cache.mach)
    /\ update.pc # "idle" => update.oldCount = cache.count
    /\ update.pc = "shrink" => Len(update.names) = Len(update.mach)

\* While one list is the new one and the other the old one, the count fits both.
WhileSwapping ==
  update.pc \in {"mach", "names", "count"} =>
    /\ cache.count <= Len(cache.mach) /\ cache.count <= Len(update.mach)
    /\ update.pc = "mach" => /\ Len(cache.names) = Len(cache.mach) /\ update.oldCount = Len(cache.mach)
                             /\ Len(update.names) = Len(update.mach)
    /\ update.pc = "names" => /\ Len(cache.names) = Len(update.mach) /\ update.oldCount = Len(update.mach)
                              /\ Len(update.names) = Len(cache.mach)
    /\ update.pc = "count" => /\ Len(cache.names) = Len(cache.mach) /\ update.oldCount = Len(update.mach)
                              /\ Len(update.names) = Len(update.mach)

AfterSwap ==
  update.pc = "free" =>
    /\ cache.count = Len(cache.mach) /\ Len(cache.names) = Len(cache.mach)
    /\ Len(update.names) = update.oldCount

\* Whose names are where, and that only names of earlier updates were freed.
NumbersInv ==
  /\ update.pc = "idle" => /\ OfUpdate(cache.names, update.number)
                           /\ \A n \in freed : n < update.number
  /\ update.pc # "idle" => \A n \in freed : n + 1 < update.number
  /\ update.pc \in {"list", "shrink", "mach", "names"} =>
       \A i \in DOMAIN cache.names : cache.names[i].number + 1 = update.number
  /\ update.pc \in {"shrink", "mach", "names"} => OfUpdate(update.names, update.number)
  /\ update.pc \in {"count", "free"} =>
       /\ OfUpdate(cache.names, update.number)
       /\ \A i \in DOMAIN update.names : update.names[i].number + 1 = update.number

CacheInv == CacheTypeOK /\ BeforeSwap /\ WhileSwapping /\ AfterSwap /\ NumbersInv

-----------------------------------------------------------------------------
(* The report.                                                              *)

Infos == UserInfos \cup {NoInfo, Freed}
Lists == ClassLists \cup {<<>>}
Sections == {"info", "images", "process", "system", "error", "threads", "crashed", "user", "debug", "end"}
Entries == [section : Sections \cup {"thread"}, level : Int, crashed : BOOLEAN,
            thread : Threads \cup {NoName}, name : ThreadNames \cup {NoName}]

Rules == [enabled : BOOLEAN, list : Lists, behind : SUBSET ClassNames, count : Nat, pc : {"idle", "count"},
          next : Lists]
Contexts == [thread : Threads \cup {NoName}, list : Seq(Threads), snapshot : BOOLEAN,
             reason : SUBSET References, zombie : SUBSET References]
Reports == [pc : Sections \cup {"none", "done"}, level : Int, index : Nat, minimal : BOOLEAN]

ReportTypeOK ==
  /\ memory \in Memories
  /\ userInfo \in [json : Infos, pc : {"idle", "set"}, next : Infos]
  /\ rules \in Rules
  /\ context \in Contexts
  /\ report \in Reports
  /\ written \in Seq(Entries)

CrashedEntries == {i \in DOMAIN written : written[i].crashed}

\* The list of a report names a thread once.
ListInv == \A i, j \in DOMAIN context.list : context.list[i] = context.list[j] => i = j

\* There is no report without a crash or a snapshot, and nothing in it before it begins.
StageInv ==
  /\ context = NoContext => report = NoReport
  /\ report = NoReport => written = <<>>
  /\ report.pc = "none" => report = NoReport
  /\ report.pc \in {"images", "process", "system", "user", "debug"} => ~report.minimal
  /\ report.pc = "crashed" => report.minimal
  /\ report.pc # "none" => report.index >= 1
  /\ report.pc \in {"user", "debug", "end", "done"} /\ ~report.minimal => report.index > Len(context.list)

\* The thread the report is about is shown as crashed as soon as its turn has come.
ThreadsInv ==
  report.pc # "none" =>
    \/ /\ CrashedEntries = {}
       /\ report.minimal => report.pc \notin {"end", "done"}
       /\ ~report.minimal => \A i \in DOMAIN context.list : i < report.index => context.list[i] # context.thread
    \/ /\ \E k \in CrashedEntries : CrashedEntries = {k}
       /\ report.minimal => report.pc \in {"end", "done"}
       /\ ~report.minimal => \E i \in DOMAIN context.list : i < report.index /\ context.list[i] = context.thread

\* The length of the list of classes follows the list.
RulesInv ==
  /\ rules.pc = "idle" => rules.count = Len(rules.list)
  /\ rules.pc = "count" => rules.next = rules.list

ReportInv == ReportTypeOK /\ RulesInv /\ ListInv /\ StageInv /\ ThreadsInv

IInv == CacheInv /\ ReportInv
-----------------------------------------------------------------------------
(* The steps of the cache.                                                  *)

LEMMA ListIsTyped ==
  ASSUME NEW list \in ThreadLists
  PROVE  list \in Seq(Threads) /\ Range(list) \subseteq Threads
<1>1. list \in Seq(Range(list)) /\ Range(list) \subseteq Threads
  BY ThreadListsAssumption DEF Threads
<1> QED BY <1>1, ElementOfSeq, LenProperties, IsASeq

LEMMA CacheInitInv == CacheInit => CacheInv
<1> SUFFICES ASSUME CacheInit PROVE CacheInv
  OBVIOUS
<1>1. CacheTypeOK
  <2>1. <<>> \in Seq(Threads) /\ <<>> \in Seq(ThreadNames)
    OBVIOUS
  <2>2. cache \in Caches /\ update \in Updates
    BY <2>1 DEF CacheInit, Caches, Updates, Idle
  <2> QED BY <2>2 DEF CacheInit, CacheTypeOK, Caches, Updates
<1>2. BeforeSwap /\ WhileSwapping /\ AfterSwap /\ NumbersInv
  BY DEF CacheInit, Idle, BeforeSwap, WhileSwapping, AfterSwap, NumbersInv, OfUpdate
<1> QED BY <1>1, <1>2 DEF CacheInv

LEMMA MonitorInv == CacheInv /\ monitorCachedData => CacheInv'
<1> SUFFICES ASSUME CacheInv, monitorCachedData PROVE CacheInv'
  OBVIOUS
<1> USE DEF CacheInv, monitorCachedData
<1>1. /\ update'.pc = "list" /\ update'.oldCount = cache.count /\ update'.number = update.number + 1
      /\ update'.mach = update.mach /\ update'.names = update.names /\ cache' = cache
  BY DEF CacheTypeOK, Caches, Updates
<1>2. CacheTypeOK'
  <2>1. cache.count \in Nat /\ update.number + 1 \in Nat
    BY DEF CacheTypeOK, Caches, Updates
  <2>2. update' \in Updates
    BY <2>1 DEF CacheTypeOK, Updates
  <2> QED BY <2>2 DEF CacheTypeOK, Caches, Updates
<1>3. BeforeSwap' /\ WhileSwapping' /\ AfterSwap'
  BY <1>1 DEF BeforeSwap, WhileSwapping, AfterSwap
<1>4. NumbersInv'
  <2>1. \A n \in freed' : n + 1 < update'.number
    BY <1>1 DEF NumbersInv, CacheTypeOK, Caches, Updates
  <2>2. \A i \in DOMAIN cache'.names : cache'.names[i].number + 1 = update'.number
    BY <1>1 DEF NumbersInv, OfUpdate, CacheTypeOK, Caches, Updates
  <2> QED BY <1>1, <2>1, <2>2 DEF NumbersInv
<1> QED BY <1>2, <1>3, <1>4

LEMMA CopyInv == CacheInv /\ CopyThreads => CacheInv'
<1> SUFFICES ASSUME CacheInv, CopyThreads PROVE CacheInv'
  OBVIOUS
<1> USE DEF CacheInv, CopyThreads
<1> DEFINE names == [i \in DOMAIN live |-> [of |-> live[i], number |-> update.number]]
<1>1. live \in Seq(Threads) /\ update.number \in Nat
  BY ListIsTyped DEF CacheTypeOK, Caches, Updates
<1>2. names \in Seq(ThreadNames) /\ Len(names) = Len(live)
  <2>1. Len(live) \in Nat /\ DOMAIN live = 1 .. Len(live) /\ \A i \in 1 .. Len(live) : live[i] \in Threads
    BY <1>1, ElementOfSeq, LenProperties
  <2>2. \A i \in 1 .. Len(live) : [of |-> live[i], number |-> update.number] \in ThreadNames
    BY <2>1, <1>1 DEF ThreadNames
  <2>3. names = [i \in 1 .. Len(live) |-> [of |-> live[i], number |-> update.number]]
    BY <2>1
  <2>4. names \in Seq(ThreadNames)
    BY <2>1, <2>2, <2>3, IsASeq
  <2> QED BY <2>1, <2>3, <2>4, LenProperties
<1>3. OfUpdate(names, update.number)
  BY <1>1 DEF OfUpdate
<1>4. update' = [update EXCEPT !.pc = "shrink", !.mach = live, !.names = names]
  OBVIOUS
<1> HIDE DEF names
<1>5. /\ update'.pc = "shrink" /\ update'.oldCount = update.oldCount /\ update'.number = update.number
      /\ update'.mach = live /\ update'.names = names /\ cache' = cache /\ freed' = freed
  BY <1>4 DEF CacheTypeOK, Caches, Updates
<1>6. CacheTypeOK'
  BY <1>1, <1>2, <1>4 DEF CacheTypeOK, Caches, Updates
<1>7. BeforeSwap' /\ WhileSwapping' /\ AfterSwap'
  BY <1>2, <1>5 DEF BeforeSwap, WhileSwapping, AfterSwap
<1>8. NumbersInv'
  BY <1>3, <1>5 DEF NumbersInv
<1> QED BY <1>6, <1>7, <1>8

LEMMA ShrinkInv == CacheInv /\ ShrinkCount => CacheInv'
<1> SUFFICES ASSUME CacheInv, ShrinkCount PROVE CacheInv'
  OBVIOUS
<1> USE DEF CacheInv, ShrinkCount
<1>1. /\ update'.pc = "mach" /\ update'.oldCount = update.oldCount /\ update'.number = update.number
      /\ update'.mach = update.mach /\ update'.names = update.names /\ freed' = freed
      /\ cache'.mach = cache.mach /\ cache'.names = cache.names
      /\ cache'.count = IF cache.count < Len(update.mach) THEN cache.count ELSE Len(update.mach)
  BY DEF CacheTypeOK, Caches, Updates
<1>2. Len(update.mach) \in Nat /\ cache.count \in Nat
  BY LenProperties DEF CacheTypeOK, Caches, Updates
<1>3. CacheTypeOK'
  BY <1>2 DEF CacheTypeOK, Caches, Updates
<1>4. BeforeSwap' /\ AfterSwap'
  BY <1>1 DEF BeforeSwap, AfterSwap
<1>5. WhileSwapping'
  BY <1>1, <1>2 DEF BeforeSwap, WhileSwapping
<1>6. NumbersInv'
  BY <1>1 DEF NumbersInv
<1> QED BY <1>3, <1>4, <1>5, <1>6

LEMMA SwapThreadsInv == CacheInv /\ SwapThreads => CacheInv'
<1> SUFFICES ASSUME CacheInv, SwapThreads PROVE CacheInv'
  OBVIOUS
<1> USE DEF CacheInv, SwapThreads
<1>1. /\ update'.pc = "names" /\ update'.oldCount = update.oldCount /\ update'.number = update.number
      /\ update'.mach = cache.mach /\ update'.names = update.names /\ freed' = freed
      /\ cache'.mach = update.mach /\ cache'.names = cache.names /\ cache'.count = cache.count
  BY DEF CacheTypeOK, Caches, Updates
<1>2. CacheTypeOK'
  BY DEF CacheTypeOK, Caches, Updates
<1>3. BeforeSwap' /\ AfterSwap'
  BY <1>1 DEF BeforeSwap, AfterSwap
<1>4. WhileSwapping'
  BY <1>1 DEF WhileSwapping
<1>5. NumbersInv'
  BY <1>1 DEF NumbersInv
<1> QED BY <1>2, <1>3, <1>4, <1>5

LEMMA SwapNamesInv == CacheInv /\ SwapNames => CacheInv'
<1> SUFFICES ASSUME CacheInv, SwapNames PROVE CacheInv'
  OBVIOUS
<1> USE DEF CacheInv, SwapNames
<1>1. /\ update'.pc = "count" /\ update'.oldCount = update.oldCount /\ update'.number = update.number
      /\ update'.mach = update.mach /\ update'.names = cache.names /\ freed' = freed
      /\ cache'.mach = cache.mach /\ cache'.names = update.names /\ cache'.count = cache.count
  BY DEF CacheTypeOK, Caches, Updates
<1>2. CacheTypeOK'
  BY DEF CacheTypeOK, Caches, Updates
<1>3. BeforeSwap' /\ AfterSwap'
  BY <1>1 DEF BeforeSwap, AfterSwap
<1>4. WhileSwapping'
  BY <1>1 DEF WhileSwapping
<1>5. NumbersInv'
  BY <1>1 DEF NumbersInv
<1> QED BY <1>2, <1>3, <1>4, <1>5

LEMMA SetCountInv == CacheInv /\ SetCount => CacheInv'
<1> SUFFICES ASSUME CacheInv, SetCount PROVE CacheInv'
  OBVIOUS
<1> USE DEF CacheInv, SetCount
<1>1. /\ update'.pc = "free" /\ update'.oldCount = update.oldCount /\ update'.number = update.number
      /\ update'.mach = update.mach /\ update'.names = update.names /\ freed' = freed
      /\ cache'.mach = cache.mach /\ cache'.names = cache.names /\ cache'.count = Len(cache.mach)
  BY DEF CacheTypeOK, Caches, Updates
<1>2. CacheTypeOK'
  BY LenProperties DEF CacheTypeOK, Caches, Updates
<1>3. BeforeSwap' /\ WhileSwapping'
  BY <1>1 DEF BeforeSwap, WhileSwapping
<1>4. AfterSwap'
  BY <1>1 DEF AfterSwap, WhileSwapping
<1>5. NumbersInv'
  BY <1>1 DEF NumbersInv
<1> QED BY <1>2, <1>3, <1>4, <1>5

LEMMA FreeInv == CacheInv /\ FreeOld => CacheInv'
<1> SUFFICES ASSUME CacheInv, FreeOld PROVE CacheInv'
  OBVIOUS
<1> USE DEF CacheInv, FreeOld
<1>1. /\ update'.pc = "idle" /\ update'.oldCount = 0 /\ update'.number = update.number
      /\ update'.mach = <<>> /\ update'.names = <<>> /\ cache' = cache
  BY DEF Idle
<1>2. \A i \in 1 .. update.oldCount :
        /\ update.names[i].number \in Nat
        /\ update.names[i].number + 1 = update.number
  <2>1. update.names \in Seq(ThreadNames) /\ DOMAIN update.names = 1 .. update.oldCount
    BY LenProperties DEF CacheTypeOK, Caches, Updates, AfterSwap
  <2>2. \A i \in 1 .. update.oldCount : update.names[i] \in ThreadNames
    BY <2>1, ElementOfSeq, LenProperties
  <2> QED BY <2>1, <2>2 DEF NumbersInv, ThreadNames
<1>3. freed' \in SUBSET Nat
  BY <1>2 DEF CacheTypeOK, Caches, Updates
<1>4. CacheTypeOK'
  <2>1. <<>> \in Seq(Threads) /\ <<>> \in Seq(ThreadNames) /\ update.number \in Nat
    BY DEF CacheTypeOK, Updates
  <2>2. update' \in Updates
    BY <2>1 DEF Updates, Idle
  <2> QED BY <1>3, <2>2 DEF CacheTypeOK
<1>5. BeforeSwap' /\ WhileSwapping' /\ AfterSwap'
  BY <1>1 DEF BeforeSwap, WhileSwapping, AfterSwap
<1>6. \A n \in freed' : n < update.number
  <2>1. update.number \in Nat /\ \A n \in freed : n \in Nat /\ n + 1 < update.number
    BY DEF NumbersInv, CacheTypeOK, Caches, Updates
  <2> QED BY <2>1, <1>2
<1>7. NumbersInv'
  BY <1>1, <1>6 DEF NumbersInv
<1> QED BY <1>4, <1>5, <1>7

LEMMA SameCacheInv ==
  ASSUME CacheInv, live' \in ThreadLists, semaphore' \in Nat, suspended' \in BOOLEAN,
         UNCHANGED <<cache, update, freed>>
  PROVE  CacheInv'
BY DEF CacheInv, CacheTypeOK, Caches, Updates, BeforeSwap, WhileSwapping, AfterSwap, NumbersInv, OfUpdate

LEMMA CacheNextInv == CacheInv /\ CacheNext => CacheInv'
<1> SUFFICES ASSUME CacheInv, CacheNext PROVE CacheInv'
  OBVIOUS
<1>1. ASSUME NEW list \in ThreadLists, ThreadsChange(list) PROVE CacheInv'
  BY <1>1, SameCacheInv DEF ThreadsChange, CacheInv, CacheTypeOK, Caches, Updates
<1>2. CASE monitorCachedData
  BY <1>2, MonitorInv
<1>3. CASE updateThreadList
  BY <1>3, CopyInv, ShrinkInv, SwapThreadsInv, SwapNamesInv, SetCountInv, FreeInv DEF updateThreadList
<1> QED BY <1>1, <1>2, <1>3 DEF CacheNext

\* What a lookup reads, at every step of an update.
LEMMA CacheIsReadable ==
  ASSUME CacheInv, NEW thread
  PROVE  LET found == ksccd_getThreadName(thread)
         IN /\ found.read \subseteq DOMAIN cache.mach
            /\ found.index # 0 => /\ found.index \in DOMAIN cache.names
                                  /\ cache.names[found.index].number \notin freed
<1> DEFINE hits == {i \in 1 .. cache.count : i \in DOMAIN cache.mach /\ cache.mach[i] = thread}
           hit == CHOOSE i \in hits : \A j \in hits : i <= j
<1>1. /\ cache.count \in Nat /\ Len(cache.mach) \in Nat /\ Len(cache.names) \in Nat
      /\ DOMAIN cache.mach = 1 .. Len(cache.mach) /\ DOMAIN cache.names = 1 .. Len(cache.names)
  BY LenProperties DEF CacheInv, CacheTypeOK, Caches, Updates
<1>2. cache.count <= Len(cache.mach) /\ cache.count <= Len(cache.names)
  <2>1. CASE update.pc \in {"idle", "list", "shrink"}
    BY <2>1, <1>1 DEF CacheInv, BeforeSwap
  <2>2. CASE update.pc \in {"mach", "names", "count"}
    BY <2>2, <1>1 DEF CacheInv, WhileSwapping
  <2>3. CASE update.pc = "free"
    BY <2>3, <1>1 DEF CacheInv, AfterSwap
  <2> QED BY <2>1, <2>2, <2>3 DEF CacheInv, CacheTypeOK, Caches, Updates
<1>3. \A i \in DOMAIN cache.names : cache.names[i].number \notin freed
  <2>1. /\ update.number \in Nat /\ freed \subseteq Nat
        /\ \A i \in DOMAIN cache.names : cache.names[i].number \in Nat
    <3>1. \A i \in DOMAIN cache.names : cache.names[i] \in ThreadNames
      BY ElementOfSeq, LenProperties DEF CacheInv, CacheTypeOK, Caches
    <3> QED BY <3>1 DEF CacheInv, CacheTypeOK, Updates, ThreadNames
  <2>2. CASE update.pc = "idle"
    BY <2>1, <2>2 DEF CacheInv, NumbersInv, OfUpdate
  <2>3. CASE update.pc \in {"list", "shrink", "mach", "names"}
    BY <2>1, <2>3 DEF CacheInv, NumbersInv
  <2>4. CASE update.pc \in {"count", "free"}
    BY <2>1, <2>4 DEF CacheInv, NumbersInv, OfUpdate
  <2> QED BY <2>2, <2>3, <2>4 DEF CacheInv, CacheTypeOK, Caches, Updates
<1>4. CASE hits = {}
  <2>1. ksccd_getThreadName(thread) = [name |-> NoName, read |-> 1 .. cache.count, index |-> 0]
    BY <1>4 DEF ksccd_getThreadName
  <2> QED BY <2>1, <1>1, <1>2
<1>5. CASE hits # {}
  <2>1. hit \in hits
    <3>1. hits \in SUBSET Nat
      OBVIOUS
    <3> HIDE DEF hits
    <3> QED BY <3>1, <1>5, LeastOf
  <2>2. /\ ksccd_getThreadName(thread).read = 1 .. hit
        /\ ksccd_getThreadName(thread).index = hit
    BY <1>5 DEF ksccd_getThreadName
  <2>3. hit \in 1 .. cache.count
    BY <2>1
  <2> HIDE DEF hit, hits
  <2>4. 1 .. hit \subseteq DOMAIN cache.mach /\ hit \in DOMAIN cache.names
    BY <2>3, <1>1, <1>2
  <2> QED BY <2>2, <2>4, <1>3
<1> QED BY <1>4, <1>5

-----------------------------------------------------------------------------
(* The steps of the report.                                                 *)

LEMMA TruncateTyped ==
  ASSUME NEW S, NEW s \in Seq(S), NEW n \in Nat
  PROVE  /\ Truncate(s, n) \in Seq(S)
         /\ \A i \in DOMAIN Truncate(s, n) : i \in DOMAIN s /\ Truncate(s, n)[i] = s[i]
<1>1. CASE Len(s) <= n
  BY <1>1 DEF Truncate
<1>2. CASE ~(Len(s) <= n)
  <2>1. Len(s) \in Nat /\ DOMAIN s = 1 .. Len(s)
    BY LenProperties
  <2>2. \A i \in 1 .. n : s[i] \in S
    BY <2>1, <1>2, ElementOfSeq
  <2>3. /\ SubSeq(s, 1, n) \in Seq(S) /\ Len(SubSeq(s, 1, n)) = n
        /\ \A i \in 1 .. n : SubSeq(s, 1, n)[i] = s[i]
    BY <2>1, <2>2, <1>2, SubSeqProperties
  <2>4. DOMAIN SubSeq(s, 1, n) = 1 .. n
    BY <2>3, LenProperties
  <2> QED BY <2>1, <2>3, <2>4, <1>2 DEF Truncate
<1> QED BY <1>1, <1>2

LEMMA ReportInitInv == Init => ReportInv
<1> SUFFICES ASSUME Init PROVE ReportInv
  OBVIOUS
<1> USE DEF Init
<1>1. ReportTypeOK
  <2>1. <<>> \in Seq(Threads) /\ <<>> \in Seq(Entries)
    OBVIOUS
  <2>2. userInfo \in [json : Infos, pc : {"idle", "set"}, next : Infos]
    BY DEF Infos
  <2>3. rules \in Rules
    BY DEF Lists, Rules
  <2>4. context \in Contexts
    BY <2>1 DEF NoContext, Contexts
  <2>5. report \in Reports
    BY DEF NoReport, Reports
  <2> QED BY <2>1, <2>2, <2>3, <2>4, <2>5 DEF ReportTypeOK, Reports
<1>2. ListInv /\ StageInv /\ ThreadsInv
  BY DEF ListInv, StageInv, ThreadsInv, NoContext, NoReport
<1>3. RulesInv
  BY DEF RulesInv
<1> QED BY <1>1, <1>2, <1>3 DEF ReportInv

\* What the application sets is not in the report yet.
LEMMA SettingsInv ==
  ASSUME ReportInv, ReportTypeOK', RulesInv', UNCHANGED <<context, report, written>>
  PROVE  ReportInv'
BY DEF ReportInv, ListInv, StageInv, ThreadsInv, CrashedEntries

LEMMA UserInfoStep ==
  ASSUME ReportInv, ReplaceUserInfo \/ \E json \in UserInfos : kscrashreport_setUserInfoJSON(json)
  PROVE  ReportInv'
<1>1. userInfo' \in [json : Infos, pc : {"idle", "set"}, next : Infos]
  BY DEF ReportInv, ReportTypeOK, Reports, kscrashreport_setUserInfoJSON, ReplaceUserInfo, Infos
<1>2. UNCHANGED <<memory, rules, context, report, written>>
  BY DEF kscrashreport_setUserInfoJSON, ReplaceUserInfo
<1>3. ReportTypeOK' /\ RulesInv'
  BY <1>1, <1>2 DEF ReportInv, ReportTypeOK, RulesInv
<1> QED BY <1>2, <1>3, SettingsInv

LEMMA RulesStep ==
  ASSUME ReportInv,
         \/ kscrashreport_setIntrospectMemory \/ ReplaceClassCount
         \/ \E list \in ClassLists, behind \in SUBSET ClassNames : kscrashreport_setDoNotIntrospectClasses(list, behind)
  PROVE  ReportInv'
<1>1. /\ rules \in Rules /\ RulesInv
      /\ rules.list \in Lists /\ rules.next \in Lists /\ Len(rules.next) \in Nat
  <2>1. \A list \in Lists : Len(list) \in Nat
    BY ReportAssumption, LenProperties DEF Lists
  <2>2. rules \in Rules /\ RulesInv
    BY DEF ReportInv, ReportTypeOK
  <2>3. rules.list \in Lists /\ rules.next \in Lists
    BY <2>2 DEF Rules
  <2> QED BY <2>1, <2>2, <2>3
<1>2. rules' \in Rules /\ RulesInv' /\ UNCHANGED <<memory, userInfo, context, report, written>>
  <2>1. CASE kscrashreport_setIntrospectMemory
    BY <1>1, <2>1 DEF kscrashreport_setIntrospectMemory, Rules, RulesInv
  <2>2. CASE ReplaceClassCount
    BY <1>1, <2>2 DEF ReplaceClassCount, Rules, RulesInv
  <2>3. ASSUME NEW list \in ClassLists, NEW behind \in SUBSET ClassNames,
               kscrashreport_setDoNotIntrospectClasses(list, behind)
        PROVE rules' \in Rules /\ RulesInv' /\ UNCHANGED <<memory, userInfo, context, report, written>>
    <3>1. list \in Lists
      BY DEF Lists
    <3> QED BY <1>1, <2>3, <3>1 DEF kscrashreport_setDoNotIntrospectClasses, Rules, RulesInv
  <2> QED BY <2>1, <2>2, <2>3
<1>3. ReportTypeOK'
  BY <1>2 DEF ReportInv, ReportTypeOK
<1> QED BY <1>2, <1>3, SettingsInv

\* The process stops: the list of the report is the kernel's, as far as there is room.
LEMMA CrashStep ==
  ASSUME ReportInv, CacheTypeOK, NEW thread \in Range(live), NEW reason \in Named, NEW zombie \in Named,
         Crash(thread, reason, zombie) \/ UserReport(thread, zombie)
  PROVE  ReportInv'
<1>1. live \in Seq(Threads) /\ thread \in Threads
  BY ListIsTyped DEF CacheTypeOK
<1>2. \A i, j \in DOMAIN live : live[i] = live[j] => i = j
  BY ThreadListsAssumption DEF CacheTypeOK
<1>3. /\ context'.thread = thread /\ context'.list = Truncate(live, MaxThreadCount)
      /\ context' \in Contexts
  <2>1. Truncate(live, MaxThreadCount) \in Seq(Threads)
    BY <1>1, TruncateTyped, ReportAssumption
  <2>2. PICK snapshot \in BOOLEAN, why \in Named :
          context' = [thread |-> thread, list |-> Truncate(live, MaxThreadCount), snapshot |-> snapshot,
                      reason |-> why, zombie |-> zombie]
    BY DEF Crash, UserReport, Named
  <2>3. why \in SUBSET References /\ zombie \in SUBSET References
    BY DEF Named
  <2> QED BY <2>1, <2>2, <2>3, <1>1 DEF Contexts
<1>4. UNCHANGED <<memory, userInfo, rules, report, written>> /\ report = NoReport /\ written = <<>>
  BY DEF Crash, UserReport, Running, ReportInv, StageInv
<1>5. ReportTypeOK' /\ RulesInv'
  BY <1>3, <1>4 DEF ReportInv, ReportTypeOK, RulesInv
<1>6. ListInv'
  <2>1. \A i \in DOMAIN Truncate(live, MaxThreadCount) :
          i \in DOMAIN live /\ Truncate(live, MaxThreadCount)[i] = live[i]
    BY <1>1, TruncateTyped, ReportAssumption
  <2> QED BY <2>1, <1>2, <1>3 DEF ListInv
<1>7. StageInv' /\ ThreadsInv'
  BY <1>4 DEF StageInv, ThreadsInv, NoReport
<1> QED BY <1>5, <1>6, <1>7 DEF ReportInv

\* One more entry in the report.
LEMMA AppendsEntry ==
  ASSUME ReportTypeOK, NEW entry \in Entries, written' = Append(written, entry)
  PROVE  /\ written' \in Seq(Entries)
         /\ CrashedEntries' = IF entry.crashed THEN CrashedEntries \cup {Len(written) + 1} ELSE CrashedEntries
<1>1. written \in Seq(Entries) /\ Len(written) \in Nat /\ DOMAIN written = 1 .. Len(written)
  BY LenProperties DEF ReportTypeOK, Reports
<1>2. /\ written' \in Seq(Entries) /\ Len(written') = Len(written) + 1
      /\ \A i \in 1 .. Len(written) : written'[i] = written[i]
      /\ written'[Len(written) + 1] = entry
  BY <1>1, AppendProperties
<1>3. DOMAIN written' = 1 .. Len(written) + 1
  BY <1>2, LenProperties
<1>4. \A i : i \in 1 .. Len(written) + 1 <=> i \in 1 .. Len(written) \/ i = Len(written) + 1
  BY <1>1
<1> QED BY <1>1, <1>2, <1>3, <1>4 DEF CrashedEntries

\* What a section leaves alone.
LEMMA SectionFacts ==
  ASSUME ReportInv, NEW name \in Sections, NEW next \in Sections, NEW searches,
         SectionThatOpens(name, next, searches)
  PROVE  /\ ReportTypeOK' /\ RulesInv' /\ ListInv' /\ CrashedEntries' = CrashedEntries /\ context' = context
         /\ report.pc = name /\ report'.pc = next /\ report'.index = report.index
         /\ report'.minimal = report.minimal
<1> DEFINE entry == [section |-> name, level |-> report.level, crashed |-> FALSE, thread |-> NoName, name |-> NoName]
<1>1. entry \in Entries /\ ~entry.crashed
  BY DEF ReportInv, ReportTypeOK, Reports, Entries
<1>2. written' = Append(written, entry)
  BY DEF SectionThatOpens
<1> HIDE DEF entry
<1>3. written' \in Seq(Entries) /\ CrashedEntries' = CrashedEntries
  BY <1>1, <1>2, AppendsEntry DEF ReportInv
<1>4. /\ report' \in Reports
      /\ report.pc = name /\ report'.pc = next /\ report'.index = report.index
      /\ report'.minimal = report.minimal
  BY DEF SectionThatOpens, ReportInv, ReportTypeOK, Reports
<1>5. UNCHANGED <<memory, userInfo, rules, context>>
  BY DEF SectionThatOpens
<1> QED BY <1>3, <1>4, <1>5 DEF ReportInv, ReportTypeOK, RulesInv, ListInv

\* The sections before the threads.
LEMMA EarlySections ==
  ASSUME ReportInv, writeReportInfo \/ writeBinaryImages \/ writeProcessState \/ writeSystemInfo \/ writeError
  PROVE  ReportInv'
<1>1. PICK name \in {"info", "images", "process", "system", "error"}, next \in {"images", "process", "system", "error", "threads"} :
        /\ \E searches : SectionThatOpens(name, next, searches)
        /\ next \in {"images", "process", "system"} => ~report.minimal
  <2>1. CASE writeReportInfo
    BY <2>1 DEF writeReportInfo, Section
  <2>2. CASE writeBinaryImages \/ writeProcessState \/ writeSystemInfo \/ writeError
    BY <2>2 DEF writeBinaryImages, writeProcessState, writeSystemInfo, writeError, Section, SectionThatOpens, ReportInv, StageInv
  <2> QED BY <2>1, <2>2
<1>2. /\ ReportTypeOK' /\ RulesInv' /\ ListInv' /\ CrashedEntries' = CrashedEntries /\ context' = context
      /\ report.pc = name /\ report'.pc = next /\ report'.index = report.index
      /\ report'.minimal = report.minimal
  <2>1. name \in Sections /\ next \in Sections
    BY DEF Sections
  <2> QED BY <1>1, <2>1, SectionFacts
<1>3. StageInv'
  BY <1>1, <1>2 DEF ReportInv, StageInv, NoReport
<1>4. ThreadsInv'
  BY <1>1, <1>2 DEF ReportInv, ThreadsInv
<1> QED BY <1>2, <1>3, <1>4 DEF ReportInv

LEMMA AllThreadsStep ==
  ASSUME ReportInv, writeAllThreads
  PROVE  ReportInv'
<1> DEFINE next == IF report.minimal THEN "crashed" ELSE "user"
<1>1. next \in Sections /\ SectionThatOpens("threads", next, {}) /\ "threads" \in Sections
  BY DEF writeAllThreads, Section, Sections
<1>2. next = IF report.minimal THEN "crashed" ELSE "user"
  OBVIOUS
<1> HIDE DEF next
<1>3. /\ ReportTypeOK' /\ RulesInv' /\ ListInv' /\ CrashedEntries' = CrashedEntries /\ context' = context
      /\ report.pc = "threads" /\ report'.pc = next /\ report'.index = report.index
      /\ report'.minimal = report.minimal
  BY <1>1, SectionFacts
<1>4. StageInv'
  BY <1>1, <1>3, <1>2 DEF ReportInv, StageInv, NoReport, writeAllThreads
<1>5. ThreadsInv'
  BY <1>1, <1>3, <1>2 DEF ReportInv, ThreadsInv
<1> QED BY <1>3, <1>4, <1>5 DEF ReportInv

LEMMA DebugStep ==
  ASSUME ReportInv, writeDebugInfo
  PROVE  ReportInv'
<1>1. SectionThatOpens("debug", "end", {}) /\ "end" \in Sections /\ "debug" \in Sections
  BY DEF writeDebugInfo, Section, Sections
<1>2. /\ ReportTypeOK' /\ RulesInv' /\ ListInv' /\ CrashedEntries' = CrashedEntries /\ context' = context
      /\ report.pc = "debug" /\ report'.pc = "end" /\ report'.index = report.index
      /\ report'.minimal = report.minimal
  BY <1>1, SectionFacts
<1>3. StageInv'
  BY <1>2 DEF ReportInv, StageInv, NoReport
<1>4. ThreadsInv'
  BY <1>2 DEF ReportInv, StageInv, ThreadsInv
<1> QED BY <1>2, <1>3, <1>4 DEF ReportInv

LEMMA EntryTyped ==
  ASSUME CacheTypeOK, report.level \in Int, NEW thread \in Threads \cup {NoName}, NEW crashed \in BOOLEAN
  PROVE  ThreadEntry(thread, crashed) \in Entries /\ ThreadEntry(thread, crashed).crashed = crashed
<1> DEFINE found == ksccd_getThreadName(thread)
<1>1. found.name \in ThreadNames \cup {NoName}
  <2>1. \A i \in DOMAIN cache.names : cache.names[i] \in ThreadNames
    BY ElementOfSeq, LenProperties DEF CacheTypeOK, Caches
  <2>2. found.name = NoName \/ \E i \in DOMAIN cache.names : found.name = cache.names[i]
    BY DEF ksccd_getThreadName
  <2> QED BY <2>1, <2>2
<1> HIDE DEF found
<1>2. ThreadEntry(thread, crashed) =
        [section |-> "thread", level |-> report.level + 2, crashed |-> crashed, thread |-> thread, name |-> found.name]
  BY DEF ThreadEntry, found
<1> QED BY <1>1, <1>2 DEF Entries

LEMMA ThreadStep ==
  ASSUME ReportInv, CacheTypeOK, writeThread
  PROVE  ReportInv'
<1> DEFINE thread == context.list[report.index]
           entry == ThreadEntry(thread, thread = context.thread)
<1>1. /\ report.index \in Nat /\ report.level \in Int /\ report.index <= Len(context.list)
      /\ context.list \in Seq(Threads) /\ report.pc = "threads" /\ ~report.minimal
      /\ context.thread \in Threads \cup {NoName}
  BY DEF writeThread, ReportInv, ReportTypeOK, Reports, Contexts
<1>2. report.index >= 1
  BY <1>1 DEF ReportInv, StageInv
<1>3. /\ report.index \in DOMAIN context.list /\ thread \in Threads
      /\ DOMAIN context.list = 1 .. Len(context.list) /\ Len(context.list) \in Nat
  BY <1>1, <1>2, LenProperties, ElementOfSeq
<1>4. written' = Append(written, entry)
  BY DEF writeThread
<1>5. entry \in Entries /\ (entry.crashed <=> thread = context.thread)
  <2>1. (thread = context.thread) \in BOOLEAN
    OBVIOUS
  <2> QED BY <2>1, <1>1, <1>3, EntryTyped
<1> HIDE DEF entry
<1>6. /\ written' \in Seq(Entries)
      /\ CrashedEntries' = IF entry.crashed THEN CrashedEntries \cup {Len(written) + 1} ELSE CrashedEntries
  BY <1>4, <1>5, AppendsEntry DEF ReportInv
<1>7. /\ report' \in Reports
      /\ report'.pc = "threads" /\ report'.index = report.index + 1 /\ report'.minimal = report.minimal
      /\ UNCHANGED <<memory, userInfo, rules, context>>
  <2>1. report \in Reports /\ report' = [report EXCEPT !.index = @ + 1] /\ report.index + 1 \in Nat
    BY <1>1 DEF writeThread, ReportInv, ReportTypeOK
  <2>2. report' \in Reports /\ report'.index = report.index + 1
    BY <2>1 DEF Reports
  <2>3. report'.pc = report.pc /\ report'.minimal = report.minimal
    BY <2>1 DEF Reports
  <2> QED BY <2>2, <2>3, <1>1 DEF writeThread
<1>8. ReportTypeOK' /\ RulesInv' /\ ListInv'
  BY <1>6, <1>7 DEF ReportInv, ReportTypeOK, RulesInv, ListInv
<1>9. StageInv'
  BY <1>1, <1>2, <1>7 DEF ReportInv, StageInv, NoReport
<1>10. ThreadsInv'
  <2>1. \A i \in DOMAIN context.list : i < report.index + 1 <=> i < report.index \/ i = report.index
    BY <1>1, <1>3
  <2>2. CASE thread = context.thread
    <3>1. CrashedEntries = {}
      BY <1>1, <1>3, <2>2 DEF ReportInv, ThreadsInv, ListInv
    <3>2. CrashedEntries' = {Len(written) + 1}
      BY <3>1, <2>2, <1>5, <1>6
    <3> QED BY <3>2, <2>1, <2>2, <1>1, <1>3, <1>7 DEF ThreadsInv
  <2>3. CASE thread # context.thread
    <3>1. CrashedEntries' = CrashedEntries
      BY <2>3, <1>5, <1>6
    <3> QED BY <3>1, <2>1, <2>3, <1>1, <1>3, <1>7 DEF ReportInv, ThreadsInv
  <2> QED BY <2>2, <2>3
<1> QED BY <1>8, <1>9, <1>10 DEF ReportInv

LEMMA CrashedThreadStep ==
  ASSUME ReportInv, CacheTypeOK, writeCrashedThread
  PROVE  ReportInv'
<1> DEFINE entry == ThreadEntry(context.thread, TRUE)
<1>1. /\ report.level \in Int /\ report.pc = "crashed" /\ report.minimal
      /\ context.thread \in Threads \cup {NoName}
  BY DEF writeCrashedThread, ReportInv, ReportTypeOK, Reports, Contexts, StageInv
<1>2. entry \in Entries /\ entry.crashed
  BY <1>1, EntryTyped
<1>3. written' = Append(written, entry)
  BY DEF writeCrashedThread
<1> HIDE DEF entry
<1>4. written' \in Seq(Entries) /\ CrashedEntries' = CrashedEntries \cup {Len(written) + 1}
  BY <1>2, <1>3, AppendsEntry DEF ReportInv
<1>5. /\ report' \in Reports
      /\ report'.pc = "end" /\ report'.index = report.index /\ report'.minimal = report.minimal
      /\ UNCHANGED <<memory, userInfo, rules, context>>
  BY DEF writeCrashedThread, ReportInv, ReportTypeOK, Reports, Sections
<1>6. ReportTypeOK' /\ RulesInv' /\ ListInv'
  BY <1>4, <1>5 DEF ReportInv, ReportTypeOK, RulesInv, ListInv
<1>7. StageInv'
  BY <1>1, <1>5 DEF ReportInv, StageInv, NoReport
<1>8. ThreadsInv'
  <2>1. CrashedEntries = {}
    BY <1>1 DEF ReportInv, ThreadsInv
  <2>2. CrashedEntries' = {Len(written) + 1}
    BY <2>1, <1>4
  <2> QED BY <2>2, <1>1, <1>5 DEF ThreadsInv
<1> QED BY <1>6, <1>7, <1>8 DEF ReportInv

LEMMA UserStep ==
  ASSUME ReportInv, writeUserSection
  PROVE  ReportInv'
<1> DEFINE entry == [section |-> "user", level |-> report.level, crashed |-> FALSE, thread |-> NoName, name |-> NoName]
<1>1. PICK levels \in UserLevels(userInfo.json) :
        /\ report.pc = "user"
        /\ report' = [report EXCEPT !.pc = "debug", !.level = @ + levels - 1]
        /\ written' = Append(written, entry)
        /\ UNCHANGED <<memory, userInfo, rules, context>>
  BY DEF writeUserSection, UserSection
<1>2. levels \in Int
  <2>1. \A json \in Infos \ {Freed} : json.open \in Nat
    BY ReportAssumption DEF Infos, NoInfo
  <2> QED BY <2>1 DEF ReportInv, ReportTypeOK, Reports, UserLevels
<1>3. entry \in Entries /\ ~entry.crashed
  BY DEF ReportInv, ReportTypeOK, Reports, Entries, Sections
<1>4. written' = Append(written, entry)
  BY <1>1
<1> HIDE DEF entry
<1>5. written' \in Seq(Entries) /\ CrashedEntries' = CrashedEntries
  BY <1>3, <1>4, AppendsEntry DEF ReportInv
<1>6. /\ report' \in Reports
      /\ report'.pc = "debug" /\ report'.index = report.index /\ report'.minimal = report.minimal
  <2>1. report \in Reports /\ report.level + levels - 1 \in Int
    BY <1>2 DEF ReportInv, ReportTypeOK, Reports
  <2>2. report' = [report EXCEPT !.pc = "debug", !.level = report.level + levels - 1]
    BY <1>1
  <2>3. report' \in Reports
    BY <2>1, <2>2 DEF Reports, Sections
  <2>4. report'.pc = "debug" /\ report'.index = report.index /\ report'.minimal = report.minimal
    BY <2>1, <2>2 DEF Reports
  <2> QED BY <2>3, <2>4
<1>7. ReportTypeOK' /\ RulesInv' /\ ListInv'
  BY <1>1, <1>5, <1>6 DEF ReportInv, ReportTypeOK, RulesInv, ListInv
<1>8. StageInv'
  <2>1. context # NoContext /\ ~report.minimal /\ report.index >= 1 /\ report.index > Len(context.list)
    BY <1>1 DEF ReportInv, StageInv, NoReport
  <2> QED BY <2>1, <1>1, <1>6 DEF StageInv, NoReport
<1>9. ThreadsInv'
  BY <1>1, <1>5, <1>6 DEF ReportInv, StageInv, ThreadsInv
<1> QED BY <1>7, <1>8, <1>9 DEF ReportInv

\* A report begins, for the first time or again after the writing faulted.
LEMMA BeginStep ==
  ASSUME ReportInv, kscrashreport_writeStandardReport \/ kscrashreport_writeRecrashReport
  PROVE  ReportInv'
<1>1. /\ report' \in [pc : {"info"}, level : {1}, index : {1}, minimal : BOOLEAN]
      /\ written' = <<>> /\ context # NoContext /\ UNCHANGED <<memory, userInfo, rules, context>>
  <2>1. CASE kscrashreport_writeStandardReport
    BY <2>1 DEF kscrashreport_writeStandardReport, ReportInv, StageInv
  <2>2. CASE kscrashreport_writeRecrashReport
    BY <2>2 DEF kscrashreport_writeRecrashReport, ReportInv, StageInv
  <2> QED BY <2>1, <2>2
<1>2. ReportTypeOK' /\ RulesInv' /\ ListInv'
  <2>1. <<>> \in Seq(Entries)
    OBVIOUS
  <2> QED BY <1>1, <2>1 DEF ReportInv, ReportTypeOK, RulesInv, ListInv, Reports, Sections
<1>3. StageInv'
  BY <1>1 DEF StageInv, NoReport
<1>4. ThreadsInv'
  <2>1. CrashedEntries' = {}
    BY <1>1 DEF CrashedEntries
  <2>2. \A i \in DOMAIN context.list : ~(i < 1)
    BY LenProperties DEF ReportInv, ReportTypeOK, Contexts
  <2> QED BY <1>1, <2>1, <2>2 DEF ThreadsInv
<1> QED BY <1>2, <1>3, <1>4 DEF ReportInv

LEMMA EndSteps ==
  ASSUME ReportInv, Close \/ Resume
  PROVE  ReportInv'
<1>1. CASE Close
  <2>1. /\ report' \in Reports
        /\ report.pc = "end" /\ report'.pc = "done" /\ report'.index = report.index
        /\ report'.minimal = report.minimal
        /\ UNCHANGED <<memory, userInfo, rules, context, written>>
    <3>1. report \in Reports /\ report.pc = "end" /\ report' = [report EXCEPT !.pc = "done", !.level = 0]
      BY <1>1 DEF Close, ReportInv, ReportTypeOK
    <3>2. report' \in Reports
      <4>1. "done" \in Sections \cup {"none", "done"} /\ 0 \in Int
        OBVIOUS
      <4> QED BY <3>1, <4>1 DEF Reports
    <3>3. report'.pc = "done" /\ report'.index = report.index /\ report'.minimal = report.minimal
      BY <3>1 DEF Reports
    <3> QED BY <3>1, <3>2, <3>3, <1>1 DEF Close
  <2>2. ReportTypeOK' /\ RulesInv' /\ ListInv'
    BY <2>1 DEF ReportInv, ReportTypeOK, RulesInv, ListInv
  <2>3. StageInv'
    BY <2>1 DEF ReportInv, StageInv, NoReport
  <2>4. ThreadsInv'
    BY <2>1 DEF ReportInv, ThreadsInv, CrashedEntries
  <2> QED BY <2>2, <2>3, <2>4 DEF ReportInv
<1>2. CASE Resume
  <2>1. <<>> \in Seq(Entries) /\ <<>> \in Seq(Threads)
    OBVIOUS
  <2>2. ReportTypeOK' /\ RulesInv'
    BY <1>2, <2>1 DEF Resume, NoContext, NoReport, ReportInv, ReportTypeOK, RulesInv, Reports, Contexts
  <2>3. ListInv' /\ StageInv' /\ ThreadsInv'
    BY <1>2 DEF Resume, NoContext, NoReport, ListInv, StageInv, ThreadsInv
  <2> QED BY <2>2, <2>3 DEF ReportInv
<1> QED BY <1>1, <1>2

-----------------------------------------------------------------------------
(* The search of the memory.  The recursion ends because every call lowers  *)
(* the limit: Approximates(g, n) says that g is the search up to a limit of  *)
(* n, and Writes what one call does to the state, however the objects refer  *)
(* to each other.                                                           *)

\* The body of writeMemoryContents.
Contents(address, s, write) ==
  LET begun == Enter([s EXCEPT !.limit = @ - 1])
      object == writeObjCObject(address, begun, write)
  IN Leave(IF address = NULL THEN Opens(begun, address, "null")
           ELSE IF object.done THEN object.s
           ELSE Opens(begun, address, IF memory[address].text THEN "text" ELSE "nothing"))

Begun(s) == Enter([s EXCEPT !.limit = @ - 1])

\* Of an object whose class must not be opened, at most its bytes are told.
Closed(entry) ==
  /\ entry.opened # "null" /\ memory[entry.address].type = "object"
  /\ isRestrictedClass(memory[entry.address].class)
  => entry.opened \in {"text", "nothing"}

\* What a call adds to the state: at least one object, no more than the limit goes down,
\* and of the last object that was expanded a whole set of ivars.
Writes(s, t) ==
  /\ t \in Search /\ t.level = s.level
  /\ Len(s.log) + 1 <= Len(t.log)
  /\ Len(t.log) + t.limit <= Len(s.log) + s.limit
  /\ s.limit <= 1 => Len(t.log) = Len(s.log) + 1
  /\ s.limit >= 1 => Len(t.log) <= Len(s.log) + s.limit + MaxIvars
  /\ t.deepest <= s.deepest \/ t.deepest <= s.level + 2 \/ t.deepest <= s.level + 2 * s.limit
  /\ \A i \in 1 .. Len(s.log) : t.log[i] = s.log[i]
  /\ \A i \in Len(s.log) + 1 .. Len(t.log) : Closed(t.log[i])

UpTo(n) == {s \in Search : s.limit <= n}
Bounded(g, n) == \A address \in Addresses : \A s \in UpTo(n) : Writes(s, g[address][s])

LEMMA SearchFields ==
  ASSUME NEW s \in Search
  PROVE  /\ s.limit \in Int /\ s.limit <= SearchDepth /\ s.level \in Int /\ s.deepest \in Int
         /\ s.log \in Seq([address : Addresses, opened : Told]) /\ Len(s.log) \in Nat
         /\ SearchDepth \in Nat \ {0} /\ MaxIvars \in Nat
BY ReportAssumption, LenProperties DEF Search

\* A call begins: the limit goes down, and a container is opened.
LEMMA BegunFields ==
  ASSUME NEW s \in Search
  PROVE  /\ Begun(s) \in Search /\ Begun(s).limit = s.limit - 1 /\ Begun(s).level = s.level + 1
         /\ Begun(s).log = s.log
         /\ Begun(s).deepest = IF s.level + 1 > s.deepest THEN s.level + 1 ELSE s.deepest
<1>1. s.limit - 1 \in {n \in Int : n <= SearchDepth} /\ s.level + 1 \in Int
  BY SearchFields
<1> DEFINE d == IF s.level + 1 > s.deepest THEN s.level + 1 ELSE s.deepest
<1>2. d \in Int
  BY SearchFields
<1>3. Begun(s) = [s EXCEPT !.limit = s.limit - 1, !.level = s.level + 1, !.deepest = d]
  BY DEF Begun, Enter, Search
<1>4. d = IF s.level + 1 > s.deepest THEN s.level + 1 ELSE s.deepest
  OBVIOUS
<1> HIDE DEF d
<1> QED BY <1>1, <1>2, <1>3, <1>4 DEF Search

\* An object is written.
LEMMA OpensFields ==
  ASSUME NEW s \in Search, NEW address \in Addresses, NEW what \in Told
  PROVE  LET t == Opens(s, address, what)
         IN /\ t \in Search /\ t.limit = s.limit /\ t.level = s.level /\ t.deepest = s.deepest
            /\ Len(t.log) = Len(s.log) + 1 /\ t.log[Len(s.log) + 1] = [address |-> address, opened |-> what]
            /\ \A i \in 1 .. Len(s.log) : t.log[i] = s.log[i]
<1> DEFINE Entry == [address : Addresses, opened : Told]
           entry == [address |-> address, opened |-> what]
           log == Append(s.log, entry)
<1>1. entry \in Entry /\ s.log \in Seq(Entry)
  BY DEF Search
<1>2. log \in Seq(Entry) /\ Len(log) = Len(s.log) + 1 /\ log[Len(s.log) + 1] = entry
      /\ \A i \in 1 .. Len(s.log) : log[i] = s.log[i]
  <2> HIDE DEF entry, Entry
  <2> QED BY <1>1, AppendProperties
<1>3. Opens(s, address, what) = [s EXCEPT !.log = log]
  BY DEF Opens, Search
<1> HIDE DEF log
<1>4. Opens(s, address, what) \in Search
  BY <1>2, <1>3 DEF Search
<1>5. /\ Opens(s, address, what).log = log /\ Opens(s, address, what).limit = s.limit
      /\ Opens(s, address, what).level = s.level /\ Opens(s, address, what).deepest = s.deepest
  BY <1>3 DEF Search
<1> QED BY <1>2, <1>4, <1>5

LEMMA LeaveFields ==
  ASSUME NEW s \in Search
  PROVE  /\ Leave(s) \in Search /\ Leave(s).limit = s.limit /\ Leave(s).level = s.level - 1
         /\ Leave(s).deepest = s.deepest /\ Leave(s).log = s.log
<1>1. s.level - 1 \in Int
  BY SearchFields
<1> QED BY <1>1 DEF Leave, Search

\* An object whose contents are not opened ends the recursion.
LEMMA LeafWrites ==
  ASSUME NEW s \in Search, NEW address \in Addresses, NEW what \in Told,
         Closed([address |-> address, opened |-> what])
  PROVE  Writes(s, Leave(Opens(Begun(s), address, what)))
<1> DEFINE b == Begun(s)
           o == Opens(b, address, what)
           t == Leave(o)
<1>1. /\ b \in Search /\ b.limit = s.limit - 1 /\ b.level = s.level + 1 /\ b.log = s.log
      /\ b.deepest = IF s.level + 1 > s.deepest THEN s.level + 1 ELSE s.deepest
  BY BegunFields
<1> HIDE DEF b
<1>2. /\ o \in Search /\ o.limit = b.limit /\ o.level = b.level /\ o.deepest = b.deepest
      /\ Len(o.log) = Len(b.log) + 1 /\ o.log[Len(b.log) + 1] = [address |-> address, opened |-> what]
      /\ \A i \in 1 .. Len(b.log) : o.log[i] = b.log[i]
  BY <1>1, OpensFields
<1> HIDE DEF o
<1>3. t \in Search /\ t.limit = o.limit /\ t.level = o.level - 1 /\ t.deepest = o.deepest /\ t.log = o.log
  BY <1>2, LeaveFields
<1> HIDE DEF t
<1>4. s.limit \in Int /\ s.level \in Int /\ s.deepest \in Int /\ Len(s.log) \in Nat /\ MaxIvars \in Nat
  BY SearchFields
<1>5. t.level = s.level /\ Len(t.log) = Len(s.log) + 1 /\ t.limit = s.limit - 1
  BY <1>1, <1>2, <1>3, <1>4
<1>6. t.deepest <= s.deepest \/ t.deepest <= s.level + 2
  BY <1>1, <1>2, <1>3, <1>4
<1>7. \A i \in 1 .. Len(s.log) : t.log[i] = s.log[i]
  BY <1>1, <1>2, <1>3
<1>8. \A i \in Len(s.log) + 1 .. Len(t.log) : Closed(t.log[i])
  <2>1. \A i \in Len(s.log) + 1 .. Len(t.log) : i = Len(s.log) + 1
    BY <1>4, <1>5
  <2>2. t.log[Len(s.log) + 1] = [address |-> address, opened |-> what]
    BY <1>1, <1>2, <1>3
  <2> QED BY <2>1, <2>2
<1>9. /\ Len(s.log) + 1 <= Len(t.log)
      /\ Len(t.log) + t.limit <= Len(s.log) + s.limit
      /\ s.limit >= 1 => Len(t.log) <= Len(s.log) + s.limit + MaxIvars
  BY <1>4, <1>5
<1>10. Writes(s, t)
  BY <1>3, <1>5, <1>6, <1>7, <1>8, <1>9 DEF Writes
<1> QED BY <1>10 DEF t, o, b

\* Whether the search goes on to the objects an object refers to.
Expands(address, s) ==
  /\ address # NULL /\ s.limit > 1
  /\ memory[address].type = "object" /\ ~isRestrictedClass(memory[address].class)
  /\ memory[address].kind # "value"
  /\ memory[address].kind = "array" => memory[address].refs # <<>>

\* What is told of an object that is not expanded.
Leaf(address, s) ==
  IF address = NULL THEN "null"
  ELSE IF memory[address].type \in {"class", "block"} THEN "name"
  ELSE IF memory[address].type # "object" \/ isRestrictedClass(memory[address].class)
       THEN IF memory[address].text THEN "text" ELSE "nothing"
  ELSE IF memory[address].kind = "value" THEN "value"
  ELSE IF s.limit > 1 THEN "first" ELSE "name"

LEMMA LeafClosed ==
  ASSUME NEW s, NEW address
  PROVE  Leaf(address, s) \in Told /\ Closed([address |-> address, opened |-> Leaf(address, s)])
BY DEF Leaf, Told, Closed

LEMMA LeafContents ==
  ASSUME NEW s \in Search, NEW address \in Addresses, NEW write, ~Expands(address, s)
  PROVE  Contents(address, s, write) = Leave(Opens(Begun(s), address, Leaf(address, s)))
<1> DEFINE begun == Begun(s)
           object == writeObjCObject(address, begun, write)
<1>1. begun.limit = s.limit - 1 /\ s.limit \in Int
  BY BegunFields, SearchFields
<1>2. Contents(address, s, write) =
        Leave(IF address = NULL THEN Opens(begun, address, "null")
              ELSE IF object.done THEN object.s
              ELSE Opens(begun, address, IF memory[address].text THEN "text" ELSE "nothing"))
  BY DEF Contents, Begun
<1> HIDE DEF begun
<1>3. begun.limit > 0 <=> s.limit > 1
  BY <1>1
<1>4. CASE address = NULL
  BY <1>2, <1>4 DEF Leaf, begun
<1>5. CASE address # NULL /\ memory[address].type \in {"class", "block"}
  BY <1>2, <1>5 DEF Leaf, writeObjCObject, begun
<1>6. CASE /\ address # NULL /\ memory[address].type \notin {"class", "block"}
           /\ memory[address].type # "object" \/ isRestrictedClass(memory[address].class)
  BY <1>2, <1>6 DEF Leaf, writeObjCObject, begun
<1>7. CASE /\ address # NULL /\ memory[address].type = "object"
           /\ ~isRestrictedClass(memory[address].class)
  <2>1. CASE memory[address].kind = "value"
    BY <1>2, <1>7, <2>1 DEF Leaf, writeObjCObject, begun
  <2>2. CASE memory[address].kind # "value" /\ ~(s.limit > 1)
    BY <1>2, <1>3, <1>7, <2>2 DEF Leaf, writeObjCObject, begun
  <2>3. CASE memory[address].kind = "array" /\ s.limit > 1
    <3>1. memory[address].refs = <<>>
      BY <1>7, <2>3 DEF Expands
    <3>2. writeArrayContents(address, Opens(begun, address, "first"), write) = Opens(begun, address, "first")
      BY <3>1 DEF writeArrayContents
    <3> QED BY <1>2, <1>3, <1>7, <2>3, <3>2 DEF Leaf, writeObjCObject, begun
  <2> QED BY <1>7, <2>1, <2>2, <2>3 DEF Expands
<1> QED BY <1>4, <1>5, <1>6, <1>7

LEMMA ExpandedContents ==
  ASSUME NEW s \in Search, NEW address \in Addresses, NEW write, Expands(address, s)
  PROVE  Contents(address, s, write) =
           IF memory[address].kind = "array"
           THEN Leave(write[Head(memory[address].refs)][Opens(Begun(s), address, "first")])
           ELSE Leave(writeUnknownObjectContents(address, Opens(Begun(s), address, "ivars"), write))
<1> DEFINE begun == Begun(s)
           object == writeObjCObject(address, begun, write)
<1>1. begun.limit = s.limit - 1 /\ s.limit \in Int
  BY BegunFields, SearchFields
<1>2. Contents(address, s, write) =
        Leave(IF address = NULL THEN Opens(begun, address, "null")
              ELSE IF object.done THEN object.s
              ELSE Opens(begun, address, IF memory[address].text THEN "text" ELSE "nothing"))
  BY DEF Contents, Begun
<1> HIDE DEF begun
<1>3. begun.limit > 0
  BY <1>1 DEF Expands
<1>4. CASE memory[address].kind = "array"
  <2>1. writeArrayContents(address, Opens(begun, address, "first"), write)
          = write[Head(memory[address].refs)][Opens(begun, address, "first")]
    BY <1>4 DEF writeArrayContents, Expands
  <2> QED BY <1>2, <1>3, <1>4, <2>1 DEF writeObjCObject, Expands, begun
<1>5. CASE memory[address].kind # "array"
  BY <1>2, <1>3, <1>5 DEF writeObjCObject, Expands, begun
<1> QED BY <1>4, <1>5

\* The states of the loop over an object's ivars.
Runs(after, base, write, ivars) ==
  after = [i \in 0 .. Len(ivars) |-> IF i = 0 THEN base ELSE write[ivars[i]][after[i - 1]]]

LEMMA LoopRuns ==
  ASSUME NEW base, NEW write, NEW ivars, Len(ivars) \in Nat
  PROVE  \E after : Runs(after, base, write, ivars)
<1> DEFINE P(n) == \E r : r = [i \in 0 .. n |-> IF i = 0 THEN base ELSE write[ivars[i]][r[i - 1]]]
           T == {n \in Nat : ~P(n)}
<1>1. P(0)
  <2> DEFINE r == [i \in 0 .. 0 |-> base]
  <2>1. \A i \in 0 .. 0 : i = 0
    OBVIOUS
  <2>2. r = [i \in 0 .. 0 |-> IF i = 0 THEN base ELSE write[ivars[i]][r[i - 1]]]
    BY <2>1
  <2> QED BY <2>2
<1>2. \A n \in Nat : P(n) => P(n + 1)
  <2> SUFFICES ASSUME NEW n \in Nat, P(n) PROVE P(n + 1)
    OBVIOUS
  <2>1. PICK r : r = [i \in 0 .. n |-> IF i = 0 THEN base ELSE write[ivars[i]][r[i - 1]]]
    OBVIOUS
  <2> DEFINE q == [i \in 0 .. n + 1 |-> IF i = n + 1 THEN write[ivars[i]][r[n]] ELSE r[i]]
  <2>2. \A i \in 0 .. n : q[i] = r[i]
    OBVIOUS
  <2>3. \A i \in 0 .. n + 1 : q[i] = IF i = 0 THEN base ELSE write[ivars[i]][q[i - 1]]
    <3> SUFFICES ASSUME NEW i \in 0 .. n + 1
                 PROVE  q[i] = IF i = 0 THEN base ELSE write[ivars[i]][q[i - 1]]
      OBVIOUS
    <3>1. CASE i = n + 1
      <4>1. q[i] = write[ivars[i]][r[n]]
        BY <3>1
      <4>2. q[i - 1] = r[n] /\ i # 0
        BY <3>1, <2>2
      <4> QED BY <4>1, <4>2
    <3>2. CASE i \in 0 .. n
      <4>1. q[i] = IF i = 0 THEN base ELSE write[ivars[i]][r[i - 1]]
        BY <3>2, <2>1, <2>2
      <4>2. i # 0 => q[i - 1] = r[i - 1]
        BY <3>2, <2>2
      <4> QED BY <4>1, <4>2
    <3> QED BY <3>1, <3>2
  <2>4. q = [i \in 0 .. n + 1 |-> IF i = 0 THEN base ELSE write[ivars[i]][q[i - 1]]]
    <3> DEFINE p == [i \in 0 .. n + 1 |-> IF i = 0 THEN base ELSE write[ivars[i]][q[i - 1]]]
    <3>1. \A i \in 0 .. n + 1 : q[i] = p[i]
      BY <2>3
    <3>2. q = [i \in 0 .. n + 1 |-> q[i]]
      OBVIOUS
    <3>3. p = [i \in 0 .. n + 1 |-> p[i]]
      OBVIOUS
    <3> HIDE DEF p, q
    <3>4. q = p
      BY <3>1, <3>2, <3>3
    <3> QED BY <3>4 DEF p
  <2> QED BY <2>4
<1> HIDE DEF P
<1>3. T = {}
  <2> SUFFICES ASSUME T # {} PROVE FALSE
    OBVIOUS
  <2>1. PICK n \in T : \A m \in T : n <= m
    BY LeastOf
  <2>2. n # 0 /\ n \in Nat
    BY <1>1
  <2>3. n - 1 \in Nat /\ n - 1 \notin T
    BY <2>1, <2>2
  <2>4. P(n - 1) /\ (n - 1) + 1 = n
    BY <2>2, <2>3
  <2> QED BY <2>2, <2>3, <2>4, <1>2
<1>4. P(Len(ivars))
  BY <1>3
<1> QED BY <1>4 DEF P, Runs

\* Writing the ivars of an object is a run over them.
LEMMA IvarsRun ==
  ASSUME NEW s, NEW address, NEW write,
         Len(Truncate(memory[address].refs, MaxIvars)) \in Nat
  PROVE  LET ivars == Truncate(memory[address].refs, MaxIvars)
             base == Enter([s EXCEPT !.limit = @ - 1 - Len(ivars)])
         IN \E after : /\ Runs(after, base, write, ivars)
                       /\ writeUnknownObjectContents(address, s, write) = Leave(after[Len(ivars)])
<1> DEFINE ivars == Truncate(memory[address].refs, MaxIvars)
           base == Enter([s EXCEPT !.limit = @ - 1 - Len(ivars)])
           after == CHOOSE r : r = [i \in 0 .. Len(ivars) |-> IF i = 0 THEN base ELSE write[ivars[i]][r[i - 1]]]
<1>1. writeUnknownObjectContents(address, s, write) = Leave(after[Len(ivars)])
  BY DEF writeUnknownObjectContents
<1>2. Len(ivars) \in Nat
  OBVIOUS
<1> HIDE DEF ivars, base
<1>3. \E r : r = [i \in 0 .. Len(ivars) |-> IF i = 0 THEN base ELSE write[ivars[i]][r[i - 1]]]
  <2>1. PICK q : Runs(q, base, write, ivars)
    BY <1>2, LoopRuns
  <2> QED BY <2>1 DEF Runs
<1>4. after = [i \in 0 .. Len(ivars) |-> IF i = 0 THEN base ELSE write[ivars[i]][after[i - 1]]]
  BY <1>3, Zenon
<1> HIDE DEF after
<1>5. Runs(after, base, write, ivars)
  BY <1>4 DEF Runs
<1> QED BY <1>1, <1>5 DEF ivars, base

-----------------------------------------------------------------------------
(* What the calls for the ivars of an object do together, one by one.       *)

\* After j calls: each has written an object, and none has raised what is left of the limit.
LoopInv(s, t, j) ==
  /\ t \in Search /\ t.level = s.level
  /\ Len(s.log) + j <= Len(t.log)
  /\ Len(t.log) + t.limit <= Len(s.log) + s.limit
  /\ t.limit <= 0 => \/ Len(t.log) <= Len(s.log) + j
                     \/ Len(t.log) <= Len(s.log) + s.limit + MaxIvars + j - 1
  /\ t.deepest <= s.deepest \/ t.deepest <= s.level + 2 \/ t.deepest <= s.level + 2 * s.limit
  /\ \A i \in 1 .. Len(s.log) : t.log[i] = s.log[i]
  /\ \A i \in Len(s.log) + 1 .. Len(t.log) : Closed(t.log[i])

LEMMA LoopBegins ==
  ASSUME NEW s \in Search
  PROVE  LoopInv(s, s, 0)
<1>1. s.limit \in Int /\ s.level \in Int /\ s.deepest \in Int /\ Len(s.log) \in Nat
  BY SearchFields
<1>2. \A i \in Len(s.log) + 1 .. Len(s.log) : FALSE
  BY <1>1
<1> QED BY <1>1, <1>2 DEF LoopInv

\* The arithmetic of a step: l stands for what is left of the limit, n for the objects written.
LEMMA StepNumbers ==
  ASSUME NEW l0 \in Int, NEW n0 \in Int, NEW l1 \in Int, NEW n1 \in Int, NEW l2 \in Int, NEW n2 \in Int,
         NEW j \in Nat, NEW M \in Nat,
         n0 + j <= n1, n1 + l1 <= n0 + l0, n1 + 1 <= n2, n2 + l2 <= n1 + l1,
         l1 <= 0 => n1 <= n0 + j \/ n1 <= n0 + l0 + M + j - 1,
         l1 <= 1 => n2 = n1 + 1,
         l1 >= 1 => n2 <= n1 + l1 + M
  PROVE  /\ n0 + (j + 1) <= n2 /\ n2 + l2 <= n0 + l0 /\ l1 <= l0
         /\ n2 <= n0 + (j + 1) \/ n2 <= n0 + l0 + M + (j + 1) - 1
<1>1. CASE l1 <= 0
  BY <1>1
<1>2. CASE l1 >= 1
  BY <1>2
<1> QED BY <1>1, <1>2

LEMMA StepDepth ==
  ASSUME NEW l0 \in Int, NEW l1 \in Int, NEW v \in Int, NEW d0 \in Int, NEW d1 \in Int, NEW d2 \in Int,
         l1 <= l0,
         d1 <= d0 \/ d1 <= v + 2 \/ d1 <= v + 2 * l0,
         d2 <= d1 \/ d2 <= v + 2 \/ d2 <= v + 2 * l1
  PROVE  d2 <= d0 \/ d2 <= v + 2 \/ d2 <= v + 2 * l0
OBVIOUS

LEMMA LoopStep ==
  ASSUME NEW s \in Search, NEW t, NEW u, NEW j \in Nat, LoopInv(s, t, j), Writes(t, u)
  PROVE  LoopInv(s, u, j + 1)
<1>1. /\ s.limit \in Int /\ s.level \in Int /\ s.deepest \in Int /\ Len(s.log) \in Nat
      /\ t.limit \in Int /\ t.level \in Int /\ t.deepest \in Int /\ Len(t.log) \in Nat
      /\ u.limit \in Int /\ u.level \in Int /\ u.deepest \in Int /\ Len(u.log) \in Nat
      /\ MaxIvars \in Nat /\ t \in Search /\ u \in Search
  BY SearchFields DEF LoopInv, Writes
<1>2. u.level = s.level
  BY DEF LoopInv, Writes
<1>3. Len(s.log) + j <= Len(t.log) /\ Len(t.log) + 1 <= Len(u.log)
  BY DEF LoopInv, Writes
<1>4. Len(t.log) + t.limit <= Len(s.log) + s.limit /\ Len(u.log) + u.limit <= Len(t.log) + t.limit
  BY DEF LoopInv, Writes
<1>5. t.limit <= 0 => \/ Len(t.log) <= Len(s.log) + j
                     \/ Len(t.log) <= Len(s.log) + s.limit + MaxIvars + j - 1
  BY DEF LoopInv
<1>6. /\ t.limit <= 1 => Len(u.log) = Len(t.log) + 1
      /\ t.limit >= 1 => Len(u.log) <= Len(t.log) + t.limit + MaxIvars
  BY DEF Writes
<1>7. /\ Len(s.log) + (j + 1) <= Len(u.log) /\ Len(u.log) + u.limit <= Len(s.log) + s.limit
      /\ t.limit <= s.limit
      /\ \/ Len(u.log) <= Len(s.log) + (j + 1)
         \/ Len(u.log) <= Len(s.log) + s.limit + MaxIvars + (j + 1) - 1
  <2> DEFINE n0 == Len(s.log)
             n1 == Len(t.log)
             n2 == Len(u.log)
             l0 == s.limit
             l1 == t.limit
             l2 == u.limit
  <2>1. /\ l0 \in Int /\ n0 \in Int /\ l1 \in Int /\ n1 \in Int /\ l2 \in Int /\ n2 \in Int
        /\ MaxIvars \in Nat
    BY <1>1
  <2>2. /\ n0 + j <= n1 /\ n1 + l1 <= n0 + l0 /\ n1 + 1 <= n2 /\ n2 + l2 <= n1 + l1
        /\ l1 <= 0 => n1 <= n0 + j \/ n1 <= n0 + l0 + MaxIvars + j - 1
        /\ l1 <= 1 => n2 = n1 + 1
        /\ l1 >= 1 => n2 <= n1 + l1 + MaxIvars
    BY <1>3, <1>4, <1>5, <1>6
  <2> HIDE DEF n0, n1, n2, l0, l1, l2
  <2>3. /\ n0 + (j + 1) <= n2 /\ n2 + l2 <= n0 + l0 /\ l1 <= l0
        /\ n2 <= n0 + (j + 1) \/ n2 <= n0 + l0 + MaxIvars + (j + 1) - 1
    BY <2>1, <2>2, StepNumbers
  <2> QED BY <2>3 DEF n0, n1, n2, l0, l1, l2
<1>9. u.deepest <= s.deepest \/ u.deepest <= s.level + 2 \/ u.deepest <= s.level + 2 * s.limit
  <2>1. t.deepest <= s.deepest \/ t.deepest <= s.level + 2 \/ t.deepest <= s.level + 2 * s.limit
    BY DEF LoopInv
  <2>2. u.deepest <= t.deepest \/ u.deepest <= s.level + 2 \/ u.deepest <= s.level + 2 * t.limit
    BY DEF LoopInv, Writes
  <2> QED BY <2>1, <2>2, <1>1, <1>7, StepDepth
<1>10. \A i \in 1 .. Len(s.log) : u.log[i] = s.log[i]
  <2>1. \A i \in 1 .. Len(s.log) : t.log[i] = s.log[i]
    BY DEF LoopInv
  <2>2. \A i \in 1 .. Len(t.log) : u.log[i] = t.log[i]
    BY DEF Writes
  <2>3. \A i \in 1 .. Len(s.log) : i \in 1 .. Len(t.log)
    BY <1>1, <1>3
  <2> QED BY <2>1, <2>2, <2>3
<1>11. \A i \in Len(s.log) + 1 .. Len(u.log) : Closed(u.log[i])
  <2> SUFFICES ASSUME NEW i \in Len(s.log) + 1 .. Len(u.log) PROVE Closed(u.log[i])
    OBVIOUS
  <2>1. CASE i <= Len(t.log)
    <3>1. i \in 1 .. Len(t.log) /\ i \in Len(s.log) + 1 .. Len(t.log)
      BY <2>1, <1>1
    <3>2. u.log[i] = t.log[i]
      BY <3>1 DEF Writes
    <3>3. Closed(t.log[i])
      BY <3>1 DEF LoopInv
    <3> QED BY <3>2, <3>3
  <2>2. CASE i > Len(t.log)
    <3>1. i \in Len(t.log) + 1 .. Len(u.log)
      BY <2>2, <1>1
    <3> QED BY <3>1 DEF Writes
  <2> QED BY <2>1, <2>2, <1>1
<1>12. u \in Search
  BY DEF Writes
<1>13. Len(s.log) + (j + 1) <= Len(u.log) /\ Len(u.log) + u.limit <= Len(s.log) + s.limit
  BY <1>7
<1>14. u.limit <= 0 => \/ Len(u.log) <= Len(s.log) + (j + 1)
                      \/ Len(u.log) <= Len(s.log) + s.limit + MaxIvars + (j + 1) - 1
  BY <1>7
<1> QED BY <1>2, <1>9, <1>10, <1>11, <1>12, <1>13, <1>14, Zenon DEF LoopInv

LEMMA LoopEnds ==
  ASSUME NEW n \in Nat, NEW g, Bounded(g, n), NEW s \in UpTo(n),
         NEW ivars, Len(ivars) \in Nat, \A i \in 1 .. Len(ivars) : ivars[i] \in Addresses,
         NEW after, Runs(after, s, g, ivars)
  PROVE  \A j \in 0 .. Len(ivars) : LoopInv(s, after[j], j)
<1> DEFINE T == {j \in 0 .. Len(ivars) : ~LoopInv(s, after[j], j)}
<1>0. s \in Search /\ s.limit <= n
  BY DEF UpTo
<1>1. after[0] = s /\ \A j \in 1 .. Len(ivars) : after[j] = g[ivars[j]][after[j - 1]]
  BY DEF Runs
<1>2. SUFFICES ASSUME T # {} PROVE FALSE
  OBVIOUS
<1>3. T \in SUBSET Nat
  OBVIOUS
<1>4. PICK j \in T : \A i \in T : j <= i
  BY <1>2, <1>3, LeastOf
<1>5. j # 0
  BY <1>0, <1>1, <1>4, LoopBegins
<1>6. j \in 1 .. Len(ivars) /\ j - 1 \in Nat /\ (j - 1) + 1 = j /\ j - 1 \in 0 .. Len(ivars)
  BY <1>4, <1>5
<1>7. j - 1 \notin T
  BY <1>4, <1>6
<1>8. LoopInv(s, after[j - 1], j - 1)
  BY <1>6, <1>7
<1> DEFINE t == after[j - 1]
<1>9. t \in UpTo(n)
  <2>1. /\ t \in Search /\ Len(s.log) + (j - 1) <= Len(t.log)
        /\ Len(t.log) + t.limit <= Len(s.log) + s.limit
    BY <1>8 DEF LoopInv
  <2> HIDE DEF t
  <2>2. t.limit \in Int /\ Len(t.log) \in Nat /\ s.limit \in Int /\ Len(s.log) \in Nat
    BY <2>1, <1>0, SearchFields
  <2>3. t.limit <= n
    BY <1>0, <1>6, <2>1, <2>2
  <2> QED BY <2>1, <2>3 DEF UpTo
<1>10. Writes(t, after[j])
  <2>1. after[j] = g[ivars[j]][t] /\ ivars[j] \in Addresses
    BY <1>1, <1>6
  <2> HIDE DEF t
  <2> QED BY <2>1, <1>9 DEF Bounded
<1> HIDE DEF T
<1>11. LoopInv(s, after[j], (j - 1) + 1)
  BY <1>0, <1>6, <1>8, <1>10, LoopStep
<1>12. ~LoopInv(s, after[j], j)
  BY <1>4 DEF T
<1> QED BY <1>6, <1>11, <1>12

-----------------------------------------------------------------------------
(* What a call does, if the calls it makes do what they should.             *)

\* What an object refers to, as far as its ivars are looked at.
LEMMA IvarsFields ==
  ASSUME memory \in Memories, NEW address \in Addresses, address # NULL
  PROVE  /\ memory[address].refs \in Seq(Addresses)
         /\ LET ivars == Truncate(memory[address].refs, MaxIvars)
            IN /\ Len(ivars) \in Nat /\ Len(ivars) <= MaxIvars
               /\ \A i \in 1 .. Len(ivars) : ivars[i] \in Addresses
<1>1. memory[address].refs \in Seq(Addresses)
  BY MemoryAssumption DEF Addresses
<1> DEFINE refs == memory[address].refs
           ivars == Truncate(refs, MaxIvars)
<1> HIDE DEF refs
<1>2. MaxIvars \in Nat /\ refs \in Seq(Addresses) /\ Len(refs) \in Nat
  BY <1>1, ReportAssumption, LenProperties DEF refs
<1>3. ivars \in Seq(Addresses)
  BY <1>2, TruncateTyped
<1>4. Len(ivars) <= MaxIvars
  <2>1. CASE Len(refs) <= MaxIvars
    BY <2>1 DEF Truncate
  <2>2. CASE ~(Len(refs) <= MaxIvars)
    <3>1. MaxIvars \in 1 - 1 .. Len(refs)
      BY <2>2, <1>2
    <3>2. Len(SubSeq(refs, 1, MaxIvars)) = MaxIvars
      BY <1>2, <2>2
    <3> QED BY <3>2, <2>2, <1>2 DEF Truncate
  <2> QED BY <2>1, <2>2
<1>5. Len(ivars) \in Nat /\ \A i \in 1 .. Len(ivars) : ivars[i] \in Addresses
  <2> HIDE DEF ivars
  <2> QED BY <1>3, ElementOfSeq, LenProperties
<1> QED BY <1>1, <1>4, <1>5 DEF refs

\* The state in which the ivars of an object begin.
LEMMA BaseFields ==
  ASSUME NEW s \in Search, NEW k \in Nat
  PROVE  LET base == Enter([s EXCEPT !.limit = @ - 1 - k])
         IN /\ base \in Search /\ base.limit = s.limit - 1 - k /\ base.level = s.level + 1
            /\ base.log = s.log
            /\ base.deepest = IF s.level + 1 > s.deepest THEN s.level + 1 ELSE s.deepest
<1> DEFINE d == IF s.level + 1 > s.deepest THEN s.level + 1 ELSE s.deepest
           l == s.limit - 1 - k
           base == Enter([s EXCEPT !.limit = @ - 1 - k])
<1>1. l \in Int /\ l <= SearchDepth /\ s.level + 1 \in Int /\ d \in Int
  BY SearchFields
<1>2. base = [s EXCEPT !.limit = l, !.level = s.level + 1, !.deepest = d]
  BY DEF Enter, Search
<1>3. l \in {n \in Int : n <= SearchDepth}
  BY <1>1
<1>4. d = IF s.level + 1 > s.deepest THEN s.level + 1 ELSE s.deepest
  OBVIOUS
<1>5. l = s.limit - 1 - k
  OBVIOUS
<1> HIDE DEF d, l, base
<1>6. /\ base \in Search /\ base.limit = l /\ base.level = s.level + 1 /\ base.log = s.log /\ base.deepest = d
  BY <1>1, <1>2, <1>3 DEF Search
<1> QED BY <1>4, <1>5, <1>6 DEF base

\* An object written and then a call: the states between keep what was written before.
LEMMA OpenedBefore ==
  ASSUME NEW s \in Search, NEW o \in Search, NEW t \in Search, NEW address, NEW what,
         Closed([address |-> address, opened |-> what]),
         Len(o.log) = Len(s.log) + 1, o.log[Len(s.log) + 1] = [address |-> address, opened |-> what],
         \A i \in 1 .. Len(s.log) : o.log[i] = s.log[i],
         Len(o.log) <= Len(t.log),
         \A i \in 1 .. Len(o.log) : t.log[i] = o.log[i],
         \A i \in Len(o.log) + 1 .. Len(t.log) : Closed(t.log[i])
  PROVE  /\ \A i \in 1 .. Len(s.log) : t.log[i] = s.log[i]
         /\ \A i \in Len(s.log) + 1 .. Len(t.log) : Closed(t.log[i])
<1>1. Len(s.log) \in Nat /\ Len(t.log) \in Nat
  BY SearchFields
<1>2. \A i \in 1 .. Len(s.log) : t.log[i] = s.log[i]
  BY <1>1
<1>3. t.log[Len(s.log) + 1] = [address |-> address, opened |-> what]
  BY <1>1
<1>4. ASSUME NEW i \in Len(s.log) + 1 .. Len(t.log) PROVE Closed(t.log[i])
  <2>1. i = Len(s.log) + 1 \/ i \in Len(o.log) + 1 .. Len(t.log)
    BY <1>1
  <2> QED BY <2>1, <1>3
<1> QED BY <1>2, <1>4

\* The arithmetic of the two: n for the objects written, l for the limit.
LEMMA ArrayNumbers ==
  ASSUME NEW l0 \in Int, NEW n0 \in Nat, NEW l1, NEW n1, NEW l2 \in Int, NEW n2 \in Nat, NEW M \in Nat,
         n1 = n0 + 1, l1 = l0 - 1, n1 + 1 <= n2, n2 + l2 <= n1 + l1, n2 <= n1 + l1 + M
  PROVE  n0 + 1 <= n2 /\ n2 + l2 <= n0 + l0 /\ n2 <= n0 + l0 + M
OBVIOUS

LEMMA CallDepth ==
  ASSUME NEW d0 \in Int, NEW d1 \in Int, NEW d2 \in Int, NEW v0 \in Int, NEW v1 \in Int,
         NEW l0 \in Int, NEW l1 \in Int,
         d1 <= d0 \/ d1 <= v0 + 2, v1 + 2 <= v0 + 2 * l0, v1 + 2 * l1 <= v0 + 2 * l0,
         d2 <= d1 \/ d2 <= v1 + 2 \/ d2 <= v1 + 2 * l1
  PROVE  d2 <= d0 \/ d2 <= v0 + 2 \/ d2 <= v0 + 2 * l0
OBVIOUS

LEMMA ArrayCall ==
  ASSUME NEW n \in Nat, NEW g, Bounded(g, n), memory \in Memories, NEW s \in Search, s.limit <= n + 1,
         NEW address \in Addresses, Expands(address, s), memory[address].kind = "array"
  PROVE  Writes(s, Contents(address, s, g))
<1> DEFINE b == Begun(s)
           o == Opens(b, address, "first")
           head == Head(memory[address].refs)
           u == g[head][o]
           t == Leave(u)
<1>1. /\ b \in Search /\ b.limit = s.limit - 1 /\ b.level = s.level + 1 /\ b.log = s.log
      /\ b.deepest = IF s.level + 1 > s.deepest THEN s.level + 1 ELSE s.deepest
  BY BegunFields
<1> HIDE DEF b
<1>2. /\ o \in Search /\ o.limit = b.limit /\ o.level = b.level /\ o.deepest = b.deepest
      /\ Len(o.log) = Len(b.log) + 1 /\ o.log[Len(b.log) + 1] = [address |-> address, opened |-> "first"]
      /\ \A i \in 1 .. Len(b.log) : o.log[i] = b.log[i]
  <2>1. "first" \in Told
    BY DEF Told
  <2> QED BY <1>1, <2>1, OpensFields
<1> HIDE DEF o
<1>3. s.limit \in Int /\ s.level \in Int /\ s.deepest \in Int /\ Len(s.log) \in Nat /\ MaxIvars \in Nat
  BY SearchFields
<1>4. o \in UpTo(n)
  BY <1>1, <1>2, <1>3 DEF UpTo
<1>5. head \in Addresses
  <2>1. memory[address].refs \in Seq(Addresses) /\ memory[address].refs # <<>>
    BY IvarsFields DEF Expands
  <2> QED BY <2>1, HeadTailProperties
<1> HIDE DEF head
<1>6. Writes(o, u)
  BY <1>4, <1>5 DEF Bounded
<1> HIDE DEF u
<1>7. u \in Search
  BY <1>6 DEF Writes
<1>8. t \in Search /\ t.limit = u.limit /\ t.level = u.level - 1 /\ t.deepest = u.deepest /\ t.log = u.log
  BY <1>7, LeaveFields
<1> HIDE DEF t
<1>9. u.limit \in Int /\ u.deepest \in Int /\ Len(u.log) \in Nat
  BY <1>7, SearchFields
<1>10. s.limit > 1
  BY DEF Expands
<1>11. /\ u.level = s.level + 1 /\ Len(o.log) = Len(s.log) + 1 /\ o.limit = s.limit - 1
       /\ Len(o.log) + 1 <= Len(u.log)
       /\ Len(u.log) + u.limit <= Len(o.log) + o.limit
  BY <1>1, <1>2, <1>6 DEF Writes
<1>12. Len(u.log) <= Len(o.log) + o.limit + MaxIvars
  <2>1. o.limit >= 1
    BY <1>3, <1>10, <1>11
  <2> QED BY <2>1, <1>6 DEF Writes
<1>13. /\ t.level = s.level
       /\ Len(s.log) + 1 <= Len(t.log) /\ Len(t.log) + t.limit <= Len(s.log) + s.limit
       /\ Len(t.log) <= Len(s.log) + s.limit + MaxIvars
  <2>1. t.level = s.level
    BY <1>3, <1>8, <1>11
  <2>2. /\ Len(s.log) + 1 <= Len(u.log) /\ Len(u.log) + u.limit <= Len(s.log) + s.limit
        /\ Len(u.log) <= Len(s.log) + s.limit + MaxIvars
    BY <1>3, <1>9, <1>11, <1>12, ArrayNumbers
  <2> QED BY <2>1, <2>2, <1>8
<1>14. t.deepest <= s.deepest \/ t.deepest <= s.level + 2 \/ t.deepest <= s.level + 2 * s.limit
  <2>1. o.level = s.level + 1 /\ o.deepest = IF s.level + 1 > s.deepest THEN s.level + 1 ELSE s.deepest
    BY <1>1, <1>2
  <2>2. u.deepest <= o.deepest \/ u.deepest <= o.level + 2 \/ u.deepest <= o.level + 2 * o.limit
    BY <1>6 DEF Writes
  <2>3. o.deepest <= s.deepest \/ o.deepest <= s.level + 2
    BY <2>1, <1>3
  <2>4. o.level + 2 <= s.level + 2 * s.limit /\ o.level + 2 * o.limit <= s.level + 2 * s.limit
    <3>1. o.level = s.level + 1 /\ o.limit = s.limit - 1
      BY <2>1, <1>11
    <3>2. s.level + 1 + 2 <= s.level + 2 * s.limit
      BY <1>3, <1>10
    <3>3. s.level + 1 + 2 * (s.limit - 1) <= s.level + 2 * s.limit
      BY <1>3
    <3> QED BY <3>1, <3>2, <3>3
  <2>5. o.deepest \in Int /\ o.level \in Int /\ o.limit \in Int
    BY <1>2, SearchFields
  <2>6. u.deepest <= s.deepest \/ u.deepest <= s.level + 2 \/ u.deepest <= s.level + 2 * s.limit
    BY <2>2, <2>3, <2>4, <2>5, <1>3, <1>9, CallDepth
  <2> QED BY <2>6, <1>8
<1>15. Closed([address |-> address, opened |-> "first"])
  BY DEF Expands, Closed
<1>16. /\ \A i \in 1 .. Len(s.log) : t.log[i] = s.log[i]
       /\ \A i \in Len(s.log) + 1 .. Len(t.log) : Closed(t.log[i])
  <2>1. /\ Len(o.log) = Len(s.log) + 1 /\ o.log[Len(s.log) + 1] = [address |-> address, opened |-> "first"]
        /\ \A i \in 1 .. Len(s.log) : o.log[i] = s.log[i]
    BY <1>1, <1>2
  <2>2. Len(o.log) <= Len(t.log)
    BY <1>3, <1>8, <1>9, <1>11
  <2>3. /\ \A i \in 1 .. Len(o.log) : t.log[i] = o.log[i]
        /\ \A i \in Len(o.log) + 1 .. Len(t.log) : Closed(t.log[i])
    BY <1>6, <1>8 DEF Writes
  <2> QED BY <2>1, <2>2, <2>3, <1>2, <1>8, <1>15, OpenedBefore
<1>17. Contents(address, s, g) = t
  BY ExpandedContents DEF t, u, head, o, b
<1>18. s.limit <= 1 => Len(t.log) = Len(s.log) + 1
  BY <1>3, <1>10
<1>19. Writes(s, t)
  BY <1>8, <1>13, <1>14, <1>16, <1>18 DEF Writes
<1> QED BY <1>17, <1>19

\* The arithmetic of a run over k ivars: r stands for the state it begins in.
LEMMA IvarsNumbers ==
  ASSUME NEW l0 \in Int, NEW n0 \in Nat, NEW lr, NEW nr, NEW l2 \in Int, NEW n2 \in Nat,
         NEW M \in Nat, NEW k \in Nat, k <= M, l0 > 1,
         nr = n0 + 1, lr = l0 - 2 - k, nr + k <= n2, n2 + l2 <= nr + lr,
         l2 <= 0 => n2 <= nr + k \/ n2 <= nr + lr + M + k - 1
  PROVE  n0 + 1 <= n2 /\ n2 + l2 <= n0 + l0 /\ n2 <= n0 + l0 + M
<1>1. CASE l2 <= 0
  BY <1>1
<1>2. CASE l2 > 0
  BY <1>2
<1> QED BY <1>1, <1>2

\* The state in which the run over the ivars begins, and that the run stays within the limit.
LEMMA IvarsRunFrom ==
  ASSUME NEW n \in Nat, NEW g, Bounded(g, n), memory \in Memories, NEW s \in Search, s.limit <= n + 1,
         NEW address \in Addresses, Expands(address, s),
         NEW after,
         LET ivars == Truncate(memory[address].refs, MaxIvars)
             r == Enter([Opens(Begun(s), address, "ivars") EXCEPT !.limit = @ - 1 - Len(ivars)])
         IN Runs(after, r, g, ivars)
  PROVE  \A j \in 0 .. Len(Truncate(memory[address].refs, MaxIvars)) : after[j] \in UpTo(n)
<1> DEFINE o == Opens(Begun(s), address, "ivars")
           ivars == Truncate(memory[address].refs, MaxIvars)
           r == Enter([o EXCEPT !.limit = @ - 1 - Len(ivars)])
<1>1. Len(ivars) \in Nat /\ \A i \in 1 .. Len(ivars) : ivars[i] \in Addresses
  BY IvarsFields DEF Expands
<1>2. Begun(s) \in Search /\ Begun(s).limit = s.limit - 1
  BY BegunFields
<1>3. o \in Search /\ o.limit = s.limit - 1
  <2>1. "ivars" \in Told
    BY DEF Told
  <2> QED BY <1>2, <2>1, OpensFields
<1>4. Runs(after, r, g, ivars)
  OBVIOUS
<1> HIDE DEF o, ivars
<1>5. r \in Search /\ r.limit = o.limit - 1 - Len(ivars)
  BY <1>1, <1>3, BaseFields
<1> HIDE DEF r
<1>6. s.limit \in Int
  BY SearchFields
<1>7. r \in UpTo(n)
  BY <1>1, <1>3, <1>5, <1>6 DEF UpTo
<1>8. \A j \in 0 .. Len(ivars) : LoopInv(r, after[j], j)
  BY <1>1, <1>4, <1>7, LoopEnds
<1> SUFFICES ASSUME NEW j \in 0 .. Len(ivars) PROVE after[j] \in UpTo(n)
  BY DEF ivars
<1> DEFINE u == after[j]
<1>9. LoopInv(r, u, j)
  BY <1>8
<1> HIDE DEF u
<1>10. u \in Search /\ Len(r.log) + j <= Len(u.log) /\ Len(u.log) + u.limit <= Len(r.log) + r.limit
  BY <1>9 DEF LoopInv
<1>11. u.limit \in Int /\ r.limit \in Int /\ Len(u.log) \in Nat /\ Len(r.log) \in Nat /\ j \in Nat
  BY <1>1, <1>5, <1>10, SearchFields
<1>12. u.limit <= r.limit
  BY <1>10, <1>11
<1>13. u.limit <= n
  BY <1>7, <1>11, <1>12 DEF UpTo
<1>14. u \in UpTo(n)
  BY <1>10, <1>13 DEF UpTo
<1> QED BY <1>14 DEF u

LEMMA IvarsCall ==
  ASSUME NEW n \in Nat, NEW g, Bounded(g, n), memory \in Memories, NEW s \in Search, s.limit <= n + 1,
         NEW address \in Addresses, Expands(address, s), memory[address].kind # "array"
  PROVE  Writes(s, Contents(address, s, g))
<1> DEFINE b == Begun(s)
           o == Opens(b, address, "ivars")
           ivars == Truncate(memory[address].refs, MaxIvars)
           k == Len(ivars)
           r == Enter([o EXCEPT !.limit = @ - 1 - k])
<1>0. k \in Nat /\ k <= MaxIvars /\ \A i \in 1 .. k : ivars[i] \in Addresses
  BY IvarsFields DEF Expands
<1>1. /\ b \in Search /\ b.limit = s.limit - 1 /\ b.level = s.level + 1 /\ b.log = s.log
      /\ b.deepest = IF s.level + 1 > s.deepest THEN s.level + 1 ELSE s.deepest
  BY BegunFields
<1> HIDE DEF b
<1>2. /\ o \in Search /\ o.limit = b.limit /\ o.level = b.level /\ o.deepest = b.deepest
      /\ Len(o.log) = Len(b.log) + 1 /\ o.log[Len(b.log) + 1] = [address |-> address, opened |-> "ivars"]
      /\ \A i \in 1 .. Len(b.log) : o.log[i] = b.log[i]
  <2>1. "ivars" \in Told
    BY DEF Told
  <2> QED BY <1>1, <2>1, OpensFields
<1> HIDE DEF o
<1>3. PICK after : Runs(after, r, g, ivars) /\ writeUnknownObjectContents(address, o, g) = Leave(after[k])
  BY <1>0, IvarsRun
<1> HIDE DEF ivars
<1>4. /\ r \in Search /\ r.limit = o.limit - 1 - k /\ r.level = o.level + 1 /\ r.log = o.log
      /\ r.deepest = IF o.level + 1 > o.deepest THEN o.level + 1 ELSE o.deepest
  <2> HIDE DEF k
  <2> QED BY <1>0, <1>2, BaseFields
<1> HIDE DEF r
<1>5. s.limit \in Int /\ s.level \in Int /\ s.deepest \in Int /\ Len(s.log) \in Nat /\ MaxIvars \in Nat
  BY SearchFields
<1>6. s.limit > 1
  BY DEF Expands
<1>7. /\ r.limit = s.limit - 2 - k /\ r.level = s.level + 2 /\ Len(r.log) = Len(s.log) + 1
      /\ r.deepest <= s.deepest \/ r.deepest <= s.level + 2
  <2> HIDE DEF k
  <2>1. r.limit = s.limit - 2 - k
    BY <1>0, <1>1, <1>2, <1>4, <1>5
  <2>2. r.level = s.level + 2 /\ Len(r.log) = Len(s.log) + 1
    BY <1>1, <1>2, <1>4, <1>5
  <2>3. r.deepest <= s.deepest \/ r.deepest <= s.level + 2
    BY <1>1, <1>2, <1>4, <1>5
  <2> QED BY <2>1, <2>2, <2>3
<1>8. r \in UpTo(n)
  <2> HIDE DEF k
  <2> QED BY <1>0, <1>4, <1>5, <1>7 DEF UpTo
<1> DEFINE u == after[k]
           v == Leave(u)
           t == Leave(v)
<1>9. LoopInv(r, u, k)
  <2>1. \A j \in 0 .. k : LoopInv(r, after[j], j)
    BY <1>0, <1>3, <1>8, LoopEnds
  <2> HIDE DEF k
  <2> QED BY <2>1, <1>0
<1> HIDE DEF u, k
<1>10. u \in Search
  BY <1>9 DEF LoopInv
<1>11. v \in Search /\ v.limit = u.limit /\ v.level = u.level - 1 /\ v.deepest = u.deepest /\ v.log = u.log
  BY <1>10, LeaveFields
<1> HIDE DEF v
<1>12. t \in Search /\ t.limit = v.limit /\ t.level = v.level - 1 /\ t.deepest = v.deepest /\ t.log = v.log
  BY <1>11, LeaveFields
<1> HIDE DEF t
<1>13. u.limit \in Int /\ u.deepest \in Int /\ Len(u.log) \in Nat
  BY <1>10, SearchFields
<1>14. t.limit = u.limit /\ t.deepest = u.deepest /\ t.log = u.log /\ t.level = s.level
  <2>1. u.level = s.level + 2
    BY <1>7, <1>9 DEF LoopInv
  <2> QED BY <2>1, <1>5, <1>11, <1>12
<1>15. /\ Len(s.log) + 1 <= Len(t.log) /\ Len(t.log) + t.limit <= Len(s.log) + s.limit
       /\ Len(t.log) <= Len(s.log) + s.limit + MaxIvars
  <2>1. Len(r.log) + k <= Len(u.log) /\ Len(u.log) + u.limit <= Len(r.log) + r.limit
    BY <1>9 DEF LoopInv
  <2>2. u.limit <= 0 => \/ Len(u.log) <= Len(r.log) + k
                       \/ Len(u.log) <= Len(r.log) + r.limit + MaxIvars + k - 1
    BY <1>9 DEF LoopInv
  <2>3. /\ Len(s.log) + 1 <= Len(u.log) /\ Len(u.log) + u.limit <= Len(s.log) + s.limit
        /\ Len(u.log) <= Len(s.log) + s.limit + MaxIvars
    <3> DEFINE l0 == s.limit
               n0 == Len(s.log)
               lr == r.limit
               nr == Len(r.log)
               l2 == u.limit
               n2 == Len(u.log)
    <3>1. l0 \in Int /\ n0 \in Nat /\ l2 \in Int /\ n2 \in Nat /\ MaxIvars \in Nat
          /\ k \in Nat /\ k <= MaxIvars
      BY <1>0, <1>5, <1>13
    <3>2. /\ l0 > 1 /\ nr = n0 + 1 /\ lr = l0 - 2 - k /\ nr + k <= n2 /\ n2 + l2 <= nr + lr
          /\ l2 <= 0 => n2 <= nr + k \/ n2 <= nr + lr + MaxIvars + k - 1
      BY <2>1, <2>2, <1>6, <1>7
    <3> HIDE DEF l0, n0, lr, nr, l2, n2
    <3>3. n0 + 1 <= n2 /\ n2 + l2 <= n0 + l0 /\ n2 <= n0 + l0 + MaxIvars
      BY <3>1, <3>2, IvarsNumbers
    <3> QED BY <3>3 DEF l0, n0, l2, n2
  <2> QED BY <2>3, <1>14
<1>16. t.deepest <= s.deepest \/ t.deepest <= s.level + 2 \/ t.deepest <= s.level + 2 * s.limit
  <2>1. r.limit \in Int /\ r.level \in Int /\ r.deepest \in Int
    BY <1>4, SearchFields
  <2>2. u.deepest <= r.deepest \/ u.deepest <= r.level + 2 \/ u.deepest <= r.level + 2 * r.limit
    BY <1>9 DEF LoopInv
  <2>3. r.level + 2 <= s.level + 2 * s.limit
    BY <1>5, <1>6, <1>7
  <2>4. r.level + 2 * r.limit <= s.level + 2 * s.limit
    BY <1>0, <1>5, <1>6, <1>7
  <2>5. u.deepest <= s.deepest \/ u.deepest <= s.level + 2 \/ u.deepest <= s.level + 2 * s.limit
    BY <2>1, <2>2, <2>3, <2>4, <1>5, <1>7, <1>13, CallDepth
  <2> QED BY <2>5, <1>14
<1>17. Closed([address |-> address, opened |-> "ivars"])
  BY DEF Expands, Closed
<1>18. /\ \A i \in 1 .. Len(s.log) : t.log[i] = s.log[i]
       /\ \A i \in Len(s.log) + 1 .. Len(t.log) : Closed(t.log[i])
  <2>1. /\ Len(o.log) = Len(s.log) + 1 /\ o.log[Len(s.log) + 1] = [address |-> address, opened |-> "ivars"]
        /\ \A i \in 1 .. Len(s.log) : o.log[i] = s.log[i]
    BY <1>1, <1>2
  <2>2. Len(o.log) <= Len(t.log)
    BY <2>1, <1>15
  <2>3. /\ \A i \in 1 .. Len(o.log) : t.log[i] = o.log[i]
        /\ \A i \in Len(o.log) + 1 .. Len(t.log) : Closed(t.log[i])
    BY <1>4, <1>9, <1>14 DEF LoopInv
  <2> QED BY <2>1, <2>2, <2>3, <1>2, <1>12, <1>17, OpenedBefore
<1>19. Contents(address, s, g) = t
  <2>1. Contents(address, s, g) = Leave(writeUnknownObjectContents(address, o, g))
    BY ExpandedContents DEF o, b
  <2> QED BY <2>1, <1>3 DEF t, v, u
<1>20. s.limit <= 1 => Len(t.log) = Len(s.log) + 1
  BY <1>5, <1>6
<1>21. Writes(s, t)
  BY <1>12, <1>14, <1>15, <1>16, <1>18, <1>20 DEF Writes
<1> QED BY <1>19, <1>21

\* Whatever it is called for.
LEMMA OneCall ==
  ASSUME NEW n \in Nat \ {0}, NEW g, n = 1 \/ Bounded(g, n - 1), memory \in Memories,
         NEW s \in UpTo(n), NEW address \in Addresses
  PROVE  Writes(s, Contents(address, s, g))
<1>1. s \in Search /\ s.limit <= n /\ s.limit \in Int
  BY SearchFields DEF UpTo
<1>2. CASE ~Expands(address, s)
  BY <1>1, <1>2, LeafClosed, LeafContents, LeafWrites
<1>3. CASE Expands(address, s)
  <2>1. n - 1 \in Nat /\ n # 1 /\ s.limit <= (n - 1) + 1
    BY <1>1, <1>3 DEF Expands
  <2>2. Bounded(g, n - 1)
    BY <2>1
  <2> QED BY <1>1, <1>3, <2>1, <2>2, ArrayCall, IvarsCall
<1> QED BY <1>2, <1>3

\* Two functions that agree up to a lower limit: a call of the one is a call of the other.
Agree(g, h, n) == \A address \in Addresses : \A s \in UpTo(n) : g[address][s] = h[address][s]

Steps(after, base, write, ivars) ==
  /\ after[0] = base
  /\ \A j \in 1 .. Len(ivars) : after[j] = write[ivars[j]][after[j - 1]]

LEMMA RunsSteps ==
  ASSUME NEW base, NEW g, NEW ivars, Len(ivars) \in Nat, NEW after, Runs(after, base, g, ivars)
  PROVE  Steps(after, base, g, ivars)
<1>1. after = [i \in 0 .. Len(ivars) |-> IF i = 0 THEN base ELSE g[ivars[i]][after[i - 1]]]
  BY DEF Runs
<1>2. \A i \in 0 .. Len(ivars) : after[i] = IF i = 0 THEN base ELSE g[ivars[i]][after[i - 1]]
  BY <1>1, Zenon
<1>3. \A j \in 1 .. Len(ivars) : j \in 0 .. Len(ivars) /\ j # 0
  OBVIOUS
<1>4. 0 \in 0 .. Len(ivars)
  OBVIOUS
<1>5. after[0] = base
  BY <1>2, <1>4
<1>6. \A j \in 1 .. Len(ivars) : after[j] = g[ivars[j]][after[j - 1]]
  BY <1>2, <1>3
<1> QED BY <1>5, <1>6 DEF Steps

LEMMA SameRun ==
  ASSUME NEW n \in Nat, NEW g, NEW h, Agree(g, h, n), NEW base, NEW ivars, Len(ivars) \in Nat,
         \A i \in 1 .. Len(ivars) : ivars[i] \in Addresses,
         NEW after, Runs(after, base, g, ivars), NEW other, Runs(other, base, h, ivars),
         \A j \in 0 .. Len(ivars) : after[j] \in UpTo(n)
  PROVE  after[Len(ivars)] = other[Len(ivars)]
<1> DEFINE T == {j \in 0 .. Len(ivars) : after[j] # other[j]}
<1>1. /\ after[0] = base /\ \A j \in 1 .. Len(ivars) : after[j] = g[ivars[j]][after[j - 1]]
      /\ other[0] = base /\ \A j \in 1 .. Len(ivars) : other[j] = h[ivars[j]][other[j - 1]]
  <2>1. Steps(after, base, g, ivars) /\ Steps(other, base, h, ivars)
    BY RunsSteps, SMT
  <2> QED BY <2>1 DEF Steps
<1>2. T = {}
  <2> SUFFICES ASSUME T # {} PROVE FALSE
    OBVIOUS
  <2>1. PICK j \in T : \A i \in T : j <= i
    <3>1. T \in SUBSET Nat
      OBVIOUS
    <3> QED BY <3>1, LeastOf
  <2>2. j \in 1 .. Len(ivars)
    BY <1>1
  <2>3. j - 1 \in 0 .. Len(ivars) /\ j - 1 \notin T
    BY <2>1, <2>2
  <2>4. after[j - 1] = other[j - 1] /\ after[j - 1] \in UpTo(n)
    BY <2>3
  <2>5. after[j] = other[j]
    BY <1>1, <2>2, <2>4 DEF Agree
  <2> QED BY <2>1, <2>5
<1> QED BY <1>2

LEMMA SameCall ==
  ASSUME NEW n \in Nat \ {0}, NEW g, NEW h, n = 1 \/ (Bounded(g, n - 1) /\ Agree(g, h, n - 1)),
         memory \in Memories, NEW s \in UpTo(n), NEW address \in Addresses
  PROVE  Contents(address, s, g) = Contents(address, s, h)
<1>1. s \in Search /\ s.limit <= n /\ s.limit \in Int
  BY SearchFields DEF UpTo
<1>2. CASE ~Expands(address, s)
  BY <1>1, <1>2, LeafContents
<1>3. CASE Expands(address, s)
  <2>1. n - 1 \in Nat /\ n # 1 /\ s.limit <= (n - 1) + 1
    BY <1>1, <1>3 DEF Expands
  <2>2. Bounded(g, n - 1) /\ Agree(g, h, n - 1)
    BY <2>1
  <2>3. CASE memory[address].kind = "array"
    <3> DEFINE o == Opens(Begun(s), address, "first")
               head == Head(memory[address].refs)
    <3>1. Begun(s) \in Search /\ Begun(s).limit = s.limit - 1
      BY <1>1, BegunFields
    <3>2. o \in Search /\ o.limit = s.limit - 1
      <4>1. "first" \in Told
        BY DEF Told
      <4> QED BY <3>1, <4>1, OpensFields
    <3>3. head \in Addresses
      <4>1. memory[address].refs \in Seq(Addresses) /\ memory[address].refs # <<>>
        BY <1>3, <2>3, IvarsFields DEF Expands
      <4> QED BY <4>1, HeadTailProperties
    <3>4. Contents(address, s, g) = Leave(g[head][o]) /\ Contents(address, s, h) = Leave(h[head][o])
      BY <1>1, <1>3, <2>3, ExpandedContents
    <3> HIDE DEF o, head
    <3>5. o \in UpTo(n - 1)
      BY <1>1, <2>1, <3>2 DEF UpTo
    <3>6. g[head][o] = h[head][o]
      BY <2>2, <3>3, <3>5 DEF Agree
    <3> QED BY <3>4, <3>6
  <2>4. CASE memory[address].kind # "array"
    <3> DEFINE o == Opens(Begun(s), address, "ivars")
               ivars == Truncate(memory[address].refs, MaxIvars)
               base == Enter([o EXCEPT !.limit = @ - 1 - Len(ivars)])
    <3>1. Len(ivars) \in Nat /\ \A i \in 1 .. Len(ivars) : ivars[i] \in Addresses
      BY <1>3, IvarsFields DEF Expands
    <3>2. PICK after : Runs(after, base, g, ivars) /\ writeUnknownObjectContents(address, o, g) = Leave(after[Len(ivars)])
      BY <3>1, IvarsRun
    <3>3. PICK other : Runs(other, base, h, ivars) /\ writeUnknownObjectContents(address, o, h) = Leave(other[Len(ivars)])
      BY <3>1, IvarsRun
    <3>4. \A j \in 0 .. Len(ivars) : after[j] \in UpTo(n - 1)
      BY <1>1, <1>3, <2>1, <2>2, <3>2, IvarsRunFrom
    <3>5. /\ Contents(address, s, g) = Leave(writeUnknownObjectContents(address, o, g))
          /\ Contents(address, s, h) = Leave(writeUnknownObjectContents(address, o, h))
      BY <1>1, <1>3, <2>4, ExpandedContents
    <3> HIDE DEF o, ivars, base
    <3>6. after[Len(ivars)] = other[Len(ivars)]
      <4> DEFINE m == n - 1
      <4>1. m \in Nat /\ Agree(g, h, m) /\ \A j \in 0 .. Len(ivars) : after[j] \in UpTo(m)
        BY <2>1, <2>2, <3>4
      <4>2. Runs(after, base, g, ivars) /\ Runs(other, base, h, ivars)
        BY <3>2, <3>3
      <4> HIDE DEF m
      <4> QED BY <4>1, <4>2, <3>1, SameRun, SMT
    <3> QED BY <3>2, <3>3, <3>5, <3>6
  <2> QED BY <2>3, <2>4
<1> QED BY <1>2, <1>3

-----------------------------------------------------------------------------
(* The recursion ends: there is a search up to any limit, and the one of    *)
(* the writer is one up to its own.                                          *)

Approximates(g, n) == g = [address \in Addresses |-> [s \in UpTo(n) |-> Contents(address, s, g)]]

LEMMA ApproximatesFields ==
  ASSUME NEW n, NEW g, Approximates(g, n)
  PROVE  \A address \in Addresses : \A s \in UpTo(n) : g[address][s] = Contents(address, s, g)
BY DEF Approximates

LEMMA FirstApproximation ==
  ASSUME memory \in Memories
  PROVE  \E g : Approximates(g, 1) /\ Bounded(g, 1)
<1> DEFINE g == [address \in Addresses |-> [s \in UpTo(1) |-> Contents(address, s, 0)]]
<1>1. \A address \in Addresses : \A s \in UpTo(1) : g[address][s] = Contents(address, s, 0)
  OBVIOUS
<1>2. g = [address \in Addresses |-> [s \in UpTo(1) |-> Contents(address, s, 0)]]
  OBVIOUS
<1> HIDE DEF g
<1>3. ASSUME NEW address \in Addresses, NEW s \in UpTo(1)
      PROVE  Contents(address, s, 0) = Contents(address, s, g) /\ Writes(s, Contents(address, s, 0))
  <2>1. 1 \in Nat \ {0}
    OBVIOUS
  <2>2. Contents(address, s, 0) = Contents(address, s, g)
    BY <2>1, SameCall, SMT
  <2>3. Writes(s, Contents(address, s, 0))
    BY <2>1, OneCall, Zenon
  <2> QED BY <2>2, <2>3
<1>4. g = [address \in Addresses |-> [s \in UpTo(1) |-> Contents(address, s, g)]]
  BY <1>2, <1>3
<1>5. Bounded(g, 1)
  BY <1>1, <1>3 DEF Bounded
<1> QED BY <1>4, <1>5 DEF Approximates

LEMMA NextApproximation ==
  ASSUME memory \in Memories, NEW n \in Nat \ {0}, NEW g, Approximates(g, n), Bounded(g, n)
  PROVE  \E h : Approximates(h, n + 1) /\ Bounded(h, n + 1)
<1> DEFINE m == n + 1
           h == [address \in Addresses |-> [s \in UpTo(m) |-> Contents(address, s, g)]]
<1>0. m \in Nat \ {0} /\ m - 1 = n
  OBVIOUS
<1>1. UpTo(n) \subseteq UpTo(m)
  BY SearchFields DEF UpTo
<1> HIDE DEF m
<1>2. \A address \in Addresses : \A s \in UpTo(m) : h[address][s] = Contents(address, s, g)
  OBVIOUS
<1>3. h = [address \in Addresses |-> [s \in UpTo(m) |-> Contents(address, s, g)]]
  OBVIOUS
<1> HIDE DEF h
<1>4. Agree(g, h, n)
  BY <1>1, <1>2, ApproximatesFields DEF Agree
<1>5. Bounded(g, m - 1) /\ Agree(g, h, m - 1)
  BY <1>0, <1>4
<1>6. ASSUME NEW address \in Addresses, NEW s \in UpTo(m)
      PROVE  Contents(address, s, g) = Contents(address, s, h) /\ Writes(s, Contents(address, s, g))
  <2>1. Contents(address, s, g) = Contents(address, s, h)
    BY <1>0, <1>5, SameCall, SMT
  <2>2. Writes(s, Contents(address, s, g))
    BY <1>0, <1>5, OneCall, Zenon
  <2> QED BY <2>1, <2>2
<1>7. h = [address \in Addresses |-> [s \in UpTo(m) |-> Contents(address, s, h)]]
  BY <1>3, <1>6
<1>8. Bounded(h, m)
  BY <1>2, <1>6 DEF Bounded
<1> QED BY <1>7, <1>8 DEF Approximates, m

LEMMA ApproximationsExist ==
  ASSUME memory \in Memories, NEW n \in Nat \ {0}
  PROVE  \E g : Approximates(g, n) /\ Bounded(g, n)
<1> DEFINE P(k) == \E g : Approximates(g, k) /\ Bounded(g, k)
           T == {k \in Nat \ {0} : ~P(k)}
<1>1. P(1)
  BY FirstApproximation
<1>2. \A k \in Nat \ {0} : P(k) => P(k + 1)
  BY NextApproximation
<1> HIDE DEF P
<1>3. T = {}
  <2> SUFFICES ASSUME T # {} PROVE FALSE
    OBVIOUS
  <2>1. PICK k \in T : \A j \in T : k <= j
    <3>1. T \in SUBSET Nat
      OBVIOUS
    <3> QED BY <3>1, LeastOf
  <2>2. k # 1
    BY <1>1, <2>1
  <2>3. k - 1 \in Nat \ {0} /\ k - 1 \notin T /\ (k - 1) + 1 = k
    BY <2>1, <2>2
  <2>4. P(k - 1)
    BY <2>3
  <2>5. P((k - 1) + 1)
    BY <1>2, <2>3, <2>4
  <2> QED BY <2>1, <2>3, <2>5
<1>4. P(n)
  BY <1>3
<1> QED BY <1>4 DEF P

\* The search is what its body says, for any object graph and in any state it may be called in:
\* a graph with cycles does not leave it without a value.
THEOREM SearchEnds ==
  ASSUME memory \in Memories
  PROVE  writeMemoryContents =
           [address \in Addresses |-> [s \in Search |-> Contents(address, s, writeMemoryContents)]]
<1> DEFINE w == writeMemoryContents
<1>1. SearchDepth \in Nat \ {0}
  BY ReportAssumption
<1>2. UpTo(SearchDepth) = Search
  BY SearchFields DEF UpTo
<1>3. \E g : g = [address \in Addresses |-> [s \in Search |-> Contents(address, s, g)]]
  BY <1>1, <1>2, ApproximationsExist DEF Approximates
<1>4. writeMemoryContents = CHOOSE g : g = [address \in Addresses |-> [s \in Search |-> Contents(address, s, g)]]
  BY DEF writeMemoryContents, Contents
<1>5. w = [address \in Addresses |-> [s \in Search |-> Contents(address, s, w)]]
  <2> HIDE DEF w
  <2>1. w = CHOOSE g : g = [address \in Addresses |-> [s \in Search |-> Contents(address, s, g)]]
    BY <1>4 DEF w
  <2> QED BY <1>3, <2>1, Zenon
<1> QED BY <1>5

\* What the writer's search does, for any state it may be called in.
LEMMA SearchIsBounded ==
  ASSUME memory \in Memories
  PROVE  Bounded(writeMemoryContents, SearchDepth)
<1> DEFINE w == writeMemoryContents
<1>1. SearchDepth \in Nat \ {0}
  BY ReportAssumption
<1>2. UpTo(SearchDepth) = Search
  BY SearchFields DEF UpTo
<1>5. w = [address \in Addresses |-> [s \in Search |-> Contents(address, s, w)]]
  BY SearchEnds
<1> HIDE DEF w
<1>6. Approximates(w, SearchDepth)
  BY <1>2, <1>5 DEF Approximates
<1>7. \A n \in Nat \ {0} : n <= SearchDepth => Bounded(w, n)
  <2> DEFINE P(n) == n <= SearchDepth => Bounded(w, n)
             T == {n \in Nat \ {0} : ~P(n)}
  <2> SUFFICES ASSUME T # {} PROVE FALSE
    OBVIOUS
  <2>1. PICK n \in T : \A j \in T : n <= j
    <3>1. T \in SUBSET Nat
      OBVIOUS
    <3> QED BY <3>1, LeastOf
  <2>2. n \in Nat \ {0} /\ n <= SearchDepth /\ ~Bounded(w, n)
    OBVIOUS
  <2>3. n = 1 \/ Bounded(w, n - 1)
    <3>1. CASE n # 1
      <4>1. n - 1 \in Nat \ {0} /\ n - 1 \notin T /\ n - 1 <= SearchDepth
        BY <2>1, <2>2, <3>1, <1>1
      <4> QED BY <4>1
    <3> QED BY <3>1
  <2> HIDE DEF T
  <2>4. ASSUME NEW address \in Addresses, NEW s \in UpTo(n)
        PROVE  Writes(s, w[address][s])
    <3>1. s \in UpTo(SearchDepth)
      BY <1>2 DEF UpTo
    <3>2. w[address][s] = Contents(address, s, w)
      BY <1>6, <3>1, ApproximatesFields
    <3>3. Writes(s, Contents(address, s, w))
      BY <2>2, <2>3, OneCall, Zenon
    <3> QED BY <3>2, <3>3
  <2>5. Bounded(w, n)
    BY <2>4 DEF Bounded
  <2> QED BY <2>2, <2>5
<1>8. Bounded(w, SearchDepth)
  BY <1>1, <1>7
<1> QED BY <1>8 DEF w

-----------------------------------------------------------------------------
(* What is told of the memory.                                              *)

\* One of the objects a report opens: how much of it, how deep, and what of it.
StaysClosed(search) ==
  /\ search \in Search
  /\ Len(search.log) <= SearchDepth + MaxIvars
  /\ search.deepest - search.level <= 2 * SearchDepth
  /\ \A k \in DOMAIN search.log : Closed(search.log[k])

\* Nothing is opened before there is a report: what it holds keeps to the list it was
\* written under.
ClosedInv ==
  /\ \A search \in opened : StaysClosed(search)
  /\ context = NoContext => opened = {}

LEMMA FreshSearch ==
  ASSUME memory \in Memories, NEW level \in Int, NEW address \in Addresses
  PROVE  StaysClosed(writeMemoryContents[address]
                       [[limit |-> SearchDepth, level |-> level, deepest |-> level, log |-> <<>>]])
<1> DEFINE s == [limit |-> SearchDepth, level |-> level, deepest |-> level, log |-> <<>>]
           t == writeMemoryContents[address][s]
<1>1. SearchDepth \in Nat \ {0} /\ MaxIvars \in Nat
  BY ReportAssumption
<1>2. s \in Search
  <2>1. SearchDepth \in {n \in Int : n <= SearchDepth}
    BY <1>1
  <2>2. <<>> \in Seq([address : Addresses, opened : Told])
    OBVIOUS
  <2> QED BY <2>1, <2>2 DEF Search
<1>3. s.limit = SearchDepth /\ s.level = level /\ s.deepest = level /\ s.log = <<>> /\ Len(s.log) = 0
  OBVIOUS
<1> HIDE DEF s
<1>4. s \in UpTo(SearchDepth)
  BY <1>1, <1>2, <1>3 DEF UpTo
<1>5. Bounded(writeMemoryContents, SearchDepth)
  BY SearchIsBounded
<1>6. Writes(s, t)
  BY <1>4, <1>5 DEF Bounded
<1> HIDE DEF t
<1>7. t \in Search /\ t.level = level
  BY <1>3, <1>6 DEF Writes
<1>8. t.log \in Seq([address : Addresses, opened : Told]) /\ Len(t.log) \in Nat /\ t.deepest \in Int
  BY <1>7, SearchFields
<1>9. Len(t.log) <= SearchDepth + MaxIvars
  <2>1. Len(t.log) <= Len(s.log) + s.limit + MaxIvars
    BY <1>1, <1>3, <1>6 DEF Writes
  <2> QED BY <2>1, <1>1, <1>3, <1>8
<1>10. t.deepest - t.level <= 2 * SearchDepth
  <2>1. t.deepest <= level \/ t.deepest <= level + 2 \/ t.deepest <= level + 2 * SearchDepth
    BY <1>3, <1>6 DEF Writes
  <2>2. t.deepest - level <= 2 * SearchDepth
    BY <2>1, <1>1, <1>8
  <2> QED BY <2>2, <1>7
<1>11. ASSUME NEW k \in DOMAIN t.log PROVE Closed(t.log[k])
  <2>1. k \in 1 .. Len(t.log)
    BY <1>8, LenProperties
  <2>2. k \in Len(s.log) + 1 .. Len(t.log)
    BY <2>1, <1>3, <1>8
  <2> QED BY <2>2, <1>6 DEF Writes
<1>12. StaysClosed(t)
  BY <1>7, <1>9, <1>10, <1>11 DEF StaysClosed
<1> QED BY <1>12 DEF t, s

LEMMA SearchesClosed ==
  ASSUME memory \in Memories, NEW level \in Int, NEW addresses \in SUBSET Addresses
  PROVE  \A search \in SearchFrom(addresses, level) : StaysClosed(search)
<1> SUFFICES ASSUME NEW search \in SearchFrom(addresses, level) PROVE StaysClosed(search)
  OBVIOUS
<1> DEFINE Fresh == [limit |-> SearchDepth, level |-> level, deepest |-> level, log |-> <<>>]
<1>1. PICK address \in addresses : search = writeMemoryContents[address][Fresh]
  BY DEF SearchFrom
<1> QED BY <1>1, FreshSearch

\* The addresses in the registers and on the stack, and those a reason names, are addresses.
LEMMA AddressesSearched ==
  ASSUME IInv, NEW level \in Int
  PROVE  \A search \in writeNotableAddresses(level) \cup writeAddressReferencedByString(context.reason, level)
                          \cup writeAddressReferencedByString(context.zombie, level) : StaysClosed(search)
<1>1. memory \in Memories /\ context \in Contexts
  BY DEF IInv, ReportInv, ReportTypeOK
<1>2. Range(Roots) \in SUBSET Addresses /\ References \in SUBSET Addresses
  BY <1>1, MemoryAssumption DEF Addresses, Range
<1>3. context.reason \in SUBSET Addresses /\ context.zombie \in SUBSET Addresses
  BY <1>1, <1>2 DEF Contexts
<1> QED BY <1>1, <1>2, <1>3, SearchesClosed DEF writeNotableAddresses, writeAddressReferencedByString

\* What is in the report is closed as long as the objects and the list are the same.
LEMMA SameClosed ==
  ASSUME ClosedInv, NEW searches, opened' = opened \cup searches, \A search \in searches : StaysClosed(search),
         memory' = memory, rules' = rules, context' = context, searches = {} \/ context # NoContext
  PROVE  ClosedInv'
<1>1. \A entry : Closed(entry)' <=> Closed(entry)
  BY DEF Closed, isRestrictedClass
<1>2. Search' = Search
  BY DEF Search, Addresses
<1>3. \A search : StaysClosed(search)' <=> StaysClosed(search)
  BY <1>1, <1>2 DEF StaysClosed
<1> QED BY <1>3 DEF ClosedInv

LEMMA NoneOpened ==
  ASSUME opened' = {}
  PROVE  ClosedInv'
BY DEF ClosedInv

-----------------------------------------------------------------------------
(* The theorems.                                                            *)

\* The report does not touch the lists of the cache: it stops and resumes the process and
\* asks the cache's thread to pause.
LEMMA ReportKeepsCache ==
  ASSUME IInv,
         \/ \E json \in UserInfos : kscrashreport_setUserInfoJSON(json)
         \/ ReplaceUserInfo \/ ReplaceClassCount \/ kscrashreport_setIntrospectMemory
         \/ \E list \in ClassLists, behind \in SUBSET ClassNames : kscrashreport_setDoNotIntrospectClasses(list, behind)
         \/ \E thread \in Range(live), reason, zombie \in Named : Crash(thread, reason, zombie)
         \/ \E thread \in Range(live), zombie \in Named : UserReport(thread, zombie)
         \/ kscrashreport_writeStandardReport \/ kscrashreport_writeRecrashReport
         \/ writeReportInfo \/ writeBinaryImages \/ writeProcessState \/ writeSystemInfo \/ writeError
         \/ writeThread \/ writeAllThreads \/ writeCrashedThread
         \/ writeUserSection \/ writeDebugInfo \/ Close \/ Resume
  PROVE  CacheInv'
<1>1. CacheInv /\ live \in ThreadLists /\ semaphore \in Nat /\ suspended \in BOOLEAN
  BY DEF IInv, CacheInv, CacheTypeOK
<1>2. live' = live /\ UNCHANGED <<cache, update, freed>>
  BY DEF cacheVars, kscrashreport_setUserInfoJSON, ReplaceUserInfo, ReplaceClassCount,
         kscrashreport_setIntrospectMemory, kscrashreport_setDoNotIntrospectClasses, Crash, UserReport,
         kscrashreport_writeStandardReport, kscrashreport_writeRecrashReport, writeReportInfo,
         writeBinaryImages, writeProcessState, writeSystemInfo, writeError, writeThread, writeAllThreads,
         writeCrashedThread, writeUserSection, UserSection, writeDebugInfo, Section, SectionThatOpens, Close, Resume
<1>3. suspended' = suspended \/ suspended' = TRUE \/ suspended' = FALSE
  BY DEF cacheVars, kscrashreport_setUserInfoJSON, ReplaceUserInfo, ReplaceClassCount,
         kscrashreport_setIntrospectMemory, kscrashreport_setDoNotIntrospectClasses, Crash, UserReport,
         kscrashreport_writeStandardReport, kscrashreport_writeRecrashReport, writeReportInfo,
         writeBinaryImages, writeProcessState, writeSystemInfo, writeError, writeThread, writeAllThreads,
         writeCrashedThread, writeUserSection, UserSection, writeDebugInfo, Section, SectionThatOpens, Close, Resume
<1>4. semaphore' \in Nat
  <2>1. CASE Close
    BY <2>1, <1>1 DEF Close
  <2>2. CASE kscrashreport_writeStandardReport \/ kscrashreport_writeRecrashReport
    BY <2>2, <1>1 DEF kscrashreport_writeStandardReport, kscrashreport_writeRecrashReport
  <2>3. CASE ~Close /\ ~kscrashreport_writeStandardReport /\ ~kscrashreport_writeRecrashReport
    <3>1. semaphore' = semaphore
      BY <2>3 DEF cacheVars, kscrashreport_setUserInfoJSON, ReplaceUserInfo, ReplaceClassCount,
         kscrashreport_setIntrospectMemory, kscrashreport_setDoNotIntrospectClasses, Crash, UserReport,
         writeReportInfo, writeBinaryImages, writeProcessState, writeSystemInfo, writeError, writeThread,
         writeAllThreads, writeCrashedThread, writeUserSection, UserSection, writeDebugInfo, Section, SectionThatOpens, Resume
    <3> QED BY <3>1, <1>1
  <2> QED BY <2>1, <2>2, <2>3
<1>5. suspended' \in BOOLEAN
  BY <1>1, <1>3
<1> QED BY <1>1, <1>2, <1>4, <1>5, SameCacheInv

LEMMA InitInv == Init => IInv
BY CacheInitInv, ReportInitInv DEF Init, IInv

LEMMA NextInv == IInv /\ [Next]_vars => IInv'
<1> SUFFICES ASSUME IInv, [Next]_vars PROVE IInv'
  OBVIOUS
<1>1. ReportInv /\ CacheInv /\ CacheTypeOK
  BY DEF IInv, CacheInv
<1>2. CASE CacheNext /\ UNCHANGED reportVars
  <2>1. CacheInv'
    BY <1>1, <1>2, CacheNextInv
  <2>2. ReportInv'
    BY <1>1, <1>2, SettingsInv DEF reportVars, ReportInv, ReportTypeOK, RulesInv
  <2> QED BY <2>1, <2>2 DEF IInv
<1>3. CASE UNCHANGED vars
  BY <1>1, <1>3, SettingsInv, SameCacheInv DEF vars, cacheVars, reportVars, IInv, ReportInv, ReportTypeOK, RulesInv, CacheTypeOK
<1>4. CASE ReplaceUserInfo
  BY <1>4, <1>1, UserInfoStep, ReportKeepsCache DEF IInv
<1>5. CASE \E json \in UserInfos : kscrashreport_setUserInfoJSON(json)
  BY <1>5, <1>1, UserInfoStep, ReportKeepsCache DEF IInv
<1>6. CASE \/ kscrashreport_setIntrospectMemory \/ ReplaceClassCount
           \/ \E list \in ClassLists, behind \in SUBSET ClassNames : kscrashreport_setDoNotIntrospectClasses(list, behind)
  BY <1>6, <1>1, RulesStep, ReportKeepsCache DEF IInv
<1>7. CASE \/ \E thread \in Range(live), reason, zombie \in Named : Crash(thread, reason, zombie)
           \/ \E thread \in Range(live), zombie \in Named : UserReport(thread, zombie)
  BY <1>7, <1>1, CrashStep, ReportKeepsCache DEF IInv
<1>8. CASE kscrashreport_writeStandardReport \/ kscrashreport_writeRecrashReport
  BY <1>8, <1>1, BeginStep, ReportKeepsCache DEF IInv
<1>9. CASE writeReportInfo \/ writeBinaryImages \/ writeProcessState \/ writeSystemInfo \/ writeError
  BY <1>9, <1>1, EarlySections, ReportKeepsCache DEF IInv
<1>10. CASE writeThread
  BY <1>10, <1>1, ThreadStep, ReportKeepsCache DEF IInv
<1>11. CASE writeAllThreads
  BY <1>11, <1>1, AllThreadsStep, ReportKeepsCache DEF IInv
<1>12. CASE writeCrashedThread
  BY <1>12, <1>1, CrashedThreadStep, ReportKeepsCache DEF IInv
<1>13. CASE writeUserSection
  BY <1>13, <1>1, UserStep, ReportKeepsCache DEF IInv
<1>14. CASE writeDebugInfo
  BY <1>14, <1>1, DebugStep, ReportKeepsCache DEF IInv
<1>15. CASE Close \/ Resume
  BY <1>15, <1>1, EndSteps, ReportKeepsCache DEF IInv
<1> QED BY <1>2, <1>3, <1>4, <1>5, <1>6, <1>7, <1>8, <1>9, <1>10, <1>11, <1>12, <1>13, <1>14, <1>15 DEF Next

\* Where the lists of the cache are and how far the report has come, in every state.
THEOREM ReportInvariant == Spec => []IInv
<1> QED BY InitInv, NextInv, PTL DEF Spec

\* A crash may stop the cache's thread between any two of its steps: a report still finds
\* every name within both lists, and none that has been freed.
THEOREM NamesCanBeRead == Spec => []NamesAreReadable
<1>1. IInv => NamesAreReadable
  BY CacheIsReadable DEF IInv, NamesAreReadable
<1> QED BY <1>1, ReportInvariant, PTL

\* A complete report, the smaller one of a second crash too, shows exactly one thread as
\* the one that crashed, if there was room for it.
THEOREM ShowsOneCrashedThread == Spec => []OneCrashedThread
<1>1. IInv => OneCrashedThread
  <2> SUFFICES ASSUME IInv, report.pc \in {"user", "debug", "end", "done"}, context.thread \in Range(context.list)
               PROVE  Cardinality(CrashedEntries) = 1
    BY DEF OneCrashedThread, CrashedEntries
  <2>1. CrashedEntries # {}
    <3>1. CASE report.minimal
      BY <3>1 DEF IInv, ReportInv, StageInv, ThreadsInv
    <3>2. CASE ~report.minimal
      <4>1. PICK i \in DOMAIN context.list : context.list[i] = context.thread
        BY DEF Range
      <4>2. i < report.index
        BY <3>2, LenProperties DEF IInv, ReportInv, ReportTypeOK, Contexts, Reports, StageInv
      <4> QED BY <3>2, <4>1, <4>2 DEF IInv, ReportInv, ThreadsInv
    <3> QED BY <3>1, <3>2
  <2>2. PICK k : CrashedEntries = {k}
    BY <2>1 DEF IInv, ReportInv, ThreadsInv
  <2> QED BY <2>2, FS_Singleton
<1> QED BY <1>1, ReportInvariant, PTL

LEMMA ClosedInitInv == Init => ClosedInv
BY DEF Init, ClosedInv

LEMMA ClosedNextInv == IInv /\ ClosedInv /\ [Next]_vars => ClosedInv'
<1> SUFFICES ASSUME IInv, ClosedInv, [Next]_vars PROVE ClosedInv'
  OBVIOUS
<1>1. report.level + 2 \in Int /\ report.level + 3 \in Int /\ report.level + 4 \in Int
  BY DEF IInv, ReportInv, ReportTypeOK, Reports
<1>2. ASSUME opened' = opened, UNCHANGED <<memory, rules, context>>
      PROVE  ClosedInv'
  <2> DEFINE searches == {}
  <2>1. opened' = opened \cup searches /\ searches = {} /\ \A search \in searches : StaysClosed(search)
    BY <1>2
  <2> HIDE DEF searches
  <2> QED BY <1>2, <2>1, SameClosed
<1>3. CASE (CacheNext /\ UNCHANGED reportVars) \/ UNCHANGED vars
  BY <1>2, <1>3 DEF vars, reportVars
<1>4. CASE \/ ReplaceUserInfo \/ \E json \in UserInfos : kscrashreport_setUserInfoJSON(json)
           \/ kscrashreport_writeStandardReport \/ writeCrashedThread \/ writeUserSection \/ Close
  BY <1>2, <1>4 DEF ReplaceUserInfo, kscrashreport_setUserInfoJSON, kscrashreport_writeStandardReport,
                    writeCrashedThread, writeUserSection, UserSection, Close
<1>5. CASE \/ kscrashreport_setIntrospectMemory \/ ReplaceClassCount
           \/ \E list \in ClassLists, behind \in SUBSET ClassNames : kscrashreport_setDoNotIntrospectClasses(list, behind)
           \/ \E thread \in Range(live), reason, zombie \in Named : Crash(thread, reason, zombie)
           \/ \E thread \in Range(live), zombie \in Named : UserReport(thread, zombie)
  <2>1. context = NoContext /\ opened' = opened
    BY <1>5 DEF kscrashreport_setIntrospectMemory, ReplaceClassCount, kscrashreport_setDoNotIntrospectClasses,
                Crash, UserReport, Running
  <2>2. opened' = {}
    BY <2>1 DEF ClosedInv
  <2> QED BY <2>2, NoneOpened
<1>6. CASE kscrashreport_writeRecrashReport \/ Resume
  BY <1>6, NoneOpened DEF kscrashreport_writeRecrashReport, Resume
<1>7. CASE writeReportInfo \/ writeBinaryImages \/ writeSystemInfo \/ writeAllThreads \/ writeDebugInfo
  <2>1. opened' = opened /\ UNCHANGED <<memory, rules, context>>
    BY <1>7 DEF writeReportInfo, writeBinaryImages, writeSystemInfo, writeAllThreads, writeDebugInfo, Section,
                SectionThatOpens
  <2> QED BY <2>1, <1>2
<1>8. CASE writeProcessState \/ writeError \/ writeThread
  <2>1. context # NoContext
    <3>1. report.pc # "none"
      BY <1>8 DEF writeProcessState, writeError, writeThread, SectionThatOpens
    <3> QED BY <3>1 DEF IInv, ReportInv, StageInv, NoReport
  <2>2. UNCHANGED <<memory, rules, context>>
    BY <1>8 DEF writeProcessState, writeError, writeThread, SectionThatOpens
  <2>3. CASE writeProcessState
    <3> DEFINE searches == writeAddressReferencedByString(context.zombie, report.level + 2)
    <3>1. opened' = opened \cup searches /\ \A search \in searches : StaysClosed(search)
      BY <2>3, <1>1, AddressesSearched DEF writeProcessState, SectionThatOpens
    <3> HIDE DEF searches
    <3> QED BY <3>1, <2>1, <2>2, SameClosed
  <2>4. CASE writeError
    <3> DEFINE searches == writeAddressReferencedByString(context.reason, report.level + 3)
    <3>1. opened' = opened \cup searches /\ \A search \in searches : StaysClosed(search)
      BY <2>4, <1>1, AddressesSearched DEF writeError, SectionThatOpens
    <3> HIDE DEF searches
    <3> QED BY <3>1, <2>1, <2>2, SameClosed
  <2>5. CASE writeThread
    <3> DEFINE searches == IF context.list[report.index] = context.thread
                           THEN writeNotableAddresses(report.level + 4) ELSE {}
    <3>1. opened' = opened \cup searches /\ \A search \in searches : StaysClosed(search)
      BY <2>5, <1>1, AddressesSearched DEF writeThread
    <3> HIDE DEF searches
    <3> QED BY <3>1, <2>1, <2>2, SameClosed
  <2> QED BY <1>8, <2>3, <2>4, <2>5
<1> QED BY <1>3, <1>4, <1>5, <1>6, <1>7, <1>8 DEF Next

\* What the application has asked to keep closed is restricted, while the list is being
\* replaced too.
LEMMA KeptIsRestricted ==
  ASSUME ReportInv, NEW class, KeptClosed(class)
  PROVE  isRestrictedClass(class)
<1>1. rules \in Rules /\ RulesInv
  BY DEF ReportInv, ReportTypeOK
<1>2. rules.list \in Seq(Range(rules.list)) /\ rules.count \in Nat /\ rules.pc \in {"idle", "count"}
  <2>1. rules.list \in Lists /\ rules.count \in Nat /\ rules.pc \in {"idle", "count"}
    BY <1>1 DEF Rules
  <2>2. CASE rules.list = <<>>
    BY <2>1, <2>2, EmptySeq
  <2>3. CASE rules.list \in ClassLists
    BY <2>1, <2>3, ReportAssumption
  <2> QED BY <2>1, <2>2, <2>3 DEF Lists
<1>3. PICK i \in DOMAIN rules.list : rules.list[i] = class /\ (rules.pc = "idle" \/ i <= rules.count)
  BY DEF KeptClosed
<1>4. DOMAIN rules.list = 1 .. Len(rules.list) /\ Len(rules.list) \in Nat
  BY <1>2, LenProperties
<1>5. i \in 1 .. rules.count /\ rules.list # <<>>
  <2>1. i <= rules.count
    BY <1>1, <1>3, <1>4 DEF RulesInv
  <2> QED BY <2>1, <1>2, <1>3, <1>4
<1> QED BY <1>3, <1>5 DEF isRestrictedClass

\* However the objects refer to each other, what a report tells of those at one address is
\* bounded in size and depth; and of an object of a class the application excluded nothing
\* is told but its name, unless its bytes pass for a string.
THEOREM OpensWhatItMay == Spec => []ObjectsStayClosed
<1>1. IInv /\ ClosedInv => ObjectsStayClosed
  <2> SUFFICES ASSUME IInv, ClosedInv, NEW search \in opened
               PROVE  /\ Len(search.log) <= SearchDepth + MaxIvars
                      /\ search.deepest - search.level <= 2 * SearchDepth
                      /\ \A k \in DOMAIN search.log :
                           LET entry == search.log[k]
                           IN /\ entry.opened # "null" /\ memory[entry.address].type = "object"
                              /\ KeptClosed(memory[entry.address].class)
                              => entry.opened \in {"text", "nothing"}
    BY DEF ObjectsStayClosed
  <2>1. StaysClosed(search) /\ ReportInv
    BY DEF ClosedInv, IInv
  <2> QED BY <2>1, KeptIsRestricted DEF StaysClosed, Closed
<1> QED BY <1>1, InitInv, NextInv, ClosedInitInv, ClosedNextInv, PTL DEF Spec

OpenedTypeOK == opened \in SUBSET Search

\* The variables of the cache and of the report writer have their types; what is opened at an
\* address is the state of a search.
THEOREM ReportTypeCorrect == Spec => [](CacheTypeOK /\ ReportTypeOK /\ OpenedTypeOK)
<1>1. IInv /\ ClosedInv => CacheTypeOK /\ ReportTypeOK /\ OpenedTypeOK
  BY DEF IInv, CacheInv, ReportInv, ClosedInv, StaysClosed, OpenedTypeOK
<1> QED BY <1>1, InitInv, NextInv, ClosedInitInv, ClosedNextInv, PTL DEF Spec
=============================================================================
