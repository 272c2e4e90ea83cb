------------------------- MODULE KSCrashReportStore -------------------------
(***************************************************************************)
(* The report files (KSCrashReportStore.c) and those who use them: a       *)
(* launch prunes them, the user's threads write reports and ask to send    *)
(* all of them (KSCrash.m, which counts, lists, reads and, when the sink   *)
(* is done, deletes everything), and a crash writes the last one.  Only    *)
(* counting, listing, reading and deleting everything take the mutex.      *)
(***************************************************************************)
EXTENDS Integers, Sequences, FiniteSets

CONSTANTS Senders,           \* threads that report and send
          g_maxReportCount,
          Block,             \* identifiers of one second (2^23)
          LowSize,           \* values of g_nextUniqueIDLow (2^32)
          MaxSerial,         \* bound: reports ever begun
          MaxLaunches,       \* bound: launches
          MaxNow             \* bound: the clock

ASSUME StoreAssumption ==
  /\ g_maxReportCount \in Nat \ {0} /\ Block \in Nat \ {0} /\ LowSize \in Nat \ {0}
  /\ MaxSerial \in Nat /\ MaxLaunches \in Nat /\ MaxNow \in Nat \ {0}

\* A second's identifiers never straddle the end of the low part, and no launch
\* writes as many reports as a second has identifiers.
ASSUME BlockAssumption == LowSize % Block = 0 /\ MaxSerial < Block

VARIABLES
  app,       \* "dead", "pruning", "running" or "crashing"
  now,       \* the clock, in seconds
  g_nextUniqueID,  \* its high and its low part
  dir,       \* the files: identifier, extension, and which report it is
  done,      \* the reports that are written to their end
  doomed,    \* the identifiers pruning still has to delete
  send,      \* per thread: how far its report and its sending are
  crash,     \* how far the crash's report is
  hist       \* what really happened, for the properties

vars == <<app, now, g_nextUniqueID, dir, done, doomed, send, crash, hist>>

Quiet == [pc |-> "idle", file |-> <<>>, count |-> 0, ids |-> <<>>, loaded |-> {}, torn |-> {},
          victims |-> {}, since |-> 0, changed |-> FALSE]
NoCrash == [pc |-> "none", file |-> <<>>]

File(id, ext, serial) == [id |-> id, ext |-> ext, serial |-> serial]
Exists(id, ext) == \E f \in dir : f.id = id /\ f.ext = ext

\* getReportIDFromFilename reads the identifier out of both extensions; a file whose
\* identifier is 0 is not seen.
Counted == {f \in dir : f.id > 0}
\* Mutant: the newest come first.
ById_Reversed(f, g) == f.id > g.id \/ (f.id = g.id /\ f.ext = "json" /\ g.ext = "old")
ById(f, g) == f.id < g.id \/ (f.id = g.id /\ f.ext = "json" /\ g.ext = "old")
\* qsort: the i-th is the one that i - 1 others come before.
SortedIDs(files) ==
  [i \in 1 .. Cardinality(files) |->
     (CHOOSE f \in files : Cardinality({g \in files : ById(g, f)}) = i - 1).id]

\* baseID: seconds, moved up to make room for a launch's own reports.  Nothing of it
\* is in the high part: the mask for it, ~0xffffffff, is a 32-bit 0.
baseID(second) == second * Block
initializeIDs(second) == [high |-> 0, low |-> baseID(second) % LowSize]
\* This launch's identifiers do not come after those of the last one.
NotAfterLast == hist.started # 0 /\ initializeIDs(now).low <= initializeIDs(hist.started).low
NextID == g_nextUniqueID.high + g_nextUniqueID.low
\* Mutant: the identifier is not used up.
getNextUniqueID_Same == UNCHANGED g_nextUniqueID
getNextUniqueID == g_nextUniqueID' = [g_nextUniqueID EXCEPT !.low = (@ + 1) % LowSize]

Init ==
  /\ app = "dead" /\ now = 1 /\ g_nextUniqueID = [high |-> 0, low |-> 0]
  /\ dir = {} /\ done = {} /\ doomed = <<>>
  /\ send = [s \in Senders |-> Quiet] /\ crash = NoCrash
  /\ hist = [launches |-> 0, serial |-> 0,
             pruned |-> {}, sent |-> {}, lost |-> {}, crashed |-> 0, started |-> 0,
             back |-> FALSE]

-----------------------------------------------------------------------------
\* kscrs_initialize: everything beyond the newest g_maxReportCount is deleted, one
\* after the other ...
pruneReports ==
  /\ app = "dead" /\ hist.launches < MaxLaunches
  /\ app' = "pruning"
  /\ LET n == Cardinality(Counted) - g_maxReportCount
     IN doomed' = IF n > 0 THEN SubSeq(SortedIDs(Counted), 1, n) ELSE <<>>
  /\ hist' = [hist EXCEPT !.launches = @ + 1, !.pruned = {}, !.crashed = 0,
                          !.back = @ \/ NotAfterLast]
  /\ UNCHANGED <<now, g_nextUniqueID, dir, done, send, crash>>

\* ... always by the name with the extension of a finished report ...
pruneOne ==
  /\ app = "pruning" /\ doomed # <<>>
  /\ LET gone == {f \in dir : f.id = Head(doomed) /\ f.ext = "json"}
     IN /\ dir' = dir \ gone
        /\ hist' = [hist EXCEPT !.pruned = @ \cup {f.serial : f \in gone}]
  /\ doomed' = Tail(doomed)
  /\ UNCHANGED <<app, now, g_nextUniqueID, done, send, crash>>

\* ... and the identifiers of this launch start from the time.
startIDs ==
  /\ app = "pruning" /\ doomed = <<>>
  /\ app' = "running"
  /\ g_nextUniqueID' = initializeIDs(now)
  /\ hist' = [hist EXCEPT !.started = now, !.pruned = {}]
  /\ UNCHANGED <<now, dir, done, doomed, send, crash>>

-----------------------------------------------------------------------------
Running == app = "running"
SetSend(s, r) == send' = [send EXCEPT ![s] = r]
Unlocked == \A s \in Senders : send[s].pc # "deleting"

\* The senders that are between their count and their list see a change.
Changed(sends) ==
  [s \in Senders |-> IF sends[s].pc = "counted" THEN [sends[s] EXCEPT !.changed = TRUE]
                     ELSE sends[s]]

\* A new report: the file is created only if there is none of that name.
Begin(serial) ==
  /\ serial <= MaxSerial
  /\ getNextUniqueID
  /\ dir' = IF Exists(NextID, "json") THEN dir ELSE dir \cup {File(NextID, "json", serial)}

\* reportUserException writes its report on the caller's thread, without the mutex.
reportUserException(s) ==
  /\ Running /\ send[s].pc = "idle"
  /\ Begin(hist.serial + 1)
  /\ hist' = [hist EXCEPT !.serial = @ + 1]
  /\ send' = [Changed(send) EXCEPT ![s] =
                [Quiet EXCEPT !.pc = IF Exists(NextID, "json") THEN "written" ELSE "writing",
                              !.file = IF Exists(NextID, "json") THEN <<>> ELSE <<hist.serial + 1>>]]
  /\ UNCHANGED <<app, now, done, doomed, crash>>

reportWritten(s) ==
  /\ Running /\ send[s].pc = "writing"
  /\ done' = done \cup {Head(send[s].file)}
  /\ SetSend(s, [Quiet EXCEPT !.pc = "written"])
  /\ UNCHANGED <<app, now, g_nextUniqueID, dir, doomed, crash, hist>>

\* kscrs_addUserReport opens the file whether or not it is there already.
addUserReport ==
  /\ Running /\ Unlocked /\ hist.serial < MaxSerial
  /\ getNextUniqueID
  /\ dir' = {f \in dir : ~(f.id = NextID /\ f.ext = "json")}
              \cup {File(NextID, "json", hist.serial + 1)}
  /\ done' = done \cup {hist.serial + 1}
  /\ hist' = [hist EXCEPT !.serial = @ + 1]
  /\ send' = Changed(send)
  /\ UNCHANGED <<app, now, doomed, crash>>

\* kscrs_deleteReportWithID, without the mutex.
deleteReportWithID(f) ==
  /\ Running /\ f \in dir /\ f.ext = "json"
  /\ dir' = dir \ {f}
  /\ send' = Changed(send)
  /\ UNCHANGED <<app, now, g_nextUniqueID, done, doomed, crash, hist>>

-----------------------------------------------------------------------------
\* sendAllReports: the first launch of it, or after a report.
getReportCount(s) ==
  /\ Running /\ Unlocked /\ send[s].pc \in {"idle", "written"}
  /\ SetSend(s, [send[s] EXCEPT !.pc = "counted", !.count = Cardinality(Counted),
                                !.since = hist.serial])
  /\ UNCHANGED <<app, now, g_nextUniqueID, dir, done, doomed, crash, hist>>

\* At most count files, in the order of the directory; the array is sorted over
\* its whole length, so that when there are fewer, what was in the memory before
\* may stand in front and push the newest out.
getReportIDs(s) ==
  /\ Running /\ Unlocked /\ send[s].pc = "counted"
  /\ \E files \in SUBSET Counted, junk \in 0 .. send[s].count :
       LET n == Cardinality(files)
       IN /\ n = IF Cardinality(Counted) < send[s].count THEN Cardinality(Counted)
                 ELSE send[s].count
          /\ junk <= send[s].count - n /\ junk <= n
          /\ SetSend(s, [send[s] EXCEPT !.pc = "reading", !.count = 0,
                           !.ids = SubSeq(SortedIDs(files), 1, n - junk)])
  /\ UNCHANGED <<app, now, g_nextUniqueID, dir, done, doomed, crash, hist>>

\* kscrs_readReport: what is there, finished or not.
readReport(s) ==
  /\ Running /\ Unlocked /\ send[s].pc = "reading" /\ send[s].ids # <<>>
  /\ LET read == {f \in dir : f.id = Head(send[s].ids) /\ f.ext = "json"}
     IN SetSend(s, [send[s] EXCEPT !.ids = Tail(@),
                      !.loaded = @ \cup ({f.serial : f \in read} \cap done),
                      !.torn = @ \cup ({f.serial : f \in read} \ done)])
  /\ UNCHANGED <<app, now, g_nextUniqueID, dir, done, doomed, crash, hist>>

\* Mutant: the sink gets what has been read so far.
sinkDone_Early(s) ==
  /\ Running /\ Unlocked /\ send[s].pc = "reading"
  /\ hist' = [hist EXCEPT !.sent = @ \cup send[s].loaded]
  /\ SetSend(s, [send[s] EXCEPT !.pc = "deleting", !.victims = dir, !.loaded = {}])
  /\ UNCHANGED <<app, now, g_nextUniqueID, dir, done, doomed, crash>>

\* The sink has handed all of them over; kscrs_deleteAllReports lists the
\* directory and deletes what it lists.
sinkDone(s) ==
  /\ Running /\ Unlocked /\ send[s].pc = "reading" /\ send[s].ids = <<>>
  /\ hist' = [hist EXCEPT !.sent = @ \cup send[s].loaded]
  /\ SetSend(s, [send[s] EXCEPT !.pc = "deleting", !.victims = dir, !.loaded = {}])
  /\ UNCHANGED <<app, now, g_nextUniqueID, dir, done, doomed, crash>>

deleteEntry(s) ==
  /\ Running /\ send[s].pc = "deleting"
  /\ \E f \in send[s].victims :
       LET gone == {g \in dir : g.id = f.id /\ g.ext = f.ext}
       IN /\ dir' = dir \ gone
          /\ hist' = [hist EXCEPT !.sent = @ \ {g.serial : g \in gone}, !.lost =
                        {[id |-> g.id, serial |-> g.serial, since |-> send[s].since,
                          torn |-> g.serial \in send[s].torn,
                          changed |-> send[s].changed] :
                            g \in {h \in gone : h.serial \in done \ hist.sent}}]
          /\ send' = [Changed(send) EXCEPT ![s].victims = @ \ {f}]
  /\ UNCHANGED <<app, now, g_nextUniqueID, done, doomed, crash>>

sendDone(s) ==
  /\ Running /\ send[s].pc = "deleting" /\ send[s].victims = {}
  /\ SetSend(s, Quiet)
  /\ UNCHANGED <<app, now, g_nextUniqueID, dir, done, doomed, crash, hist>>

-----------------------------------------------------------------------------
\* A crash stops every other thread; its report is written, and if the reporter
\* crashes, moved aside and written into a new one.
onCrash ==
  /\ Running
  /\ Begin(hist.serial + 1)
  /\ app' = "crashing"
  /\ crash' = [pc |-> IF Exists(NextID, "json") THEN "done" ELSE "writing",
               file |-> <<File(NextID, "json", hist.serial + 1)>>]
  /\ hist' = [hist EXCEPT !.serial = @ + 1]
  /\ UNCHANGED <<now, done, doomed, send>>

CrashStep(from, to) == /\ app = "crashing" /\ crash.pc = from
                       /\ crash' = [crash EXCEPT !.pc = to]
                       /\ UNCHANGED <<app, now, g_nextUniqueID, doomed, send, hist>>

Crashed == Head(crash.file)
OldFile == [Crashed EXCEPT !.ext = "old"]

closeReport == CrashStep("writing", "done") /\ done' = done \cup {Crashed.serial} /\ UNCHANGED dir

recrashRename ==
  /\ CrashStep("writing", "renamed")
  /\ dir' = {f \in dir : f # Crashed /\ ~(f.id = OldFile.id /\ f.ext = "old")} \cup {OldFile}
  /\ UNCHANGED done

recrashOpen == CrashStep("renamed", "embedding") /\ dir' = dir \cup {Crashed} /\ UNCHANGED done
recrashRemoveOld == CrashStep("embedding", "closing") /\ dir' = dir \ {OldFile} /\ UNCHANGED done
recrashClose == CrashStep("closing", "done") /\ done' = done \cup {Crashed.serial} /\ UNCHANGED dir

\* The process is gone, after its crash or at any time.
Die ==
  /\ app # "dead"
  /\ app' = "dead"
  /\ send' = [s \in Senders |-> Quiet] /\ crash' = NoCrash /\ doomed' = <<>>
  /\ hist' = [hist EXCEPT !.crashed = IF crash.pc = "done" THEN Crashed.serial ELSE 0]
  /\ UNCHANGED <<now, g_nextUniqueID, dir, done>>

\* The time only matters to launches.
Tick == /\ app = "dead" /\ now < MaxNow /\ now' = now + 1
        /\ UNCHANGED <<app, g_nextUniqueID, dir, done, doomed, send, crash, hist>>

Next ==
  \/ pruneReports \/ pruneOne \/ startIDs
  \/ \E s \in Senders : \/ reportUserException(s) \/ reportWritten(s)
                        \/ getReportCount(s) \/ getReportIDs(s) \/ readReport(s)
                        \/ sinkDone(s) \/ deleteEntry(s) \/ sendDone(s)
  \/ addUserReport
  \/ \E f \in dir : deleteReportWithID(f)
  \/ onCrash \/ closeReport
  \/ recrashRename \/ recrashOpen \/ recrashRemoveOld \/ recrashClose
  \/ Die \/ Tick

Spec == Init /\ [][Next]_vars

-----------------------------------------------------------------------------
Steps == {"idle", "writing", "written", "counted", "reading", "deleting"}

\* Types; two files never have one name.
TypeOK ==
  /\ app \in {"dead", "pruning", "running", "crashing"} /\ now \in 1 .. MaxNow
  /\ g_nextUniqueID.low \in 0 .. LowSize - 1
  /\ \A f \in dir : f.id \in Nat /\ f.ext \in {"json", "old"} /\ f.serial \in 1 .. hist.serial
  /\ \A f, g \in dir : f.id = g.id /\ f.ext = g.ext => f = g
  /\ done \subseteq 1 .. hist.serial
  /\ \A s \in Senders : send[s].pc \in Steps /\ send[s].loaded \subseteq done

\* Pruning deletes the oldest: whatever a launch deleted was begun before every
\* report it counted and kept, as long as the identifiers of each launch came after
\* those of the launches before it.  (A report with the identifier 0 is not counted,
\* and never deleted here.)
PrunedAreOldest ==
  app = "pruning" /\ doomed = <<>> =>
    \A serial \in hist.pruned, f \in Counted : f.ext = "json" => serial < f.serial
PruneKeepsNewest == ~hist.back => PrunedAreOldest

\* A report that is complete is deleted unsent only by a send that could not
\* know it, because it was begun after that send had counted, by one that read
\* it half written, or by one whose directory changed between count and list; but
\* one with the identifier 0, which no send lists, is always lost with the others.
LostOnlyInARace ==
  \A l \in hist.lost : l.serial > l.since \/ l.torn \/ l.changed \/ l.id = 0

\* A process that crashed, and could write its report to the end, leaves a
\* complete one, as long as the identifiers of each launch came after those of the
\* launches before it; otherwise its name may be taken.
CrashIsStored ==
  app = "dead" /\ hist.crashed # 0 /\ ~hist.back =>
    hist.crashed \in done /\ \E f \in dir : f.serial = hist.crashed

=============================================================================
