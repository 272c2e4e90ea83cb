--------------------------- MODULE KSCrashMonitor ---------------------------
(***************************************************************************)
(* How a crash is captured: the monitors for Mach exceptions, signals, C++ *)
(* and Objective-C exceptions and user reports, each running on the thread *)
(* that failed or on one of two exception threads, all going through       *)
(* kscm_notifyFatalExceptionCaptured and kscm_handleException              *)
(* (Monitors/KSCrashMonitor*.c, KSCrashC.c).  Handlers run concurrently    *)
(* until one suspends the other, and may fail themselves.                  *)
(***************************************************************************)
EXTENDS Naturals, Sequences, FiniteSets, SequencesExt

CONSTANTS AppThreads,   \* the program's own threads
          Events,       \* the kinds of events they may meet, see EventKinds
          MaxEvents,    \* bound: events in the program's own code
          MaxFaults,    \* bound: faults inside a handler
          MaxReports    \* bound: report files, never reached

EventKinds == {"fault", "abort", "throw", "nsexception", "snapshot", "report",
               "reportall", "terminate"}

ASSUME EventsAssumption ==
  /\ Events \subseteq EventKinds /\ IsFiniteSet(AppThreads)
  /\ AppThreads \cap {"primary", "secondary"} = {}
  /\ MaxEvents \in Nat /\ MaxFaults \in Nat /\ MaxReports \in Nat

MachThreads == {"primary", "secondary"}
Threads == AppThreads \cup MachThreads
Ids == 1 .. MaxReports

VARIABLES
  app,         \* the process: "alive", "exited" by a default signal action
  enabled,     \* the monitors that are on
  ports,       \* where Mach exceptions go: our port or the previous handlers
  queue,       \* the threads whose exception waits on our port
  thread,      \* per thread: what it is doing outside handlers
  suspended,   \* per thread: its suspend count
  frames,      \* per thread: the handlers it runs, innermost last
  g_handlingFatalException, g_crashedDuringExceptionHandling,
  g_isHandlingCrash,          \* of the Mach monitor
  reports,     \* the report files
  nextID,      \* getNextUniqueID
  g_lastCrashReportFilePath,
  cancelled,   \* the exception threads that pthread_cancel was called for
  events,      \* what happened, for the properties: the threads' own events ...
  faults       \* ... and how many handlers failed

flags == <<g_handlingFatalException, g_crashedDuringExceptionHandling, g_isHandlingCrash>>
files == <<reports, nextID, g_lastCrashReportFilePath>>
hist == <<events, faults>>
vars == <<app, enabled, ports, queue, thread, suspended, frames, flags, files,
          cancelled, hist>>

-----------------------------------------------------------------------------
Monitors == {"mach", "signal", "nsexception", "cpp", "user"}
DebuggerUnsafe == {"mach", "signal", "nsexception", "cpp"}
AsyncUnsafe == Monitors \ {"mach", "signal"}

\* The monitors kscm_setActiveMonitors turns on when asked for all of types.
Unmasked(types, isBeingTraced, requiresAsyncSafety) ==
  (types \ (IF isBeingTraced THEN DebuggerUnsafe ELSE {}))
    \ (IF requiresAsyncSafety THEN AsyncUnsafe ELSE {})

Frame(kind, pc, victim) ==
  [kind |-> kind, pc |-> pc, victim |-> victim, todo |-> {}, id |-> 0]

Top(t) == Last(frames[t])
SetTop(t, frame) == frames' = [frames EXCEPT ![t] = Front(@) \o <<frame>>]
GoTo(t, pc) == SetTop(t, [Top(t) EXCEPT !.pc = pc])
Push(t, frame) == frames' = [frames EXCEPT ![t] = Append(@, frame)]

\* The handlers that stop everybody else, and those that announce a fatal event.
Suspends(kind) == kind \notin {"report", "terminate"}
Fatal(kind) == kind \notin {"report", "reportall", "passon"}

Runs(t) == app = "alive" /\ thread[t] = "runs" /\ suspended[t] = 0
At(t, pc) == Runs(t) /\ frames[t] # <<>> /\ Top(t).pc = pc
FirstStep(kind) == IF Suspends(kind) THEN "suspend"
                   ELSE IF Fatal(kind) THEN "check" ELSE "context"

\* ksmc_suspendEnvironment leaves the caller and the reserved threads alone.
Others(t) == AppThreads \ {t}

Init ==
  /\ app = "alive"
  /\ enabled \in {Unmasked(Monitors, FALSE, FALSE), Unmasked(Monitors, TRUE, FALSE),
                  Monitors \ {"mach"}}
  \* a failed installation leaves the Mach monitor enabled without its port
  /\ ports \in (IF "mach" \in enabled THEN {"ours", "previous"} ELSE {"previous"})
  /\ queue = <<>>
  /\ thread = [t \in Threads |->
                 IF t \in AppThreads THEN "runs"
                 ELSE IF ports = "ours" THEN "receives" ELSE "gone"]
  /\ suspended = [t \in Threads |-> IF t = "secondary" THEN 1 ELSE 0]
  /\ frames = [t \in Threads |-> <<>>]
  /\ g_handlingFatalException = FALSE /\ g_crashedDuringExceptionHandling = FALSE
  /\ g_isHandlingCrash = FALSE
  /\ reports = [i \in Ids |-> "none"] /\ nextID = 1 /\ g_lastCrashReportFilePath = 0
  /\ events = <<>> /\ faults = 0 /\ cancelled = {}

-----------------------------------------------------------------------------
(* kscm_setActiveMonitors(KSCrashMonitorTypeNone), called by thread t.     *)
(* Turning the Mach monitor off restores the ports and ends the other      *)
(* exception threads: while one handles a crash they are terminated where  *)
(* they are, and else cancelled, which a thread notices when it writes.    *)
DisableAll(t, next) ==
  LET ends == "mach" \in enabled /\ g_isHandlingCrash
      ended == {m \in MachThreads \ {t} : ends}
      done == Front(frames[t]) \o <<[Top(t) EXCEPT !.pc = next]>>
  IN /\ enabled' = {}
     /\ ports' = "previous"
     /\ thread' = [u \in Threads |-> IF u \in ended THEN "gone" ELSE thread[u]]
     /\ frames' = [u \in Threads |-> IF u \in ended THEN <<>>
                                     ELSE IF u = t THEN done ELSE frames[u]]
     /\ cancelled' = IF "mach" \in enabled /\ ~ends
                     THEN cancelled \cup (MachThreads \ {t}) ELSE cancelled

-----------------------------------------------------------------------------
\* A thread's exception or signal reaches the BSD layer: the signal handler runs
\* on top of whatever the thread was doing, once the thread runs.  The process
\* ends, also if the thread is held, when there is no handler, or the signal is
\* the one whose handler failed.
Deliver(t) ==
  /\ app = "alive" /\ thread[t] = "signalled"
  /\ \/ /\ "signal" \in enabled
        /\ Push(t, Frame("signal", "suspend", t))
        /\ thread' = [thread EXCEPT ![t] = "runs"]
        /\ UNCHANGED app
     \/ /\ "signal" \notin enabled \/ \E i \in DOMAIN frames[t] : frames[t][i].kind = "signal"
        /\ app' = "exited"
        /\ UNCHANGED <<frames, thread>>
  /\ UNCHANGED <<enabled, ports, queue, suspended, flags, files, cancelled, hist>>

\* A bad access: the kernel sends a message to our port, or goes on to BSD.
Raise(t) ==
  IF ports = "ours"
  THEN thread' = [thread EXCEPT ![t] = "faulted"] /\ queue' = Append(queue, t)
  ELSE thread' = [thread EXCEPT ![t] = "signalled"] /\ UNCHANGED queue

Monitor(kind) == CASE kind = "throw" -> "cpp"
                   [] kind \in {"nsexception", "snapshot"} -> "nsexception"
                   [] OTHER -> "user"

\* The C++ terminate handler sees an NSException first, and passes it on.
FirstFrame(t, kind) ==
  LET first == IF kind = "nsexception" /\ "cpp" \in enabled THEN "passon" ELSE kind
  IN Frame(first, FirstStep(first), t)

\* Something happens in the program's own code.  Without its monitor a C++ or
\* Objective-C exception ends in abort(), and a user report is not recorded.
Event(t, kind) ==
  /\ Runs(t) /\ t \in AppThreads /\ frames[t] = <<>> /\ Len(events) < MaxEvents
  /\ events' = Append(events, [thread |-> t, kind |-> kind, enabled |-> enabled])
  /\ CASE kind = "fault" -> Raise(t) /\ UNCHANGED frames
       [] kind # "fault" /\ Monitor(kind) \in enabled /\ kind # "abort" ->
            /\ Push(t, FirstFrame(t, kind))
            /\ UNCHANGED <<thread, queue>>
       [] OTHER ->
            /\ thread' = [thread EXCEPT ![t] =
                            IF kind \in {"abort", "throw", "nsexception"}
                            THEN "signalled" ELSE @]
            /\ UNCHANGED <<queue, frames>>
  /\ UNCHANGED <<app, enabled, ports, suspended, flags, files, cancelled, faults>>

\* A handler fails while it fills the context or writes.
HandlerFault(t) ==
  /\ Runs(t) /\ frames[t] # <<>> /\ Top(t).pc \in {"context", "write", "rewrite"}
  /\ faults < MaxFaults /\ faults' = faults + 1
  /\ Raise(t)
  /\ UNCHANGED <<app, enabled, ports, suspended, frames, flags, files, cancelled, events>>

\* A cancelled exception thread ends at its next call that writes, and leaves
\* the threads it has suspended as they are.
Cancel(m) ==
  /\ m \in cancelled /\ Runs(m) /\ frames[m] # <<>> /\ Top(m).pc \in {"write", "rewrite"}
  /\ thread' = [thread EXCEPT ![m] = "gone"]
  /\ frames' = [frames EXCEPT ![m] = <<>>]
  /\ UNCHANGED <<app, enabled, ports, queue, suspended, flags, files, cancelled, hist>>

-----------------------------------------------------------------------------
\* An exception thread gets a message; it runs the handler once and returns.
Receive(m) ==
  /\ app = "alive" /\ thread[m] = "receives" /\ suspended[m] = 0 /\ queue # <<>>
  /\ queue' = Tail(queue)
  /\ thread' = [thread EXCEPT ![m] = "runs"]
  /\ Push(m, Frame("mach", IF "mach" \in enabled THEN "suspend" ELSE "after", Head(queue)))
  /\ UNCHANGED <<app, enabled, ports, suspended, flags, files, cancelled, hist>>

\* Mutant: the environment counts as suspended at once.
suspended_Early(t) ==
  /\ At(t, "suspend")
  /\ GoTo(t, IF Top(t).kind = "passon" THEN "resume"
             ELSE IF Fatal(Top(t).kind) THEN "check" ELSE "context")
  /\ g_isHandlingCrash' = (g_isHandlingCrash \/ Top(t).kind = "mach")
  /\ UNCHANGED <<app, enabled, ports, queue, thread, suspended, g_handlingFatalException,
                 g_crashedDuringExceptionHandling, files, cancelled, hist>>

\* ksmc_suspendEnvironment, one thread after the other.
suspendEnvironment(t) ==
  /\ At(t, "suspend")
  /\ \E u \in Others(t) \ Top(t).todo :
       /\ suspended' = [suspended EXCEPT ![u] = @ + 1]
       /\ SetTop(t, [Top(t) EXCEPT !.todo = @ \cup {u}])
  /\ UNCHANGED <<app, enabled, ports, queue, thread, flags, files, cancelled, hist>>

suspended_(t) ==
  /\ At(t, "suspend") /\ Top(t).todo = Others(t)
  /\ GoTo(t, IF Top(t).kind = "passon" THEN "resume"
             ELSE IF Fatal(Top(t).kind) THEN "check" ELSE "context")
  /\ g_isHandlingCrash' = (g_isHandlingCrash \/ Top(t).kind = "mach")
  /\ UNCHANGED <<app, enabled, ports, queue, thread, suspended, g_handlingFatalException,
                 g_crashedDuringExceptionHandling, files, cancelled, hist>>

\* Mutant: the flag is set before it is looked at.
notifyCheck_AfterSet(t) ==
  /\ At(t, "check")
  /\ g_crashedDuringExceptionHandling' = TRUE
  /\ GoTo(t, "set")
  /\ UNCHANGED <<app, enabled, ports, queue, thread, suspended, g_handlingFatalException,
                 g_isHandlingCrash, files, cancelled, hist>>

\* kscm_notifyFatalExceptionCaptured looks whether one is being handled ...
notifyCheck(t) ==
  /\ At(t, "check")
  /\ g_crashedDuringExceptionHandling' =
       (g_crashedDuringExceptionHandling \/ g_handlingFatalException)
  /\ GoTo(t, "set")
  /\ UNCHANGED <<app, enabled, ports, queue, thread, suspended, g_handlingFatalException,
                 g_isHandlingCrash, files, cancelled, hist>>

\* ... and then says so; in a second one everything is uninstalled.
notifySet(t) ==
  LET next == IF Top(t).kind = "mach" THEN "restore" ELSE "context"
  IN /\ At(t, "set")
     /\ g_handlingFatalException' = TRUE
     /\ IF g_crashedDuringExceptionHandling
        THEN DisableAll(t, next)
        ELSE GoTo(t, next) /\ UNCHANGED <<enabled, ports, thread, cancelled>>
     /\ UNCHANGED <<app, queue, suspended, g_crashedDuringExceptionHandling,
                    g_isHandlingCrash, files, hist>>

\* The first exception thread restores the ports and wakes the second, if it
\* still is the one the monitor knows.
restoreExceptionPorts(m) ==
  /\ At(m, "restore")
  /\ ports' = IF m = "primary" THEN "previous" ELSE ports
  /\ suspended' = IF m = "primary" /\ "mach" \in enabled
                  THEN [suspended EXCEPT !["secondary"] = 0] ELSE suspended
  /\ GoTo(m, "context")
  /\ UNCHANGED <<app, enabled, queue, thread, flags, files, cancelled, hist>>

\* onCrash: a crash of the reporter goes into the report that was begun last ...
recrash(t) ==
  /\ At(t, "context") /\ g_crashedDuringExceptionHandling
  /\ IF g_lastCrashReportFilePath = 0
     THEN GoTo(t, "tail") /\ UNCHANGED reports
     ELSE /\ reports' = [reports EXCEPT ![g_lastCrashReportFilePath] = "reopened"]
          /\ SetTop(t, [Top(t) EXCEPT !.pc = "rewrite", !.id = g_lastCrashReportFilePath])
  /\ UNCHANGED <<app, enabled, ports, queue, thread, suspended, flags, nextID,
                 g_lastCrashReportFilePath, cancelled, hist>>

\* Mutant: the path is not remembered.
onCrash_Unremembered(t) ==
  /\ At(t, "context") /\ ~g_crashedDuringExceptionHandling
  /\ nextID \in Ids /\ nextID' = nextID + 1
  /\ g_lastCrashReportFilePath' =
       IF g_lastCrashReportFilePath = 0 THEN nextID ELSE g_lastCrashReportFilePath
  /\ reports' = [reports EXCEPT ![nextID] = "open"]
  /\ SetTop(t, [Top(t) EXCEPT !.pc = "write", !.id = nextID])
  /\ UNCHANGED <<app, enabled, ports, queue, thread, suspended, flags, cancelled, hist>>

\* ... any other event into a report of its own.
onCrash(t) ==
  /\ At(t, "context") /\ ~g_crashedDuringExceptionHandling
  /\ nextID \in Ids
  /\ nextID' = nextID + 1
  /\ g_lastCrashReportFilePath' = nextID
  /\ reports' = [reports EXCEPT ![nextID] = "open"]
  /\ SetTop(t, [Top(t) EXCEPT !.pc = "write", !.id = nextID])
  /\ UNCHANGED <<app, enabled, ports, queue, thread, suspended, flags, cancelled, hist>>

\* The report is finished, unless a recrash has moved it away meanwhile.
closeReport(t) ==
  /\ At(t, "write") \/ At(t, "rewrite")
  /\ reports' = [reports EXCEPT ![Top(t).id] =
                   IF @ = "open" THEN "complete"
                   ELSE IF Top(t).pc = "rewrite" THEN "recrash" ELSE @]
  /\ GoTo(t, "tail")
  /\ UNCHANGED <<app, enabled, ports, queue, thread, suspended, flags, nextID,
                 g_lastCrashReportFilePath, cancelled, hist>>

\* The end of kscm_handleException: the first fatal event uninstalls everything,
\* whoever it belongs to; a snapshot takes its announcement back.
handleExceptionTail(t) ==
  /\ At(t, "tail")
  /\ IF Top(t).kind = "snapshot"
     THEN /\ g_handlingFatalException' = FALSE
          /\ GoTo(t, "resume") /\ UNCHANGED <<enabled, ports, thread, cancelled>>
     ELSE /\ UNCHANGED g_handlingFatalException
          /\ IF g_handlingFatalException /\ ~g_crashedDuringExceptionHandling
             THEN DisableAll(t, "resume")
             ELSE GoTo(t, "resume") /\ UNCHANGED <<enabled, ports, thread, cancelled>>
  /\ UNCHANGED <<app, queue, suspended, g_crashedDuringExceptionHandling, g_isHandlingCrash,
                 files, hist>>

\* ksmc_resumeEnvironment resumes every thread it finds, whoever suspended it; an
\* Objective-C exception leaves the others suspended.
resumeEnvironment(t) ==
  /\ At(t, "resume") /\ Suspends(Top(t).kind) /\ Top(t).kind # "nsexception"
  /\ \E u \in Top(t).todo :
       /\ suspended' = [suspended EXCEPT ![u] = IF @ = 0 THEN 0 ELSE @ - 1]
       /\ SetTop(t, [Top(t) EXCEPT !.todo = @ \ {u}])
  /\ g_isHandlingCrash' = (g_isHandlingCrash /\ Top(t).kind # "mach")
  /\ UNCHANGED <<app, enabled, ports, queue, thread, g_handlingFatalException,
                 g_crashedDuringExceptionHandling, files, cancelled, hist>>

\* Mutant: the message is not answered.
after_NoReply(t) ==
  /\ At(t, "after") \/ (At(t, "resume") /\ Top(t).todo = {})
  /\ frames' = [frames EXCEPT ![t] = Front(@)]
  /\ thread' = [thread EXCEPT ![t] = IF Top(t).kind = "mach" THEN "gone" ELSE "signalled"]
  /\ UNCHANGED <<app, enabled, ports, queue, suspended, flags, files, cancelled, hist>>

\* What follows the handler: the reply that says "not handled", the signal
\* again, the original handler and abort(), or the program.
after(t) ==
  /\ \/ At(t, "after")
     \/ At(t, "resume") /\ (~Suspends(Top(t).kind) \/ Top(t).kind = "nsexception"
                            \/ Top(t).todo = {})
  /\ frames' = [frames EXCEPT ![t] =
                  IF Top(t).kind = "passon" /\ "nsexception" \in enabled
                  THEN Front(@) \o <<Frame("nsexception", "suspend", t)>> ELSE Front(@)]
  /\ thread' = CASE Top(t).kind = "mach" ->
                      [thread EXCEPT ![t] = "gone",
                         ![Top(t).victim] = IF @ = "faulted" THEN "signalled" ELSE @]
                 [] Top(t).kind \in {"report", "reportall", "snapshot"} -> thread
                 [] Top(t).kind = "passon" /\ "nsexception" \in enabled -> thread
                 [] OTHER -> [thread EXCEPT ![t] = "signalled"]
  /\ UNCHANGED <<app, enabled, ports, queue, suspended, flags, files, cancelled, hist>>

-----------------------------------------------------------------------------
Step(t) ==
  \/ suspendEnvironment(t) \/ suspended_(t) \/ notifyCheck(t) \/ notifySet(t)
  \/ restoreExceptionPorts(t) \/ recrash(t) \/ onCrash(t) \/ closeReport(t)
  \/ handleExceptionTail(t) \/ resumeEnvironment(t) \/ after(t)

Next ==
  \/ \E t \in AppThreads, kind \in Events : Event(t, kind)
  \/ \E t \in Threads : HandlerFault(t)
  \/ \E t \in Threads : Deliver(t)
  \/ \E m \in MachThreads : Receive(m) \/ Cancel(m)
  \/ \E t \in Threads : Step(t)

\* A handler that fills in what it knows of a C++ or Objective-C exception allocates
\* memory and calls the languages' runtimes with the other threads suspended: when one
\* of these holds a lock it needs, it waits for ever.
MayWait(t) ==
  /\ frames[t] # <<>> /\ Top(t).pc = "context"
  /\ Top(t).kind \in {"throw", "nsexception", "snapshot"}

\* Threads that are not suspended and wait for nobody run, and the kernel delivers.
Fairness ==
  /\ \A t \in Threads : WF_vars(Step(t) /\ ~MayWait(t)) /\ WF_vars(Deliver(t))
  /\ \A m \in MachThreads : WF_vars(Receive(m))

Spec == Init /\ [][Next]_vars
FairSpec == Spec /\ Fairness

-----------------------------------------------------------------------------
Kinds == EventKinds \cup {"mach", "signal", "passon"}
Pcs == {"suspend", "check", "set", "restore", "context", "write", "rewrite", "tail",
        "resume", "after"}

Handlers == [kind : Kinds, pc : Pcs, victim : Threads, todo : SUBSET AppThreads, id : 0 .. MaxReports]
Met == [thread : AppThreads, kind : Events, enabled : SUBSET Monitors]

\* Types.
TypeOK ==
  /\ app \in {"alive", "exited"} /\ enabled \subseteq Monitors
  /\ ports \in {"ours", "previous"} /\ cancelled \subseteq MachThreads
  /\ queue \in Seq(Threads)
  /\ thread \in [Threads -> {"runs", "faulted", "signalled", "receives", "gone"}]
  /\ suspended \in [Threads -> Nat]
  /\ frames \in [Threads -> Seq(Handlers)]
  /\ {g_handlingFatalException, g_crashedDuringExceptionHandling, g_isHandlingCrash} \subseteq BOOLEAN
  /\ nextID \in 1 .. MaxReports + 1 /\ g_lastCrashReportFilePath \in 0 .. nextID - 1
  /\ reports \in [Ids -> {"none", "open", "complete", "reopened", "recrash"}]
  /\ events \in Seq(Met) /\ faults \in 0 .. MaxFaults

\* While a handler that stops the program writes its report, no other thread of
\* the program runs: not even when a second handler, which found it running,
\* finishes first and resumes every thread there is.
WritesAlone ==
  \A t \in Threads :
    frames[t] # <<>> /\ Suspends(Top(t).kind) /\ Top(t).pc \in {"write", "rewrite"} =>
      \A u \in AppThreads \ {t} : suspended[u] > 0

\* A handler that stops the program and fails while it writes is reported in its
\* own report, never in another thread's: the report the nested handler reopens is
\* the one that the innermost handler below it on the same stack that still writes
\* was writing.
RecrashIsItsOwn ==
  \A t \in Threads : \A i \in DOMAIN frames[t], j \in DOMAIN frames[t] :
    /\ i < j /\ frames[t][i].pc = "write" /\ frames[t][j].pc = "rewrite"
    /\ Suspends(frames[t][i].kind)
    /\ \A k \in i + 1 .. j - 1 : frames[t][k].pc # "write"
    => frames[t][i].id = frames[t][j].id

\* A program that met one event its monitors could see, and whose handlers did
\* not fail, has a complete report of it when it ends.
CrashLeavesReport ==
  app = "exited" /\ faults = 0 /\ Len(events) = 1 /\ events[1].enabled \cap {"mach", "signal"} # {}
    => \E i \in Ids : reports[i] = "complete"

\* An exception thread that was cancelled took a message and ended before it replied.
CutOff ==
  \E m \in cancelled, t \in Threads :
    /\ thread[m] = "gone" /\ thread[t] = "faulted" /\ t \notin Range(queue)
    /\ \A u \in MachThreads : \A i \in DOMAIN frames[u] : frames[u][i].victim # t

\* A program that crashes ends: a fatal event does not leave it hanging, with its
\* threads suspended or waiting for a reply, whatever handlers overlap, fail, or switch
\* the monitors off.  It does hang when a handler waits for a thread it has suspended,
\* and when an exception thread is cancelled while it handles a later fault.
CrashEnds ==
  \/ <>[](\E t \in Threads : MayWait(t))
  \/ (\E i \in DOMAIN events : events[i].kind \in {"fault", "abort", "throw", "nsexception"})
       ~> (app = "exited" \/ CutOff)
=============================================================================
