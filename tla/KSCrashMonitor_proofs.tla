------------------------- MODULE KSCrashMonitor_proofs -------------------------
(***************************************************************************)
(* Proofs about the crash monitors, for any number of threads, events and  *)
(* faults.                                                                 *)
(*                                                                         *)
(* Threads are suspended by counting, and a handler that finishes resumes  *)
(* every thread once, whoever suspended it.  HeldInv counts the handlers   *)
(* that hold a thread: a thread's suspend count is never less.  It gives   *)
(* WritesAlone.                                                            *)
(*                                                                         *)
(* LoneInv follows one event from the quiet program through its handlers   *)
(* to the end: only one handler runs at a time, nothing is uninstalled     *)
(* before its report is complete, and everything is before the event goes  *)
(* on.  It gives CrashLeavesReport.                                        *)
(*                                                                         *)
(* OwnInv says whose report was begun last.  Without exception threads it  *)
(* is the innermost one on a stack, until everything is uninstalled.  With *)
(* them the first alone handles a crash until a second one is noticed; it  *)
(* can only overtake the report of an event that is not fatal, whose       *)
(* thread is then held until no handler is left that its failure could     *)
(* start.  It gives RecrashIsItsOwn.                                       *)
(***************************************************************************)
EXTENDS KSCrashMonitor, FiniteSetTheorems, SequenceTheorems, TLAPS

\* The handlers that hold thread u, in the stacks fs.
Holders(fs, u) == UNION {{<<t, i>> : i \in {k \in DOMAIN fs[t] : u \in fs[t][k].todo}} : t \in Threads}

\* A thread is suspended at least as often as handlers hold it, and at least once if any.
HeldAreSuspended ==
  \A u \in AppThreads :
    /\ IsFiniteSet(Holders(frames, u)) /\ Cardinality(Holders(frames, u)) <= suspended[u]

\* From its check to its end a handler that stops the program holds everybody else.
Stopping == {"check", "set", "restore", "context", "write", "rewrite", "tail"}
StopsTheOthers ==
  \A t \in Threads : \A i \in DOMAIN frames[t] :
    Suspends(frames[t][i].kind) /\ frames[t][i].pc \in Stopping => frames[t][i].todo = Others(t)

HeldInv == TypeOK /\ HeldAreSuspended /\ StopsTheOthers

\* Until something happens, all is quiet.
Quiet ==
  /\ app = "alive" /\ queue = <<>> /\ cancelled = {} /\ frames = [t \in Threads |-> <<>>]
  /\ ~g_handlingFatalException /\ ~g_crashedDuringExceptionHandling
  /\ \A t \in Threads : thread[t] \notin {"signalled", "faulted"}
  /\ \A t \in MachThreads : thread[t] # "runs"
  /\ ports = "ours" => "mach" \in enabled
  /\ "mach" \in enabled => "signal" \in enabled
  /\ \A i \in Ids : reports[i] = "none"

Written == \E i \in Ids : reports[i] = "complete"
Signalled == \E t \in Threads : thread[t] = "signalled"

\* One event and no fault: one handler at a time, on a stack of its own, and none
\* while its event is on the way to it.
OneHandler ==
  /\ ~g_crashedDuringExceptionHandling
  /\ \A t \in Threads : frames[t] = <<>> \/ Len(frames[t]) = 1
  /\ \A t, u \in Threads : frames[t] # <<>> /\ frames[u] # <<>> => t = u
  /\ \A t, u \in Threads : thread[t] = "signalled" /\ thread[u] = "signalled" => t = u
  /\ Signalled => queue = <<>> /\ \A t \in Threads : frames[t] = <<>>
  /\ queue # <<>> => /\ Tail(queue) = <<>> /\ "mach" \in enabled
                     /\ \A t \in Threads : frames[t] = <<>>

\* Before its report is complete, nothing was uninstalled, and the handler f announces
\* its event and then writes ...
Announced == {"restore", "context", "write"}
Reporting(f, handling, files_) ==
  /\ f.pc \in {"suspend", "check", "set", "resume"} \cup Announced
  /\ f.pc = "resume" => f.kind = "passon"
  /\ f.kind = "passon" => f.pc \in {"suspend", "resume"}
  /\ f.pc \in Announced /\ Fatal(f.kind) => handling
  /\ f.pc = "write" => f.id \in Ids /\ files_[f.id] = "open"

BeforeReport ==
  /\ cancelled = {} /\ enabled = events[1].enabled
  /\ "mach" \in enabled => "signal" \in enabled
  /\ app = "exited" => "signal" \notin enabled
  /\ g_handlingFatalException => \E t \in Threads : frames[t] # <<>> /\ frames[t][1].pc \in Announced
  /\ \A t \in Threads : frames[t] # <<>> => Reporting(frames[t][1], g_handlingFatalException, reports)

\* ... and after that no other handler can start.
Reported(f, handling, monitors) ==
  /\ f.pc \in {"tail", "resume"} /\ f.kind # "passon"
  /\ Fatal(f.kind) /\ f.kind # "snapshot" => IF f.pc = "tail" THEN handling ELSE monitors = {}

AfterReport ==
  /\ queue = <<>> /\ (Signalled => enabled = {})
  /\ \A t \in Threads : frames[t] # <<>> => Reported(frames[t][1], g_handlingFatalException, enabled)

LoneInv ==
  /\ events = <<>> => Quiet
  /\ faults = 0 /\ Len(events) = 1 =>
       /\ OneHandler
       /\ IF Written THEN AfterReport ELSE BeforeReport

-----------------------------------------------------------------------------
(* Stacks of handlers *)

\* What is left of a stack without its innermost handler.
LEMMA FrontOf ==
  ASSUME NEW H, NEW q \in Seq(H), q # <<>>
  PROVE  /\ Front(q) \in Seq(H) /\ Len(Front(q)) = Len(q) - 1
         /\ \A i \in 1 .. Len(q) - 1 : Front(q)[i] = q[i]
<1> DEFINE n == Len(q) - 1
<1>1. Len(q) \in Nat \ {0}
  BY EmptySeq, LenProperties
<1>2. n \in Nat /\ 1 \in Int /\ n \in Int
  BY <1>1
<1>3. \A i \in 1 .. n : q[i] \in H
  BY <1>1, LenProperties, ElementOfSeq
<1>4. Front(q) = SubSeq(q, 1, n)
  BY DEF Front
<1> HIDE DEF n
<1>5. /\ SubSeq(q, 1, n) \in Seq(H)
      /\ Len(SubSeq(q, 1, n)) = IF 1 <= n THEN n - 1 + 1 ELSE 0
      /\ \A i \in 1 .. n - 1 + 1 : SubSeq(q, 1, n)[i] = q[1 + i - 1]
  BY <1>2, <1>3, SubSeqProperties
<1>6. Len(SubSeq(q, 1, n)) = n
  BY <1>2, <1>5
<1>7. \A i \in 1 .. n : SubSeq(q, 1, n)[i] = q[i]
  <2> TAKE i \in 1 .. n
  <2>1. i \in 1 .. n - 1 + 1 /\ 1 + i - 1 = i
    BY <1>2
  <2> QED BY <2>1, <1>5
<1> QED BY <1>4, <1>5, <1>6, <1>7 DEF n

\* The innermost handler changes, and nothing else of the stack.
LEMMA TopChanges ==
  ASSUME NEW H, NEW q \in Seq(H), q # <<>>, NEW f \in H
  PROVE  LET r == Front(q) \o <<f>>
         IN /\ r \in Seq(H) /\ Len(r) = Len(q) /\ Len(q) \in Nat \ {0} /\ DOMAIN r = 1 .. Len(q)
            /\ r[Len(q)] = f /\ \A i \in 1 .. Len(q) - 1 : r[i] = q[i]
<1>1. Len(q) \in Nat \ {0}
  BY EmptySeq, LenProperties
<1>2. Front(q) \in Seq(H) /\ Len(Front(q)) = Len(q) - 1 /\ \A i \in 1 .. Len(q) - 1 : Front(q)[i] = q[i]
  BY FrontOf
<1>3. <<f>> \in Seq(H) /\ Len(<<f>>) = 1 /\ <<f>>[1] = f
  OBVIOUS
<1>4. Front(q) \o <<f>> \in Seq(H) /\ Len(Front(q) \o <<f>>) = Len(q)
  BY <1>1, <1>2, <1>3, ConcatProperties
<1>5. \A i \in 1 .. Len(q) - 1 : (Front(q) \o <<f>>)[i] = q[i]
  BY <1>1, <1>2, <1>3, ConcatProperties
<1>6. (Front(q) \o <<f>>)[Len(q)] = f
  BY <1>1, <1>2, <1>3, ConcatProperties
<1>7. DOMAIN (Front(q) \o <<f>>) = 1 .. Len(q)
  BY <1>4, LenProperties
<1> QED BY <1>1, <1>4, <1>5, <1>6, <1>7

\* The innermost handler ends.
LEMMA TopEnds ==
  ASSUME NEW H, NEW q \in Seq(H), q # <<>>
  PROVE  /\ Front(q) \in Seq(H) /\ Len(Front(q)) = Len(q) - 1 /\ Len(q) \in Nat \ {0}
         /\ DOMAIN Front(q) = 1 .. Len(q) - 1 /\ \A i \in 1 .. Len(q) - 1 : Front(q)[i] = q[i]
<1>1. Len(q) \in Nat \ {0}
  BY EmptySeq, LenProperties
<1>2. Front(q) \in Seq(H) /\ Len(Front(q)) = Len(q) - 1 /\ \A i \in 1 .. Len(q) - 1 : Front(q)[i] = q[i]
  BY FrontOf
<1> QED BY <1>1, <1>2, LenProperties

\* A handler starts on top of the others.
LEMMA TopStarts ==
  ASSUME NEW H, NEW q \in Seq(H), NEW f \in H
  PROVE  LET r == Append(q, f)
         IN /\ r \in Seq(H) /\ Len(r) = Len(q) + 1 /\ Len(q) \in Nat /\ DOMAIN r = 1 .. Len(q) + 1
            /\ r[Len(q) + 1] = f /\ \A i \in 1 .. Len(q) : r[i] = q[i]
BY AppendProperties, LenProperties

\* The innermost handler is one.
LEMMA TopIsOne ==
  ASSUME NEW H, NEW q \in Seq(H), q # <<>>
  PROVE  /\ Last(q) \in H /\ Last(q) = q[Len(q)] /\ Len(q) \in DOMAIN q /\ Len(q) \in Nat \ {0}
         /\ DOMAIN q = 1 .. Len(q)
<1>1. Len(q) \in Nat \ {0} /\ DOMAIN q = 1 .. Len(q)
  BY EmptySeq, LenProperties
<1>2. Len(q) \in DOMAIN q
  BY <1>1
<1>3. q[Len(q)] \in H
  BY <1>2, ElementOfSeq, <1>1
<1> QED BY <1>1, <1>2, <1>3 DEF Last

\* Only one thread's stack changes.
LEMMA OneStack ==
  ASSUME NEW H, NEW fs \in [Threads -> Seq(H)], NEW t \in Threads, NEW r \in Seq(H)
  PROVE  /\ [fs EXCEPT ![t] = r] \in [Threads -> Seq(H)]
         /\ [fs EXCEPT ![t] = r][t] = r
         /\ \A u \in Threads : u # t => [fs EXCEPT ![t] = r][u] = fs[u]
OBVIOUS

\* The other stacks, and those below the top, are as before, and f is at the top.
Above(fs, gs, t, n, f) ==
  /\ gs \in [Threads -> Seq(Handlers)]
  /\ \A u \in Threads : u # t => gs[u] = fs[u]
  /\ Len(gs[t]) = n /\ DOMAIN gs[t] = 1 .. n /\ n \in Nat \ {0} /\ gs[t] # <<>>
  /\ gs[t][n] = f /\ \A i \in 1 .. n - 1 : gs[t][i] = fs[t][i]

LEMMA SetTopMoves ==
  ASSUME frames \in [Threads -> Seq(Handlers)], NEW t \in Threads, frames[t] # <<>>,
         NEW f \in Handlers, SetTop(t, f)
  PROVE  /\ Above(frames, frames', t, Len(frames[t]), f)
         /\ Len(frames[t]) \in Nat \ {0} /\ DOMAIN frames[t] = 1 .. Len(frames[t])
<1> DEFINE q == frames[t]
           r == Front(q) \o <<f>>
<1>1. q \in Seq(Handlers)
  OBVIOUS
<1>2. frames' = [frames EXCEPT ![t] = r]
  BY DEF SetTop
<1>3. /\ r \in Seq(Handlers) /\ Len(r) = Len(q) /\ Len(q) \in Nat \ {0} /\ DOMAIN r = 1 .. Len(q)
      /\ r[Len(q)] = f /\ \A i \in 1 .. Len(q) - 1 : r[i] = q[i]
  BY <1>1, TopChanges
<1>4. r # <<>>
  BY <1>3, EmptySeq
<1>5. DOMAIN q = 1 .. Len(q)
  BY <1>1, LenProperties
<1> HIDE DEF r
<1> QED BY <1>2, <1>3, <1>4, <1>5, OneStack DEF Above

LEMMA PushMoves ==
  ASSUME frames \in [Threads -> Seq(Handlers)], NEW t \in Threads,
         NEW f \in Handlers, Push(t, f)
  PROVE  /\ Above(frames, frames', t, Len(frames[t]) + 1, f)
         /\ Len(frames[t]) \in Nat /\ DOMAIN frames[t] = 1 .. Len(frames[t])
<1> DEFINE q == frames[t]
           r == Append(q, f)
<1>1. q \in Seq(Handlers)
  OBVIOUS
<1>2. frames' = [frames EXCEPT ![t] = r]
  BY DEF Push
<1>3. /\ r \in Seq(Handlers) /\ Len(r) = Len(q) + 1 /\ Len(q) \in Nat /\ DOMAIN r = 1 .. Len(q) + 1
      /\ r[Len(q) + 1] = f /\ \A i \in 1 .. Len(q) : r[i] = q[i]
  BY <1>1, TopStarts
<1>4. r # <<>>
  BY <1>1, AppendProperties
<1>5. DOMAIN q = 1 .. Len(q)
  BY <1>1, LenProperties
<1> HIDE DEF r
<1> QED BY <1>2, <1>3, <1>4, <1>5, OneStack DEF Above

\* The innermost handler.
LEMMA TopFrame ==
  ASSUME frames \in [Threads -> Seq(Handlers)], NEW t \in Threads, frames[t] # <<>>
  PROVE  /\ Top(t) \in Handlers /\ Top(t) = frames[t][Len(frames[t])]
         /\ Len(frames[t]) \in DOMAIN frames[t] /\ Len(frames[t]) \in Nat \ {0}
         /\ DOMAIN frames[t] = 1 .. Len(frames[t])
BY TopIsOne DEF Top

LEMMA FrameIsAHandler ==
  ASSUME NEW kind \in Kinds, NEW pc \in Pcs, NEW victim \in Threads
  PROVE  Frame(kind, pc, victim) \in Handlers
<1>1. 0 \in 0 .. MaxReports
  BY EventsAssumption
<1> QED BY <1>1 DEF Frame, Handlers

\* What a handler's record may become.
LEMMA HandlerChanges ==
  ASSUME NEW f \in Handlers
  PROVE  /\ \A pc \in Pcs : /\ [f EXCEPT !.pc = pc] \in Handlers
                            /\ \A id \in 0 .. MaxReports : [f EXCEPT !.pc = pc, !.id = id] \in Handlers
         /\ \A todo \in SUBSET AppThreads : [f EXCEPT !.todo = todo] \in Handlers
         /\ f.kind \in Kinds /\ f.pc \in Pcs /\ f.victim \in Threads /\ f.todo \subseteq AppThreads
         /\ f.id \in 0 .. MaxReports
BY DEF Handlers

-----------------------------------------------------------------------------
(* Types *)

LEMMA InitTyped == Init => TypeOK
<1> SUFFICES ASSUME Init PROVE TypeOK
  OBVIOUS
<1> USE DEF Init
<1>1. app \in {"alive", "exited"} /\ ports \in {"ours", "previous"} /\ cancelled \subseteq MachThreads
  BY DEF MachThreads
<1>2. enabled \subseteq Monitors
  BY DEF Unmasked, Monitors
<1>3. queue \in Seq(Threads) /\ events \in Seq(Met)
  BY EmptySeq
<1>4. thread \in [Threads -> {"runs", "faulted", "signalled", "receives", "gone"}]
  OBVIOUS
<1>5. suspended \in [Threads -> Nat]
  OBVIOUS
<1>6. frames \in [Threads -> Seq(Handlers)]
  <2>1. <<>> \in Seq(Handlers)
    BY EmptySeq
  <2> QED BY <2>1
<1>7. {g_handlingFatalException, g_crashedDuringExceptionHandling, g_isHandlingCrash} \subseteq BOOLEAN
  OBVIOUS
<1>8. nextID \in 1 .. MaxReports + 1 /\ g_lastCrashReportFilePath \in 0 .. nextID - 1
  BY EventsAssumption
<1>9. reports \in [Ids -> {"none", "open", "complete", "reopened", "recrash"}]
  OBVIOUS
<1>10. faults \in 0 .. MaxFaults
  BY EventsAssumption
<1> QED BY <1>1, <1>2, <1>3, <1>4, <1>5, <1>6, <1>7, <1>8, <1>9, <1>10 DEF TypeOK

\* What a handler does next is a step of a handler.
LEMMA FirstSteps ==
  /\ \A kind \in Kinds : FirstStep(kind) \in Pcs
  /\ \A t \in Threads, kind \in EventKinds : FirstFrame(t, kind) \in Handlers
  /\ "mach" \in Kinds /\ "signal" \in Kinds /\ "passon" \in Kinds /\ EventKinds \subseteq Kinds
<1>1. \A kind \in Kinds : FirstStep(kind) \in Pcs
  BY DEF FirstStep, Pcs
<1>2. "mach" \in Kinds /\ "signal" \in Kinds /\ "passon" \in Kinds /\ EventKinds \subseteq Kinds
  BY DEF Kinds
<1>3. ASSUME NEW t \in Threads, NEW kind \in EventKinds
      PROVE  FirstFrame(t, kind) \in Handlers
  <2> DEFINE first == IF kind = "nsexception" /\ "cpp" \in enabled THEN "passon" ELSE kind
  <2>1. first \in Kinds
    BY <1>2
  <2>2. FirstFrame(t, kind) = Frame(first, FirstStep(first), t)
    BY DEF FirstFrame
  <2> HIDE DEF first
  <2> QED BY <1>1, <2>1, <2>2, FrameIsAHandler
<1> QED BY <1>1, <1>2, <1>3

\* An exception goes to our port, or the thread is signalled.
LEMMA RaiseTyped ==
  ASSUME TypeOK, NEW t \in Threads, Raise(t)
  PROVE  /\ thread' \in [Threads -> {"runs", "faulted", "signalled", "receives", "gone"}]
         /\ queue' \in Seq(Threads)
<1>1. CASE ports = "ours"
  <2>1. thread' = [thread EXCEPT ![t] = "faulted"] /\ queue' = Append(queue, t)
    BY <1>1 DEF Raise
  <2> QED BY <2>1, AppendProperties DEF TypeOK
<1>2. CASE ports # "ours"
  BY <1>2 DEF Raise, TypeOK
<1> QED BY <1>1, <1>2

\* Uninstalling ends exception threads, and moves its caller on.
LEMMA DisableMoves ==
  ASSUME TypeOK, NEW t \in Threads, frames[t] # <<>>, NEW next \in Pcs, DisableAll(t, next)
  PROVE  /\ enabled' = {} /\ ports' = "previous" /\ cancelled' \subseteq MachThreads
         /\ cancelled \subseteq cancelled'
         /\ thread' \in [Threads -> {"runs", "faulted", "signalled", "receives", "gone"}]
         /\ \A u \in Threads : thread'[u] \in {thread[u], "gone"}
         /\ frames' \in [Threads -> Seq(Handlers)]
         /\ Len(frames'[t]) = Len(frames[t]) /\ DOMAIN frames'[t] = 1 .. Len(frames[t])
         /\ frames'[t] # <<>>
         /\ frames'[t][Len(frames[t])] = [Top(t) EXCEPT !.pc = next]
         /\ \A i \in 1 .. Len(frames[t]) - 1 : frames'[t][i] = frames[t][i]
         /\ thread'[t] = thread[t]
         /\ \A u \in Threads : u # t => frames'[u] \in {frames[u], <<>>}
<1> DEFINE ends == "mach" \in enabled /\ g_isHandlingCrash
           ended == {m \in MachThreads \ {t} : ends}
           f == [Top(t) EXCEPT !.pc = next]
           done == Front(frames[t]) \o <<f>>
<1>1. /\ enabled' = {} /\ ports' = "previous"
      /\ thread' = [u \in Threads |-> IF u \in ended THEN "gone" ELSE thread[u]]
      /\ frames' = [u \in Threads |-> IF u \in ended THEN <<>>
                                      ELSE IF u = t THEN done ELSE frames[u]]
      /\ cancelled' = IF "mach" \in enabled /\ ~ends
                      THEN cancelled \cup (MachThreads \ {t}) ELSE cancelled
  BY DEF DisableAll
<1>2. f \in Handlers
  BY TopFrame, HandlerChanges DEF TypeOK
<1>3. frames[t] \in Seq(Handlers)
  BY DEF TypeOK
<1> HIDE DEF f
<1>4. /\ done \in Seq(Handlers) /\ Len(done) = Len(frames[t]) /\ Len(frames[t]) \in Nat \ {0}
      /\ DOMAIN done = 1 .. Len(frames[t])
      /\ done[Len(frames[t])] = f /\ \A i \in 1 .. Len(frames[t]) - 1 : done[i] = frames[t][i]
  <2> DEFINE q == frames[t]
  <2>1. q # <<>> /\ q \in Seq(Handlers)
    BY <1>3
  <2> HIDE DEF q
  <2>2. LET r == Front(q) \o <<f>>
        IN /\ r \in Seq(Handlers) /\ Len(r) = Len(q) /\ Len(q) \in Nat \ {0} /\ DOMAIN r = 1 .. Len(q)
           /\ r[Len(q)] = f /\ \A i \in 1 .. Len(q) - 1 : r[i] = q[i]
    BY <1>2, <2>1, TopChanges
  <2> QED BY <2>2 DEF q
<1>5. done # <<>>
  BY <1>4, EmptySeq
<1>6. t \notin ended
  OBVIOUS
<1> HIDE DEF done, ended, ends
<1>7. cancelled' \subseteq MachThreads /\ cancelled \subseteq cancelled'
  BY <1>1 DEF TypeOK
<1>8. thread' \in [Threads -> {"runs", "faulted", "signalled", "receives", "gone"}]
  BY <1>1 DEF TypeOK
<1>9. frames'[t] = done /\ thread'[t] = thread[t]
  BY <1>1, <1>6
<1>10. \A u \in Threads : u # t => frames'[u] \in {frames[u], <<>>}
  BY <1>1
<1>11. <<>> \in Seq(Handlers)
  BY EmptySeq
<1>12. frames' \in [Threads -> Seq(Handlers)]
  BY <1>1, <1>4, <1>11 DEF TypeOK
<1>13. \A u \in Threads : thread'[u] \in {thread[u], "gone"}
  BY <1>1
<1> QED BY <1>1, <1>4, <1>5, <1>7, <1>8, <1>9, <1>10, <1>12, <1>13 DEF f

\* A handler goes on to pc.
LEMMA GoToMoves ==
  ASSUME TypeOK, NEW t \in Threads, frames[t] # <<>>, NEW pc \in Pcs, GoTo(t, pc)
  PROVE  /\ Above(frames, frames', t, Len(frames[t]), [Top(t) EXCEPT !.pc = pc])
         /\ Len(frames[t]) \in Nat \ {0} /\ DOMAIN frames[t] = 1 .. Len(frames[t])
<1> DEFINE f == [Top(t) EXCEPT !.pc = pc]
<1>1. f \in Handlers
  BY TopFrame, HandlerChanges DEF TypeOK
<1>2. SetTop(t, f)
  BY DEF GoTo
<1> HIDE DEF f
<1> QED BY <1>1, <1>2, SetTopMoves DEF TypeOK, f

\* A handler goes on to pc, in a report.
LEMMA GoToReport ==
  ASSUME TypeOK, NEW t \in Threads, frames[t] # <<>>, NEW pc \in Pcs, NEW id \in 0 .. MaxReports,
         SetTop(t, [Top(t) EXCEPT !.pc = pc, !.id = id])
  PROVE  /\ Above(frames, frames', t, Len(frames[t]), [Top(t) EXCEPT !.pc = pc, !.id = id])
         /\ Len(frames[t]) \in Nat \ {0} /\ DOMAIN frames[t] = 1 .. Len(frames[t])
<1> DEFINE f == [Top(t) EXCEPT !.pc = pc, !.id = id]
<1>1. f \in Handlers
  BY TopFrame, HandlerChanges DEF TypeOK
<1> HIDE DEF f
<1> QED BY <1>1, SetTopMoves DEF TypeOK, f

\* A handler holds other threads.
LEMMA HoldsMoves ==
  ASSUME TypeOK, NEW t \in Threads, frames[t] # <<>>, NEW todo \in SUBSET AppThreads,
         SetTop(t, [Top(t) EXCEPT !.todo = todo])
  PROVE  /\ Above(frames, frames', t, Len(frames[t]), [Top(t) EXCEPT !.todo = todo])
         /\ Len(frames[t]) \in Nat \ {0} /\ DOMAIN frames[t] = 1 .. Len(frames[t])
<1> DEFINE f == [Top(t) EXCEPT !.todo = todo]
<1>1. f \in Handlers
  BY TopFrame, HandlerChanges DEF TypeOK
<1> HIDE DEF f
<1> QED BY <1>1, SetTopMoves DEF TypeOK, f

\* What happens in the program's own code, and what the kernel does.
LEMMA TypeOutside ==
  ASSUME TypeOK
  PROVE  /\ \A t \in AppThreads, kind \in Events : Event(t, kind) => TypeOK'
         /\ \A t \in Threads : HandlerFault(t) => TypeOK'
         /\ \A t \in Threads : Deliver(t) => TypeOK'
         /\ \A m \in MachThreads : Receive(m) => TypeOK'
         /\ \A m \in MachThreads : Cancel(m) => TypeOK'
<1>1. ASSUME NEW t \in AppThreads, NEW kind \in Events, Event(t, kind)
      PROVE  TypeOK'
  <2>0. t \in Threads /\ kind \in EventKinds
    BY EventsAssumption DEF Threads
  <2>1. events' \in Seq(Met)
    <3>1. [thread |-> t, kind |-> kind, enabled |-> enabled] \in Met
      BY DEF Met, TypeOK
    <3> QED BY <1>1, <3>1, AppendProperties DEF Event, TypeOK
  <2>2. /\ thread' \in [Threads -> {"runs", "faulted", "signalled", "receives", "gone"}]
        /\ queue' \in Seq(Threads) /\ frames' \in [Threads -> Seq(Handlers)]
    <3>1. CASE kind = "fault"
      BY <1>1, <2>0, <3>1, RaiseTyped DEF Event, TypeOK
    <3>2. CASE kind # "fault" /\ Monitor(kind) \in enabled /\ kind # "abort"
      <4>1. Push(t, FirstFrame(t, kind)) /\ UNCHANGED <<thread, queue>>
        BY <1>1, <3>2 DEF Event
      <4>2. frames' \in [Threads -> Seq(Handlers)]
        BY <2>0, <4>1, FirstSteps, PushMoves DEF TypeOK, Above
      <4> QED BY <4>1, <4>2 DEF TypeOK
    <3>3. CASE ~(kind = "fault") /\ ~(kind # "fault" /\ Monitor(kind) \in enabled /\ kind # "abort")
      <4>1. /\ UNCHANGED <<queue, frames>>
            /\ thread' = [thread EXCEPT ![t] = IF kind \in {"abort", "throw", "nsexception"}
                                               THEN "signalled" ELSE @]
        BY <1>1, <3>3 DEF Event
      <4> QED BY <2>0, <4>1 DEF TypeOK
    <3> QED BY <3>1, <3>2, <3>3
  <2> QED BY <1>1, <2>1, <2>2 DEF Event, TypeOK, flags, files, Ids
<1>2. ASSUME NEW t \in Threads, HandlerFault(t)
      PROVE  TypeOK'
  <2>1. /\ thread' \in [Threads -> {"runs", "faulted", "signalled", "receives", "gone"}]
        /\ queue' \in Seq(Threads)
    BY <1>2, RaiseTyped DEF HandlerFault
  <2>2. faults' \in 0 .. MaxFaults
    BY <1>2, EventsAssumption DEF HandlerFault, TypeOK
  <2> QED BY <1>2, <2>1, <2>2 DEF HandlerFault, TypeOK, flags, files, Ids
<1>3. ASSUME NEW t \in Threads, Deliver(t)
      PROVE  TypeOK'
  <2>1. frames' \in [Threads -> Seq(Handlers)]
    <3>1. Frame("signal", "suspend", t) \in Handlers
      BY FrameIsAHandler, FirstSteps DEF Pcs
    <3>2. CASE Push(t, Frame("signal", "suspend", t))
      BY <3>1, <3>2, PushMoves DEF TypeOK, Above
    <3> QED BY <1>3, <3>2 DEF Deliver, TypeOK
  <2> QED BY <1>3, <2>1 DEF Deliver, TypeOK, flags, files, hist, Ids
<1>4. ASSUME NEW m \in MachThreads, Receive(m)
      PROVE  TypeOK'
  <2>0. m \in Threads
    BY DEF Threads
  <2>1. Head(queue) \in Threads /\ queue' \in Seq(Threads)
    BY <1>4, HeadTailProperties DEF Receive, TypeOK
  <2>2. frames' \in [Threads -> Seq(Handlers)]
    <3> DEFINE pc == IF "mach" \in enabled THEN "suspend" ELSE "after"
    <3>1. Frame("mach", pc, Head(queue)) \in Handlers
      BY <2>1, FrameIsAHandler, FirstSteps DEF Pcs
    <3>2. Push(m, Frame("mach", pc, Head(queue)))
      BY <1>4 DEF Receive
    <3> HIDE DEF pc
    <3> QED BY <2>0, <3>1, <3>2, PushMoves DEF TypeOK, Above
  <2> QED BY <1>4, <2>0, <2>1, <2>2 DEF Receive, TypeOK, flags, files, hist, Ids
<1>5. ASSUME NEW m \in MachThreads, Cancel(m)
      PROVE  TypeOK'
  <2>1. frames' \in [Threads -> Seq(Handlers)]
    <3>1. <<>> \in Seq(Handlers)
      BY EmptySeq
    <3> QED BY <1>5, <3>1 DEF Cancel, TypeOK
  <2> QED BY <1>5, <2>1 DEF Cancel, TypeOK, flags, files, hist, Ids, Threads
<1> QED BY <1>1, <1>2, <1>3, <1>4, <1>5

\* What a handler does.
LEMMA TypeStep ==
  ASSUME TypeOK, NEW t \in Threads, Step(t)
  PROVE  TypeOK'
<1> USE DEF flags, files, hist, Ids
<1>0. ASSUME NEW pc \in Pcs, frames[t] # <<>>, GoTo(t, pc)
      PROVE  frames' \in [Threads -> Seq(Handlers)]
  BY <1>0, GoToMoves DEF Above
<1>a. /\ "suspend" \in Pcs /\ "check" \in Pcs /\ "set" \in Pcs /\ "restore" \in Pcs /\ "context" \in Pcs
      /\ "write" \in Pcs /\ "rewrite" \in Pcs /\ "tail" \in Pcs /\ "resume" \in Pcs
  BY DEF Pcs
<1>b. \A pc \in Pcs : At(t, pc) => frames[t] # <<>> /\ Top(t) \in Handlers
  BY TopFrame DEF At, TypeOK
<1>1. ASSUME suspendEnvironment(t) PROVE TypeOK'
  <2>0. frames[t] # <<>> /\ Top(t) \in Handlers
    BY <1>1, <1>a, <1>b DEF suspendEnvironment
  <2>1. PICK u \in Others(t) \ Top(t).todo :
          /\ suspended' = [suspended EXCEPT ![u] = @ + 1]
          /\ SetTop(t, [Top(t) EXCEPT !.todo = @ \cup {u}])
    BY <1>1 DEF suspendEnvironment
  <2>2. u \in AppThreads
    BY DEF Others
  <2> DEFINE todo == Top(t).todo \cup {u}
  <2>3. todo \in SUBSET AppThreads /\ SetTop(t, [Top(t) EXCEPT !.todo = todo])
    BY <2>0, <2>1, <2>2, HandlerChanges
  <2> HIDE DEF todo
  <2>4. frames' \in [Threads -> Seq(Handlers)]
    BY <2>0, <2>3, HoldsMoves DEF Above
  <2>5. suspended' \in [Threads -> Nat]
    BY <2>1, <2>2 DEF TypeOK, Threads
  <2> QED BY <1>1, <2>4, <2>5 DEF suspendEnvironment, TypeOK
<1>2. ASSUME suspended_(t) PROVE TypeOK'
  <2>1. frames' \in [Threads -> Seq(Handlers)]
    BY <1>2, <1>0, <1>a, <1>b DEF suspended_
  <2>2. g_isHandlingCrash' \in BOOLEAN
    BY <1>2 DEF suspended_, TypeOK
  <2> QED BY <1>2, <2>1, <2>2 DEF suspended_, TypeOK
<1>3. ASSUME notifyCheck(t) PROVE TypeOK'
  <2>1. frames' \in [Threads -> Seq(Handlers)]
    BY <1>3, <1>0, <1>a, <1>b DEF notifyCheck
  <2>2. g_crashedDuringExceptionHandling' \in BOOLEAN
    BY <1>3 DEF notifyCheck, TypeOK
  <2> QED BY <1>3, <2>1, <2>2 DEF notifyCheck, TypeOK
<1>4. ASSUME notifySet(t) PROVE TypeOK'
  <2> DEFINE next == IF Top(t).kind = "mach" THEN "restore" ELSE "context"
  <2>0. frames[t] # <<>> /\ next \in Pcs
    BY <1>4, <1>a, <1>b DEF notifySet
  <2>1. IF g_crashedDuringExceptionHandling
        THEN DisableAll(t, next)
        ELSE GoTo(t, next) /\ UNCHANGED <<enabled, ports, thread, cancelled>>
    BY <1>4 DEF notifySet
  <2> HIDE DEF next
  <2>2. /\ frames' \in [Threads -> Seq(Handlers)] /\ enabled' \subseteq Monitors
        /\ ports' \in {"ours", "previous"} /\ cancelled' \subseteq MachThreads
        /\ thread' \in [Threads -> {"runs", "faulted", "signalled", "receives", "gone"}]
    BY <2>0, <2>1, <1>0, DisableMoves DEF TypeOK
  <2> QED BY <1>4, <2>2 DEF notifySet, TypeOK
<1>5. ASSUME restoreExceptionPorts(t) PROVE TypeOK'
  <2>1. frames' \in [Threads -> Seq(Handlers)]
    BY <1>5, <1>0, <1>a, <1>b DEF restoreExceptionPorts
  <2>2. suspended' \in [Threads -> Nat] /\ ports' \in {"ours", "previous"}
    BY <1>5 DEF restoreExceptionPorts, TypeOK
  <2> QED BY <1>5, <2>1, <2>2 DEF restoreExceptionPorts, TypeOK
<1>6. ASSUME recrash(t) PROVE TypeOK'
  <2>0. frames[t] # <<>>
    BY <1>6, <1>a, <1>b DEF recrash
  <2>1. CASE g_lastCrashReportFilePath = 0
    <3>1. frames' \in [Threads -> Seq(Handlers)]
      BY <1>6, <2>0, <2>1, <1>0, <1>a DEF recrash
    <3> QED BY <1>6, <2>1, <3>1 DEF recrash, TypeOK
  <2>2. CASE g_lastCrashReportFilePath # 0
    <3>1. g_lastCrashReportFilePath \in 1 .. MaxReports /\ g_lastCrashReportFilePath \in 0 .. MaxReports
      BY <2>2, EventsAssumption DEF TypeOK
    <3>2. SetTop(t, [Top(t) EXCEPT !.pc = "rewrite", !.id = g_lastCrashReportFilePath])
      BY <1>6, <2>2 DEF recrash
    <3>3. frames' \in [Threads -> Seq(Handlers)]
      BY <2>0, <3>1, <3>2, <1>a, GoToReport DEF Above
    <3>4. reports' \in [Ids -> {"none", "open", "complete", "reopened", "recrash"}]
      BY <1>6, <2>2 DEF recrash, TypeOK
    <3> QED BY <1>6, <3>3, <3>4 DEF recrash, TypeOK
  <2> QED BY <2>1, <2>2
<1>7. ASSUME onCrash(t) PROVE TypeOK'
  <2>0. frames[t] # <<>>
    BY <1>7, <1>a, <1>b DEF onCrash
  <2>1. nextID \in 1 .. MaxReports /\ nextID \in 0 .. MaxReports /\ MaxReports \in Nat
    BY <1>7, EventsAssumption DEF onCrash
  <2>2. SetTop(t, [Top(t) EXCEPT !.pc = "write", !.id = nextID])
    BY <1>7 DEF onCrash
  <2>3. frames' \in [Threads -> Seq(Handlers)]
    BY <2>0, <2>1, <2>2, <1>a, GoToReport DEF Above
  <2>4. reports' \in [Ids -> {"none", "open", "complete", "reopened", "recrash"}]
    BY <1>7 DEF onCrash, TypeOK
  <2>5. nextID' \in 1 .. MaxReports + 1 /\ g_lastCrashReportFilePath' \in 0 .. nextID' - 1
    BY <1>7, <2>1 DEF onCrash
  <2> QED BY <1>7, <2>3, <2>4, <2>5 DEF onCrash, TypeOK
<1>8. ASSUME closeReport(t) PROVE TypeOK'
  <2>1. frames' \in [Threads -> Seq(Handlers)]
    BY <1>8, <1>0, <1>a, <1>b DEF closeReport
  <2>2. reports' \in [Ids -> {"none", "open", "complete", "reopened", "recrash"}]
    BY <1>8 DEF closeReport, TypeOK
  <2> QED BY <1>8, <2>1, <2>2 DEF closeReport, TypeOK
<1>9. ASSUME handleExceptionTail(t) PROVE TypeOK'
  <2>0. frames[t] # <<>>
    BY <1>9, <1>a, <1>b DEF handleExceptionTail
  <2>1. \/ GoTo(t, "resume") /\ UNCHANGED <<enabled, ports, thread, cancelled>>
        \/ DisableAll(t, "resume")
    BY <1>9 DEF handleExceptionTail
  <2>2. g_handlingFatalException' \in BOOLEAN
    BY <1>9 DEF handleExceptionTail, TypeOK
  <2>3. /\ frames' \in [Threads -> Seq(Handlers)] /\ enabled' \subseteq Monitors
        /\ ports' \in {"ours", "previous"} /\ cancelled' \subseteq MachThreads
        /\ thread' \in [Threads -> {"runs", "faulted", "signalled", "receives", "gone"}]
    BY <2>0, <2>1, <1>0, <1>a, DisableMoves DEF TypeOK
  <2> QED BY <1>9, <2>2, <2>3 DEF handleExceptionTail, TypeOK
<1>10. ASSUME resumeEnvironment(t) PROVE TypeOK'
  <2>0. frames[t] # <<>> /\ Top(t) \in Handlers
    BY <1>10, <1>a, <1>b DEF resumeEnvironment
  <2>1. PICK u \in Top(t).todo :
          /\ suspended' = [suspended EXCEPT ![u] = IF @ = 0 THEN 0 ELSE @ - 1]
          /\ SetTop(t, [Top(t) EXCEPT !.todo = @ \ {u}])
    BY <1>10 DEF resumeEnvironment
  <2>2. u \in AppThreads
    BY <2>0, HandlerChanges
  <2> DEFINE todo == Top(t).todo \ {u}
  <2>3. todo \in SUBSET AppThreads /\ SetTop(t, [Top(t) EXCEPT !.todo = todo])
    BY <2>0, <2>1, <2>2, HandlerChanges
  <2> HIDE DEF todo
  <2>4. frames' \in [Threads -> Seq(Handlers)]
    BY <2>0, <2>3, HoldsMoves DEF Above
  <2>5. suspended' \in [Threads -> Nat]
    <3>1. suspended[u] \in Nat /\ (suspended[u] # 0 => suspended[u] - 1 \in Nat)
      BY <2>2 DEF TypeOK, Threads
    <3> QED BY <2>1, <3>1 DEF TypeOK
  <2>6. g_isHandlingCrash' \in BOOLEAN
    BY <1>10 DEF resumeEnvironment, TypeOK
  <2> QED BY <1>10, <2>4, <2>5, <2>6 DEF resumeEnvironment, TypeOK
<1>11. ASSUME after(t) PROVE TypeOK'
  <2>0. frames[t] # <<>> /\ Top(t) \in Handlers
    BY <1>11, <1>b DEF after, Pcs
  <2>1. frames' \in [Threads -> Seq(Handlers)]
    <3> DEFINE q == frames[t]
    <3>1. q \in Seq(Handlers) /\ q # <<>>
      BY <2>0 DEF TypeOK
    <3>2. Frame("nsexception", "suspend", t) \in Handlers
      BY FrameIsAHandler, FirstSteps, <1>a DEF EventKinds
    <3> DEFINE f == Frame("nsexception", "suspend", t)
               r == IF Top(t).kind = "passon" /\ "nsexception" \in enabled
                    THEN Front(q) \o <<f>> ELSE Front(q)
    <3> HIDE DEF q, f
    <3>3. Front(q) \o <<f>> \in Seq(Handlers)
      BY <3>1, <3>2, TopChanges DEF f
    <3>4. Front(q) \in Seq(Handlers)
      BY <3>1, TopEnds
    <3>5. r \in Seq(Handlers)
      BY <3>3, <3>4
    <3>6. frames' = [frames EXCEPT ![t] = r]
      BY <1>11 DEF after, q, f
    <3> HIDE DEF r
    <3> QED BY <3>5, <3>6 DEF TypeOK
  <2>2. thread' \in [Threads -> {"runs", "faulted", "signalled", "receives", "gone"}]
    <3>1. Top(t).victim \in Threads
      BY <2>0, HandlerChanges
    <3>2. CASE Top(t).kind = "mach"
      <4>1. thread' = [thread EXCEPT ![t] = "gone",
                         ![Top(t).victim] = IF @ = "faulted" THEN "signalled" ELSE @]
        BY <1>11, <3>2 DEF after
      <4> QED BY <3>1, <4>1 DEF TypeOK
    <3>3. CASE Top(t).kind # "mach"
      <4>1. thread' \in {thread, [thread EXCEPT ![t] = "signalled"]}
        BY <1>11, <3>3 DEF after
      <4> QED BY <4>1 DEF TypeOK
    <3> QED BY <3>2, <3>3
  <2> QED BY <1>11, <2>1, <2>2 DEF after, TypeOK
<1> QED BY <1>1, <1>2, <1>3, <1>4, <1>5, <1>6, <1>7, <1>8, <1>9, <1>10, <1>11 DEF Step

\* The variables are of their types, whatever the program's threads and events.
THEOREM TypeCorrect == Spec => []TypeOK
<1>1. Init => TypeOK
  BY InitTyped
<1>2. TypeOK /\ [Next]_vars => TypeOK'
  <2> SUFFICES ASSUME TypeOK, [Next]_vars PROVE TypeOK'
    OBVIOUS
  <2>1. CASE UNCHANGED vars
    BY <2>1 DEF vars, flags, files, hist, TypeOK, Ids
  <2>2. CASE Next
    BY <2>2, TypeOutside, TypeStep DEF Next
  <2> QED BY <2>1, <2>2
<1> QED BY <1>1, <1>2, PTL DEF Spec

-----------------------------------------------------------------------------
(* Who holds whom *)

LEMMA HolderIs ==
  ASSUME NEW fs, NEW u, NEW t, NEW i
  PROVE  <<t, i>> \in Holders(fs, u) <=> t \in Threads /\ i \in DOMAIN fs[t] /\ u \in fs[t][i].todo
BY DEF Holders

\* Handlers that hold a thread held it before, so there are no more of them.
LEMMA FewerHolders ==
  ASSUME NEW fs, NEW gs, NEW u,
         \A t \in Threads : \A i \in DOMAIN gs[t] :
           u \in gs[t][i].todo => i \in DOMAIN fs[t] /\ u \in fs[t][i].todo
  PROVE  Holders(gs, u) \subseteq Holders(fs, u)
<1> SUFFICES ASSUME NEW h \in Holders(gs, u) PROVE h \in Holders(fs, u)
  OBVIOUS
<1>1. PICK t \in Threads : \E i \in DOMAIN gs[t] : u \in gs[t][i].todo /\ h = <<t, i>>
  BY DEF Holders
<1>2. PICK i \in DOMAIN gs[t] : u \in gs[t][i].todo /\ h = <<t, i>>
  BY <1>1
<1> QED BY <1>2, HolderIs

LEMMA StillHeld ==
  ASSUME TypeOK, HeldAreSuspended, suspended' \in [Threads -> Nat],
         \A u \in AppThreads : suspended'[u] >= suspended[u] /\ Holders(frames', u) \subseteq Holders(frames, u)
  PROVE  HeldAreSuspended'
<1> SUFFICES ASSUME NEW u \in AppThreads
             PROVE  /\ IsFiniteSet(Holders(frames', u))
                    /\ Cardinality(Holders(frames', u)) <= suspended'[u]
  BY DEF HeldAreSuspended
<1>1. /\ IsFiniteSet(Holders(frames, u)) /\ Cardinality(Holders(frames, u)) <= suspended[u]
      /\ Holders(frames', u) \subseteq Holders(frames, u)
  BY DEF HeldAreSuspended
<1>2. /\ IsFiniteSet(Holders(frames', u))
      /\ Cardinality(Holders(frames', u)) <= Cardinality(Holders(frames, u))
  BY <1>1, FS_Subset
<1>3. Cardinality(Holders(frames', u)) \in Nat /\ Cardinality(Holders(frames, u)) \in Nat
  BY <1>1, <1>2, FS_CardinalityType
<1>4. suspended[u] \in Nat /\ suspended'[u] \in Nat /\ suspended'[u] >= suspended[u]
  BY DEF TypeOK, Threads
<1> HIDE DEF HeldAreSuspended
<1> QED BY <1>1, <1>2, <1>3, <1>4

\* A handler that moves on holds the same threads; one that starts holds none.
LEMMA AboveKeeps ==
  ASSUME TypeOK, NEW t \in Threads, NEW gs, NEW f, NEW n,
         Above(frames, gs, t, n, f),
         \/ n = Len(frames[t]) /\ frames[t] # <<>> /\ f.todo \subseteq Top(t).todo
         \/ n = Len(frames[t]) + 1 /\ f.todo = {}
  PROVE  \A u : Holders(gs, u) \subseteq Holders(frames, u)
<1> TAKE u
<1> SUFFICES ASSUME NEW v \in Threads, NEW i \in DOMAIN gs[v], u \in gs[v][i].todo
             PROVE  i \in DOMAIN frames[v] /\ u \in frames[v][i].todo
  BY FewerHolders
<1>1. CASE v # t
  BY <1>1 DEF Above
<1>2. CASE v = t /\ n = Len(frames[t]) /\ frames[t] # <<>> /\ f.todo \subseteq Top(t).todo
  <2>1. Top(t) = frames[t][n] /\ DOMAIN frames[t] = 1 .. n /\ n \in Nat \ {0}
    BY <1>2, TopFrame DEF TypeOK
  <2>2. i \in 1 .. n /\ (i = n \/ i \in 1 .. n - 1)
    BY <1>2, <2>1 DEF Above
  <2> QED BY <1>2, <2>1, <2>2 DEF Above
<1>3. CASE v = t /\ n = Len(frames[t]) + 1 /\ f.todo = {}
  <2>1. DOMAIN frames[t] = 1 .. Len(frames[t]) /\ Len(frames[t]) \in Nat
    <3>1. frames[t] \in Seq(Handlers)
      BY DEF TypeOK
    <3> QED BY <3>1, LenProperties
  <2>2. i \in 1 .. n /\ (i = n \/ i \in 1 .. n - 1) /\ n - 1 = Len(frames[t])
    BY <1>3, <2>1 DEF Above
  <2>3. i # n
    BY <1>3 DEF Above
  <2> QED BY <1>3, <2>1, <2>2, <2>3 DEF Above
<1> QED BY <1>1, <1>2, <1>3

\* Stacks that are cut, or given up, hold nobody new.
LEMMA CutKeeps ==
  ASSUME NEW gs,
         \A v \in Threads : \A i \in DOMAIN gs[v] : i \in DOMAIN frames[v] /\ gs[v][i].todo \subseteq frames[v][i].todo
  PROVE  \A u : Holders(gs, u) \subseteq Holders(frames, u)
BY FewerHolders

\* Uninstalling holds nobody new.
LEMMA DisableKeeps ==
  ASSUME TypeOK, NEW t \in Threads, frames[t] # <<>>, NEW next \in Pcs, DisableAll(t, next)
  PROVE  \A u : Holders(frames', u) \subseteq Holders(frames, u)
<1> SUFFICES ASSUME NEW v \in Threads, NEW i \in DOMAIN frames'[v]
             PROVE  i \in DOMAIN frames[v] /\ frames'[v][i].todo \subseteq frames[v][i].todo
  BY CutKeeps
<1>0. frames[t] \in Seq(Handlers) /\ Top(t) \in Handlers /\ Top(t) = frames[t][Len(frames[t])]
      /\ DOMAIN frames[t] = 1 .. Len(frames[t]) /\ Len(frames[t]) \in Nat \ {0}
  BY TopFrame DEF TypeOK
<1>1. CASE v = t
  <2>1. [Top(t) EXCEPT !.pc = next].todo = Top(t).todo
    BY <1>0 DEF Handlers
  <2>2. i \in 1 .. Len(frames[t]) /\ (i = Len(frames[t]) \/ i \in 1 .. Len(frames[t]) - 1)
    <3>1. DOMAIN frames'[t] = 1 .. Len(frames[t])
      BY DisableMoves
    <3> QED BY <1>0, <1>1, <3>1
  <2>3. /\ frames'[t][Len(frames[t])] = [Top(t) EXCEPT !.pc = next]
        /\ \A k \in 1 .. Len(frames[t]) - 1 : frames'[t][k] = frames[t][k]
    BY DisableMoves
  <2> QED BY <1>0, <1>1, <2>1, <2>2, <2>3
<1>2. CASE v # t
  <2>1. frames'[v] \in {frames[v], <<>>}
    BY <1>2, DisableMoves
  <2>2. frames'[v] # <<>>
    OBVIOUS
  <2> QED BY <2>1, <2>2
<1> QED BY <1>1, <1>2

LEMMA InitHeld == Init => HeldInv
<1> SUFFICES ASSUME Init PROVE HeldInv
  OBVIOUS
<1>1. frames = [t \in Threads |-> <<>>] /\ suspended \in [Threads -> Nat]
  BY DEF Init
<1>2. \A t \in Threads : DOMAIN frames[t] = {}
  BY <1>1
<1>3. \A u : Holders(frames, u) = {}
  BY <1>2 DEF Holders
<1>4. \A u \in AppThreads : suspended[u] \in Nat
  BY <1>1 DEF Threads
<1>5. HeldAreSuspended
  BY <1>3, <1>4, FS_EmptySet DEF HeldAreSuspended
<1>6. StopsTheOthers
  BY <1>2 DEF StopsTheOthers
<1> QED BY <1>5, <1>6, InitTyped DEF HeldInv

\* What a stopping handler holds is only a matter of the innermost one that changed.
LEMMA OthersStopped ==
  ASSUME TypeOK, StopsTheOthers, NEW t \in Threads, NEW f, NEW n, Above(frames, frames', t, n, f),
         n = Len(frames[t]) \/ n = Len(frames[t]) + 1,
         Suspends(f.kind) /\ f.pc \in Stopping => f.todo = Others(t)
  PROVE  StopsTheOthers'
<1> SUFFICES ASSUME NEW v \in Threads, NEW i \in DOMAIN frames'[v],
                    Suspends(frames'[v][i].kind), frames'[v][i].pc \in Stopping
             PROVE  frames'[v][i].todo = Others(v)
  BY DEF StopsTheOthers, Others
<1>1. CASE v # t
  BY <1>1 DEF Above, StopsTheOthers
<1>2. CASE v = t
  <2>1. DOMAIN frames[t] = 1 .. Len(frames[t]) /\ Len(frames[t]) \in Nat
    <3>1. frames[t] \in Seq(Handlers)
      BY DEF TypeOK
    <3> QED BY <3>1, LenProperties
  <2>2. i \in 1 .. n /\ n \in Nat \ {0}
    BY <1>2 DEF Above
  <2>3. CASE i = n
    BY <1>2, <2>3 DEF Above
  <2>4. CASE i # n
    <3>1. i \in 1 .. n - 1 /\ i \in DOMAIN frames[t]
      BY <2>1, <2>2, <2>4
    <3> QED BY <1>2, <3>1 DEF Above, StopsTheOthers
  <2> QED BY <2>3, <2>4
<1> QED BY <1>1, <1>2

\* The innermost handler of t moves on, holding nobody new, and stops the others still.
LEMMA MovesHold ==
  ASSUME HeldInv, TypeOK', suspended' = suspended, NEW t \in Threads, NEW f, NEW n,
         Above(frames, frames', t, n, f),
         \/ n = Len(frames[t]) /\ frames[t] # <<>> /\ f.todo \subseteq Top(t).todo
         \/ n = Len(frames[t]) + 1 /\ f.todo = {},
         Suspends(f.kind) /\ f.pc \in Stopping => f.todo = Others(t)
  PROVE  HeldInv'
<1>1. \A u : Holders(frames', u) \subseteq Holders(frames, u)
  BY AboveKeeps DEF HeldInv
<1>2. \A u \in AppThreads : suspended'[u] >= suspended[u]
  BY DEF HeldInv, TypeOK, Threads
<1>3. HeldAreSuspended'
  BY <1>1, <1>2, StillHeld DEF HeldInv, TypeOK
<1>4. StopsTheOthers'
  BY OthersStopped DEF HeldInv
<1> QED BY <1>3, <1>4 DEF HeldInv

\* Handlers that end hold nobody any more.
LEMMA CutHold ==
  ASSUME HeldInv, TypeOK', suspended' = suspended,
         \A v \in Threads : \A i \in DOMAIN frames'[v] : i \in DOMAIN frames[v] /\ frames'[v][i] = frames[v][i]
  PROVE  HeldInv'
<1>1. \A u : Holders(frames', u) \subseteq Holders(frames, u)
  BY CutKeeps
<1>2. \A u \in AppThreads : suspended'[u] >= suspended[u]
  BY DEF HeldInv, TypeOK, Threads
<1>3. HeldAreSuspended'
  BY <1>1, <1>2, StillHeld DEF HeldInv, TypeOK
<1>4. StopsTheOthers'
  BY DEF HeldInv, StopsTheOthers, Others
<1> QED BY <1>3, <1>4 DEF HeldInv

\* Nothing of it changes.
LEMMA SameHold ==
  ASSUME HeldInv, TypeOK', suspended' = suspended, frames' = frames
  PROVE  HeldInv'
BY CutHold

\* A handler that is going to stop the others is one that has.
LEMMA TopStops ==
  ASSUME HeldInv, NEW t \in Threads, frames[t] # <<>>, Top(t).pc \in Stopping, Suspends(Top(t).kind)
  PROVE  Top(t).todo = Others(t)
<1>1. Top(t) = frames[t][Len(frames[t])] /\ Len(frames[t]) \in DOMAIN frames[t]
  BY TopFrame DEF HeldInv, TypeOK
<1> QED BY <1>1 DEF HeldInv, StopsTheOthers

LEMMA GoToHold ==
  ASSUME HeldInv, TypeOK', suspended' = suspended, NEW t \in Threads, frames[t] # <<>>,
         NEW pc \in Pcs, GoTo(t, pc), Top(t).pc \in Stopping \/ pc \notin Stopping
  PROVE  HeldInv'
<1> DEFINE f == [Top(t) EXCEPT !.pc = pc]
<1>1. Above(frames, frames', t, Len(frames[t]), f)
  BY GoToMoves DEF HeldInv
<1>2. Top(t) \in Handlers
  BY TopFrame DEF HeldInv, TypeOK
<1>3. f.todo = Top(t).todo /\ f.kind = Top(t).kind /\ f.pc = pc
  BY <1>2 DEF Handlers
<1>4. Suspends(f.kind) /\ f.pc \in Stopping => f.todo = Others(t)
  BY <1>3, TopStops
<1> HIDE DEF f
<1> QED BY <1>1, <1>3, <1>4, MovesHold

LEMMA ReportHold ==
  ASSUME HeldInv, TypeOK', suspended' = suspended, NEW t \in Threads, frames[t] # <<>>,
         NEW pc \in Pcs, NEW id \in 0 .. MaxReports, SetTop(t, [Top(t) EXCEPT !.pc = pc, !.id = id]),
         Top(t).pc \in Stopping
  PROVE  HeldInv'
<1> DEFINE f == [Top(t) EXCEPT !.pc = pc, !.id = id]
<1>1. Above(frames, frames', t, Len(frames[t]), f)
  BY GoToReport DEF HeldInv
<1>2. Top(t) \in Handlers
  BY TopFrame DEF HeldInv, TypeOK
<1>3. f.todo = Top(t).todo /\ f.kind = Top(t).kind /\ f.pc = pc
  BY <1>2 DEF Handlers
<1>4. Suspends(f.kind) /\ f.pc \in Stopping => f.todo = Others(t)
  BY <1>3, TopStops
<1> HIDE DEF f
<1> QED BY <1>1, <1>3, <1>4, MovesHold

LEMMA DisableHold ==
  ASSUME HeldInv, TypeOK', suspended' = suspended, NEW t \in Threads, frames[t] # <<>>,
         NEW pc \in Pcs, DisableAll(t, pc), Top(t).pc \in Stopping
  PROVE  HeldInv'
<1> DEFINE f == [Top(t) EXCEPT !.pc = pc]
           n == Len(frames[t])
<1>0. TypeOK /\ frames[t] \in Seq(Handlers) /\ Top(t) \in Handlers /\ n \in Nat \ {0} /\ DOMAIN frames[t] = 1 .. n
  BY TopFrame DEF HeldInv, TypeOK
<1>1. \A u : Holders(frames', u) \subseteq Holders(frames, u)
  BY <1>0, DisableKeeps
<1>2. \A u \in AppThreads : suspended'[u] >= suspended[u]
  BY DEF HeldInv, TypeOK, Threads
<1>3. HeldAreSuspended'
  BY <1>1, <1>2, StillHeld DEF HeldInv, TypeOK
<1>4. f.todo = Top(t).todo /\ f.kind = Top(t).kind /\ f.pc = pc
  BY <1>0 DEF Handlers
<1>5. Suspends(f.kind) /\ f.pc \in Stopping => f.todo = Others(t)
  BY <1>4, TopStops
<1>6. /\ DOMAIN frames'[t] = 1 .. n /\ frames'[t][n] = f
      /\ \A i \in 1 .. n - 1 : frames'[t][i] = frames[t][i]
      /\ \A u \in Threads : u # t => frames'[u] \in {frames[u], <<>>}
  BY <1>0, DisableMoves
<1> HIDE DEF f, n
<1>7. StopsTheOthers'
  <2> SUFFICES ASSUME NEW v \in Threads, NEW i \in DOMAIN frames'[v],
                      Suspends(frames'[v][i].kind), frames'[v][i].pc \in Stopping
               PROVE  frames'[v][i].todo = Others(v)
    BY DEF StopsTheOthers, Others
  <2>1. CASE v # t
    <3>1. frames'[v] = frames[v]
      <4>1. frames'[v] # <<>>
        OBVIOUS
      <4> QED BY <2>1, <4>1, <1>6
    <3> QED BY <3>1 DEF HeldInv, StopsTheOthers
  <2>2. CASE v = t /\ i = n
    BY <2>2, <1>5, <1>6
  <2>3. CASE v = t /\ i # n
    <3>1. i \in 1 .. n - 1 /\ i \in DOMAIN frames[t]
      BY <2>3, <1>0, <1>6
    <3> QED BY <2>3, <3>1, <1>6 DEF HeldInv, StopsTheOthers
  <2> QED BY <2>1, <2>2, <2>3
<1> QED BY <1>3, <1>7 DEF HeldInv

\* Suspending a thread adds one holder to it, and one to its count.
LEMMA SuspendHolds ==
  ASSUME HeldInv, TypeOK', NEW t \in Threads, suspendEnvironment(t)
  PROVE  HeldInv'
<1> DEFINE n == Len(frames[t])
           h == <<t, n>>
<1>0. /\ TypeOK /\ frames[t] # <<>> /\ Top(t).pc = "suspend" /\ Top(t) \in Handlers
      /\ Top(t) = frames[t][n] /\ n \in Nat \ {0} /\ DOMAIN frames[t] = 1 .. n
  BY TopFrame DEF suspendEnvironment, At, HeldInv, TypeOK
<1>1. PICK u \in Others(t) \ Top(t).todo :
        /\ suspended' = [suspended EXCEPT ![u] = @ + 1]
        /\ SetTop(t, [Top(t) EXCEPT !.todo = @ \cup {u}])
  BY DEF suspendEnvironment
<1>2. u \in AppThreads /\ u \in Threads
  BY DEF Others, Threads
<1> DEFINE todo == Top(t).todo \cup {u}
           f == [Top(t) EXCEPT !.todo = todo]
<1>3. todo \in SUBSET AppThreads /\ SetTop(t, [Top(t) EXCEPT !.todo = todo])
  BY <1>0, <1>1, <1>2, HandlerChanges
<1>4. f.todo = Top(t).todo \cup {u} /\ f.kind = Top(t).kind /\ f.pc = "suspend"
  BY <1>0 DEF Handlers
<1>5. Above(frames, frames', t, n, f)
  <2> HIDE DEF todo
  <2> QED BY <1>0, <1>3, HoldsMoves
<1> HIDE DEF f, todo
<1>6. StopsTheOthers'
  <2>1. f.pc \notin Stopping
    BY <1>4 DEF Stopping
  <2> QED BY <1>0, <1>5, <2>1, OthersStopped DEF HeldInv
<1>7. ASSUME NEW w, NEW v \in Threads, NEW i \in DOMAIN frames'[v], w \in frames'[v][i].todo, w # u \/ <<v, i>> # h
      PROVE  i \in DOMAIN frames[v] /\ w \in frames[v][i].todo
  <2>1. CASE v # t
    BY <2>1, <1>5, <1>7 DEF Above
  <2>2. CASE v = t /\ i = n
    BY <2>2, <1>0, <1>4, <1>5, <1>7 DEF Above
  <2>3. CASE v = t /\ i # n
    <3>1. i \in 1 .. n
      BY <2>3, <1>5 DEF Above
    <3>2. i \in 1 .. n - 1 /\ i \in 1 .. n
      BY <3>1, <2>3, <1>0
    <3> QED BY <2>3, <3>2, <1>0, <1>5, <1>7 DEF Above
  <2> QED BY <2>1, <2>2, <2>3
<1>8. ASSUME NEW w \in AppThreads
      PROVE  IsFiniteSet(Holders(frames', w)) /\ Cardinality(Holders(frames', w)) <= suspended'[w]
  <2>0. /\ IsFiniteSet(Holders(frames, w)) /\ Cardinality(Holders(frames, w)) <= suspended[w]
        /\ suspended[w] \in Nat
    BY DEF HeldInv, HeldAreSuspended, TypeOK, Threads
  <2>1. CASE w # u
    <3>1. Holders(frames', w) \subseteq Holders(frames, w)
      BY <1>7, <2>1, FewerHolders
    <3>2. /\ IsFiniteSet(Holders(frames', w))
          /\ Cardinality(Holders(frames', w)) <= Cardinality(Holders(frames, w))
      BY <2>0, <3>1, FS_Subset
    <3>3. Cardinality(Holders(frames', w)) \in Nat /\ Cardinality(Holders(frames, w)) \in Nat
      BY <2>0, <3>2, FS_CardinalityType
    <3>4. suspended'[w] = suspended[w]
      BY <1>1, <2>1 DEF HeldInv, TypeOK, Threads
    <3> QED BY <2>0, <3>2, <3>3, <3>4
  <2>2. CASE w = u
    <3> DEFINE H == Holders(frames, w)
    <3>1. Holders(frames', w) \subseteq H \cup {h}
      <4> SUFFICES ASSUME NEW k \in Holders(frames', w) PROVE k \in H \cup {h}
        OBVIOUS
      <4>1. PICK v \in Threads : \E i \in DOMAIN frames'[v] : w \in frames'[v][i].todo /\ k = <<v, i>>
        BY DEF Holders
      <4>2. PICK i \in DOMAIN frames'[v] : w \in frames'[v][i].todo /\ k = <<v, i>>
        BY <4>1
      <4>3. CASE k = h
        BY <4>3
      <4>4. CASE k # h
        <5>1. i \in DOMAIN frames[v] /\ w \in frames[v][i].todo
          BY <1>7, <4>2, <4>4
        <5> QED BY <4>2, <5>1, HolderIs
      <4> QED BY <4>3, <4>4
    <3>2. IsFiniteSet(H)
      BY <2>0
    <3> HIDE DEF H
    <3>3. /\ IsFiniteSet(H \cup {h})
          /\ Cardinality(H \cup {h}) = IF h \in H THEN Cardinality(H) ELSE Cardinality(H) + 1
      BY <3>2, FS_AddElement
    <3>4. /\ IsFiniteSet(Holders(frames', w))
          /\ Cardinality(Holders(frames', w)) <= Cardinality(H \cup {h})
      BY <3>1, <3>3, FS_Subset
    <3>5. Cardinality(Holders(frames', w)) \in Nat /\ Cardinality(H) \in Nat
      BY <3>2, <3>4, FS_CardinalityType
    <3>6. suspended'[w] = suspended[w] + 1
      BY <1>1, <1>2, <2>2 DEF HeldInv, TypeOK
    <3>7. Cardinality(H) <= suspended[w]
      BY <2>0 DEF H
    <3>8. Cardinality(H \cup {h}) \in Nat /\ Cardinality(H \cup {h}) <= Cardinality(H) + 1
      BY <3>3, <3>5
    <3> QED BY <2>0, <3>4, <3>5, <3>6, <3>7, <3>8
  <2> QED BY <2>1, <2>2
<1> QED BY <1>6, <1>8 DEF HeldInv, HeldAreSuspended

\* Resuming a thread takes one holder from it, and one from its count, if there is one.
LEMMA ResumeHolds ==
  ASSUME HeldInv, TypeOK', NEW t \in Threads, resumeEnvironment(t)
  PROVE  HeldInv'
<1> DEFINE n == Len(frames[t])
           h == <<t, n>>
<1>0. /\ TypeOK /\ frames[t] # <<>> /\ Top(t).pc = "resume" /\ Top(t) \in Handlers
      /\ Top(t) = frames[t][n] /\ n \in Nat \ {0} /\ DOMAIN frames[t] = 1 .. n
  BY TopFrame DEF resumeEnvironment, At, HeldInv, TypeOK
<1>1. PICK u \in Top(t).todo :
        /\ suspended' = [suspended EXCEPT ![u] = IF @ = 0 THEN 0 ELSE @ - 1]
        /\ SetTop(t, [Top(t) EXCEPT !.todo = @ \ {u}])
  BY DEF resumeEnvironment
<1>2. u \in AppThreads /\ u \in Threads
  BY <1>0, HandlerChanges DEF Threads
<1> DEFINE todo == Top(t).todo \ {u}
           f == [Top(t) EXCEPT !.todo = todo]
<1>3. todo \in SUBSET AppThreads /\ SetTop(t, [Top(t) EXCEPT !.todo = todo])
  BY <1>0, <1>1, HandlerChanges
<1>4. f.todo = Top(t).todo \ {u} /\ f.kind = Top(t).kind /\ f.pc = "resume"
  BY <1>0 DEF Handlers
<1>5. Above(frames, frames', t, n, f)
  <2> HIDE DEF todo
  <2> QED BY <1>0, <1>3, HoldsMoves
<1> HIDE DEF f, todo
<1>6. StopsTheOthers'
  <2>1. f.pc \notin Stopping
    BY <1>4 DEF Stopping
  <2> QED BY <1>0, <1>5, <2>1, OthersStopped DEF HeldInv
<1>7. \A w : Holders(frames', w) \subseteq Holders(frames, w)
  BY <1>0, <1>4, <1>5, AboveKeeps
<1>8. h \in Holders(frames, u) /\ h \notin Holders(frames', u)
  <2>1. h \in Holders(frames, u)
    BY <1>0, <1>1, HolderIs
  <2>2. u \notin frames'[t][n].todo
    BY <1>4, <1>5 DEF Above
  <2> QED BY <2>1, <2>2, HolderIs
<1>9. ASSUME NEW w \in AppThreads
      PROVE  IsFiniteSet(Holders(frames', w)) /\ Cardinality(Holders(frames', w)) <= suspended'[w]
  <2>0. /\ IsFiniteSet(Holders(frames, w)) /\ Cardinality(Holders(frames, w)) <= suspended[w]
        /\ suspended[w] \in Nat
    BY DEF HeldInv, HeldAreSuspended, TypeOK, Threads
  <2>1. /\ IsFiniteSet(Holders(frames', w))
        /\ Cardinality(Holders(frames', w)) <= Cardinality(Holders(frames, w))
    BY <2>0, <1>7, FS_Subset
  <2>2. Cardinality(Holders(frames', w)) \in Nat /\ Cardinality(Holders(frames, w)) \in Nat
    BY <2>0, <2>1, FS_CardinalityType
  <2>3. CASE w # u
    <3>1. suspended'[w] = suspended[w]
      BY <1>1, <2>3 DEF HeldInv, TypeOK, Threads
    <3> QED BY <2>0, <2>1, <2>2, <3>1
  <2>4. CASE w = u
    <3> DEFINE H == Holders(frames, u)
               G == Holders(frames', u)
    <3>1. G \subseteq H \ {h} /\ h \in H /\ IsFiniteSet(H) /\ Cardinality(H) <= suspended[u] /\ suspended[u] \in Nat
      BY <1>7, <1>8, <2>0, <2>4
    <3>2. suspended'[u] = IF suspended[u] = 0 THEN 0 ELSE suspended[u] - 1
      BY <1>1, <1>2 DEF HeldInv, TypeOK
    <3> HIDE DEF G, H
    <3>3. /\ IsFiniteSet(H \ {h})
          /\ Cardinality(H \ {h}) = IF h \in H THEN Cardinality(H) - 1 ELSE Cardinality(H)
      BY <3>1, FS_RemoveElement
    <3>4. IsFiniteSet(G) /\ Cardinality(G) <= Cardinality(H \ {h})
      BY <3>1, <3>3, FS_Subset
    <3>5. Cardinality(G) \in Nat /\ Cardinality(H) \in Nat /\ Cardinality(H \ {h}) \in Nat
      BY <3>1, <3>3, <3>4, FS_CardinalityType
    <3>6. Cardinality(H \ {h}) = Cardinality(H) - 1
      BY <3>1, <3>3
    <3>7. Cardinality(G) <= suspended'[u]
      BY <3>1, <3>2, <3>4, <3>5, <3>6
    <3> QED BY <2>1, <2>4, <3>7 DEF G
  <2> QED BY <2>3, <2>4
<1> QED BY <1>6, <1>9 DEF HeldInv, HeldAreSuspended

\* The end of a handler leaves the rest of its stack, or the next one of the two that
\* see an Objective-C exception.
LEMMA AfterStacks ==
  ASSUME TypeOK, NEW t \in Threads, after(t)
  PROVE  /\ frames[t] # <<>> /\ \A u \in Threads : u # t => frames'[u] = frames[u]
         /\ \/ /\ Top(t).kind = "passon" /\ "nsexception" \in enabled
               /\ Above(frames, frames', t, Len(frames[t]), Frame("nsexception", "suspend", t))
            \/ /\ ~(Top(t).kind = "passon" /\ "nsexception" \in enabled)
               /\ frames'[t] = Front(frames[t])
               /\ DOMAIN frames'[t] = 1 .. Len(frames[t]) - 1
               /\ \A i \in 1 .. Len(frames[t]) - 1 : frames'[t][i] = frames[t][i]
<1>0. frames[t] # <<>> /\ frames[t] \in Seq(Handlers)
  BY DEF after, At, TypeOK
<1> DEFINE f == Frame("nsexception", "suspend", t)
<1>1. f \in Handlers
  BY FrameIsAHandler, FirstSteps DEF Pcs, EventKinds
<1>2. CASE Top(t).kind = "passon" /\ "nsexception" \in enabled
  <2>1. SetTop(t, f)
    BY <1>2 DEF after, SetTop
  <2>2. Above(frames, frames', t, Len(frames[t]), f)
    <3> HIDE DEF f
    <3> QED BY <1>0, <1>1, <2>1, SetTopMoves DEF TypeOK
  <2> QED BY <1>0, <1>2, <2>2 DEF Above
<1>3. CASE ~(Top(t).kind = "passon" /\ "nsexception" \in enabled)
  <2>1. frames' = [frames EXCEPT ![t] = Front(frames[t])]
    BY <1>3 DEF after
  <2>2. frames'[t] = Front(frames[t]) /\ \A u \in Threads : u # t => frames'[u] = frames[u]
    BY <2>1 DEF TypeOK
  <2>3. /\ DOMAIN Front(frames[t]) = 1 .. Len(frames[t]) - 1
        /\ \A i \in 1 .. Len(frames[t]) - 1 : Front(frames[t])[i] = frames[t][i]
    <3> DEFINE q == frames[t]
    <3>1. q \in Seq(Handlers) /\ q # <<>>
      BY <1>0
    <3> HIDE DEF q
    <3>2. /\ DOMAIN Front(q) = 1 .. Len(q) - 1
          /\ \A i \in 1 .. Len(q) - 1 : Front(q)[i] = q[i]
      BY <3>1, TopEnds
    <3> QED BY <3>2 DEF q
  <2> QED BY <1>0, <1>3, <2>2, <2>3
<1> QED BY <1>2, <1>3

LEMMA AfterHolds ==
  ASSUME HeldInv, TypeOK', NEW t \in Threads, after(t)
  PROVE  HeldInv'
<1>0. TypeOK /\ suspended' = suspended /\ frames[t] # <<>>
  BY AfterStacks DEF HeldInv, after
<1>1. CASE Above(frames, frames', t, Len(frames[t]), Frame("nsexception", "suspend", t))
  <2> DEFINE f == Frame("nsexception", "suspend", t)
  <2>1. f.todo = {} /\ f.pc = "suspend"
    BY DEF Frame
  <2>2. f.pc \notin Stopping
    BY <2>1 DEF Stopping
  <2> HIDE DEF f
  <2>3. Above(frames, frames', t, Len(frames[t]), f) /\ f.todo \subseteq Top(t).todo
    BY <1>1, <2>1 DEF f
  <2> QED BY <1>0, <2>2, <2>3, MovesHold
<1>2. CASE ~Above(frames, frames', t, Len(frames[t]), Frame("nsexception", "suspend", t))
  <2>1. /\ \A u \in Threads : u # t => frames'[u] = frames[u]
        /\ DOMAIN frames'[t] = 1 .. Len(frames[t]) - 1
        /\ \A i \in 1 .. Len(frames[t]) - 1 : frames'[t][i] = frames[t][i]
    BY <1>0, <1>2, AfterStacks
  <2>2. DOMAIN frames[t] = 1 .. Len(frames[t]) /\ Len(frames[t]) \in Nat
    BY <1>0, TopFrame DEF TypeOK
  <2>3. \A i \in 1 .. Len(frames[t]) - 1 : i \in 1 .. Len(frames[t])
    BY <2>2
  <2> QED BY <1>0, <2>1, <2>2, <2>3, CutHold
<1> QED BY <1>1, <1>2

\* Events and the kernel's part start handlers, that hold nobody yet, or end them.
LEMMA HeldOutside ==
  ASSUME HeldInv, TypeOK'
  PROVE  /\ \A t \in AppThreads, kind \in Events : Event(t, kind) => HeldInv'
         /\ \A t \in Threads : HandlerFault(t) => HeldInv'
         /\ \A t \in Threads : Deliver(t) => HeldInv'
         /\ \A m \in MachThreads : Receive(m) => HeldInv'
         /\ \A m \in MachThreads : Cancel(m) => HeldInv'
<1>0. TypeOK
  BY DEF HeldInv
<1>a. ASSUME NEW t \in Threads, NEW kind \in Kinds, NEW pc \in Pcs, NEW v \in Threads,
             Push(t, Frame(kind, pc, v)), suspended' = suspended,
             Suspends(kind) => pc \in {"suspend", "after"}
      PROVE  HeldInv'
  <2> DEFINE f == Frame(kind, pc, v)
  <2>1. f \in Handlers
    BY FrameIsAHandler
  <2>2. f.todo = {} /\ f.kind = kind /\ f.pc = pc
    BY DEF Frame
  <2>3. ~(Suspends(f.kind) /\ f.pc \in Stopping)
    BY <1>a, <2>2 DEF Stopping
  <2>4. Push(t, f)
    BY <1>a
  <2> HIDE DEF f
  <2>5. Above(frames, frames', t, Len(frames[t]) + 1, f)
    BY <1>0, <2>1, <2>4, PushMoves DEF TypeOK
  <2> QED BY <1>a, <2>2, <2>3, <2>5, MovesHold
<1>1. ASSUME NEW t \in AppThreads, NEW kind \in Events, Event(t, kind)
      PROVE  HeldInv'
  <2>0. t \in Threads /\ kind \in EventKinds /\ suspended' = suspended
    BY <1>1, EventsAssumption DEF Threads, Event
  <2>1. frames' = frames \/ Push(t, FirstFrame(t, kind))
    BY <1>1 DEF Event
  <2>2. CASE Push(t, FirstFrame(t, kind))
    <3> DEFINE first == IF kind = "nsexception" /\ "cpp" \in enabled THEN "passon" ELSE kind
    <3>1. first \in Kinds
      BY <2>0, FirstSteps
    <3>2. FirstFrame(t, kind) = Frame(first, FirstStep(first), t)
      BY DEF FirstFrame
    <3> HIDE DEF first
    <3>3. FirstStep(first) \in Pcs /\ (Suspends(first) => FirstStep(first) = "suspend")
      BY <3>1, FirstSteps DEF FirstStep
    <3> QED BY <1>a, <2>0, <2>2, <3>1, <3>2, <3>3
  <2> QED BY <2>0, <2>1, <2>2, SameHold
<1>2. ASSUME NEW t \in Threads, HandlerFault(t)
      PROVE  HeldInv'
  BY <1>2, SameHold DEF HandlerFault
<1>3. ASSUME NEW t \in Threads, Deliver(t)
      PROVE  HeldInv'
  <2>1. suspended' = suspended /\ (frames' = frames \/ Push(t, Frame("signal", "suspend", t)))
    BY <1>3 DEF Deliver
  <2> QED BY <2>1, <1>a, FirstSteps, SameHold DEF Pcs
<1>4. ASSUME NEW m \in MachThreads, Receive(m)
      PROVE  HeldInv'
  <2> DEFINE pc == IF "mach" \in enabled THEN "suspend" ELSE "after"
  <2>1. Head(queue) \in Threads /\ m \in Threads /\ suspended' = suspended
    BY <1>0, <1>4, HeadTailProperties DEF Receive, TypeOK, Threads
  <2>2. Push(m, Frame("mach", pc, Head(queue))) /\ pc \in Pcs /\ pc \in {"suspend", "after"}
    BY <1>4 DEF Receive, Pcs
  <2> HIDE DEF pc
  <2> QED BY <1>a, <2>1, <2>2, FirstSteps
<1>5. ASSUME NEW m \in MachThreads, Cancel(m)
      PROVE  HeldInv'
  <2>1. suspended' = suspended /\ frames' = [frames EXCEPT ![m] = <<>>]
    BY <1>5 DEF Cancel
  <2>2. \A v \in Threads : frames'[v] = frames[v] \/ frames'[v] = <<>>
    BY <1>0, <2>1 DEF TypeOK
  <2>3. \A v \in Threads : \A i \in DOMAIN frames'[v] : i \in DOMAIN frames[v] /\ frames'[v][i] = frames[v][i]
    BY <2>2
  <2> QED BY <2>1, <2>3, CutHold
<1> QED BY <1>1, <1>2, <1>3, <1>4, <1>5

LEMMA HeldStep ==
  ASSUME HeldInv, TypeOK', NEW t \in Threads, Step(t)
  PROVE  HeldInv'
<1>0. TypeOK
  BY DEF HeldInv
<1>a. /\ "check" \in Pcs /\ "set" \in Pcs /\ "restore" \in Pcs /\ "context" \in Pcs
      /\ "write" \in Pcs /\ "rewrite" \in Pcs /\ "tail" \in Pcs /\ "resume" \in Pcs
  BY DEF Pcs
<1>1. CASE suspendEnvironment(t)
  BY <1>1, SuspendHolds
<1>2. CASE suspended_(t)
  <2> DEFINE pc == IF Top(t).kind = "passon" THEN "resume"
                   ELSE IF Fatal(Top(t).kind) THEN "check" ELSE "context"
             f == [Top(t) EXCEPT !.pc = pc]
  <2>1. /\ frames[t] # <<>> /\ GoTo(t, pc) /\ Top(t).todo = Others(t) /\ suspended' = suspended
    BY <1>2 DEF suspended_, At
  <2>2. pc \in Pcs
    BY <1>a
  <2>3. Top(t) \in Handlers
    BY <1>0, <2>1, TopFrame DEF TypeOK
  <2>4. f.todo = Others(t) /\ f.kind = Top(t).kind
    BY <2>1, <2>3 DEF Handlers
  <2>5. Above(frames, frames', t, Len(frames[t]), f)
    <3> HIDE DEF pc
    <3> QED BY <1>0, <2>1, <2>2, GoToMoves
  <2> HIDE DEF f, pc
  <2> QED BY <2>1, <2>4, <2>5, MovesHold
<1>3. CASE notifyCheck(t)
  <2>1. frames[t] # <<>> /\ GoTo(t, "set") /\ suspended' = suspended /\ Top(t).pc \in Stopping
    BY <1>3 DEF notifyCheck, At, Stopping
  <2> QED BY <2>1, <1>a, GoToHold
<1>4. CASE notifySet(t)
  <2> DEFINE next == IF Top(t).kind = "mach" THEN "restore" ELSE "context"
  <2>1. /\ frames[t] # <<>> /\ suspended' = suspended /\ Top(t).pc \in Stopping
        /\ next \in Pcs /\ (DisableAll(t, next) \/ GoTo(t, next))
    BY <1>4, <1>a DEF notifySet, At, Stopping
  <2> HIDE DEF next
  <2> QED BY <2>1, GoToHold, DisableHold
<1>5. CASE restoreExceptionPorts(t)
  <2>1. /\ frames[t] # <<>> /\ GoTo(t, "context") /\ Top(t).pc \in Stopping
        /\ suspended' \in {suspended, [suspended EXCEPT !["secondary"] = 0]}
    BY <1>5 DEF restoreExceptionPorts, At, Stopping
  <2>2. \A u \in AppThreads : suspended'[u] = suspended[u]
    BY <1>0, <2>1, EventsAssumption DEF TypeOK, Threads
  <2> DEFINE f == [Top(t) EXCEPT !.pc = "context"]
  <2>3. Above(frames, frames', t, Len(frames[t]), f)
    BY <1>0, <2>1, <1>a, GoToMoves
  <2>4. Top(t) \in Handlers
    BY <1>0, <2>1, TopFrame DEF TypeOK
  <2>5. f.todo = Top(t).todo /\ f.kind = Top(t).kind
    BY <2>4 DEF Handlers
  <2>6. Suspends(f.kind) => f.todo = Others(t)
    BY <2>1, <2>5, TopStops
  <2> HIDE DEF f
  <2>7. \A u : Holders(frames', u) \subseteq Holders(frames, u)
    BY <1>0, <2>1, <2>3, <2>5, AboveKeeps
  <2>8. HeldAreSuspended'
    <3>1. \A u \in AppThreads : suspended'[u] >= suspended[u]
      BY <1>0, <2>2 DEF TypeOK, Threads
    <3> QED BY <1>0, <2>7, <3>1, StillHeld DEF HeldInv, TypeOK
  <2>9. StopsTheOthers'
    BY <1>0, <2>3, <2>6, OthersStopped DEF HeldInv
  <2> QED BY <2>8, <2>9 DEF HeldInv
<1>6. CASE recrash(t)
  <2>1. frames[t] # <<>> /\ suspended' = suspended /\ Top(t).pc \in Stopping
    BY <1>6 DEF recrash, At, Stopping
  <2>2. \/ GoTo(t, "tail")
        \/ SetTop(t, [Top(t) EXCEPT !.pc = "rewrite", !.id = g_lastCrashReportFilePath])
    BY <1>6 DEF recrash
  <2>3. g_lastCrashReportFilePath \in 0 .. MaxReports
    BY <1>0, EventsAssumption DEF TypeOK
  <2>4. CASE GoTo(t, "tail")
    BY <2>1, <2>4, <1>a, GoToHold
  <2>5. CASE SetTop(t, [Top(t) EXCEPT !.pc = "rewrite", !.id = g_lastCrashReportFilePath])
    BY <2>1, <2>3, <2>5, <1>a, ReportHold
  <2> QED BY <2>2, <2>4, <2>5
<1>7. CASE onCrash(t)
  <2>1. /\ frames[t] # <<>> /\ suspended' = suspended /\ Top(t).pc \in Stopping
        /\ SetTop(t, [Top(t) EXCEPT !.pc = "write", !.id = nextID])
    BY <1>7 DEF onCrash, At, Stopping
  <2>2. nextID \in 0 .. MaxReports
    BY <1>7, EventsAssumption DEF onCrash, Ids
  <2> QED BY <2>1, <2>2, <1>a, ReportHold
<1>8. CASE closeReport(t)
  <2>1. frames[t] # <<>> /\ GoTo(t, "tail") /\ suspended' = suspended /\ Top(t).pc \in Stopping
    BY <1>8 DEF closeReport, At, Stopping
  <2> QED BY <2>1, <1>a, GoToHold
<1>9. CASE handleExceptionTail(t)
  <2>1. /\ frames[t] # <<>> /\ suspended' = suspended /\ Top(t).pc \in Stopping
        /\ GoTo(t, "resume") \/ DisableAll(t, "resume")
    BY <1>9 DEF handleExceptionTail, At, Stopping
  <2> QED BY <2>1, <1>a, GoToHold, DisableHold
<1>10. CASE resumeEnvironment(t)
  BY <1>10, ResumeHolds
<1>11. CASE after(t)
  BY <1>11, AfterHolds
<1> QED BY <1>1, <1>2, <1>3, <1>4, <1>5, <1>6, <1>7, <1>8, <1>9, <1>10, <1>11 DEF Step

\* A thread that a handler holds does not run, and from its check to its end a handler
\* that stops the program holds all of its other threads.
LEMMA HeldNext == HeldInv /\ [Next]_vars => HeldInv'
<1> SUFFICES ASSUME HeldInv, [Next]_vars PROVE HeldInv'
  OBVIOUS
<1>0. TypeOK /\ TypeOK'
  <2>1. TypeOK
    BY DEF HeldInv
  <2>2. CASE UNCHANGED vars
    BY <2>1, <2>2 DEF vars, flags, files, hist, TypeOK, Ids
  <2>3. CASE Next
    BY <2>1, <2>3, TypeOutside, TypeStep DEF Next
  <2> QED BY <2>1, <2>2, <2>3
<1>1. CASE UNCHANGED vars
  BY <1>0, <1>1, SameHold DEF vars
<1>2. CASE Next
  BY <1>0, <1>2, HeldOutside, HeldStep DEF Next
<1> QED BY <1>1, <1>2

LEMMA HeldAlone == HeldInv => WritesAlone
<1> SUFFICES ASSUME HeldInv, NEW t \in Threads, frames[t] # <<>>, Suspends(Top(t).kind),
                    Top(t).pc \in {"write", "rewrite"}, NEW u \in AppThreads \ {t}
             PROVE  suspended[u] > 0
  BY DEF WritesAlone
<1>1. Top(t) = frames[t][Len(frames[t])] /\ Len(frames[t]) \in DOMAIN frames[t]
  BY TopFrame DEF HeldInv, TypeOK
<1>2. u \in Top(t).todo
  BY TopStops DEF Stopping, Others
<1>3. <<t, Len(frames[t])>> \in Holders(frames, u)
  BY <1>1, <1>2, HolderIs
<1>4. IsFiniteSet(Holders(frames, u)) /\ Cardinality(Holders(frames, u)) <= suspended[u]
  BY DEF HeldInv, HeldAreSuspended
<1>5. Cardinality(Holders(frames, u)) \in Nat /\ Cardinality(Holders(frames, u)) # 0
  BY <1>3, <1>4, FS_CardinalityType, FS_EmptySet
<1>6. suspended[u] \in Nat
  BY DEF HeldInv, TypeOK, Threads
<1> QED BY <1>4, <1>5, <1>6

\* While a handler that stops the program writes, none of the program's other threads
\* runs, for any number of threads, events and faults.
THEOREM AloneWhileWriting == Spec => []WritesAlone
<1>1. Init => HeldInv
  BY InitHeld
<1>2. HeldInv /\ [Next]_vars => HeldInv'
  BY HeldNext
<1>3. HeldInv => WritesAlone
  BY HeldAlone
<1> QED BY <1>1, <1>2, <1>3, PTL DEF Spec

-----------------------------------------------------------------------------
(* One event leaves a report *)

\* The one handler, on its thread's stack.
LEMMA TheHandler ==
  ASSUME TypeOK, OneHandler, NEW t \in Threads, frames[t] # <<>>
  PROVE  /\ Len(frames[t]) = 1 /\ Top(t) = frames[t][1] /\ Top(t) \in Handlers
         /\ queue = <<>> /\ ~Signalled /\ \A u \in Threads : u # t => frames[u] = <<>>
<1>1. /\ Top(t) = frames[t][Len(frames[t])] /\ Top(t) \in Handlers /\ Len(frames[t]) \in Nat \ {0}
  BY TopFrame DEF TypeOK
<1>2. Len(frames[t]) = 1
  BY <1>1 DEF OneHandler
<1> QED BY <1>1, <1>2 DEF OneHandler

\* It moves on, and stays the only one.
LEMMA OneMoves ==
  ASSUME TypeOK, OneHandler, NEW t \in Threads, frames[t] # <<>>, NEW f,
         Above(frames, frames', t, Len(frames[t]), f),
         queue' = queue, ~g_crashedDuringExceptionHandling',
         \A u \in Threads : thread'[u] = "signalled" => thread[u] = "signalled"
  PROVE  /\ OneHandler' /\ ~Signalled' /\ frames'[t] # <<>> /\ frames'[t][1] = f
         /\ \A u \in Threads : u # t => frames'[u] = <<>>
<1>1. /\ Len(frames[t]) = 1 /\ queue = <<>> /\ ~Signalled
      /\ \A u \in Threads : u # t => frames[u] = <<>>
  BY TheHandler
<1>2. /\ Len(frames'[t]) = 1 /\ frames'[t] # <<>> /\ frames'[t][1] = f
      /\ \A u \in Threads : u # t => frames'[u] = <<>>
  BY <1>1 DEF Above
<1>4. \A u \in Threads : frames'[u] = <<>> \/ Len(frames'[u]) = 1
  BY <1>2
<1>5. ~Signalled'
  BY <1>1 DEF Signalled
<1> QED BY <1>1, <1>2, <1>4, <1>5 DEF OneHandler, Signalled

\* Before the report.
LEMMA BeforeMoves ==
  ASSUME TypeOK, OneHandler, BeforeReport, NEW t \in Threads, frames[t] # <<>>, NEW f,
         Above(frames, frames', t, Len(frames[t]), f),
         app' = app, enabled' = enabled, queue' = queue, thread' = thread, cancelled' = cancelled,
         events' = events, ~g_crashedDuringExceptionHandling',
         g_handlingFatalException' => f.pc \in Announced,
         Reporting(f, g_handlingFatalException', reports')
  PROVE  OneHandler' /\ BeforeReport'
<1>1. /\ OneHandler' /\ frames'[t] # <<>> /\ frames'[t][1] = f
      /\ \A u \in Threads : u # t => frames'[u] = <<>>
  BY OneMoves
<1>2. /\ cancelled' = {} /\ enabled' = events'[1].enabled
      /\ ("mach" \in enabled' => "signal" \in enabled') /\ (app' = "exited" => "signal" \notin enabled')
  BY DEF BeforeReport
<1>3. g_handlingFatalException' =>
        \E u \in Threads : frames'[u] # <<>> /\ frames'[u][1].pc \in Announced
  BY <1>1
<1>4. \A u \in Threads : frames'[u] # <<>> => Reporting(frames'[u][1], g_handlingFatalException', reports')
  BY <1>1
<1> QED BY <1>1, <1>2, <1>3, <1>4 DEF BeforeReport

\* All is quiet at first, and only an event of the program's own changes that.
LEMMA InitQuiet == Init => LoneInv
<1> SUFFICES ASSUME Init PROVE LoneInv
  OBVIOUS
<1>1. Len(events) # 1
  BY EmptySeq DEF Init
<1>2. "mach" \in enabled => "signal" \in enabled
  BY DEF Init, Unmasked, Monitors, DebuggerUnsafe, AsyncUnsafe
<1>3. ports = "ours" => "mach" \in enabled
  BY DEF Init
<1>4. \A t \in Threads : thread[t] \notin {"signalled", "faulted"}
  BY DEF Init
<1>5. \A t \in MachThreads : thread[t] # "runs"
  BY EventsAssumption DEF Init, Threads, MachThreads
<1>6. \A i \in Ids : reports[i] = "none"
  BY DEF Init
<1>7. Quiet
  BY <1>2, <1>3, <1>4, <1>5, <1>6 DEF Init, Quiet
<1> QED BY <1>1, <1>7 DEF LoneInv

\* The one event, of thread t.
LEMMA FirstEvent ==
  ASSUME TypeOK, TypeOK', Quiet, events = <<>>, NEW t \in AppThreads, NEW kind \in Events, Event(t, kind)
  PROVE  OneHandler' /\ BeforeReport' /\ ~Written'
<1>0. t \in Threads /\ kind \in EventKinds
  BY EventsAssumption DEF Threads
<1>1. /\ app' = "alive" /\ enabled' = enabled /\ cancelled' = {} /\ reports' = reports
      /\ ~g_handlingFatalException' /\ ~g_crashedDuringExceptionHandling'
      /\ events' = <<[thread |-> t, kind |-> kind, enabled |-> enabled]>>
  BY DEF Event, Quiet, flags, files
<1>2. ~Written'
  BY <1>1 DEF Quiet, Written, Ids
<1>3. enabled' = events'[1].enabled
  BY <1>1
<1>4. \A u \in Threads : thread[u] \notin {"signalled", "faulted"} /\ frames[u] = <<>>
  BY DEF Quiet
<1>5. CASE frames' = frames
  <2>1. \A u \in Threads : frames'[u] = <<>>
    BY <1>4, <1>5
  <2>2. BeforeReport'
    BY <1>1, <1>3, <2>1 DEF BeforeReport, Quiet
  <2>3. \A u, v \in Threads : thread'[u] = "signalled" /\ thread'[v] = "signalled" => u = v
    <3>1. \/ thread' = thread
          \/ \E value \in {"faulted", "signalled", "runs"} : thread' = [thread EXCEPT ![t] = value]
      <4>1. CASE kind = "fault"
        BY <4>1 DEF Event, Raise
      <4>2. CASE kind # "fault"
        <5>1. \/ thread' = thread
              \/ thread' = [thread EXCEPT ![t] = IF kind \in {"abort", "throw", "nsexception"}
                                                THEN "signalled" ELSE @]
          BY <4>2 DEF Event
        <5>2. thread[t] = "runs"
          BY DEF Event, Runs
        <5> QED BY <5>1, <5>2
      <4> QED BY <4>1, <4>2
    <3>2. \A u \in Threads : u # t => thread'[u] # "signalled"
      BY <1>0, <1>4, <3>1 DEF TypeOK
    <3> QED BY <3>2
  <2>4. CASE kind = "fault" /\ ports = "ours"
    <3>1. thread' = [thread EXCEPT ![t] = "faulted"] /\ queue' = Append(queue, t)
      BY <2>4 DEF Event, Raise
    <3>2. queue' = <<t>> /\ Tail(<<t>>) = <<>>
      BY <3>1 DEF Quiet
    <3>3. \A u \in Threads : thread'[u] # "signalled"
      BY <1>0, <1>4, <3>1 DEF TypeOK
    <3> QED BY <1>1, <1>2, <2>1, <2>2, <2>4, <3>2, <3>3 DEF OneHandler, Signalled, Quiet
  <2>5. CASE ~(kind = "fault" /\ ports = "ours")
    <3>1. queue' = <<>>
      BY <2>5 DEF Event, Raise, Quiet
    <3> QED BY <1>1, <1>2, <2>1, <2>2, <2>3, <3>1 DEF OneHandler, Signalled
  <2> QED BY <2>4, <2>5
<1>6. CASE frames' # frames
  <2>1. Push(t, FirstFrame(t, kind)) /\ thread' = thread /\ queue' = queue
    BY <1>6 DEF Event
  <2> DEFINE first == IF kind = "nsexception" /\ "cpp" \in enabled THEN "passon" ELSE kind
             f == FirstFrame(t, kind)
  <2>2. f \in Handlers
    BY <1>0, FirstSteps
  <2>3. f = Frame(first, FirstStep(first), t)
    BY DEF FirstFrame
  <2> HIDE DEF f, first
  <2>4. f.kind = first /\ f.pc = FirstStep(first)
    BY <2>3 DEF Frame
  <2>5. f.pc \in {"suspend", "check", "context"} /\ (f.kind = "passon" => f.pc = "suspend")
        /\ (f.pc = "context" => ~Fatal(f.kind))
    BY <2>4 DEF FirstStep, Suspends
  <2>6. Above(frames, frames', t, Len(frames[t]) + 1, f)
    BY <1>0, <2>1, <2>2, PushMoves DEF TypeOK, f
  <2>7. Len(frames[t]) + 1 = 1
    <3>1. Len(<<>>) = 0
      BY EmptySeq
    <3> QED BY <1>0, <1>4, <3>1
  <2>8. frames'[t] # <<>> /\ Len(frames'[t]) = 1 /\ frames'[t][1] = f /\ \A u \in Threads : u # t => frames'[u] = <<>>
    BY <1>0, <1>4, <2>6, <2>7 DEF Above
  <2>9. OneHandler'
    BY <1>1, <1>4, <2>1, <2>8 DEF OneHandler, Signalled, Quiet
  <2>10. Reporting(f, g_handlingFatalException', reports')
    BY <1>1, <2>5 DEF Reporting, Announced
  <2>11. BeforeReport'
    BY <1>1, <1>3, <2>8, <2>10 DEF BeforeReport, Quiet
  <2> QED BY <1>2, <2>9, <2>11
<1> QED BY <1>5, <1>6

\* What the kernel does before there is a report: it hands the event to its handler.
LEMMA BeforeKernel ==
  ASSUME TypeOK, OneHandler, BeforeReport
  PROVE  /\ \A t \in Threads : Deliver(t) => OneHandler' /\ BeforeReport' /\ reports' = reports
         /\ \A m \in MachThreads : Receive(m) => OneHandler' /\ BeforeReport' /\ reports' = reports
         /\ \A m \in MachThreads : ~Cancel(m)
<1>a. ASSUME NEW t \in Threads, NEW kind \in {"signal", "mach"}, NEW v \in Threads,
             Push(t, Frame(kind, "suspend", v)), \A u \in Threads : frames[u] = <<>>,
             enabled' = enabled, cancelled' = cancelled, events' = events, app' = app,
             g_handlingFatalException' = g_handlingFatalException,
             g_crashedDuringExceptionHandling' = g_crashedDuringExceptionHandling,
             reports' = reports, queue' = <<>>, \A u \in Threads : thread'[u] # "signalled"
      PROVE  OneHandler' /\ BeforeReport'
  <2> DEFINE f == Frame(kind, "suspend", v)
  <2>1. f \in Handlers
    BY FrameIsAHandler, FirstSteps DEF Pcs
  <2>2. f.kind = kind /\ f.pc = "suspend"
    BY DEF Frame
  <2>3. Push(t, f)
    BY <1>a
  <2> HIDE DEF f
  <2>4. Above(frames, frames', t, Len(frames[t]) + 1, f)
    BY <2>1, <2>3, PushMoves DEF TypeOK
  <2>5. Len(frames[t]) + 1 = 1
    <3>1. Len(<<>>) = 0
      BY EmptySeq
    <3> QED BY <1>a, <3>1
  <2>6. /\ frames'[t] # <<>> /\ Len(frames'[t]) = 1 /\ frames'[t][1] = f
        /\ \A u \in Threads : u # t => frames'[u] = <<>>
    BY <1>a, <2>4, <2>5 DEF Above
  <2>7. OneHandler'
    BY <1>a, <2>6 DEF OneHandler, Signalled
  <2>8. ~g_handlingFatalException'
    BY <1>a DEF BeforeReport
  <2>9. Reporting(f, g_handlingFatalException', reports')
    BY <1>a, <2>2 DEF Reporting, Announced
  <2>10. BeforeReport'
    BY <1>a, <2>6, <2>8, <2>9 DEF BeforeReport
  <2> QED BY <2>7, <2>10
<1>1. ASSUME NEW t \in Threads, Deliver(t)
      PROVE  OneHandler' /\ BeforeReport' /\ reports' = reports
  <2>1. /\ Signalled /\ thread[t] = "signalled" /\ queue = <<>> /\ \A u \in Threads : frames[u] = <<>>
    BY <1>1 DEF Deliver, Signalled, OneHandler
  <2>2. /\ queue' = <<>> /\ enabled' = enabled /\ cancelled' = cancelled /\ reports' = reports /\ events' = events
        /\ g_handlingFatalException' = g_handlingFatalException
        /\ g_crashedDuringExceptionHandling' = g_crashedDuringExceptionHandling
    BY <1>1, <2>1 DEF Deliver, flags, files, hist
  <2>3. CASE "signal" \in enabled
    <3>1. \A i \in DOMAIN frames[t] : FALSE
      BY <2>1
    <3>2. Push(t, Frame("signal", "suspend", t)) /\ thread' = [thread EXCEPT ![t] = "runs"] /\ app' = app
      BY <1>1, <2>3, <3>1 DEF Deliver
    <3>3. \A u \in Threads : thread'[u] # "signalled"
      BY <2>1, <3>2 DEF TypeOK, OneHandler
    <3> QED BY <1>a, <2>1, <2>2, <3>2, <3>3
  <2>4. CASE "signal" \notin enabled
    <3>1. frames' = frames /\ thread' = thread /\ app' = "exited"
      BY <1>1, <2>4 DEF Deliver
    <3>2. OneHandler'
      BY <2>1, <2>2, <3>1 DEF OneHandler, Signalled
    <3>3. BeforeReport'
      BY <2>1, <2>2, <2>4, <3>1 DEF BeforeReport
    <3> QED BY <2>2, <3>2, <3>3
  <2> QED BY <2>3, <2>4
<1>2. ASSUME NEW m \in MachThreads, Receive(m)
      PROVE  OneHandler' /\ BeforeReport' /\ reports' = reports
  <2>1. /\ queue # <<>> /\ Tail(queue) = <<>> /\ "mach" \in enabled /\ \A u \in Threads : frames[u] = <<>>
    BY <1>2 DEF Receive, OneHandler
  <2>2. m \in Threads /\ Head(queue) \in Threads
    BY <2>1, HeadTailProperties DEF Threads, TypeOK
  <2>3. /\ queue' = <<>> /\ enabled' = enabled /\ cancelled' = cancelled /\ reports' = reports /\ events' = events
        /\ g_handlingFatalException' = g_handlingFatalException
        /\ g_crashedDuringExceptionHandling' = g_crashedDuringExceptionHandling
        /\ app' = app /\ thread' = [thread EXCEPT ![m] = "runs"]
        /\ Push(m, Frame("mach", "suspend", Head(queue)))
    BY <1>2, <2>1 DEF Receive, flags, files, hist
  <2>4. ~Signalled
    BY <2>1 DEF OneHandler
  <2>5. \A u \in Threads : thread'[u] # "signalled"
    BY <2>3, <2>4 DEF Signalled, TypeOK
  <2> QED BY <1>a, <2>1, <2>2, <2>3, <2>5
<1>3. \A m \in MachThreads : ~Cancel(m)
  BY DEF Cancel, BeforeReport
<1> QED BY <1>1, <1>2, <1>3

\* The handler's way to its report.
LEMMA BeforeStep ==
  ASSUME TypeOK, OneHandler, BeforeReport, ~Written, NEW t \in Threads, Step(t), ~Written'
  PROVE  OneHandler' /\ BeforeReport'
<1> USE DEF flags, files, hist, Ids
<1>0. frames[t] # <<>>
  BY DEF Step, suspendEnvironment, suspended_, notifyCheck, notifySet, restoreExceptionPorts, recrash,
         onCrash, closeReport, handleExceptionTail, resumeEnvironment, after, At
<1> DEFINE f == Top(t)
<1>1. /\ Len(frames[t]) = 1 /\ f = frames[t][1] /\ f \in Handlers /\ queue = <<>> /\ ~Signalled
      /\ \A u \in Threads : u # t => frames[u] = <<>>
  BY <1>0, TheHandler
<1>2. Reporting(f, g_handlingFatalException, reports) /\ ~g_crashedDuringExceptionHandling
  BY <1>0, <1>1 DEF BeforeReport, OneHandler
<1>3. g_handlingFatalException => f.pc \in Announced
  BY <1>1 DEF BeforeReport
<1>a. /\ "check" \in Pcs /\ "set" \in Pcs /\ "restore" \in Pcs /\ "context" \in Pcs
      /\ "write" \in Pcs /\ "rewrite" \in Pcs /\ "tail" \in Pcs /\ "resume" \in Pcs
  BY DEF Pcs
<1>4. CASE suspendEnvironment(t)
  <2>1. PICK u \in Others(t) \ f.todo : SetTop(t, [f EXCEPT !.todo = @ \cup {u}])
    BY <1>4 DEF suspendEnvironment
  <2> DEFINE todo == f.todo \cup {u}
             g == [f EXCEPT !.todo = todo]
  <2>2. todo \in SUBSET AppThreads /\ SetTop(t, [f EXCEPT !.todo = todo])
    BY <1>1, <2>1, HandlerChanges DEF Others
  <2>3. g.pc = f.pc /\ g.kind = f.kind /\ g.id = f.id
    BY <1>1 DEF Handlers
  <2>4. Above(frames, frames', t, Len(frames[t]), g)
    <3> HIDE DEF todo
    <3> QED BY <1>0, <2>2, HoldsMoves
  <2>5. Reporting(g, g_handlingFatalException', reports') /\ (g_handlingFatalException' => g.pc \in Announced)
    BY <1>2, <1>3, <1>4, <2>3 DEF Reporting, suspendEnvironment
  <2> HIDE DEF g
  <2> QED BY <1>0, <1>2, <1>4, <2>4, <2>5, BeforeMoves DEF suspendEnvironment
<1>5. CASE suspended_(t)
  <2> DEFINE pc == IF f.kind = "passon" THEN "resume" ELSE IF Fatal(f.kind) THEN "check" ELSE "context"
             g == [f EXCEPT !.pc = pc]
  <2>1. GoTo(t, pc) /\ pc \in Pcs /\ f.pc = "suspend"
    BY <1>5, <1>a DEF suspended_, At
  <2>2. g.pc = pc /\ g.kind = f.kind
    BY <1>1 DEF Handlers
  <2>3. Above(frames, frames', t, Len(frames[t]), g)
    <3> HIDE DEF pc
    <3> QED BY <1>0, <2>1, GoToMoves
  <2>4. ~g_handlingFatalException'
    BY <1>3, <1>5, <2>1 DEF Announced, suspended_
  <2>5. Reporting(g, g_handlingFatalException', reports')
    BY <2>2 DEF Reporting, Announced
  <2> HIDE DEF g, pc
  <2> QED BY <1>0, <1>2, <1>5, <2>3, <2>4, <2>5, BeforeMoves DEF suspended_
<1>6. CASE notifyCheck(t)
  <2> DEFINE g == [f EXCEPT !.pc = "set"]
  <2>1. GoTo(t, "set") /\ f.pc = "check"
    BY <1>6 DEF notifyCheck, At
  <2>2. g.pc = "set" /\ g.kind = f.kind /\ f.kind # "passon"
    BY <1>1, <1>2, <2>1 DEF Handlers, Reporting
  <2>3. Above(frames, frames', t, Len(frames[t]), g)
    BY <1>0, <1>a, <2>1, GoToMoves
  <2>4. ~g_handlingFatalException
    BY <1>3, <2>1 DEF Announced
  <2>5. ~g_handlingFatalException' /\ ~g_crashedDuringExceptionHandling'
    BY <1>2, <1>6, <2>4 DEF notifyCheck
  <2>6. Reporting(g, g_handlingFatalException', reports')
    BY <2>2 DEF Reporting, Announced
  <2> HIDE DEF g
  <2> QED BY <1>0, <1>6, <2>3, <2>5, <2>6, BeforeMoves DEF notifyCheck
<1>7. CASE notifySet(t)
  <2> DEFINE next == IF f.kind = "mach" THEN "restore" ELSE "context"
             g == [f EXCEPT !.pc = next]
  <2>1. /\ GoTo(t, next) /\ f.pc = "set" /\ next \in Pcs
        /\ UNCHANGED <<enabled, ports, thread, cancelled>> /\ g_handlingFatalException' = TRUE
    BY <1>2, <1>7, <1>a DEF notifySet, At
  <2>2. g.pc = next /\ g.kind = f.kind /\ f.kind # "passon" /\ next \in Announced /\ next # "write"
    BY <1>1, <1>2, <2>1 DEF Handlers, Reporting, Announced
  <2>3. Above(frames, frames', t, Len(frames[t]), g)
    <3> HIDE DEF next
    <3> QED BY <1>0, <2>1, GoToMoves
  <2>4. Reporting(g, g_handlingFatalException', reports')
    BY <2>1, <2>2 DEF Reporting, Announced
  <2> HIDE DEF g, next
  <2> QED BY <1>0, <1>2, <1>7, <2>1, <2>2, <2>3, <2>4, BeforeMoves DEF notifySet
<1>8. CASE restoreExceptionPorts(t)
  <2> DEFINE g == [f EXCEPT !.pc = "context"]
  <2>1. GoTo(t, "context") /\ f.pc = "restore"
    BY <1>8 DEF restoreExceptionPorts, At
  <2>2. g.pc = "context" /\ g.kind = f.kind /\ f.kind # "passon" /\ (Fatal(f.kind) => g_handlingFatalException)
    BY <1>1, <1>2, <2>1 DEF Handlers, Reporting, Announced
  <2>3. Above(frames, frames', t, Len(frames[t]), g)
    BY <1>0, <1>a, <2>1, GoToMoves
  <2>4. Reporting(g, g_handlingFatalException', reports') /\ g.pc \in Announced
    BY <1>8, <2>2 DEF Reporting, Announced, restoreExceptionPorts
  <2> HIDE DEF g
  <2> QED BY <1>0, <1>2, <1>8, <2>3, <2>4, BeforeMoves DEF restoreExceptionPorts
<1>9. ~recrash(t)
  BY <1>2 DEF recrash
<1>10. CASE onCrash(t)
  <2> DEFINE g == [f EXCEPT !.pc = "write", !.id = nextID]
  <2>1. SetTop(t, [f EXCEPT !.pc = "write", !.id = nextID]) /\ f.pc = "context" /\ nextID \in 1 .. MaxReports
    BY <1>10 DEF onCrash, At
  <2>2. nextID \in 0 .. MaxReports
    BY <2>1, EventsAssumption
  <2>3. g.pc = "write" /\ g.kind = f.kind /\ g.id = nextID /\ f.kind # "passon"
        /\ (Fatal(f.kind) => g_handlingFatalException)
    BY <1>1, <1>2, <2>1 DEF Handlers, Reporting, Announced
  <2>4. Above(frames, frames', t, Len(frames[t]), g)
    BY <1>0, <1>a, <2>1, <2>2, GoToReport
  <2>5. reports'[nextID] = "open"
    BY <1>10, <2>1 DEF onCrash, TypeOK
  <2>6. Reporting(g, g_handlingFatalException', reports') /\ g.pc \in Announced
    BY <1>10, <2>1, <2>3, <2>5 DEF Reporting, Announced, onCrash
  <2> HIDE DEF g
  <2> QED BY <1>0, <1>2, <1>10, <2>4, <2>6, BeforeMoves DEF onCrash
<1>11. ~closeReport(t)
  <2> SUFFICES ASSUME closeReport(t) PROVE FALSE
    OBVIOUS
  <2>1. f.pc \in {"write", "rewrite"}
    BY DEF closeReport, At
  <2>2. f.id \in Ids /\ reports[f.id] = "open"
    BY <1>2, <2>1 DEF Reporting, Announced
  <2>3. reports'[f.id] = "complete"
    BY <2>2 DEF closeReport, TypeOK
  <2> QED BY <2>2, <2>3 DEF Written
<1>12. ~handleExceptionTail(t)
  BY <1>2 DEF handleExceptionTail, At, Reporting, Announced
<1>13. CASE resumeEnvironment(t)
  <2>1. PICK u \in f.todo : SetTop(t, [f EXCEPT !.todo = @ \ {u}])
    BY <1>13 DEF resumeEnvironment
  <2> DEFINE todo == f.todo \ {u}
             g == [f EXCEPT !.todo = todo]
  <2>2. todo \in SUBSET AppThreads /\ SetTop(t, [f EXCEPT !.todo = todo])
    BY <1>1, <2>1, HandlerChanges
  <2>3. g.pc = f.pc /\ g.kind = f.kind /\ g.id = f.id
    BY <1>1 DEF Handlers
  <2>4. Above(frames, frames', t, Len(frames[t]), g)
    <3> HIDE DEF todo
    <3> QED BY <1>0, <2>2, HoldsMoves
  <2>5. Reporting(g, g_handlingFatalException', reports') /\ (g_handlingFatalException' => g.pc \in Announced)
    BY <1>2, <1>3, <1>13, <2>3 DEF Reporting, resumeEnvironment
  <2> HIDE DEF g
  <2> QED BY <1>0, <1>2, <1>13, <2>4, <2>5, BeforeMoves DEF resumeEnvironment
<1>14. CASE after(t)
  <2>1. f.pc = "resume" /\ f.kind = "passon" /\ ~g_handlingFatalException
    BY <1>2, <1>3, <1>14 DEF after, At, Reporting, Announced
  <2>2. CASE "nsexception" \in enabled
    <3> DEFINE g == Frame("nsexception", "suspend", t)
    <3>1. Above(frames, frames', t, Len(frames[t]), g)
      BY <1>14, <2>1, <2>2, AfterStacks
    <3>2. g.pc = "suspend" /\ g.kind = "nsexception"
      BY DEF Frame
    <3>3. Reporting(g, g_handlingFatalException', reports') /\ ~g_handlingFatalException'
      BY <1>14, <2>1, <3>2 DEF Reporting, Announced, after
    <3>4. thread' = thread
      BY <1>14, <2>1, <2>2 DEF after
    <3> HIDE DEF g
    <3> QED BY <1>0, <1>2, <1>14, <3>1, <3>3, <3>4, BeforeMoves DEF after
  <2>3. CASE "nsexception" \notin enabled
    <3>1. frames' = [frames EXCEPT ![t] = Front(frames[t])]
      BY <1>14, <2>3 DEF after
    <3>2. Front(frames[t]) = <<>>
      <4> DEFINE q == frames[t]
      <4>1. q \in Seq(Handlers) /\ q # <<>> /\ Len(q) = 1
        BY <1>0, <1>1 DEF TypeOK
      <4> HIDE DEF q
      <4>2. Front(q) \in Seq(Handlers) /\ Len(Front(q)) = 0
        BY <4>1, TopEnds
      <4>3. Front(q) = <<>>
        BY <4>2, EmptySeq
      <4> QED BY <4>3 DEF q
    <3>3. \A u \in Threads : frames'[u] = <<>>
      BY <1>1, <3>1, <3>2 DEF TypeOK
    <3>4. thread' = [thread EXCEPT ![t] = "signalled"]
      BY <1>14, <2>1, <2>3 DEF after
    <3>5. \A u \in Threads : thread'[u] = "signalled" => u = t
      BY <1>1, <3>4 DEF Signalled, TypeOK
    <3>6. OneHandler'
      BY <1>1, <1>2, <1>14, <3>3, <3>5 DEF OneHandler, after
    <3>7. BeforeReport'
      BY <1>14, <2>1, <3>3 DEF BeforeReport, after
    <3> QED BY <3>6, <3>7
  <2> QED BY <2>2, <2>3
<1> QED BY <1>4, <1>5, <1>6, <1>7, <1>8, <1>9, <1>10, <1>11, <1>12, <1>13, <1>14 DEF Step


\* The report is finished; then the handler is at its end.
LEMMA ReportFinished ==
  ASSUME TypeOK, OneHandler, BeforeReport, ~Written, NEW t \in Threads, Step(t), Written'
  PROVE  OneHandler' /\ AfterReport'
<1> USE DEF flags, files, hist, Ids
<1>0. frames[t] # <<>>
  BY DEF Step, suspendEnvironment, suspended_, notifyCheck, notifySet, restoreExceptionPorts, recrash,
         onCrash, closeReport, handleExceptionTail, resumeEnvironment, after, At
<1> DEFINE f == Top(t)
<1>1. /\ Len(frames[t]) = 1 /\ f = frames[t][1] /\ f \in Handlers /\ queue = <<>> /\ ~Signalled
      /\ \A u \in Threads : u # t => frames[u] = <<>>
  BY <1>0, TheHandler
<1>2. Reporting(f, g_handlingFatalException, reports) /\ ~g_crashedDuringExceptionHandling
  BY <1>0, <1>1 DEF BeforeReport, OneHandler
<1>3. closeReport(t)
  <2>1. reports' = reports \/ reports' = [reports EXCEPT ![nextID] = "open"] \/ closeReport(t)
    BY <1>2 DEF Step, suspendEnvironment, suspended_, notifyCheck, notifySet, restoreExceptionPorts, recrash,
                onCrash, handleExceptionTail, resumeEnvironment, after
  <2>2. reports' # reports
    BY DEF Written
  <2>3. reports' # [reports EXCEPT ![nextID] = "open"]
    <3> SUFFICES ASSUME reports' = [reports EXCEPT ![nextID] = "open"] PROVE FALSE
      OBVIOUS
    <3>1. \A i \in Ids : reports'[i] \in {reports[i], "open"}
      BY DEF TypeOK
    <3> QED BY <3>1 DEF Written
  <2> QED BY <2>1, <2>2, <2>3
<1>4. "tail" \in Pcs
  BY DEF Pcs
<1> DEFINE g == [f EXCEPT !.pc = "tail"]
<1>5. GoTo(t, "tail") /\ f.pc \in {"write", "rewrite"}
  BY <1>3 DEF closeReport, At
<1>6. f.kind # "passon" /\ (Fatal(f.kind) => g_handlingFatalException)
  BY <1>2, <1>5 DEF Reporting, Announced
<1>7. g.pc = "tail" /\ g.kind = f.kind
  BY <1>1 DEF Handlers
<1>8. Above(frames, frames', t, Len(frames[t]), g)
  BY <1>0, <1>4, <1>5, GoToMoves
<1>9. Reported(g, g_handlingFatalException', enabled')
  BY <1>3, <1>6, <1>7 DEF Reported, closeReport
<1> HIDE DEF g
<1>10. /\ OneHandler' /\ ~Signalled' /\ frames'[t] # <<>> /\ frames'[t][1] = g
       /\ \A u \in Threads : u # t => frames'[u] = <<>>
  <2>1. queue' = queue /\ ~g_crashedDuringExceptionHandling' /\ thread' = thread
    BY <1>2, <1>3 DEF closeReport
  <2> QED BY <1>0, <1>8, <2>1, OneMoves
<1>11. queue' = <<>>
  BY <1>1, <1>3 DEF closeReport
<1> QED BY <1>9, <1>10, <1>11 DEF AfterReport

\* The kernel, once the report is finished: no handler is left, and the process ends.
LEMMA AfterKernel ==
  ASSUME TypeOK, OneHandler, AfterReport
  PROVE  /\ \A t \in Threads : Deliver(t) => OneHandler' /\ AfterReport' /\ reports' = reports
         /\ \A m \in MachThreads : ~Receive(m) /\ ~Cancel(m)
<1>1. ASSUME NEW t \in Threads, Deliver(t)
      PROVE  OneHandler' /\ AfterReport' /\ reports' = reports
  <2>1. Signalled
    BY <1>1 DEF Deliver, Signalled
  <2>2. enabled = {} /\ \A u \in Threads : frames[u] = <<>>
    BY <2>1 DEF AfterReport, OneHandler
  <2>3. /\ frames' = frames /\ thread' = thread /\ queue' = queue /\ enabled' = enabled /\ reports' = reports
        /\ g_handlingFatalException' = g_handlingFatalException
        /\ g_crashedDuringExceptionHandling' = g_crashedDuringExceptionHandling
    BY <1>1, <2>2 DEF Deliver, flags, files
  <2>4. OneHandler'
    BY <2>3 DEF OneHandler, Signalled
  <2>5. AfterReport'
    BY <2>3 DEF AfterReport, Signalled
  <2> QED BY <2>3, <2>4, <2>5
<1>2. ASSUME NEW m \in MachThreads
      PROVE  ~Receive(m) /\ ~Cancel(m)
  <2>1. m \in Threads
    BY DEF Threads
  <2>2. ~Receive(m)
    BY DEF Receive, AfterReport
  <2>3. ASSUME Cancel(m) PROVE FALSE
    <3>1. frames[m] # <<>> /\ Top(m).pc \in {"write", "rewrite"}
      BY <2>3 DEF Cancel
    <3>2. Top(m) = frames[m][1]
      BY <2>1, <3>1, TheHandler
    <3> QED BY <2>1, <3>1, <3>2 DEF AfterReport, Reported
  <2> QED BY <2>2, <2>3
<1> QED BY <1>1, <1>2

\* The handler's end: everything is uninstalled before a fatal event goes on.
LEMMA AfterStep ==
  ASSUME TypeOK, OneHandler, AfterReport, NEW t \in Threads, Step(t)
  PROVE  OneHandler' /\ AfterReport' /\ reports' = reports
<1> USE DEF flags, files, hist, Ids
<1>0. frames[t] # <<>>
  BY DEF Step, suspendEnvironment, suspended_, notifyCheck, notifySet, restoreExceptionPorts, recrash,
         onCrash, closeReport, handleExceptionTail, resumeEnvironment, after, At
<1> DEFINE f == Top(t)
<1>1. /\ Len(frames[t]) = 1 /\ f = frames[t][1] /\ f \in Handlers /\ queue = <<>> /\ ~Signalled
      /\ \A u \in Threads : u # t => frames[u] = <<>>
  BY <1>0, TheHandler
<1>2. Reported(f, g_handlingFatalException, enabled) /\ ~g_crashedDuringExceptionHandling
  BY <1>0, <1>1 DEF AfterReport, OneHandler
<1>3. "resume" \in Pcs
  BY DEF Pcs
<1>a. ASSUME NEW g, Above(frames, frames', t, Len(frames[t]), g),
             Reported(g, g_handlingFatalException', enabled'), queue' = queue,
             ~g_crashedDuringExceptionHandling',
             \A u \in Threads : thread'[u] = "signalled" => thread[u] = "signalled"
      PROVE  OneHandler' /\ AfterReport'
  <2>1. /\ OneHandler' /\ ~Signalled' /\ frames'[t] # <<>> /\ frames'[t][1] = g
        /\ \A u \in Threads : u # t => frames'[u] = <<>>
    BY <1>0, <1>a, OneMoves
  <2> QED BY <1>a, <1>1, <2>1 DEF AfterReport
<1>4. CASE handleExceptionTail(t)
  <2> DEFINE g == [f EXCEPT !.pc = "resume"]
  <2>1. g.pc = "resume" /\ g.kind = f.kind /\ f.kind # "passon" /\ f.pc = "tail"
    BY <1>1, <1>2, <1>4 DEF Handlers, Reported, handleExceptionTail, At
  <2>2. queue' = queue /\ ~g_crashedDuringExceptionHandling' /\ reports' = reports
    BY <1>2, <1>4 DEF handleExceptionTail
  <2>3. CASE f.kind # "snapshot" /\ g_handlingFatalException
    <3>1. DisableAll(t, "resume")
      BY <1>2, <1>4, <2>3 DEF handleExceptionTail
    <3>2. /\ enabled' = {} /\ frames' \in [Threads -> Seq(Handlers)]
          /\ \A u \in Threads : thread'[u] \in {thread[u], "gone"}
          /\ Len(frames'[t]) = Len(frames[t]) /\ DOMAIN frames'[t] = 1 .. Len(frames[t])
          /\ frames'[t] # <<>> /\ frames'[t][Len(frames[t])] = g
          /\ \A i \in 1 .. Len(frames[t]) - 1 : frames'[t][i] = frames[t][i]
          /\ \A u \in Threads : u # t => frames'[u] \in {frames[u], <<>>}
      BY <1>0, <1>3, <3>1, DisableMoves
    <3> HIDE DEF g
    <3>3. Above(frames, frames', t, Len(frames[t]), g)
      BY <1>1, <3>2 DEF Above
    <3>4. Reported(g, g_handlingFatalException', enabled')
      BY <2>1, <3>2 DEF Reported
    <3>5. \A u \in Threads : thread'[u] = "signalled" => thread[u] = "signalled"
      BY <3>2
    <3> QED BY <1>a, <2>2, <3>3, <3>4, <3>5
  <2>4. CASE ~(f.kind # "snapshot" /\ g_handlingFatalException)
    <3>1. GoTo(t, "resume") /\ enabled' = enabled /\ thread' = thread
      BY <1>4, <2>4 DEF handleExceptionTail
    <3>2. Above(frames, frames', t, Len(frames[t]), g)
      BY <1>0, <1>3, <3>1, GoToMoves
    <3>3. Reported(g, g_handlingFatalException', enabled')
      BY <1>2, <2>1, <2>4 DEF Reported
    <3> HIDE DEF g
    <3> QED BY <1>a, <2>2, <3>1, <3>2, <3>3
  <2> QED BY <2>3, <2>4
<1>5. CASE resumeEnvironment(t)
  <2>1. PICK u \in f.todo : SetTop(t, [f EXCEPT !.todo = @ \ {u}])
    BY <1>5 DEF resumeEnvironment
  <2> DEFINE todo == f.todo \ {u}
             g == [f EXCEPT !.todo = todo]
  <2>2. todo \in SUBSET AppThreads /\ SetTop(t, [f EXCEPT !.todo = todo])
    BY <1>1, <2>1, HandlerChanges
  <2>3. g.pc = f.pc /\ g.kind = f.kind
    BY <1>1 DEF Handlers
  <2>4. Above(frames, frames', t, Len(frames[t]), g)
    <3> HIDE DEF todo
    <3> QED BY <1>0, <2>2, HoldsMoves
  <2>5. /\ queue' = queue /\ ~g_crashedDuringExceptionHandling' /\ reports' = reports /\ thread' = thread
        /\ enabled' = enabled /\ g_handlingFatalException' = g_handlingFatalException
    BY <1>2, <1>5 DEF resumeEnvironment
  <2>6. Reported(g, g_handlingFatalException', enabled')
    BY <1>2, <2>3, <2>5 DEF Reported
  <2> HIDE DEF g
  <2> QED BY <1>a, <2>4, <2>5, <2>6
<1>6. CASE after(t)
  <2>1. f.pc = "resume" /\ f.kind # "passon"
    BY <1>2, <1>6 DEF after, At, Reported
  <2>2. frames' = [frames EXCEPT ![t] = Front(frames[t])]
    BY <1>6, <2>1 DEF after
  <2>3. Front(frames[t]) = <<>>
    <3> DEFINE q == frames[t]
    <3>1. q \in Seq(Handlers) /\ q # <<>> /\ Len(q) = 1
      BY <1>0, <1>1 DEF TypeOK
    <3> HIDE DEF q
    <3>2. Front(q) \in Seq(Handlers) /\ Len(Front(q)) = 0
      BY <3>1, TopEnds
    <3>3. Front(q) = <<>>
      BY <3>2, EmptySeq
    <3> QED BY <3>3 DEF q
  <2>4. \A u \in Threads : frames'[u] = <<>>
    BY <1>1, <2>2, <2>3 DEF TypeOK
  <2>5. /\ queue' = <<>> /\ enabled' = enabled /\ reports' = reports /\ ~g_crashedDuringExceptionHandling'
    BY <1>1, <1>2, <1>6 DEF after
  <2>6. f.victim \in Threads
    BY <1>1, HandlerChanges
  <2>7. CASE f.kind \in {"report", "reportall", "snapshot"}
    <3>1. thread' = thread
      BY <1>6, <2>7 DEF after
    <3>2. ~Signalled'
      BY <1>1, <3>1 DEF Signalled
    <3> QED BY <2>4, <2>5, <3>2 DEF OneHandler, AfterReport, Signalled
  <2>8. CASE f.kind \notin {"report", "reportall", "snapshot"}
    <3>1. enabled = {}
      BY <1>2, <2>1, <2>8 DEF Reported, Fatal
    <3>2. \E v \in Threads : \A u \in Threads : thread'[u] = "signalled" => u = v
      <4>1. CASE f.kind = "mach"
        <5>1. thread' = [thread EXCEPT ![t] = "gone",
                           ![f.victim] = IF @ = "faulted" THEN "signalled" ELSE @]
          BY <1>6, <4>1 DEF after
        <5>2. \A u \in Threads : thread'[u] = "signalled" => u = f.victim
          BY <1>1, <5>1 DEF Signalled, TypeOK
        <5> QED BY <2>6, <5>2
      <4>2. CASE f.kind # "mach"
        <5>1. thread' = [thread EXCEPT ![t] = "signalled"]
          BY <1>6, <2>1, <2>8, <4>2 DEF after
        <5>2. \A u \in Threads : thread'[u] = "signalled" => u = t
          BY <1>1, <5>1 DEF Signalled, TypeOK
        <5> QED BY <5>2
      <4> QED BY <4>1, <4>2
    <3>3. OneHandler'
      BY <2>4, <2>5, <3>2 DEF OneHandler, Signalled
    <3>4. AfterReport'
      BY <2>4, <2>5, <3>1 DEF AfterReport
    <3> QED BY <2>5, <3>3, <3>4
  <2> QED BY <2>5, <2>7, <2>8
<1>7. /\ ~suspendEnvironment(t) /\ ~suspended_(t) /\ ~notifyCheck(t) /\ ~notifySet(t) /\ ~recrash(t)
      /\ ~restoreExceptionPorts(t) /\ ~onCrash(t) /\ ~closeReport(t)
  BY <1>2 DEF suspendEnvironment, suspended_, notifyCheck, notifySet, restoreExceptionPorts, recrash,
              onCrash, closeReport, At, Reported
<1> QED BY <1>4, <1>5, <1>6, <1>7 DEF Step

\* One event and no fault: its handler is the only one, before its report and after.
LEMMA LoneNext ==
  ASSUME TypeOK, TypeOK', LoneInv, [Next]_vars
  PROVE  LoneInv'
<1>1. CASE UNCHANGED vars
  <2>1. /\ events' = events /\ faults' = faults /\ app' = app /\ enabled' = enabled /\ ports' = ports
        /\ queue' = queue /\ thread' = thread /\ frames' = frames /\ cancelled' = cancelled /\ reports' = reports
        /\ g_handlingFatalException' = g_handlingFatalException
        /\ g_crashedDuringExceptionHandling' = g_crashedDuringExceptionHandling
    BY <1>1 DEF vars, flags, files, hist
  <2> QED BY <2>1 DEF LoneInv, Quiet, OneHandler, Signalled, Written, AfterReport, BeforeReport
<1>2. CASE Next /\ events = <<>>
  <2>1. Quiet
    BY <1>2 DEF LoneInv
  <2>2. \A t \in Threads : frames[t] = <<>> /\ thread[t] # "signalled"
    BY <2>1 DEF Quiet
  <2>3. \A t \in Threads : ~HandlerFault(t) /\ ~Deliver(t) /\ ~Step(t)
    BY <2>2 DEF HandlerFault, Deliver, Step, suspendEnvironment, suspended_, notifyCheck, notifySet,
                restoreExceptionPorts, recrash, onCrash, closeReport, handleExceptionTail,
                resumeEnvironment, after, At
  <2>4. \A m \in MachThreads : ~Receive(m) /\ ~Cancel(m)
    BY <2>1 DEF Receive, Cancel, Quiet
  <2>5. PICK t \in AppThreads, kind \in Events : Event(t, kind)
    BY <1>2, <2>3, <2>4 DEF Next
  <2>6. OneHandler' /\ BeforeReport' /\ ~Written'
    BY <1>2, <2>1, <2>5, FirstEvent
  <2>7. events' # <<>>
    <3>1. events' = <<[thread |-> t, kind |-> kind, enabled |-> enabled]>>
      BY <1>2, <2>5 DEF Event
    <3> QED BY <3>1
  <2> QED BY <2>6, <2>7 DEF LoneInv
<1>3. CASE Next /\ events # <<>>
  <2>1. events \in Seq(Met) /\ Len(events) \in Nat \ {0} /\ faults \in Nat
    BY <1>3, EmptySeq, LenProperties DEF TypeOK
  <2>2. ASSUME NEW t \in AppThreads, NEW kind \in Events, Event(t, kind)
        PROVE  LoneInv'
    <3> DEFINE e == [thread |-> t, kind |-> kind, enabled |-> enabled]
    <3>1. e \in Met
      BY DEF Met, TypeOK
    <3>2. events' = Append(events, e)
      BY <2>2 DEF Event
    <3> HIDE DEF e
    <3>3. Len(events') = Len(events) + 1
      BY <2>1, <3>1, <3>2, AppendProperties
    <3>4. Len(events') # 1
      BY <2>1, <3>3
    <3>5. events' # <<>>
      BY <2>1, <3>3, EmptySeq
    <3> QED BY <3>4, <3>5 DEF LoneInv
  <2>3. ASSUME NEW t \in Threads, HandlerFault(t)
        PROVE  LoneInv'
    <3>1. events' # <<>> /\ faults' = faults + 1
      BY <1>3, <2>3 DEF HandlerFault
    <3>2. faults' # 0
      BY <2>1, <3>1
    <3> QED BY <3>1, <3>2 DEF LoneInv
  <2>4. ASSUME NEW t \in Threads, Step(t) \/ Deliver(t) \/ (t \in MachThreads /\ (Receive(t) \/ Cancel(t)))
        PROVE  LoneInv'
    <3>1. events' = events /\ faults' = faults
      BY <2>4 DEF Deliver, Receive, Cancel, Step, suspendEnvironment, suspended_, notifyCheck, notifySet,
                  restoreExceptionPorts, recrash, onCrash, closeReport, handleExceptionTail,
                  resumeEnvironment, after, hist
    <3> SUFFICES ASSUME faults = 0, Len(events) = 1
                 PROVE  OneHandler' /\ IF Written' THEN AfterReport' ELSE BeforeReport'
      BY <1>3, <3>1 DEF LoneInv
    <3>2. OneHandler /\ IF Written THEN AfterReport ELSE BeforeReport
      BY DEF LoneInv
    <3>3. ASSUME reports' = reports PROVE Written' = Written
      BY <3>3 DEF Written
    <3>4. CASE Written
      <4>1. OneHandler' /\ AfterReport' /\ reports' = reports
        BY <2>4, <3>2, <3>4, AfterKernel, AfterStep
      <4> QED BY <3>3, <3>4, <4>1
    <3>5. CASE ~Written
      <4>1. CASE Step(t)
        BY <3>2, <3>5, <4>1, BeforeStep, ReportFinished
      <4>2. CASE ~Step(t)
        <5>1. OneHandler' /\ BeforeReport' /\ reports' = reports
          BY <2>4, <3>2, <3>5, <4>2, BeforeKernel
        <5> QED BY <3>3, <3>5, <5>1
      <4> QED BY <4>1, <4>2
    <3> QED BY <3>4, <3>5
  <2>5. MachThreads \subseteq Threads
    BY DEF Threads
  <2> QED BY <1>3, <2>2, <2>3, <2>4, <2>5 DEF Next
<1> QED BY <1>1, <1>2, <1>3

LEMMA LoneLeaves == LoneInv => CrashLeavesReport
<1> SUFFICES ASSUME LoneInv, app = "exited", faults = 0, Len(events) = 1,
                    events[1].enabled \cap {"mach", "signal"} # {}, ~Written
             PROVE  FALSE
  BY DEF CrashLeavesReport, Written
<1>1. BeforeReport
  BY DEF LoneInv
<1>2. "signal" \in enabled /\ "signal" \notin enabled
  BY <1>1 DEF BeforeReport
<1> QED BY <1>2

\* A program that ends after one event, with a monitor for it and no fault in a
\* handler, leaves a complete report, for any number of threads.
THEOREM LeavesAReport == Spec => []CrashLeavesReport
<1>1. Init => TypeOK /\ LoneInv
  BY InitTyped, InitQuiet
<1>2. TypeOK /\ LoneInv /\ [Next]_vars => TypeOK' /\ LoneInv'
  <2> SUFFICES ASSUME TypeOK, LoneInv, [Next]_vars PROVE TypeOK' /\ LoneInv'
    OBVIOUS
  <2>1. TypeOK'
    <3>1. CASE UNCHANGED vars
      BY <3>1 DEF vars, flags, files, hist, TypeOK, Ids
    <3>2. CASE Next
      BY <3>2, TypeOutside, TypeStep DEF Next
    <3> QED BY <3>1, <3>2
  <2> QED BY <2>1, LoneNext
<1>3. LoneInv => CrashLeavesReport
  BY LoneLeaves
<1> QED BY <1>1, <1>2, <1>3, PTL DEF Spec

-----------------------------------------------------------------------------
(* Whose report a failing handler goes on with                             *)

\* Handlers that stop the program for a crash, and those that hold the others.
Kills(f) == Suspends(f.kind) /\ Fatal(f.kind)
Holding(f) == Suspends(f.kind) /\ f.pc \in Stopping
Holds(t) == \E i \in DOMAIN frames[t] : Holding(frames[t][i])

\* A handler has announced its crash; it may fail.
Armed == {"restore", "context", "write", "rewrite", "tail"}
Failing == {"context", "write", "rewrite"}

First(t) == frames[t][1]
PrimaryAt(pcs) == frames["primary"] # <<>> /\ First("primary").pc \in pcs
Restored == Failing \cup {"tail"}
Victim(m) == First(m).victim

\* Whose handler is where in a stack: a Mach exception's is an exception thread's
\* first, and what is above another handler handles the signal of its failure.
Shape ==
  /\ \A t \in Threads : \A i \in DOMAIN frames[t] : i # 1 => frames[t][i].kind = "signal"
  /\ \A t \in Threads : frames[t] # <<>> => (First(t).kind = "mach" <=> t \in MachThreads)
  /\ \A t \in Threads : \A i \in DOMAIN frames[t] : i # Len(frames[t]) => frames[t][i].pc \in Failing
  /\ \A t \in Threads : thread[t] \in {"faulted", "signalled"} =>
       /\ t \in MachThreads => frames[t] # <<>>
       /\ frames[t] # <<>> => Top(t).pc \in Failing
  /\ \A m \in MachThreads : thread[m] = "receives" => frames[m] = <<>>

\* A crash that is handled is announced, and a second one noticed.
Noticed ==
  \A t \in Threads : \A i \in DOMAIN frames[t] : Kills(frames[t][i]) =>
    /\ frames[t][i].pc \in Armed => g_handlingFatalException
    /\ \A j \in DOMAIN frames[t] : i < j =>
         /\ frames[t][j].pc \notin {"suspend", "check"} => g_crashedDuringExceptionHandling
         /\ frames[t][j].pc # "write"

\* The second exception thread sleeps until the first has given the ports back.
Awake ==
  /\ frames["secondary"] # <<>> => suspended["secondary"] = 0
  /\ suspended["secondary"] = 0 => ports = "previous" /\ thread["primary"] # "receives"
  /\ PrimaryAt(Failing) => ports = "previous"
  /\ cancelled # {} => enabled = {}

\* A message is about a thread of the program's that waits for its answer.
Messages ==
  /\ \A k \in DOMAIN queue : queue[k] \in AppThreads /\ thread[queue[k]] = "faulted"
  /\ \A k, l \in DOMAIN queue : queue[k] = queue[l] => k = l
  /\ \A m \in MachThreads : frames[m] # <<>> =>
       /\ Victim(m) \in AppThreads /\ thread[Victim(m)] = "faulted"
       /\ \A k \in DOMAIN queue : queue[k] # Victim(m)
       /\ \A l \in MachThreads : frames[l] # <<>> /\ Victim(l) = Victim(m) => l = m

StacksInv == Shape /\ Noticed /\ Awake /\ Messages

\* Without exception threads a second report may only be a signal handler's above
\* an event that is not fatal; it uninstalls everything before it ends.
NoMach ==
  /\ ports = "previous" /\ queue = <<>>
  /\ \A m \in MachThreads : thread[m] = "gone" /\ frames[m] = <<>>

WritesAsLast(t) ==
  /\ \A i \in DOMAIN frames[t] : Suspends(frames[t][i].kind) /\ frames[t][i].pc = "write" =>
       /\ g_crashedDuringExceptionHandling => enabled = {} \/ Top(t).pc = "set"
       /\ i # 1 => g_lastCrashReportFilePath = frames[t][i].id
  /\ frames[t] # <<>> /\ Suspends(First(t).kind) /\ First(t).pc = "write" =>
       \/ g_lastCrashReportFilePath = First(t).id
       \/ Len(frames[t]) # 1 /\ frames[t][2].pc = "write"
       \/ Len(frames[t]) = 2 /\ frames[t][2].pc = "tail" /\ ~g_crashedDuringExceptionHandling
       \/ Len(frames[t]) = 2 /\ frames[t][2].pc \in {"tail", "resume"} /\ enabled = {}
       \/ Len(frames[t]) = 1 /\ enabled = {}

\* With them, the first alone handles a crash until a second one is noticed ...
FirstAlone ==
  /\ enabled = {} \/ {"mach", "signal"} \subseteq enabled
  /\ frames["secondary"] # <<>> /\ First("secondary").pc \notin {"suspend", "check", "set"} => enabled = {}
  /\ \A i \in DOMAIN frames["secondary"] : frames["secondary"][i].pc # "write"
  /\ ~g_crashedDuringExceptionHandling =>
       /\ enabled # {} => ports = "ours" \/ PrimaryAt(Restored)
       /\ PrimaryAt({"check", "set"} \cup Armed) => g_isHandlingCrash
       /\ PrimaryAt({"resume", "after"}) => enabled = {}
       /\ suspended["secondary"] = 0 =>
            \/ thread["secondary"] = "gone" /\ frames["secondary"] = <<>>
            \/ PrimaryAt(Restored) /\ "mach" \in enabled
       /\ frames["secondary"] # <<>> =>
            Len(frames["secondary"]) = 1 /\ First("secondary").pc \in {"suspend", "check", "after"}
       /\ \A t \in AppThreads :
            /\ frames[t] = <<>> \/ Len(frames[t]) = 1
            /\ thread[t] = "signalled" /\ enabled # {} => frames[t] = <<>>
            /\ PrimaryAt({"set"} \cup Armed) =>
                 \A i \in DOMAIN frames[t] : Kills(frames[t][i]) => frames[t][i].pc \notin Armed

\* ... so that it can only overtake the report of an event that is not fatal.  Then
\* that thread is held until everything is uninstalled: a thread that stopped the
\* others before it failed is the last in the queue.
LastInQueue ==
  /\ \A k \in DOMAIN queue : k # Len(queue) => ~Holds(queue[k])
  /\ frames["primary"] # <<>> /\ Holds(Victim("primary")) => queue = <<>> /\ frames["secondary"] = <<>>

Uninstalls(t) ==
  \/ ~g_crashedDuringExceptionHandling /\ PrimaryAt({"write", "tail"})
  \/ g_crashedDuringExceptionHandling /\ frames["primary"] # <<>> /\ Top("primary").pc = "set"
  \/ /\ g_crashedDuringExceptionHandling /\ frames["secondary"] # <<>> /\ Top("secondary").pc = "set"
     /\ frames["primary"] # <<>> => Victim("primary") # t

WritesFirst(t) == frames[t] # <<>> /\ Suspends(First(t).kind) /\ First(t).pc = "write"
LastOrOvertaken(t) ==
  \/ g_lastCrashReportFilePath = First(t).id
  \/ Len(frames[t]) = 1 /\ enabled = {}
  \/ Len(frames[t]) = 1 /\ thread[t] # "signalled" /\ Uninstalls(t)

LatestWrites ==
  \A t \in AppThreads \cup {"primary"} : \A i \in DOMAIN frames[t] :
    Kills(frames[t][i]) /\ frames[t][i].pc = "write" => g_lastCrashReportFilePath = frames[t][i].id

Overtaken == LatestWrites /\ \A t \in AppThreads : WritesFirst(t) => LastOrOvertaken(t)

EitherWay ==
  \/ NoMach /\ \A t \in AppThreads : WritesAsLast(t)
  \/ FirstAlone /\ LastInQueue /\ Overtaken

OwnInv == HeldInv /\ StacksInv /\ RecrashIsItsOwn /\ EitherWay

-----------------------------------------------------------------------------
(* Steps, as far as the reports are concerned                              *)

\* What a step does is told in five ways: the innermost handler of a thread moves on
\* (Moved, with its Effect), ends (Popped), or one starts above it (Started), a thread
\* fails (Stopped), or an exception thread is cancelled.  Each part of the invariant
\* has a lemma for each of them: ...Moves, ...Pops, ...Starts, ...Stops, ...Cancel.

\* An exception thread was ended by whoever uninstalled the monitors.
Ended(u) == u \in MachThreads /\ frames'[u] = <<>> /\ thread'[u] = "gone" /\ enabled' = {}

\* The handler f, the innermost of n on thread t, becomes g.
Moved(t, n, f, g) ==
  /\ n \in Nat \ {0} /\ Len(frames[t]) = n /\ DOMAIN frames[t] = 1 .. n /\ frames[t] # <<>>
  /\ Top(t) = f /\ frames[t][n] = f
  /\ Len(frames'[t]) = n /\ DOMAIN frames'[t] = 1 .. n /\ frames'[t] # <<>>
  /\ Top(t)' = g /\ frames'[t][n] = g /\ \A i \in 1 .. n : i # n => frames'[t][i] = frames[t][i]
  /\ g.kind = f.kind /\ g.victim = f.victim /\ thread'[t] = thread[t] /\ queue' = queue
  /\ \A u \in Threads : u # t => (frames'[u] = frames[u] /\ thread'[u] = thread[u]) \/ Ended(u)

\* Where it goes.
GoesTo(f, g) ==
  /\ f.pc = "suspend" => \/ g.pc = "suspend"
                         \/ f.kind = "passon" /\ g.pc = "resume"
                         \/ f.kind # "passon" /\ Fatal(f.kind) /\ g.pc = "check"
                         \/ f.kind # "passon" /\ ~Fatal(f.kind) /\ g.pc = "context"
  /\ f.pc = "check" => g.pc = "set"
  /\ f.pc = "set" => g.pc = IF f.kind = "mach" THEN "restore" ELSE "context"
  /\ f.pc = "restore" => g.pc = "context"
  /\ f.pc = "context" => IF g_crashedDuringExceptionHandling THEN g.pc \in {"rewrite", "tail"}
                         ELSE g.pc = "write" /\ g_lastCrashReportFilePath' = g.id
  /\ f.pc \in {"write", "rewrite"} => g.pc = "tail"
  /\ f.pc \in {"tail", "resume"} => g.pc = "resume"
  /\ f.pc # "after"
  /\ g.pc = "rewrite" => g_lastCrashReportFilePath = g.id

\* Whether it uninstalls the monitors, and what that does.
Disables(f) ==
  \/ f.pc = "set" /\ g_crashedDuringExceptionHandling
  \/ /\ f.pc = "tail" /\ f.kind # "snapshot"
     /\ g_handlingFatalException /\ ~g_crashedDuringExceptionHandling
Disabled(t) ==
  /\ enabled' = {} /\ ports' = "previous"
  /\ "mach" \in enabled /\ g_isHandlingCrash => \A m \in MachThreads : m # t => Ended(m)
Undisturbed(t) ==
  /\ enabled' = enabled /\ cancelled' = cancelled
  /\ \A u \in Threads : u # t => frames'[u] = frames[u] /\ thread'[u] = thread[u]

\* What it does to what the handlers share.
Effect(t, f, g) ==
  /\ GoesTo(f, g)
  /\ g_crashedDuringExceptionHandling' <=>
       g_crashedDuringExceptionHandling \/ (f.pc = "check" /\ g_handlingFatalException)
  /\ g_handlingFatalException' <=>
       f.pc = "set" \/ (g_handlingFatalException /\ ~(f.pc = "tail" /\ f.kind = "snapshot"))
  /\ g_isHandlingCrash' <=>
       IF f.pc = "suspend" /\ g.pc # "suspend" THEN g_isHandlingCrash \/ f.kind = "mach"
       ELSE g_isHandlingCrash /\ ~(f.pc = "resume" /\ f.kind = "mach")
  /\ f.pc # "context" \/ g_crashedDuringExceptionHandling =>
       g_lastCrashReportFilePath' = g_lastCrashReportFilePath
  /\ suspended'["secondary"] = IF f.pc = "restore" /\ t = "primary" /\ "mach" \in enabled
                               THEN 0 ELSE suspended["secondary"]
  /\ IF Disables(f) THEN Disabled(t)
     ELSE /\ Undisturbed(t)
          /\ ports' = IF f.pc = "restore" /\ t = "primary" THEN "previous" ELSE ports

\* What the other steps leave alone.
Settled ==
  /\ enabled' = enabled /\ ports' = ports /\ cancelled' = cancelled
  /\ suspended'["secondary"] = suspended["secondary"]
  /\ g_crashedDuringExceptionHandling' = g_crashedDuringExceptionHandling
  /\ g_handlingFatalException' = g_handlingFatalException
  /\ g_isHandlingCrash' = g_isHandlingCrash
  /\ g_lastCrashReportFilePath' = g_lastCrashReportFilePath

\* The innermost handler f of n on thread t has ended, or has passed an exception on.
Popped(t, n, f) ==
  /\ n \in Nat \ {0} /\ Len(frames[t]) = n /\ DOMAIN frames[t] = 1 .. n /\ frames[t] # <<>>
  /\ Top(t) = f /\ frames[t][n] = f /\ f.pc \in {"resume", "after"}
  /\ \A u \in Threads : u # t => frames'[u] = frames[u]
  /\ \/ /\ n = 1 /\ frames'[t] = <<>>
     \/ /\ n # 1 /\ Len(frames'[t]) = n - 1 /\ DOMAIN frames'[t] = 1 .. n - 1 /\ frames'[t] # <<>>
        /\ Top(t)' = frames[t][n - 1] /\ \A i \in 1 .. n - 1 : frames'[t][i] = frames[t][i]
     \/ /\ f.kind = "passon" /\ Len(frames'[t]) = n /\ DOMAIN frames'[t] = 1 .. n
        /\ frames'[t] # <<>> /\ Top(t)' = Frame("nsexception", "suspend", t)
        /\ frames'[t][n] = Frame("nsexception", "suspend", t) /\ thread' = thread
        /\ \A i \in 1 .. n : i # n => frames'[t][i] = frames[t][i]
  /\ queue' = queue
  /\ f.kind # "mach" => /\ thread'[t] \in {thread[t], "signalled"}
                        /\ \A u \in Threads : u # t => thread'[u] = thread[u]
  /\ f.kind = "mach" /\ t # f.victim =>
       /\ thread'[t] = "gone"
       /\ thread'[f.victim] = IF thread[f.victim] = "faulted" THEN "signalled" ELSE thread[f.victim]
       /\ \A u \in Threads : u # t /\ u # f.victim => thread'[u] = thread[u]

\* A handler g starts on thread t, above n others.
Started(t, n, g) ==
  /\ n \in Nat /\ Len(frames[t]) = n /\ DOMAIN frames[t] = 1 .. n
  /\ Len(frames'[t]) = n + 1 /\ DOMAIN frames'[t] = 1 .. n + 1 /\ frames'[t] # <<>>
  /\ Top(t)' = g /\ frames'[t][n + 1] = g /\ \A i \in 1 .. n : frames'[t][i] = frames[t][i]
  /\ \A u \in Threads : u # t => frames'[u] = frames[u] /\ thread'[u] = thread[u]
  /\ thread'[t] = "runs"

\* Thread t leaves its code, or a handler's, and a message or a signal is on its way.
Stopped(t) ==
  /\ Runs(t) /\ frames' = frames
  /\ frames[t] = <<>> => t \in AppThreads
  /\ frames[t] # <<>> => Top(t).pc \in Failing
  /\ \A u \in Threads : u # t => thread'[u] = thread[u]
  /\ \/ ports = "ours" /\ thread'[t] = "faulted" /\ queue' = Append(queue, t)
     \/ (ports # "ours" \/ frames[t] = <<>>) /\ thread'[t] = "signalled" /\ queue' = queue

\* The names of the threads.
LEMMA ThreadNames ==
  /\ "primary" \in MachThreads /\ "secondary" \in MachThreads /\ "primary" # "secondary"
  /\ MachThreads \subseteq Threads /\ AppThreads \subseteq Threads
  /\ \A t \in Threads : t \in AppThreads <=> t \notin MachThreads
  /\ \A t \in MachThreads : t = "primary" \/ t = "secondary"
BY EventsAssumption DEF MachThreads, Threads

\* A thread of the program's does not run while another thread's handler holds it.
LEMMA HeldStill ==
  ASSUME HeldInv, NEW u \in Threads, NEW j \in DOMAIN frames[u], Holding(frames[u][j]),
         NEW t \in AppThreads, t # u
  PROVE  ~Runs(t)
<1>1. t \in frames[u][j].todo
  BY DEF HeldInv, StopsTheOthers, Holding, Others
<1>2. <<u, j>> \in Holders(frames, t)
  BY <1>1, HolderIs
<1>3. IsFiniteSet(Holders(frames, t)) /\ Cardinality(Holders(frames, t)) <= suspended[t]
  BY DEF HeldInv, HeldAreSuspended
<1>4. Cardinality(Holders(frames, t)) \in Nat /\ Cardinality(Holders(frames, t)) # 0
  BY <1>2, <1>3, FS_CardinalityType, FS_EmptySet
<1>5. suspended[t] \in Nat
  BY DEF HeldInv, TypeOK, Threads
<1>6. suspended[t] # 0
  BY <1>3, <1>4, <1>5
<1> QED BY <1>6 DEF Runs

\* A change of the innermost handler, and of nobody else's.
LEMMA AboveMoves ==
  ASSUME TypeOK, NEW t \in Threads, frames[t] # <<>>, NEW g \in Handlers,
         Above(frames, frames', t, Len(frames[t]), g), thread' = thread, queue' = queue,
         g.kind = Top(t).kind, g.victim = Top(t).victim
  PROVE  Moved(t, Len(frames[t]), Top(t), g) /\ \A u \in Threads : u # t => frames'[u] = frames[u]
<1> DEFINE n == Len(frames[t])
<1>1. /\ Top(t) = frames[t][n] /\ n \in Nat \ {0} /\ DOMAIN frames[t] = 1 .. n
  BY TopFrame DEF TypeOK
<1>2. /\ Len(frames'[t]) = n /\ DOMAIN frames'[t] = 1 .. n /\ frames'[t] # <<>> /\ frames'[t][n] = g
      /\ \A i \in 1 .. n - 1 : frames'[t][i] = frames[t][i]
      /\ \A u \in Threads : u # t => frames'[u] = frames[u]
  BY DEF Above
<1> HIDE DEF n
<1>3. Top(t)' = g
  BY <1>2 DEF Top, Last
<1>4. \A i \in 1 .. n : i # n => frames'[t][i] = frames[t][i]
  <2> TAKE i \in 1 .. n
  <2>1. i # n => i \in 1 .. n - 1
    BY <1>1
  <2> QED BY <1>2, <2>1
<1> QED BY <1>1, <1>2, <1>3, <1>4 DEF Moved, n

\* The step that uninstalls the monitors.
LEMMA DisableEffect ==
  ASSUME TypeOK, NEW t \in Threads, frames[t] # <<>>, NEW next \in Pcs, DisableAll(t, next), queue' = queue
  PROVE  /\ Moved(t, Len(frames[t]), Top(t), [Top(t) EXCEPT !.pc = next])
         /\ Disabled(t)
<1> DEFINE n == Len(frames[t])
           f == Top(t)
           g == [f EXCEPT !.pc = next]
<1>1. f = frames[t][n] /\ f \in Handlers /\ n \in Nat \ {0} /\ DOMAIN frames[t] = 1 .. n
  BY TopFrame DEF TypeOK
<1>2. g.kind = f.kind /\ g.victim = f.victim
  BY <1>1 DEF Handlers
<1>3. /\ enabled' = {} /\ ports' = "previous" /\ thread'[t] = thread[t]
      /\ Len(frames'[t]) = n /\ DOMAIN frames'[t] = 1 .. n /\ frames'[t] # <<>> /\ frames'[t][n] = g
      /\ \A i \in 1 .. n - 1 : frames'[t][i] = frames[t][i]
  BY DisableMoves
<1> HIDE DEF g
<1>4. \A u \in Threads : u # t =>
        \/ frames'[u] = frames[u] /\ thread'[u] = thread[u] /\ ~(u \in MachThreads /\ "mach" \in enabled /\ g_isHandlingCrash)
        \/ Ended(u)
  BY DEF DisableAll, Ended
<1>5. Disabled(t)
  BY <1>3, <1>4, ThreadNames DEF Disabled
<1> HIDE DEF n
<1>6. Top(t)' = g
  BY <1>3 DEF Top, Last
<1>7. \A i \in 1 .. n : i # n => frames'[t][i] = frames[t][i]
  <2> TAKE i \in 1 .. n
  <2>1. i # n => i \in 1 .. n - 1
    BY <1>1
  <2> QED BY <1>3, <2>1
<1>8. Moved(t, n, f, g)
  <2> HIDE DEF f
  <2>1. \A u \in Threads : u # t => (frames'[u] = frames[u] /\ thread'[u] = thread[u]) \/ Ended(u)
    BY <1>4
  <2> QED BY <1>1, <1>2, <1>3, <1>6, <1>7, <2>1 DEF Moved, n, f
<1> QED BY <1>5, <1>8 DEF n, g

\* A step of a handler that goes on.
LEMMA StepMoves ==
  ASSUME TypeOK, NEW t \in Threads, Step(t), ~after(t)
  PROVE  /\ Runs(t) /\ frames[t] # <<>>
         /\ \E g \in Handlers : Moved(t, Len(frames[t]), Top(t), g) /\ Effect(t, Top(t), g)
<1> USE DEF flags, files, hist
<1> DEFINE n == Len(frames[t])
           f == Top(t)
           G(g) == Moved(t, n, f, g) /\ Effect(t, f, g)
<1>1. Runs(t) /\ frames[t] # <<>>
  BY DEF Step, suspendEnvironment, suspended_, notifyCheck, notifySet, restoreExceptionPorts, recrash,
         onCrash, closeReport, handleExceptionTail, resumeEnvironment, At
<1>2. f \in Handlers
  BY <1>1, TopFrame DEF TypeOK
<1>3. suspended["secondary"] \in Nat /\ suspended \in [Threads -> Nat] /\ "secondary" \notin AppThreads
  BY ThreadNames DEF TypeOK
<1>4. \A pc \in Pcs : LET g == [f EXCEPT !.pc = pc]
                      IN g \in Handlers /\ g.pc = pc /\ g.kind = f.kind /\ g.victim = f.victim /\ g.id = f.id
  BY <1>2 DEF Handlers
<1>5. ASSUME NEW g \in Handlers, SetTop(t, g), g.kind = f.kind, g.victim = f.victim,
             thread' = thread, queue' = queue
      PROVE  Moved(t, n, f, g) /\ \A u \in Threads : u # t => frames'[u] = frames[u]
  <2>1. Above(frames, frames', t, n, g)
    BY <1>1, <1>5, SetTopMoves DEF TypeOK
  <2> QED BY <1>1, <1>5, <2>1, AboveMoves
<1>7. ASSUME NEW pc \in Pcs, GoTo(t, pc), thread' = thread, queue' = queue
      PROVE  /\ Moved(t, n, f, [f EXCEPT !.pc = pc])
             /\ \A u \in Threads : u # t => frames'[u] = frames[u]
  <2> DEFINE g == [f EXCEPT !.pc = pc]
  <2>1. g \in Handlers /\ g.kind = f.kind /\ g.victim = f.victim
    BY <1>4
  <2>2. SetTop(t, g)
    BY <1>7 DEF GoTo
  <2> HIDE DEF g
  <2> QED BY <1>5, <1>7, <2>1, <2>2 DEF g
<1>a. SUFFICES \E g \in Handlers : G(g)
  BY <1>1
<1> HIDE DEF n, f, G
<1>10. CASE suspendEnvironment(t)
  <2>1. f.pc = "suspend" /\ thread' = thread /\ queue' = queue
    BY <1>10 DEF suspendEnvironment, At, f
  <2>2. PICK u \in Others(t) \ f.todo : /\ suspended' = [suspended EXCEPT ![u] = @ + 1]
                                       /\ SetTop(t, [f EXCEPT !.todo = @ \cup {u}])
    BY <1>10 DEF suspendEnvironment, f
  <2> DEFINE todo == f.todo \cup {u}
             g == [f EXCEPT !.todo = todo]
  <2>3. todo \in SUBSET AppThreads
    BY <1>2 DEF Handlers, Others
  <2>a. SetTop(t, g)
    BY <2>2
  <2> HIDE DEF todo
  <2>4. g \in Handlers /\ g.pc = "suspend" /\ g.kind = f.kind /\ g.victim = f.victim
    BY <1>2, <2>1, <2>3 DEF Handlers
  <2> HIDE DEF g
  <2>5. Moved(t, n, f, g) /\ \A v \in Threads : v # t => frames'[v] = frames[v]
    BY <1>5, <2>1, <2>4, <2>a
  <2>6. suspended'["secondary"] = suspended["secondary"]
    BY <1>3, <2>2 DEF Others
  <2>7. Effect(t, f, g)
    <3>1. GoesTo(f, g) /\ ~Disables(f)
      BY <2>1, <2>4 DEF GoesTo, Disables
    <3> QED BY <1>10, <2>1, <2>4, <2>5, <2>6, <3>1 DEF suspendEnvironment, Effect, Undisturbed
  <2> QED BY <2>4, <2>5, <2>7 DEF G
<1>11. CASE suspended_(t)
  <2> DEFINE pc == IF f.kind = "passon" THEN "resume" ELSE IF Fatal(f.kind) THEN "check" ELSE "context"
             g == [f EXCEPT !.pc = pc]
  <2>1. f.pc = "suspend" /\ thread' = thread /\ queue' = queue /\ GoTo(t, pc)
    BY <1>11 DEF suspended_, At, f
  <2>2. pc \in Pcs
    BY DEF Pcs
  <2>3. \/ f.kind = "passon" /\ pc = "resume"
        \/ f.kind # "passon" /\ Fatal(f.kind) /\ pc = "check"
        \/ f.kind # "passon" /\ ~Fatal(f.kind) /\ pc = "context"
    OBVIOUS
  <2>a. pc # "suspend"
    OBVIOUS
  <2> HIDE DEF pc
  <2>4. g \in Handlers /\ g.pc = pc /\ g.kind = f.kind
    BY <1>4, <2>2
  <2>5. Moved(t, n, f, g) /\ \A v \in Threads : v # t => frames'[v] = frames[v]
    BY <1>7, <2>1, <2>2 DEF f
  <2> HIDE DEF g
  <2>7. Effect(t, f, g)
    <3>1. GoesTo(f, g) /\ ~Disables(f)
      BY <2>1, <2>3, <2>4 DEF GoesTo, Disables
    <3>2. g_isHandlingCrash' <=> (g_isHandlingCrash \/ f.kind = "mach")
      BY <1>11 DEF suspended_, f
    <3> QED BY <1>11, <2>1, <2>a, <2>4, <2>5, <3>1, <3>2 DEF suspended_, Effect, Undisturbed
  <2> QED BY <2>4, <2>5, <2>7 DEF G
<1>12. CASE notifyCheck(t)
  <2> DEFINE g == [f EXCEPT !.pc = "set"]
  <2>1. f.pc = "check" /\ thread' = thread /\ queue' = queue /\ GoTo(t, "set") /\ "set" \in Pcs
    BY <1>12 DEF notifyCheck, At, f, Pcs
  <2>4. g \in Handlers /\ g.pc = "set" /\ g.kind = f.kind
    BY <1>4, <2>1
  <2>5. Moved(t, n, f, g) /\ \A v \in Threads : v # t => frames'[v] = frames[v]
    BY <1>7, <2>1 DEF f
  <2> HIDE DEF g
  <2>7. Effect(t, f, g)
    <3>1. GoesTo(f, g) /\ ~Disables(f)
      BY <2>1, <2>4 DEF GoesTo, Disables
    <3>2. g_crashedDuringExceptionHandling' <=>
            (g_crashedDuringExceptionHandling \/ g_handlingFatalException)
      BY <1>12 DEF notifyCheck
    <3> QED BY <1>12, <2>1, <2>4, <2>5, <3>1, <3>2 DEF notifyCheck, Effect, Undisturbed
  <2> QED BY <2>4, <2>5, <2>7 DEF G
<1>13. CASE notifySet(t)
  <2> DEFINE pc == IF f.kind = "mach" THEN "restore" ELSE "context"
             g == [f EXCEPT !.pc = pc]
  <2>1. /\ f.pc = "set" /\ queue' = queue /\ pc \in Pcs
        /\ IF g_crashedDuringExceptionHandling THEN DisableAll(t, pc)
           ELSE GoTo(t, pc) /\ enabled' = enabled /\ ports' = ports /\ thread' = thread /\ cancelled' = cancelled
    BY <1>13 DEF notifySet, At, f, Pcs
  <2>2. pc = IF f.kind = "mach" THEN "restore" ELSE "context"
    OBVIOUS
  <2> HIDE DEF pc
  <2>4. g \in Handlers /\ g.pc = pc /\ g.kind = f.kind
    BY <1>4, <2>1
  <2>5. GoesTo(f, g) /\ (Disables(f) <=> g_crashedDuringExceptionHandling)
    BY <2>1, <2>2, <2>4 DEF GoesTo, Disables
  <2>6. /\ Moved(t, n, f, g)
        /\ IF Disables(f) THEN Disabled(t) ELSE Undisturbed(t) /\ ports' = ports
    <3>1. CASE g_crashedDuringExceptionHandling
      BY <1>1, <2>1, <2>5, <3>1, DisableEffect DEF f, n
    <3>2. CASE ~g_crashedDuringExceptionHandling
      <4>1. Moved(t, n, f, g) /\ \A v \in Threads : v # t => frames'[v] = frames[v]
        BY <1>7, <2>1, <3>2 DEF f
      <4> QED BY <2>1, <2>5, <3>2, <4>1 DEF Undisturbed
    <3> QED BY <3>1, <3>2
  <2> HIDE DEF g
  <2>7. Effect(t, f, g)
    BY <1>13, <2>1, <2>4, <2>5, <2>6 DEF notifySet, Effect
  <2> QED BY <2>4, <2>6, <2>7 DEF G
<1>14. CASE restoreExceptionPorts(t)
  <2> DEFINE g == [f EXCEPT !.pc = "context"]
  <2>1. f.pc = "restore" /\ thread' = thread /\ queue' = queue /\ GoTo(t, "context") /\ "context" \in Pcs
    BY <1>14 DEF restoreExceptionPorts, At, f, Pcs
  <2>4. g \in Handlers /\ g.pc = "context" /\ g.kind = f.kind
    BY <1>4, <2>1
  <2>5. Moved(t, n, f, g) /\ \A v \in Threads : v # t => frames'[v] = frames[v]
    BY <1>7, <2>1 DEF f
  <2> HIDE DEF g
  <2>6. suspended'["secondary"] = IF f.pc = "restore" /\ t = "primary" /\ "mach" \in enabled
                                  THEN 0 ELSE suspended["secondary"]
    BY <1>14, <1>3, <2>1, ThreadNames DEF restoreExceptionPorts
  <2>7. Effect(t, f, g)
    <3>1. GoesTo(f, g) /\ ~Disables(f)
      BY <2>1, <2>4 DEF GoesTo, Disables
    <3> QED BY <1>14, <2>1, <2>4, <2>5, <2>6, <3>1 DEF restoreExceptionPorts, Effect, Undisturbed
  <2> QED BY <2>4, <2>5, <2>7 DEF G
<1>15. CASE recrash(t)
  <2>1. /\ f.pc = "context" /\ g_crashedDuringExceptionHandling /\ thread' = thread /\ queue' = queue
        /\ "tail" \in Pcs /\ "rewrite" \in Pcs
        /\ \/ GoTo(t, "tail")
           \/ SetTop(t, [f EXCEPT !.pc = "rewrite", !.id = g_lastCrashReportFilePath])
    BY <1>15 DEF recrash, At, f, Pcs
  <2>a. ASSUME NEW g \in Handlers, Moved(t, n, f, g), \A v \in Threads : v # t => frames'[v] = frames[v],
               g.pc = "tail" \/ (g.pc = "rewrite" /\ g.id = g_lastCrashReportFilePath)
        PROVE  \E h \in Handlers : G(h)
    <3>1. GoesTo(f, g) /\ ~Disables(f)
      BY <2>1, <2>a DEF GoesTo, Disables
    <3>2. Effect(t, f, g)
      BY <1>15, <2>1, <2>a, <3>1 DEF recrash, Effect, Undisturbed
    <3> QED BY <2>a, <3>2 DEF G
  <2>2. CASE GoTo(t, "tail")
    <3> DEFINE g == [f EXCEPT !.pc = "tail"]
    <3>1. g \in Handlers /\ g.pc = "tail"
      BY <1>4, <2>1
    <3>2. Moved(t, n, f, g) /\ \A v \in Threads : v # t => frames'[v] = frames[v]
      BY <1>7, <2>1, <2>2 DEF f
    <3> HIDE DEF g
    <3> QED BY <2>a, <3>1, <3>2
  <2>3. CASE SetTop(t, [f EXCEPT !.pc = "rewrite", !.id = g_lastCrashReportFilePath])
    <3> DEFINE g == [f EXCEPT !.pc = "rewrite", !.id = g_lastCrashReportFilePath]
    <3>1. g_lastCrashReportFilePath \in 0 .. MaxReports
      <4>1. nextID \in 1 .. MaxReports + 1 /\ g_lastCrashReportFilePath \in 0 .. nextID - 1
        BY DEF TypeOK
      <4> QED BY <4>1, EventsAssumption
    <3>2. /\ g \in Handlers /\ g.pc = "rewrite" /\ g.id = g_lastCrashReportFilePath
          /\ g.kind = f.kind /\ g.victim = f.victim
      BY <1>2, <2>1, <3>1 DEF Handlers
    <3>3. SetTop(t, g)
      BY <2>3
    <3> HIDE DEF g
    <3>4. Moved(t, n, f, g) /\ \A v \in Threads : v # t => frames'[v] = frames[v]
      BY <1>5, <2>1, <3>2, <3>3
    <3> QED BY <2>a, <3>2, <3>4
  <2> QED BY <2>1, <2>2, <2>3
<1>16. CASE onCrash(t)
  <2>1. /\ f.pc = "context" /\ ~g_crashedDuringExceptionHandling /\ thread' = thread /\ queue' = queue
        /\ "write" \in Pcs /\ nextID \in 0 .. MaxReports
        /\ SetTop(t, [f EXCEPT !.pc = "write", !.id = nextID]) /\ g_lastCrashReportFilePath' = nextID
    <3>1. nextID \in Ids
      BY <1>16 DEF onCrash
    <3>2. nextID \in 0 .. MaxReports
      BY <3>1, EventsAssumption DEF Ids
    <3> QED BY <1>16, <3>2 DEF onCrash, At, f, Pcs
  <2> DEFINE g == [f EXCEPT !.pc = "write", !.id = nextID]
  <2>4. g \in Handlers /\ g.pc = "write" /\ g.id = nextID /\ g.kind = f.kind /\ g.victim = f.victim
    BY <1>2, <2>1 DEF Handlers
  <2>2. SetTop(t, g)
    BY <2>1
  <2> HIDE DEF g
  <2>5. Moved(t, n, f, g) /\ \A v \in Threads : v # t => frames'[v] = frames[v]
    BY <1>5, <2>1, <2>2, <2>4
  <2>7. Effect(t, f, g)
    <3>1. GoesTo(f, g) /\ ~Disables(f)
      BY <2>1, <2>4 DEF GoesTo, Disables
    <3> QED BY <1>16, <2>1, <2>4, <2>5, <3>1 DEF onCrash, Effect, Undisturbed
  <2> QED BY <2>4, <2>5, <2>7 DEF G
<1>17. CASE closeReport(t)
  <2> DEFINE g == [f EXCEPT !.pc = "tail"]
  <2>1. f.pc \in {"write", "rewrite"} /\ thread' = thread /\ queue' = queue /\ GoTo(t, "tail") /\ "tail" \in Pcs
    BY <1>17 DEF closeReport, At, f, Pcs
  <2>4. g \in Handlers /\ g.pc = "tail" /\ g.kind = f.kind
    BY <1>4, <2>1
  <2>5. Moved(t, n, f, g) /\ \A v \in Threads : v # t => frames'[v] = frames[v]
    BY <1>7, <2>1 DEF f
  <2> HIDE DEF g
  <2>7. Effect(t, f, g)
    <3>1. GoesTo(f, g) /\ ~Disables(f)
      BY <2>1, <2>4 DEF GoesTo, Disables
    <3> QED BY <1>17, <2>1, <2>4, <2>5, <3>1 DEF closeReport, Effect, Undisturbed
  <2> QED BY <2>4, <2>5, <2>7 DEF G
<1>18. CASE handleExceptionTail(t)
  <2> DEFINE g == [f EXCEPT !.pc = "resume"]
  <2>1. /\ f.pc = "tail" /\ queue' = queue /\ "resume" \in Pcs
        /\ IF Disables(f) THEN DisableAll(t, "resume")
           ELSE GoTo(t, "resume") /\ enabled' = enabled /\ ports' = ports /\ thread' = thread /\ cancelled' = cancelled
    BY <1>18 DEF handleExceptionTail, At, f, Pcs, Disables
  <2>4. g \in Handlers /\ g.pc = "resume" /\ g.kind = f.kind
    BY <1>4, <2>1
  <2>5. GoesTo(f, g)
    BY <2>1, <2>4 DEF GoesTo
  <2>6. /\ Moved(t, n, f, g)
        /\ IF Disables(f) THEN Disabled(t) ELSE Undisturbed(t) /\ ports' = ports
    <3>1. CASE Disables(f)
      BY <1>1, <2>1, <3>1, DisableEffect DEF f, n
    <3>2. CASE ~Disables(f)
      <4>1. Moved(t, n, f, g) /\ \A v \in Threads : v # t => frames'[v] = frames[v]
        BY <1>7, <2>1, <3>2 DEF f
      <4> QED BY <2>1, <3>2, <4>1 DEF Undisturbed
    <3> QED BY <3>1, <3>2
  <2> HIDE DEF g
  <2>a. g_handlingFatalException' <=> g_handlingFatalException /\ f.kind # "snapshot"
    BY <1>18 DEF handleExceptionTail, f
  <2>7. Effect(t, f, g)
    BY <1>18, <2>1, <2>4, <2>5, <2>6, <2>a DEF handleExceptionTail, Effect
  <2> QED BY <2>4, <2>6, <2>7 DEF G
<1>19. CASE resumeEnvironment(t)
  <2>1. f.pc = "resume" /\ thread' = thread /\ queue' = queue
    BY <1>19 DEF resumeEnvironment, At, f
  <2>2. PICK u \in f.todo : /\ suspended' = [suspended EXCEPT ![u] = IF @ = 0 THEN 0 ELSE @ - 1]
                           /\ SetTop(t, [f EXCEPT !.todo = @ \ {u}])
    BY <1>19 DEF resumeEnvironment, f
  <2> DEFINE todo == f.todo \ {u}
             g == [f EXCEPT !.todo = todo]
  <2>3. todo \in SUBSET AppThreads /\ u \in AppThreads
    BY <1>2 DEF Handlers
  <2>a. SetTop(t, g)
    BY <2>2
  <2> HIDE DEF todo
  <2>4. g \in Handlers /\ g.pc = "resume" /\ g.kind = f.kind /\ g.victim = f.victim
    BY <1>2, <2>1, <2>3 DEF Handlers
  <2> HIDE DEF g
  <2>5. Moved(t, n, f, g) /\ \A v \in Threads : v # t => frames'[v] = frames[v]
    BY <1>5, <2>1, <2>4, <2>a
  <2>6. suspended'["secondary"] = suspended["secondary"]
    BY <1>3, <2>2, <2>3
  <2>7. Effect(t, f, g)
    <3>1. GoesTo(f, g) /\ ~Disables(f)
      BY <2>1, <2>4 DEF GoesTo, Disables
    <3>2. g_isHandlingCrash' <=> g_isHandlingCrash /\ f.kind # "mach"
      BY <1>19 DEF resumeEnvironment, f
    <3> QED BY <1>19, <2>1, <2>4, <2>5, <2>6, <3>1, <3>2 DEF resumeEnvironment, Effect, Undisturbed
  <2> QED BY <2>4, <2>5, <2>7 DEF G
<1> QED BY <1>10, <1>11, <1>12, <1>13, <1>14, <1>15, <1>16, <1>17, <1>18, <1>19 DEF Step

\* The end of a handler.
LEMMA AfterPops ==
  ASSUME TypeOK, NEW t \in Threads, after(t)
  PROVE  Runs(t) /\ frames[t] # <<>> /\ Popped(t, Len(frames[t]), Top(t)) /\ Settled
<1> DEFINE n == Len(frames[t])
           f == Top(t)
           h == Frame("nsexception", "suspend", t)
<1>1. /\ Runs(t) /\ frames[t] # <<>> /\ f.pc \in {"resume", "after"} /\ Settled /\ queue' = queue
  BY DEF after, At, Settled, flags, files
<1>2. f = frames[t][n] /\ f \in Handlers /\ n \in Nat \ {0} /\ DOMAIN frames[t] = 1 .. n
  BY <1>1, TopFrame DEF TypeOK
<1>3. f.victim \in Threads
  BY <1>2 DEF Handlers
<1>4. \A u \in Threads : u # t => frames'[u] = frames[u]
  BY AfterStacks
<1>5. CASE f.kind = "passon" /\ "nsexception" \in enabled
  <2>1. Above(frames, frames', t, n, h)
    BY <1>5, AfterStacks
  <2> HIDE DEF n, h
  <2>2. /\ Len(frames'[t]) = n /\ DOMAIN frames'[t] = 1 .. n /\ frames'[t] # <<>> /\ frames'[t][n] = h
        /\ \A i \in 1 .. n - 1 : frames'[t][i] = frames[t][i]
    BY <2>1 DEF Above
  <2>3. Top(t)' = h
    BY <2>2 DEF Top, Last
  <2>4. \A i \in 1 .. n : i # n => frames'[t][i] = frames[t][i]
    <3> TAKE i \in 1 .. n
    <3>1. i # n => i \in 1 .. n - 1
      BY <1>2
    <3> QED BY <2>2, <3>1
  <2>5. thread' = thread
    BY <1>5 DEF after
  <2> QED BY <1>1, <1>2, <1>4, <1>5, <2>2, <2>3, <2>4, <2>5 DEF Popped, n, h
<1>6. CASE ~(f.kind = "passon" /\ "nsexception" \in enabled)
  <2>1. /\ frames'[t] = Front(frames[t]) /\ DOMAIN frames'[t] = 1 .. n - 1
        /\ \A i \in 1 .. n - 1 : frames'[t][i] = frames[t][i]
    BY <1>6, AfterStacks
  <2>2. frames'[t] \in Seq(Handlers) /\ Len(frames'[t]) = n - 1
    <3> DEFINE q == frames[t]
    <3>1. q \in Seq(Handlers) /\ q # <<>>
      BY <1>1 DEF TypeOK
    <3> HIDE DEF q
    <3>2. Front(q) \in Seq(Handlers) /\ Len(Front(q)) = Len(q) - 1
      BY <3>1, TopEnds
    <3> QED BY <2>1, <3>2 DEF q
  <2> HIDE DEF n
  <2>3. \/ n = 1 /\ frames'[t] = <<>>
        \/ n # 1 /\ frames'[t] # <<>> /\ Top(t)' = frames[t][n - 1]
    <3>1. CASE n = 1
      <4>1. Len(frames'[t]) = 0
        BY <2>2, <3>1
      <4> QED BY <2>2, <3>1, <4>1, EmptySeq
    <3>2. CASE n # 1
      <4>1. n - 1 \in 1 .. n - 1
        BY <1>2, <3>2
      <4>2. Top(t)' = frames[t][n - 1]
        BY <2>1, <2>2, <4>1 DEF Top, Last
      <4>3. frames'[t] # <<>>
        BY <2>2, <1>2, <3>2
      <4> QED BY <3>2, <4>2, <4>3
    <3> QED BY <3>1, <3>2
  <2>4. f.kind # "mach" => /\ thread'[t] \in {thread[t], "signalled"}
                           /\ \A u \in Threads : u # t => thread'[u] = thread[u]
    BY <1>6 DEF after, TypeOK
  <2>5. f.kind = "mach" /\ t # f.victim =>
          /\ thread'[t] = "gone"
          /\ thread'[f.victim] = IF thread[f.victim] = "faulted" THEN "signalled" ELSE thread[f.victim]
          /\ \A u \in Threads : u # t /\ u # f.victim => thread'[u] = thread[u]
    <3> SUFFICES ASSUME f.kind = "mach", t # f.victim
                 PROVE  /\ thread'[t] = "gone"
                        /\ thread'[f.victim] = IF thread[f.victim] = "faulted" THEN "signalled" ELSE thread[f.victim]
                        /\ \A u \in Threads : u # t /\ u # f.victim => thread'[u] = thread[u]
      OBVIOUS
    <3>1. thread' = [thread EXCEPT ![t] = "gone",
                       ![f.victim] = IF @ = "faulted" THEN "signalled" ELSE @]
      BY DEF after
    <3> HIDE DEF f
    <3> QED BY <1>3, <3>1 DEF TypeOK
  <2> HIDE DEF f
  <2>6. Popped(t, n, f)
    BY <1>1, <1>2, <1>4, <2>1, <2>2, <2>3, <2>4, <2>5 DEF Popped, f, n
  <2> QED BY <1>1, <2>6 DEF f, n
<1> QED BY <1>5, <1>6

\* A handler starts.
LEMMA PushStarts ==
  ASSUME TypeOK, NEW t \in Threads, NEW g \in Handlers, Push(t, g), thread'[t] = "runs",
         \A u \in Threads : u # t => thread'[u] = thread[u]
  PROVE  Started(t, Len(frames[t]), g)
<1> DEFINE n == Len(frames[t])
<1>1. Above(frames, frames', t, n + 1, g) /\ n \in Nat /\ DOMAIN frames[t] = 1 .. n
  BY PushMoves DEF TypeOK
<1> HIDE DEF n
<1>2. /\ Len(frames'[t]) = n + 1 /\ DOMAIN frames'[t] = 1 .. n + 1 /\ frames'[t] # <<>>
      /\ frames'[t][n + 1] = g /\ \A i \in 1 .. n + 1 - 1 : frames'[t][i] = frames[t][i]
      /\ \A u \in Threads : u # t => frames'[u] = frames[u]
  BY <1>1 DEF Above
<1>3. Top(t)' = g
  BY <1>2 DEF Top, Last
<1>4. \A i \in 1 .. n : frames'[t][i] = frames[t][i]
  <2>1. n + 1 - 1 = n
    BY <1>1
  <2> QED BY <1>2, <2>1
<1>5. Len(frames[t]) = n
  BY DEF n
<1>6. Started(t, n, g)
  BY <1>1, <1>2, <1>3, <1>4, <1>5 DEF Started
<1> QED BY <1>6 DEF n

\* What an event of the program's own does.
LEMMA EventDoes ==
  ASSUME TypeOK, NEW t \in AppThreads, NEW kind \in Events, Event(t, kind)
  PROVE  /\ Settled /\ Runs(t) /\ frames[t] = <<>>
         /\ \/ frames' = frames /\ thread' = thread /\ queue' = queue
            \/ Stopped(t)
            \/ \E g \in Handlers :
                 /\ Started(t, 0, g) /\ queue' = queue /\ g.kind \notin {"mach", "signal"}
                 /\ g.pc \in {"suspend", "check", "context"} /\ (Kills(g) => g.pc = "suspend")
<1>1. Settled /\ Runs(t) /\ frames[t] = <<>> /\ t \in Threads
  BY ThreadNames DEF Event, Settled, flags, files
<1>2. CASE kind = "fault"
  <2>1. Raise(t) /\ frames' = frames
    BY <1>2 DEF Event
  <2>2. Stopped(t)
    BY <1>1, <2>1 DEF Raise, Stopped, TypeOK
  <2> QED BY <1>1, <2>2
<1>3. CASE kind # "fault" /\ Monitor(kind) \in enabled /\ kind # "abort"
  <2> DEFINE g == FirstFrame(t, kind)
  <2>1. Push(t, g) /\ thread' = thread /\ queue' = queue
    BY <1>3 DEF Event
  <2>2. kind \in EventKinds
    BY EventsAssumption
  <2>3. g \in Handlers
    BY <1>1, <2>2, FirstSteps
  <2>4. /\ g.kind \notin {"mach", "signal"} /\ g.pc \in {"suspend", "check", "context"}
        /\ (Kills(g) => g.pc = "suspend")
    BY <2>2 DEF FirstFrame, FirstStep, Frame, EventKinds, Kills
  <2> HIDE DEF g
  <2>5. Started(t, Len(frames[t]), g)
    BY <1>1, <2>1, <2>3, PushStarts DEF Runs
  <2>6. Len(frames[t]) = 0
    BY <1>1
  <2> QED BY <1>1, <2>1, <2>3, <2>4, <2>5, <2>6
<1>4. CASE kind # "fault" /\ ~(Monitor(kind) \in enabled /\ kind # "abort")
  <2>1. /\ frames' = frames /\ queue' = queue
        /\ thread' = [thread EXCEPT ![t] = IF kind \in {"abort", "throw", "nsexception"}
                                           THEN "signalled" ELSE @]
    BY <1>4 DEF Event
  <2>2. CASE kind \in {"abort", "throw", "nsexception"}
    BY <1>1, <2>1, <2>2 DEF Stopped, TypeOK
  <2>3. CASE kind \notin {"abort", "throw", "nsexception"}
    <3>1. thread' = thread
      BY <2>1, <2>3 DEF TypeOK
    <3> QED BY <1>1, <2>1, <3>1
  <2> QED BY <2>2, <2>3
<1> QED BY <1>2, <1>3, <1>4

\* What the kernel does.
LEMMA KernelDoes ==
  ASSUME TypeOK, NEW t \in Threads
  PROVE  /\ HandlerFault(t) => Settled /\ Stopped(t)
         /\ Deliver(t) =>
              /\ Settled /\ queue' = queue /\ thread[t] = "signalled"
              /\ \/ frames' = frames /\ thread' = thread
                 \/ /\ "signal" \in enabled
                    /\ Started(t, Len(frames[t]), Frame("signal", "suspend", t))
         /\ Receive(t) =>
              /\ Settled /\ thread[t] = "receives" /\ suspended[t] = 0
              /\ queue # <<>> /\ queue' = Tail(queue) /\ Head(queue) \in Threads
              /\ Started(t, Len(frames[t]), Frame("mach", IF "mach" \in enabled THEN "suspend" ELSE "after", Head(queue)))
         /\ Cancel(t) =>
              /\ Settled /\ t \in cancelled /\ Runs(t) /\ queue' = queue
              /\ frames'[t] = <<>> /\ thread'[t] = "gone"
              /\ \A u \in Threads : u # t => frames'[u] = frames[u] /\ thread'[u] = thread[u]
<1>1. ASSUME HandlerFault(t) PROVE Settled /\ Stopped(t)
  <2>1. Raise(t) /\ frames' = frames /\ Settled /\ Runs(t) /\ frames[t] # <<>> /\ Top(t).pc \in Failing
    BY <1>1 DEF HandlerFault, Settled, Failing, flags, files
  <2> QED BY <2>1 DEF Raise, Stopped, TypeOK
<1>2. ASSUME Deliver(t)
      PROVE  /\ Settled /\ queue' = queue /\ thread[t] = "signalled"
             /\ \/ frames' = frames /\ thread' = thread
                \/ /\ "signal" \in enabled
                   /\ Started(t, Len(frames[t]), Frame("signal", "suspend", t))
  <2> DEFINE g == Frame("signal", "suspend", t)
  <2>1. Settled /\ queue' = queue /\ thread[t] = "signalled"
    BY <1>2 DEF Deliver, Settled, flags, files
  <2>2. g \in Handlers
    BY FrameIsAHandler, FirstSteps DEF Pcs
  <2>3. \/ frames' = frames /\ thread' = thread
        \/ "signal" \in enabled /\ Push(t, g) /\ thread' = [thread EXCEPT ![t] = "runs"]
    BY <1>2 DEF Deliver
  <2> HIDE DEF g
  <2>4. ASSUME Push(t, g), thread' = [thread EXCEPT ![t] = "runs"] PROVE Started(t, Len(frames[t]), g)
    <3>1. thread'[t] = "runs" /\ \A u \in Threads : u # t => thread'[u] = thread[u]
      BY <2>4 DEF TypeOK
    <3> QED BY <2>2, <2>4, <3>1, PushStarts
  <2> QED BY <2>1, <2>3, <2>4 DEF g
<1>3. ASSUME Receive(t)
      PROVE  /\ Settled /\ thread[t] = "receives" /\ suspended[t] = 0
             /\ queue # <<>> /\ queue' = Tail(queue) /\ Head(queue) \in Threads
             /\ Started(t, Len(frames[t]), Frame("mach", IF "mach" \in enabled THEN "suspend" ELSE "after", Head(queue)))
  <2> DEFINE pc == IF "mach" \in enabled THEN "suspend" ELSE "after"
             victim == Head(queue)
             g == Frame("mach", pc, victim)
  <2>1. /\ Settled /\ thread[t] = "receives" /\ suspended[t] = 0 /\ queue # <<>> /\ queue' = Tail(queue)
        /\ Push(t, g) /\ thread' = [thread EXCEPT ![t] = "runs"]
    BY <1>3 DEF Receive, Settled, flags, files
  <2>2. pc \in Pcs /\ victim \in Threads
    BY <2>1, HeadTailProperties DEF Pcs, TypeOK
  <2>3. g \in Handlers
    <3> HIDE DEF pc, victim
    <3> QED BY <2>2, FrameIsAHandler, FirstSteps
  <2>4. thread'[t] = "runs" /\ \A u \in Threads : u # t => thread'[u] = thread[u]
    BY <2>1 DEF TypeOK
  <2> HIDE DEF g
  <2>5. Started(t, Len(frames[t]), g)
    BY <2>1, <2>3, <2>4, PushStarts
  <2> QED BY <2>1, <2>2, <2>5 DEF g
<1>4. ASSUME Cancel(t)
      PROVE  /\ Settled /\ t \in cancelled /\ Runs(t) /\ queue' = queue
             /\ frames'[t] = <<>> /\ thread'[t] = "gone"
             /\ \A u \in Threads : u # t => frames'[u] = frames[u] /\ thread'[u] = thread[u]
  BY <1>4 DEF Cancel, Settled, flags, files, TypeOK
<1> QED BY <1>1, <1>2, <1>3, <1>4

-----------------------------------------------------------------------------
(* The stacks                                                              *)

\* What a handler that goes on leaves of the stacks.
LEMMA MovedView ==
  ASSUME NEW t \in Threads, NEW n, NEW f, NEW g, Moved(t, n, f, g), NEW u \in Threads, frames'[u] # <<>>
  PROVE  /\ frames[u] # <<>> /\ thread'[u] = thread[u] /\ (u # t => frames'[u] = frames[u])
         /\ Len(frames'[u]) = Len(frames[u]) /\ DOMAIN frames'[u] = DOMAIN frames[u]
         /\ First(u)'.kind = First(u).kind /\ First(u)'.victim = First(u).victim
         /\ \A i \in DOMAIN frames[u] :
              /\ frames'[u][i].kind = frames[u][i].kind
              /\ \/ frames'[u][i] = frames[u][i]
                 \/ u = t /\ i = n /\ i = Len(frames[u]) /\ frames[u][i] = f /\ frames'[u][i] = g
<1>1. CASE u # t
  <2>1. frames'[u] = frames[u] /\ thread'[u] = thread[u]
    BY <1>1 DEF Moved, Ended
  <2> QED BY <1>1, <2>1 DEF First
<1>2. CASE u = t
  <2>1. 1 \in 1 .. n
    BY DEF Moved
  <2>2. \A i \in 1 .. n : i = n \/ frames'[t][i] = frames[t][i]
    BY DEF Moved
  <2>3. /\ Len(frames[t]) = n /\ DOMAIN frames[t] = 1 .. n /\ frames[t] # <<>> /\ frames[t][n] = f
        /\ Len(frames'[t]) = n /\ DOMAIN frames'[t] = 1 .. n /\ frames'[t][n] = g
        /\ g.kind = f.kind /\ g.victim = f.victim /\ thread'[t] = thread[t]
    BY DEF Moved
  <2> QED BY <1>2, <2>1, <2>2, <2>3 DEF First
<1> QED BY <1>1, <1>2

\* It is at one of its steps.
LEMMA TopPc ==
  ASSUME TypeOK, NEW t \in Threads, NEW f, frames[t] # <<>>, Top(t) = f
  PROVE  f \in Handlers /\ f.pc \in Pcs
<1>1. Top(t) \in Handlers
  BY TopFrame DEF TypeOK
<1> QED BY <1>1 DEF Handlers

LEMMA ShapeMoves ==
  ASSUME Shape, NEW t \in Threads, NEW n, NEW f, NEW g, thread[t] = "runs", Moved(t, n, f, g)
  PROVE  Shape'
<1>1. \A u \in Threads : \A i \in DOMAIN frames'[u] : frames'[u] # <<>>
  OBVIOUS
<1>2. ASSUME NEW u \in Threads, NEW i \in DOMAIN frames'[u]
      PROVE  /\ i # 1 => frames'[u][i].kind = "signal"
             /\ i # Len(frames'[u]) => frames'[u][i].pc \in Failing
  <2>1. /\ DOMAIN frames'[u] = DOMAIN frames[u] /\ Len(frames'[u]) = Len(frames[u])
        /\ frames'[u][i].kind = frames[u][i].kind
        /\ frames'[u][i] = frames[u][i] \/ i = Len(frames[u])
    BY <1>1, <1>2, MovedView
  <2> QED BY <1>2, <2>1 DEF Shape
<1>3. ASSUME NEW u \in Threads, frames'[u] # <<>>
      PROVE  First(u)'.kind = "mach" <=> u \in MachThreads
  <2>1. frames[u] # <<>> /\ First(u)'.kind = First(u).kind
    BY <1>3, MovedView
  <2> QED BY <2>1 DEF Shape
<1>4. ASSUME NEW u \in Threads, thread'[u] \in {"faulted", "signalled", "receives"}
      PROVE  frames'[u] = frames[u] /\ thread'[u] = thread[u]
  BY <1>4 DEF Moved, Ended
<1>5. \A u \in Threads : thread'[u] \in {"faulted", "signalled"} =>
        /\ u \in MachThreads => frames'[u] # <<>>
        /\ frames'[u] # <<>> => Top(u)'.pc \in Failing
  BY <1>4 DEF Shape, Top
<1>6. \A m \in MachThreads : thread'[m] = "receives" => frames'[m] = <<>>
  BY <1>4, ThreadNames DEF Shape
<1> QED BY <1>2, <1>3, <1>5, <1>6 DEF Shape

\* Below another handler a handler has announced its crash.
LEMMA BelowTop ==
  ASSUME TypeOK, Shape, Noticed, NEW t \in Threads, NEW i \in DOMAIN frames[t], NEW j \in DOMAIN frames[t],
         i < j, Kills(frames[t][i])
  PROVE  /\ g_handlingFatalException /\ frames[t][i].pc \in Failing
         /\ frames[t][j].pc \notin {"suspend", "check"} => g_crashedDuringExceptionHandling
<1>1. DOMAIN frames[t] = 1 .. Len(frames[t]) /\ Len(frames[t]) \in Nat
  BY LenProperties DEF TypeOK
<1>2. i # Len(frames[t])
  BY <1>1
<1> QED BY <1>2 DEF Shape, Noticed, Failing, Armed

\* A handler that announced its crash stops every other that would take it back.
LEMMA NoneTakesBack ==
  ASSUME HeldInv, Shape, NEW t \in Threads, frames[t] # <<>>, Top(t).kind = "snapshot", Runs(t),
         NEW u \in Threads, NEW i \in DOMAIN frames[u], Kills(frames[u][i]), frames[u][i].pc \in Armed
  PROVE  u = t
<1> SUFFICES ASSUME u # t PROVE FALSE
  OBVIOUS
<1>1. Top(t) = frames[t][Len(frames[t])] /\ Len(frames[t]) \in DOMAIN frames[t]
  BY TopFrame DEF HeldInv, TypeOK
<1>2. Len(frames[t]) = 1
  BY <1>1 DEF Shape
<1>3. t \in AppThreads
  BY <1>1, <1>2, ThreadNames DEF Shape, First
<1>4. Holding(frames[u][i])
  BY DEF Holding, Kills, Armed, Stopping
<1> QED BY <1>3, <1>4, HeldStill

LEMMA NoticedMoves ==
  ASSUME HeldInv, Shape, Noticed, NEW t \in Threads, NEW n, NEW f, NEW g, Runs(t),
         Moved(t, n, f, g), Effect(t, f, g)
  PROVE  Noticed'
<1>0. TypeOK
  BY DEF HeldInv
<1> SUFFICES ASSUME NEW u \in Threads, NEW i \in DOMAIN frames'[u], Kills(frames'[u][i])
             PROVE  /\ frames'[u][i].pc \in Armed => g_handlingFatalException'
                    /\ \A j \in DOMAIN frames'[u] : i < j =>
                         /\ frames'[u][j].pc \notin {"suspend", "check"} => g_crashedDuringExceptionHandling'
                         /\ frames'[u][j].pc # "write"
  BY DEF Noticed
<1>1. /\ frames[u] # <<>> /\ DOMAIN frames'[u] = DOMAIN frames[u] /\ Len(frames'[u]) = Len(frames[u])
      /\ \A k \in DOMAIN frames[u] :
           /\ frames'[u][k].kind = frames[u][k].kind
           /\ \/ frames'[u][k] = frames[u][k]
              \/ u = t /\ k = n /\ k = Len(frames[u]) /\ frames[u][k] = f /\ frames'[u][k] = g
  BY MovedView
<1>2. Kills(frames[u][i]) /\ i \in DOMAIN frames[u]
  BY <1>1 DEF Kills
<1>3. DOMAIN frames[u] = 1 .. Len(frames[u]) /\ Len(frames[u]) \in Nat
  BY <1>0, LenProperties DEF TypeOK
<1>4. g_crashedDuringExceptionHandling => g_crashedDuringExceptionHandling'
  BY DEF Effect
<1>5. ASSUME frames'[u][i].pc \in Armed PROVE g_handlingFatalException'
  <2>1. frames[u][i].pc \in Armed \/ (frames[u][i] = f /\ f.pc = "set")
    <3>1. CASE frames'[u][i] = frames[u][i]
      BY <1>5, <3>1
    <3>2. CASE frames[u][i] = f /\ frames'[u][i] = g
      <4>1. f.kind # "passon" /\ Fatal(f.kind)
        BY <1>2, <3>2 DEF Kills, Fatal
      <4>2. GoesTo(f, g)
        BY DEF Effect
      <4>3. f.pc \notin {"suspend", "check", "resume", "after"} => f.pc \in Armed \/ f.pc = "set"
        <5>1. f.pc \in Pcs
          BY <1>0, TopPc DEF Moved
        <5> QED BY <5>1 DEF Pcs, Armed
      <4> QED BY <1>5, <3>2, <4>1, <4>2, <4>3 DEF GoesTo, Armed
    <3> QED BY <1>1, <1>2, <3>1, <3>2
  <2>2. g_handlingFatalException \/ f.pc = "set"
    BY <1>2, <2>1 DEF Noticed
  <2>3. CASE f.pc = "tail" /\ f.kind = "snapshot"
    <3>1. u = t
      BY <1>0, <1>2, <2>1, <2>3, NoneTakesBack DEF Moved
    <3>2. Len(frames[t]) = 1 /\ i = 1 /\ frames'[t][1] = g
      <4>1. Len(frames[t]) = n /\ n \in DOMAIN frames[t] /\ frames[t][n] = f /\ frames'[t][n] = g /\ n \in Nat
        BY DEF Moved
      <4>2. n = 1
        BY <2>3, <4>1 DEF Shape
      <4> QED BY <1>2, <1>3, <3>1, <4>1, <4>2
    <3>3. g.pc = "resume"
      BY <2>3 DEF Effect, GoesTo
    <3> QED BY <1>5, <3>1, <3>2, <3>3 DEF Armed
  <2>4. CASE ~(f.pc = "tail" /\ f.kind = "snapshot")
    BY <2>2, <2>4 DEF Effect
  <2> QED BY <2>3, <2>4
<1>6. ASSUME NEW j \in DOMAIN frames'[u], i < j
      PROVE  /\ frames'[u][j].pc \notin {"suspend", "check"} => g_crashedDuringExceptionHandling'
             /\ frames'[u][j].pc # "write"
  <2>1. j \in DOMAIN frames[u]
    BY <1>1
  <2>2. CASE frames'[u][j] = frames[u][j]
    BY <1>2, <1>4, <1>6, <2>1, <2>2 DEF Noticed
  <2>3. CASE u = t /\ frames[u][j] = f /\ frames'[u][j] = g
    <3>1. /\ g_handlingFatalException
          /\ f.pc \notin {"suspend", "check"} => g_crashedDuringExceptionHandling
      BY <1>0, <1>2, <1>6, <2>1, <2>3, BelowTop
    <3>2. f.kind = "signal"
      <4>1. j # 1
        BY <1>2, <1>3, <1>6, <2>1
      <4> QED BY <2>1, <2>3, <4>1 DEF Shape
    <3>3. GoesTo(f, g)
      BY DEF Effect
    <3>4. f.pc = "suspend" => g.pc \in {"suspend", "check"}
      BY <3>2, <3>3 DEF GoesTo, Fatal
    <3>5. f.pc = "check" => g.pc = "set" /\ g_crashedDuringExceptionHandling'
      BY <3>1, <3>3 DEF GoesTo, Effect
    <3>6. f.pc \notin {"suspend", "check"} => g_crashedDuringExceptionHandling' /\ g.pc # "write"
      <4>1. f.pc \in Pcs
        BY <1>0, TopPc DEF Moved
      <4> QED BY <1>4, <3>1, <3>3, <4>1 DEF GoesTo, Pcs
    <3> QED BY <2>3, <3>4, <3>5, <3>6
  <2> QED BY <1>1, <2>1, <2>2, <2>3
<1> QED BY <1>5, <1>6

\* The first handler of the first exception thread fills its context only after it
\* has restored the ports.
LEMMA AwakeMoves ==
  ASSUME TypeOK, Shape, Awake, NEW t \in Threads, NEW n, NEW f, NEW g, Runs(t),
         Moved(t, n, f, g), Effect(t, f, g)
  PROVE  Awake'
<1>0. "primary" \in MachThreads /\ "primary" \in Threads /\ "secondary" \in Threads
  BY ThreadNames
<1>1. enabled = {} => enabled' = {}
  BY DEF Effect, Disabled, Undisturbed
<1>2. ports = "previous" => ports' = "previous"
  BY DEF Effect, Disabled
<1>3. thread'["primary"] = thread["primary"] \/ thread'["primary"] = "gone"
  BY <1>0 DEF Moved, Ended
<1>4. frames'["secondary"] # <<>> => frames["secondary"] # <<>>
  BY <1>0, MovedView
<1>5. \/ suspended'["secondary"] = suspended["secondary"]
      \/ suspended'["secondary"] = 0 /\ f.pc = "restore" /\ t = "primary"
  BY DEF Effect
<1>6. f.pc = "restore" /\ t = "primary" => ports' = "previous"
  BY DEF Effect, Disables
<1>7. Runs(t) /\ t = "primary" => thread'["primary"] # "receives"
  BY <1>3 DEF Runs
<1>8. frames'["secondary"] # <<>> => suspended'["secondary"] = 0
  BY <1>4, <1>5 DEF Awake
<1>9. suspended'["secondary"] = 0 => ports' = "previous" /\ thread'["primary"] # "receives"
  BY <1>2, <1>3, <1>5, <1>6, <1>7 DEF Awake
<1>10. ASSUME frames'["primary"] # <<>>, First("primary")'.pc \in Failing PROVE ports' = "previous"
  <2>1. /\ frames["primary"] # <<>> /\ DOMAIN frames'["primary"] = DOMAIN frames["primary"]
        /\ \A i \in DOMAIN frames["primary"] :
              \/ frames'["primary"][i] = frames["primary"][i]
              \/ "primary" = t /\ i = n /\ frames["primary"][i] = f /\ frames'["primary"][i] = g
    BY <1>0, <1>10, MovedView
  <2>2. 1 \in DOMAIN frames["primary"]
    BY <1>0, <2>1, EmptySeq, LenProperties DEF TypeOK
  <2>3. CASE First("primary")' = First("primary")
    BY <1>2, <1>10, <2>1, <2>3 DEF Awake, PrimaryAt
  <2>4. CASE t = "primary" /\ First("primary") = f /\ First("primary")' = g
    <3>1. f.kind = "mach"
      BY <1>0, <2>1, <2>4 DEF Shape
    <3>2. GoesTo(f, g) /\ f.pc \in Pcs
      BY TopPc DEF Effect, Moved
    <3>3. f.pc = "restore" \/ f.pc \in Failing
      BY <1>10, <2>4, <3>1, <3>2 DEF GoesTo, Pcs, Failing, Fatal
    <3> QED BY <1>2, <1>6, <2>1, <2>4, <3>3 DEF Awake, PrimaryAt
  <2> QED BY <2>1, <2>2, <2>3, <2>4 DEF First
<1>11. ASSUME cancelled' # {} PROVE enabled' = {}
  BY <1>1, <1>11 DEF Effect, Disabled, Undisturbed, Awake
<1> QED BY <1>8, <1>9, <1>10, <1>11 DEF Awake, PrimaryAt

LEMMA MessagesMoves ==
  ASSUME Messages, NEW t \in Threads, NEW n, NEW f, NEW g, Moved(t, n, f, g)
  PROVE  Messages'
<1>1. queue' = queue
  BY DEF Moved
<1>2. \A u \in AppThreads : thread'[u] = thread[u]
  BY ThreadNames DEF Moved, Ended
<1>3. \A m \in MachThreads : frames'[m] # <<>> => frames[m] # <<>> /\ Victim(m)' = Victim(m)
  BY MovedView, ThreadNames DEF Victim
<1>4. \A k \in DOMAIN queue' : queue'[k] \in AppThreads /\ thread'[queue'[k]] = "faulted"
  BY <1>1, <1>2 DEF Messages
<1>5. ASSUME NEW m \in MachThreads, frames'[m] # <<>>
      PROVE  /\ Victim(m)' \in AppThreads /\ thread'[Victim(m)'] = "faulted"
             /\ \A k \in DOMAIN queue' : queue'[k] # Victim(m)'
             /\ \A l \in MachThreads : frames'[l] # <<>> /\ Victim(l)' = Victim(m)' => l = m
  BY <1>1, <1>2, <1>3, <1>5 DEF Messages
<1>6. \A k, l \in DOMAIN queue' : queue'[k] = queue'[l] => k = l
  BY <1>1 DEF Messages
<1> QED BY <1>4, <1>5, <1>6 DEF Messages

\* A handler that goes on.
LEMMA StacksMoves ==
  ASSUME HeldInv, StacksInv, NEW t \in Threads, NEW n, NEW f, NEW g, Runs(t),
         Moved(t, n, f, g), Effect(t, f, g)
  PROVE  StacksInv'
BY ShapeMoves, NoticedMoves, AwakeMoves, MessagesMoves DEF StacksInv, HeldInv, Runs

\* What the end of a handler leaves of the stacks.
LEMMA PoppedView ==
  ASSUME TypeOK, Shape, NEW t \in Threads, NEW n, NEW f, Popped(t, n, f), NEW u \in Threads, frames'[u] # <<>>
  PROVE  /\ frames[u] # <<>> /\ (u # t => frames'[u] = frames[u]) /\ 1 \in DOMAIN frames'[u]
         /\ \/ /\ \A i \in DOMAIN frames'[u] :
                    /\ i \in DOMAIN frames[u] /\ frames'[u][i] = frames[u][i]
                    /\ i # Len(frames'[u]) => i # Len(frames[u])
            \/ /\ u = t /\ Len(frames[u]) = 1 /\ Len(frames'[u]) = 1 /\ DOMAIN frames'[u] = {1}
               /\ frames[u][1] = f /\ f.kind = "passon" /\ frames'[u][1] = Frame("nsexception", "suspend", t)
<1>0. frames[t] # <<>> /\ Len(frames[t]) = n /\ n \in Nat \ {0} /\ DOMAIN frames[t] = 1 .. n /\ frames[t][n] = f
  BY DEF Popped
<1>1. CASE u # t
  <2>1. frames'[u] = frames[u]
    BY <1>1 DEF Popped
  <2>2. 1 \in DOMAIN frames[u]
    BY <2>1, EmptySeq, LenProperties DEF TypeOK
  <2> QED BY <1>1, <2>1, <2>2
<1>2. CASE u = t /\ n # 1 /\ Len(frames'[t]) = n - 1 /\ DOMAIN frames'[t] = 1 .. n - 1
               /\ \A i \in 1 .. n - 1 : frames'[t][i] = frames[t][i]
  BY <1>0, <1>2
<1>3. CASE /\ u = t /\ f.kind = "passon" /\ Len(frames'[t]) = n /\ DOMAIN frames'[t] = 1 .. n
           /\ frames'[t][n] = Frame("nsexception", "suspend", t)
  <2>1. n = 1
    BY <1>0, <1>3 DEF Shape
  <2>2. 1 .. n = {1}
    BY <2>1
  <2> QED BY <1>0, <1>3, <2>1, <2>2
<1> QED BY <1>1, <1>2, <1>3 DEF Popped

\* A message's handler answers it: its thread goes on to the signal.
LEMMA PoppedThreads ==
  ASSUME TypeOK, Shape, Messages, NEW t \in Threads, NEW n, NEW f, Runs(t), Popped(t, n, f)
  PROVE  /\ f.kind = "mach" =>
              /\ n = 1 /\ t \in MachThreads /\ frames'[t] = <<>> /\ thread'[t] = "gone" /\ First(t) = f
              /\ Victim(t) \in AppThreads /\ thread'[Victim(t)] = "signalled"
         /\ f.kind # "mach" => thread'[t] \in {"runs", "signalled"}
         /\ \A u \in Threads : u # t =>
              \/ thread'[u] = thread[u]
              \/ f.kind = "mach" /\ u = Victim(t) /\ thread[u] = "faulted" /\ thread'[u] = "signalled"
<1>0. frames[t] # <<>> /\ Len(frames[t]) = n /\ n \in Nat \ {0} /\ DOMAIN frames[t] = 1 .. n /\ frames[t][n] = f
  BY DEF Popped
<1>1. CASE f.kind = "mach"
  <2>1. n = 1
    BY <1>0, <1>1 DEF Shape
  <2>2. First(t) = f /\ t \in MachThreads
    BY <1>0, <1>1, <2>1 DEF Shape, First
  <2>3. f.victim \in AppThreads /\ thread[f.victim] = "faulted" /\ Victim(t) = f.victim
    BY <1>0, <2>2 DEF Messages, Victim
  <2>4. t # f.victim /\ frames'[t] = <<>>
    BY <1>1, <2>1, <2>2, <2>3, ThreadNames DEF Popped
  <2> QED BY <1>1, <2>1, <2>2, <2>3, <2>4 DEF Popped
<1>2. CASE f.kind # "mach"
  BY <1>2 DEF Popped, Runs
<1> QED BY <1>1, <1>2

LEMMA ShapePops ==
  ASSUME TypeOK, Shape, Messages, NEW t \in Threads, NEW n, NEW f, Runs(t), Popped(t, n, f)
  PROVE  Shape'
<1>1. \A u \in Threads : \A i \in DOMAIN frames'[u] : frames'[u] # <<>>
  OBVIOUS
<1>2. ASSUME NEW u \in Threads, NEW i \in DOMAIN frames'[u]
      PROVE  /\ i # 1 => frames'[u][i].kind = "signal"
             /\ i # Len(frames'[u]) => frames'[u][i].pc \in Failing
  <2>1. CASE i \in DOMAIN frames[u] /\ frames'[u][i] = frames[u][i] /\ (i # Len(frames'[u]) => i # Len(frames[u]))
    BY <2>1 DEF Shape
  <2>2. CASE DOMAIN frames'[u] = {1} /\ Len(frames'[u]) = 1
    BY <2>2
  <2> QED BY <1>1, <2>1, <2>2, PoppedView
<1>3. ASSUME NEW u \in Threads, frames'[u] # <<>>
      PROVE  First(u)'.kind = "mach" <=> u \in MachThreads
  <2>1. CASE frames'[u][1] = frames[u][1]
    <3>1. frames[u] # <<>>
      BY <1>3, PoppedView
    <3> QED BY <2>1, <3>1 DEF Shape, First
  <2>2. CASE frames[u] # <<>> /\ frames[u][1] = f /\ f.kind = "passon" /\ frames'[u][1] = Frame("nsexception", "suspend", t)
    BY <2>2 DEF Shape, First, Frame
  <2> QED BY <1>3, <2>1, <2>2, PoppedView
<1>4. ASSUME NEW u \in Threads, thread'[u] \in {"faulted", "signalled"}
      PROVE  /\ u \in MachThreads => frames'[u] # <<>>
             /\ frames'[u] # <<>> => Top(u)'.pc \in Failing
  <2>1. CASE u # t
    <3>1. frames'[u] = frames[u]
      BY <2>1 DEF Popped
    <3>2. thread[u] \in {"faulted", "signalled"}
      BY <1>4, <2>1, PoppedThreads
    <3> QED BY <3>1, <3>2 DEF Shape, Top
  <2>2. CASE u = t
    <3>1. f.kind # "mach" /\ thread[t] = "runs" /\ thread'[t] = "signalled"
      BY <1>4, <2>2, PoppedThreads DEF Runs
    <3>2. n # 1 \/ t \notin MachThreads
      BY <3>1 DEF Popped, Shape, First
    <3>3. CASE n = 1 /\ frames'[t] = <<>>
      BY <2>2, <3>2, <3>3
    <3>4. CASE n # 1 /\ frames'[t] # <<>> /\ Top(t)' = frames[t][n - 1]
      <4>1. n - 1 \in DOMAIN frames[t] /\ n - 1 # Len(frames[t])
        BY <3>4 DEF Popped
      <4> QED BY <2>2, <3>4, <4>1 DEF Shape
    <3>5. CASE thread' = thread
      BY <3>1, <3>5
    <3> QED BY <3>3, <3>4, <3>5 DEF Popped
  <2> QED BY <2>1, <2>2
<1>5. ASSUME NEW m \in MachThreads, thread'[m] = "receives"
      PROVE  frames'[m] = <<>>
  <2>1. m # t /\ thread[m] = "receives"
    BY <1>5, PoppedThreads, ThreadNames
  <2> QED BY <2>1, ThreadNames DEF Shape, Popped
<1> QED BY <1>2, <1>3, <1>4, <1>5 DEF Shape

LEMMA StacksPops ==
  ASSUME TypeOK, StacksInv, NEW t \in Threads, NEW n, NEW f, Runs(t), Popped(t, n, f), Settled
  PROVE  StacksInv'
<1> USE DEF StacksInv
<1>0. "primary" \in MachThreads /\ "primary" \in Threads /\ "secondary" \in Threads /\ MachThreads \subseteq Threads
  BY ThreadNames
<1>1. Shape'
  BY ShapePops
<1>2. Noticed'
  <2> SUFFICES ASSUME NEW u \in Threads, NEW i \in DOMAIN frames'[u], Kills(frames'[u][i])
               PROVE  /\ frames'[u][i].pc \in Armed => g_handlingFatalException'
                      /\ \A j \in DOMAIN frames'[u] : i < j =>
                           /\ frames'[u][j].pc \notin {"suspend", "check"} => g_crashedDuringExceptionHandling'
                           /\ frames'[u][j].pc # "write"
    BY DEF Noticed
  <2>1. frames'[u] # <<>>
    OBVIOUS
  <2>2. CASE \A k \in DOMAIN frames'[u] : k \in DOMAIN frames[u] /\ frames'[u][k] = frames[u][k]
    BY <2>2 DEF Noticed, Settled
  <2>3. CASE DOMAIN frames'[u] = {1} /\ frames'[u][1] = Frame("nsexception", "suspend", t)
    BY <2>3 DEF Frame, Armed
  <2> QED BY <2>1, <2>2, <2>3, PoppedView
<1>3. First("primary")' = First("primary") \/ frames'["primary"] = <<>>
  <2> SUFFICES ASSUME frames'["primary"] # <<>> PROVE First("primary")' = First("primary")
    OBVIOUS
  <2>1. frames["primary"] # <<>> /\ 1 \in DOMAIN frames'["primary"] /\ frames["primary"][1].kind = "mach"
    BY <1>0, PoppedView DEF Shape, First
  <2> QED BY <1>0, <2>1, PoppedView DEF First
<1>4. Awake'
  <2>1. frames'["secondary"] # <<>> => frames["secondary"] # <<>>
    BY <1>0, PoppedView
  <2>2. thread["primary"] # "receives" => thread'["primary"] # "receives"
    BY <1>0, PoppedThreads
  <2>3. frames'["primary"] # <<>> => frames["primary"] # <<>>
    BY <1>0, PoppedView
  <2> QED BY <1>3, <2>1, <2>2, <2>3 DEF Awake, PrimaryAt, Settled
<1>5. Messages'
  <2>0. queue' = queue /\ thread[t] = "runs" /\ frames[t] # <<>>
    BY DEF Popped, Runs
  <2>1. ASSUME NEW m \in MachThreads, frames'[m] # <<>>
        PROVE  frames[m] # <<>> /\ Victim(m)' = Victim(m) /\ (f.kind = "mach" => m # t)
    <3>1. frames[m] # <<>> /\ 1 \in DOMAIN frames'[m] /\ frames[m][1].kind = "mach"
      BY <1>0, <2>1, PoppedView DEF Shape, First
    <3>2. frames'[m][1] = frames[m][1]
      BY <1>0, <2>1, <3>1, PoppedView
    <3> QED BY <2>1, <3>1, <3>2, PoppedThreads DEF Victim, First
  <2>2. ASSUME NEW u \in AppThreads, thread[u] = "faulted", f.kind = "mach" => u # Victim(t)
        PROVE  thread'[u] = "faulted"
    BY <2>0, <2>2, PoppedThreads, ThreadNames
  <2>3. f.kind = "mach" => t \in MachThreads
    BY PoppedThreads
  <2>4. \A k \in DOMAIN queue' : queue'[k] \in AppThreads /\ thread'[queue'[k]] = "faulted"
    BY <2>0, <2>2, <2>3 DEF Messages
  <2>5. \A k, l \in DOMAIN queue' : queue'[k] = queue'[l] => k = l
    BY <2>0 DEF Messages
  <2>6. ASSUME NEW m \in MachThreads, frames'[m] # <<>>
        PROVE  /\ Victim(m)' \in AppThreads /\ thread'[Victim(m)'] = "faulted"
               /\ \A k \in DOMAIN queue' : queue'[k] # Victim(m)'
               /\ \A l \in MachThreads : frames'[l] # <<>> /\ Victim(l)' = Victim(m)' => l = m
    <3>1. frames[m] # <<>> /\ Victim(m)' = Victim(m) /\ (f.kind = "mach" => m # t)
      BY <2>1, <2>6
    <3>2. /\ Victim(m) \in AppThreads /\ thread[Victim(m)] = "faulted"
          /\ \A k \in DOMAIN queue : queue[k] # Victim(m)
          /\ \A l \in MachThreads : frames[l] # <<>> /\ Victim(l) = Victim(m) => l = m
      BY <3>1 DEF Messages
    <3>3. f.kind = "mach" => Victim(m) # Victim(t)
      BY <2>0, <2>3, <3>1, <3>2
    <3>4. thread'[Victim(m)] = "faulted"
      BY <2>2, <3>2, <3>3
    <3> QED BY <2>0, <2>1, <3>1, <3>2, <3>4
  <2> QED BY <2>4, <2>5, <2>6 DEF Messages
<1> QED BY <1>1, <1>2, <1>4, <1>5

\* What the start of a handler leaves of the stacks.
LEMMA StartedView ==
  ASSUME NEW t \in Threads, NEW n, NEW g, Started(t, n, g), NEW u \in Threads, NEW i \in DOMAIN frames'[u]
  PROVE  \/ /\ i \in DOMAIN frames[u] /\ frames'[u][i] = frames[u][i]
            /\ i # Len(frames'[u]) => u = t \/ i # Len(frames[u])
            /\ u = t => i <= n
         \/ u = t /\ i = n + 1 /\ frames'[u][i] = g /\ i = Len(frames'[u]) /\ i \notin DOMAIN frames[u]
<1>1. CASE u # t
  BY <1>1 DEF Started
<1>2. CASE u = t
  <2>1. /\ n \in Nat /\ Len(frames[t]) = n /\ DOMAIN frames[t] = 1 .. n
        /\ Len(frames'[t]) = n + 1 /\ DOMAIN frames'[t] = 1 .. n + 1 /\ frames'[t][n + 1] = g
        /\ \A k \in 1 .. n : frames'[t][k] = frames[t][k]
    BY DEF Started
  <2>2. i \in 1 .. n \/ (i = n + 1 /\ i \notin 1 .. n)
    BY <1>2, <2>1
  <2> QED BY <1>2, <2>1, <2>2
<1> QED BY <1>1, <1>2

LEMMA ShapeStarts ==
  ASSUME TypeOK, Shape, NEW t \in Threads, NEW n, NEW g, Started(t, n, g),
         n # 0 => g.kind = "signal" /\ Top(t).pc \in Failing,
         n = 0 => (g.kind = "mach" <=> t \in MachThreads)
  PROVE  Shape'
<1>0. n \in Nat /\ Len(frames[t]) = n /\ (frames[t] = <<>> <=> n = 0) /\ (n # 0 => Top(t) = frames[t][n])
  BY EmptySeq DEF Started, TypeOK, Top, Last
<1>1. ASSUME NEW u \in Threads, NEW i \in DOMAIN frames'[u]
      PROVE  /\ i # 1 => frames'[u][i].kind = "signal"
             /\ i # Len(frames'[u]) => frames'[u][i].pc \in Failing
  <2>1. CASE /\ i \in DOMAIN frames[u] /\ frames'[u][i] = frames[u][i]
             /\ i # Len(frames'[u]) => u = t \/ i # Len(frames[u])
             /\ u = t => i <= n
    <3>1. i # 1 => frames'[u][i].kind = "signal"
      BY <2>1 DEF Shape
    <3>2. i # Len(frames[u]) => frames'[u][i].pc \in Failing
      BY <2>1 DEF Shape
    <3>3. u = t /\ i = Len(frames[u]) => frames'[u][i].pc \in Failing
      <4>1. u = t /\ i = Len(frames[u]) => i = n /\ n # 0
        BY <1>0, <2>1, EmptySeq
      <4> QED BY <1>0, <2>1, <4>1
    <3> QED BY <2>1, <3>1, <3>2, <3>3
  <2>2. CASE u = t /\ i = n + 1 /\ frames'[u][i] = g /\ i = Len(frames'[u])
    <3>1. i # 1 => n # 0
      BY <1>0, <2>2
    <3> QED BY <2>2, <3>1
  <2> QED BY <1>1, <2>1, <2>2, StartedView
<1>2. ASSUME NEW u \in Threads, frames'[u] # <<>>
      PROVE  First(u)'.kind = "mach" <=> u \in MachThreads
  <2>1. CASE u # t
    BY <1>2, <2>1 DEF Started, Shape, First
  <2>2. CASE u = t /\ n = 0
    <3>1. frames'[t][1] = g
      BY <1>0, <2>2 DEF Started
    <3> QED BY <2>2, <3>1 DEF First
  <2>3. CASE u = t /\ n # 0
    <3>1. 1 \in 1 .. n
      BY <1>0, <2>3
    <3>2. frames'[t][1] = frames[t][1]
      BY <3>1 DEF Started
    <3> QED BY <1>0, <2>3, <3>2 DEF First, Shape
  <2> QED BY <2>1, <2>2, <2>3
<1>3. \A u \in Threads : thread'[u] \in {"faulted", "signalled", "receives"} =>
        thread'[u] = thread[u] /\ frames'[u] = frames[u]
  BY DEF Started
<1>4. \A u \in Threads : thread'[u] \in {"faulted", "signalled"} =>
        /\ u \in MachThreads => frames'[u] # <<>>
        /\ frames'[u] # <<>> => Top(u)'.pc \in Failing
  BY <1>3 DEF Shape, Top
<1>5. \A m \in MachThreads : thread'[m] = "receives" => frames'[m] = <<>>
  BY <1>3, ThreadNames DEF Shape
<1> QED BY <1>1, <1>2, <1>4, <1>5 DEF Shape

LEMMA NoticedStarts ==
  ASSUME TypeOK, Noticed, NEW t \in Threads, NEW n, NEW g, Started(t, n, g), Settled,
         Kills(g) => g.pc \notin Armed, n # 0 => g.pc = "suspend"
  PROVE  Noticed'
<1> SUFFICES ASSUME NEW u \in Threads, NEW i \in DOMAIN frames'[u], Kills(frames'[u][i])
             PROVE  /\ frames'[u][i].pc \in Armed => g_handlingFatalException'
                    /\ \A j \in DOMAIN frames'[u] : i < j =>
                         /\ frames'[u][j].pc \notin {"suspend", "check"} => g_crashedDuringExceptionHandling'
                         /\ frames'[u][j].pc # "write"
  BY DEF Noticed
<1>0. /\ n \in Nat /\ DOMAIN frames[t] = 1 .. n /\ DOMAIN frames'[t] = 1 .. n + 1
      /\ \A v \in Threads : v # t => frames'[v] = frames[v]
  BY DEF Started
<1>1. frames'[u][i].pc \in Armed => g_handlingFatalException'
  <2>1. CASE i \in DOMAIN frames[u] /\ frames'[u][i] = frames[u][i]
    BY <2>1 DEF Noticed, Settled
  <2>2. CASE frames'[u][i] = g
    BY <2>2
  <2> QED BY <2>1, <2>2, StartedView
<1>2. ASSUME NEW j \in DOMAIN frames'[u], i < j
      PROVE  /\ frames'[u][j].pc \notin {"suspend", "check"} => g_crashedDuringExceptionHandling'
             /\ frames'[u][j].pc # "write"
  <2>1. CASE j \in DOMAIN frames[u] /\ frames'[u][j] = frames[u][j]
    <3>1. i \in DOMAIN frames[u]
      <4>1. CASE u = t
        BY <1>0, <1>2, <2>1, <4>1
      <4>2. CASE u # t
        BY <1>0, <4>2
      <4> QED BY <4>1, <4>2
    <3>2. frames'[u][i] = frames[u][i]
      BY <3>1, StartedView
    <3> QED BY <1>2, <2>1, <3>1, <3>2 DEF Noticed, Settled
  <2>2. CASE u = t /\ j = n + 1 /\ frames'[u][j] = g
    <3>1. n # 0
      BY <1>0, <1>2, <2>2
    <3> QED BY <2>2, <3>1
  <2> QED BY <1>2, <2>1, <2>2, StartedView
<1> QED BY <1>1, <1>2

LEMMA AwakeStarts ==
  ASSUME TypeOK, Awake, NEW t \in Threads, NEW n, NEW g, Started(t, n, g), Settled,
         n = 0 /\ t = "secondary" => suspended["secondary"] = 0,
         n = 0 /\ t = "primary" => g.pc \notin Failing
  PROVE  Awake'
<1>0. n \in Nat /\ (frames[t] = <<>> <=> n = 0) /\ "primary" \in Threads /\ "secondary" \in Threads
  BY ThreadNames, EmptySeq DEF Started, TypeOK
<1>1. frames'["secondary"] # <<>> => suspended'["secondary"] = 0
  BY <1>0 DEF Started, Settled, Awake
<1>2. thread'["primary"] \in {thread["primary"], "runs"}
  BY <1>0 DEF Started
<1>3. ASSUME frames'["primary"] # <<>>, First("primary")'.pc \in Failing
      PROVE  PrimaryAt(Failing)
  <2>1. CASE t # "primary"
    BY <1>0, <1>3, <2>1 DEF Started, PrimaryAt, First
  <2>2. CASE t = "primary" /\ n = 0
    <3>1. frames'[t][1] = g
      BY <1>0, <2>2 DEF Started
    <3> QED BY <1>3, <2>2, <3>1 DEF First
  <2>3. CASE t = "primary" /\ n # 0
    <3>1. 1 \in 1 .. n
      BY <1>0, <2>3
    <3>2. frames'[t][1] = frames[t][1]
      BY <3>1 DEF Started
    <3> QED BY <1>0, <1>3, <2>3, <3>2 DEF First, PrimaryAt
  <2> QED BY <2>1, <2>2, <2>3
<1> QED BY <1>1, <1>2, <1>3 DEF Awake, PrimaryAt, Settled

\* A handler of the program's own events, or of a signal.
LEMMA StacksStarts ==
  ASSUME TypeOK, StacksInv, NEW t \in Threads, NEW n, NEW g, Started(t, n, g), Settled, queue' = queue,
         thread[t] \in {"runs", "signalled"}, g.kind # "mach", Kills(g) => g.pc = "suspend",
         n # 0 => thread[t] = "signalled" /\ g.kind = "signal", n = 0 /\ thread[t] = "runs" => t \in AppThreads
  PROVE  StacksInv'
<1> USE DEF StacksInv
<1>0. n \in Nat /\ (frames[t] = <<>> <=> n = 0)
  BY EmptySeq DEF Started, TypeOK
<1>1. n = 0 => t \notin MachThreads
  BY <1>0, ThreadNames DEF Shape
<1>2. n # 0 => Top(t).pc \in Failing
  BY <1>0 DEF Shape
<1>3. g.kind = "signal" => Kills(g)
  BY DEF Kills, Suspends, Fatal
<1>4. Shape'
  BY <1>1, <1>2, ShapeStarts
<1>5. Noticed'
  BY <1>3, NoticedStarts DEF Armed
<1>6. Awake'
  BY <1>1, ThreadNames, AwakeStarts
<1>7. Messages'
  <2>1. \A u \in AppThreads : thread[u] = "faulted" => thread'[u] = "faulted"
    BY ThreadNames DEF Started
  <2>2. \A m \in MachThreads : frames'[m] # <<>> => frames[m] # <<>> /\ Victim(m)' = Victim(m)
    <3> SUFFICES ASSUME NEW m \in MachThreads, frames'[m] # <<>>
                 PROVE  frames[m] # <<>> /\ Victim(m)' = Victim(m)
      OBVIOUS
    <3>1. CASE m # t
      BY <3>1, ThreadNames DEF Started, Victim, First
    <3>2. CASE m = t
      <4>1. n # 0 /\ 1 \in 1 .. n
        BY <1>0, <1>1, <3>2
      <4>2. frames'[t][1] = frames[t][1]
        BY <4>1 DEF Started
      <4> QED BY <1>0, <3>2, <4>1, <4>2 DEF Victim, First
    <3> QED BY <3>1, <3>2
  <2>3. \A k \in DOMAIN queue' : queue'[k] \in AppThreads /\ thread'[queue'[k]] = "faulted"
    BY <2>1 DEF Messages
  <2>4. \A k, l \in DOMAIN queue' : queue'[k] = queue'[l] => k = l
    BY DEF Messages
  <2>5. ASSUME NEW m \in MachThreads, frames'[m] # <<>>
        PROVE  /\ Victim(m)' \in AppThreads /\ thread'[Victim(m)'] = "faulted"
               /\ \A k \in DOMAIN queue' : queue'[k] # Victim(m)'
               /\ \A l \in MachThreads : frames'[l] # <<>> /\ Victim(l)' = Victim(m)' => l = m
    BY <2>1, <2>2, <2>5 DEF Messages
  <2> QED BY <2>3, <2>4, <2>5 DEF Messages
<1> QED BY <1>4, <1>5, <1>6, <1>7

\* The queue without its first message, and with a new last one.
LEMMA QueueTail ==
  ASSUME queue \in Seq(Threads), queue # <<>>
  PROVE  /\ Head(queue) = queue[1] /\ 1 \in DOMAIN queue /\ Len(queue) \in Nat \ {0}
         /\ DOMAIN queue = 1 .. Len(queue)
         /\ Len(Tail(queue)) = Len(queue) - 1 /\ DOMAIN Tail(queue) = 1 .. Len(queue) - 1
         /\ \A k \in DOMAIN Tail(queue) :
              k + 1 \in DOMAIN queue /\ Tail(queue)[k] = queue[k + 1] /\ k \in Nat \ {0}
<1>1. Len(queue) \in Nat \ {0} /\ DOMAIN queue = 1 .. Len(queue)
  BY EmptySeq, LenProperties
<1>2. /\ Head(queue) = queue[1] /\ Tail(queue) \in Seq(Threads) /\ Len(Tail(queue)) = Len(queue) - 1
      /\ \A k \in 1 .. Len(Tail(queue)) : Tail(queue)[k] = queue[k + 1]
  BY <1>1, HeadTailProperties
<1>3. DOMAIN Tail(queue) = 1 .. Len(queue) - 1
  BY <1>2, LenProperties
<1>4. \A k \in 1 .. Len(queue) - 1 : k + 1 \in 1 .. Len(queue) /\ k \in Nat \ {0}
  BY <1>1
<1> QED BY <1>1, <1>2, <1>3, <1>4

\* What the messages are when another is sent.
LEMMA QueueAppend ==
  ASSUME queue \in Seq(Threads), NEW t \in Threads
  PROVE  /\ Len(queue) \in Nat /\ DOMAIN queue = 1 .. Len(queue)
         /\ Len(Append(queue, t)) = Len(queue) + 1 /\ DOMAIN Append(queue, t) = 1 .. Len(queue) + 1
         /\ \A k \in DOMAIN Append(queue, t) :
              \/ k \in DOMAIN queue /\ Append(queue, t)[k] = queue[k] /\ k # Len(queue) + 1
              \/ k = Len(queue) + 1 /\ Append(queue, t)[k] = t /\ k \notin DOMAIN queue
BY AppendProperties, LenProperties

\* An exception thread gets a message.
LEMMA StacksReceives ==
  ASSUME TypeOK, StacksInv, NEW t \in MachThreads, NEW n, NEW g, Started(t, n, g), Settled,
         thread[t] = "receives", suspended[t] = 0, queue # <<>>, queue' = Tail(queue),
         g.kind = "mach", g.pc \in {"suspend", "after"}, g.victim = Head(queue)
  PROVE  StacksInv'
<1> USE DEF StacksInv
<1>0. n = 0 /\ frames[t] = <<>> /\ t \in Threads /\ MachThreads \subseteq Threads
  BY ThreadNames, EmptySeq DEF Started, TypeOK, Shape
<1>1. Shape'
  BY <1>0, ShapeStarts
<1>2. Noticed'
  BY <1>0, NoticedStarts DEF Armed
<1>3. Awake'
  BY <1>0, AwakeStarts DEF Failing
<1>4. Messages'
  <2>1. /\ Head(queue) = queue[1] /\ 1 \in DOMAIN queue
        /\ \A k \in DOMAIN queue' : k + 1 \in DOMAIN queue /\ queue'[k] = queue[k + 1] /\ k \in Nat \ {0}
    BY QueueTail DEF TypeOK
  <2>2. \A u \in Threads : thread[u] = "faulted" => thread'[u] = "faulted"
    BY <1>0 DEF Started
  <2>3. \A k \in DOMAIN queue' : queue'[k] \in AppThreads /\ thread'[queue'[k]] = "faulted"
    BY <2>1, <2>2, ThreadNames DEF Messages
  <2>4. ASSUME NEW k \in DOMAIN queue', NEW l \in DOMAIN queue', queue'[k] = queue'[l]
        PROVE  k = l
    <3>1. k + 1 = l + 1
      BY <2>1, <2>4 DEF Messages
    <3> QED BY <2>1, <3>1
  <2>5. frames'[t][1] = g
    BY <1>0 DEF Started
  <2>6. Victim(t)' = queue[1] /\ queue[1] \in AppThreads /\ thread[queue[1]] = "faulted"
    BY <2>1, <2>5 DEF Victim, First, Messages
  <2>7. \A m \in MachThreads : m # t => frames'[m] = frames[m] /\ Victim(m)' = Victim(m)
    BY <1>0 DEF Started, Victim, First
  <2>8. ASSUME NEW m \in MachThreads, frames'[m] # <<>>
        PROVE  /\ Victim(m)' \in AppThreads /\ thread'[Victim(m)'] = "faulted"
               /\ \A k \in DOMAIN queue' : queue'[k] # Victim(m)'
               /\ \A l \in MachThreads : frames'[l] # <<>> /\ Victim(l)' = Victim(m)' => l = m
    <3>1. CASE m = t
      <4>1. ASSUME NEW k \in DOMAIN queue' PROVE queue'[k] # queue[1]
        <5>1. k + 1 \in DOMAIN queue /\ queue'[k] = queue[k + 1] /\ k + 1 # 1
          BY <2>1
        <5> QED BY <2>1, <5>1 DEF Messages
      <4>2. \A l \in MachThreads : l # t /\ frames'[l] # <<>> => Victim(l)' # queue[1]
        BY <2>1, <2>7 DEF Messages
      <4> QED BY <2>2, <2>6, <3>1, <4>1, <4>2, ThreadNames
    <3>2. CASE m # t
      <4>1. frames[m] # <<>> /\ Victim(m)' = Victim(m)
        BY <2>7, <2>8, <3>2
      <4>2. Victim(m) \in AppThreads /\ thread'[Victim(m)] = "faulted"
        BY <2>2, <4>1, ThreadNames DEF Messages
      <4>3. \A k \in DOMAIN queue : queue[k] # Victim(m)
        BY <4>1 DEF Messages
      <4>4. Victim(t)' # Victim(m)
        BY <2>1, <2>6, <4>3
      <4>5. \A l \in MachThreads : l # t /\ frames'[l] # <<>> /\ Victim(l)' = Victim(m) => l = m
        BY <2>7, <4>1 DEF Messages
      <4> QED BY <2>1, <3>2, <4>1, <4>2, <4>3, <4>4, <4>5
    <3> QED BY <3>1, <3>2
  <2> QED BY <2>3, <2>4, <2>8 DEF Messages
<1> QED BY <1>1, <1>2, <1>3, <1>4

\* Only a thread of the program's sends a message: when an exception thread's handler
\* fails the ports are restored.
LEMMA AppMessages ==
  ASSUME TypeOK, Shape, Awake, NEW t \in Threads, Stopped(t), ports = "ours"
  PROVE  t \in AppThreads
<1> SUFFICES ASSUME t \in MachThreads PROVE FALSE
  BY ThreadNames
<1>1. frames[t] # <<>> /\ Top(t).pc \in Failing
  BY ThreadNames DEF Stopped
<1>2. t = "primary"
  BY <1>1, ThreadNames DEF Awake
<1>3. First(t).pc \in Failing
  <2>1. Top(t) = frames[t][Len(frames[t])] /\ 1 \in DOMAIN frames[t]
    BY <1>1, TopFrame DEF TypeOK
  <2> QED BY <1>1, <2>1 DEF Shape, First
<1> QED BY <1>1, <1>2, <1>3 DEF Awake, PrimaryAt

LEMMA StacksStops ==
  ASSUME TypeOK, StacksInv, NEW t \in Threads, Stopped(t), Settled
  PROVE  StacksInv'
<1> USE DEF StacksInv
<1>0. /\ frames' = frames /\ \A u \in Threads : u # t => thread'[u] = thread[u]
      /\ thread'[t] \in {"faulted", "signalled"} /\ thread[t] = "runs"
  BY DEF Stopped, Runs
<1>1. Shape'
  <2>1. \A u \in Threads : thread'[u] \in {"faulted", "signalled"} =>
          /\ u \in MachThreads => frames'[u] # <<>>
          /\ frames'[u] # <<>> => Top(u)'.pc \in Failing
    BY <1>0, ThreadNames DEF Shape, Top, Stopped
  <2>2. \A m \in MachThreads : thread'[m] = "receives" => frames'[m] = <<>>
    BY <1>0, ThreadNames DEF Shape
  <2> QED BY <1>0, <2>1, <2>2 DEF Shape, First
<1>2. Noticed'
  BY <1>0 DEF Noticed, Settled
<1>3. Awake'
  BY <1>0, ThreadNames DEF Awake, Settled, PrimaryAt, First
<1>4. Messages'
  <2>1. \A u \in Threads : thread[u] = "faulted" => u # t /\ thread'[u] = "faulted"
    BY <1>0
  <2>2. CASE queue' = queue
    BY <1>0, <2>1, <2>2, ThreadNames DEF Messages, Victim, First
  <2>3. CASE ports = "ours" /\ thread'[t] = "faulted" /\ queue' = Append(queue, t)
    <3>0. t \in AppThreads
      BY <2>3, AppMessages
    <3>1. \A k \in DOMAIN queue' :
            \/ k \in DOMAIN queue /\ queue'[k] = queue[k]
            \/ k = Len(queue) + 1 /\ queue'[k] = t
      BY <2>3, QueueAppend DEF TypeOK
    <3>2. \A k \in DOMAIN queue : queue[k] \in AppThreads /\ thread[queue[k]] = "faulted" /\ queue[k] # t
      BY <2>1, ThreadNames DEF Messages
    <3>3. \A k \in DOMAIN queue' : queue'[k] \in AppThreads /\ thread'[queue'[k]] = "faulted"
      BY <2>1, <2>3, <3>0, <3>1, <3>2, ThreadNames
    <3>4. \A k, l \in DOMAIN queue' : queue'[k] = queue'[l] => k = l
      BY <3>1, <3>2 DEF Messages
    <3>5. ASSUME NEW m \in MachThreads, frames'[m] # <<>>
          PROVE  /\ Victim(m)' \in AppThreads /\ thread'[Victim(m)'] = "faulted"
                 /\ \A k \in DOMAIN queue' : queue'[k] # Victim(m)'
                 /\ \A l \in MachThreads : frames'[l] # <<>> /\ Victim(l)' = Victim(m)' => l = m
      <4>1. frames[m] # <<>> /\ \A l \in MachThreads : Victim(l)' = Victim(l) /\ frames'[l] = frames[l]
        BY <1>0, <3>5 DEF Victim, First
      <4>2. Victim(m) \in AppThreads /\ thread'[Victim(m)] = "faulted" /\ Victim(m) # t
        BY <2>1, <4>1, ThreadNames DEF Messages
      <4>3. \A k \in DOMAIN queue : queue[k] # Victim(m)
        BY <4>1 DEF Messages
      <4>4. \A l \in MachThreads : frames[l] # <<>> /\ Victim(l) = Victim(m) => l = m
        BY <4>1 DEF Messages
      <4> QED BY <3>1, <4>1, <4>2, <4>3, <4>4
    <3> QED BY <3>3, <3>4, <3>5 DEF Messages
  <2> QED BY <2>2, <2>3 DEF Stopped
<1> QED BY <1>1, <1>2, <1>3, <1>4

\* An exception thread ends where it is.
LEMMA StacksCancel ==
  ASSUME TypeOK, StacksInv, NEW t \in MachThreads, Settled, queue' = queue,
         frames'[t] = <<>>, thread'[t] = "gone",
         \A u \in Threads : u # t => frames'[u] = frames[u] /\ thread'[u] = thread[u]
  PROVE  StacksInv'
<1> USE DEF StacksInv
<1>0. t \in Threads /\ MachThreads \subseteq Threads
  BY ThreadNames
<1>1. ASSUME NEW u \in Threads, frames'[u] # <<>> \/ thread'[u] # "gone"
      PROVE  u # t /\ frames'[u] = frames[u] /\ thread'[u] = thread[u]
  BY <1>1
<1>2. Shape'
  <2>1. \A u \in Threads : \A i \in DOMAIN frames'[u] :
          /\ i # 1 => frames'[u][i].kind = "signal"
          /\ i # Len(frames'[u]) => frames'[u][i].pc \in Failing
    BY <1>1 DEF Shape
  <2>2. \A u \in Threads : frames'[u] # <<>> => (First(u)'.kind = "mach" <=> u \in MachThreads)
    BY <1>1 DEF Shape, First
  <2>3. \A u \in Threads : thread'[u] \in {"faulted", "signalled"} =>
          /\ u \in MachThreads => frames'[u] # <<>>
          /\ frames'[u] # <<>> => Top(u)'.pc \in Failing
    BY <1>1 DEF Shape, Top
  <2>4. \A m \in MachThreads : thread'[m] = "receives" => frames'[m] = <<>>
    BY <1>0, <1>1 DEF Shape
  <2> QED BY <2>1, <2>2, <2>3, <2>4 DEF Shape
<1>3. Noticed'
  BY <1>1 DEF Noticed, Settled
<1>4. Awake'
  <2>1. "primary" \in Threads /\ "secondary" \in Threads
    BY ThreadNames
  <2> QED BY <1>1, <2>1 DEF Awake, Settled, PrimaryAt, First
<1>5. Messages'
  <2>1. \A u \in AppThreads : thread'[u] = thread[u]
    BY ThreadNames
  <2>2. \A m \in MachThreads : frames'[m] # <<>> => frames[m] # <<>> /\ Victim(m)' = Victim(m)
    BY <1>0, <1>1 DEF Victim, First
  <2> QED BY <2>1, <2>2 DEF Messages
<1> QED BY <1>2, <1>3, <1>4, <1>5

-----------------------------------------------------------------------------
(* Without exception threads                                               *)

LEMMA NoMachMoves ==
  ASSUME NoMach, NEW t \in Threads, NEW n, NEW f, NEW g, Runs(t), Moved(t, n, f, g), Effect(t, f, g)
  PROVE  NoMach' /\ t \in AppThreads
<1>1. t \notin MachThreads
  BY DEF NoMach, Runs
<1>2. ports' = "previous"
  BY DEF NoMach, Effect, Disabled
<1> QED BY <1>1, <1>2, ThreadNames DEF NoMach, Moved, Ended

LEMMA NoMachPops ==
  ASSUME TypeOK, StacksInv, NoMach, NEW t \in Threads, NEW n, NEW f, Runs(t), Popped(t, n, f), Settled
  PROVE  NoMach' /\ t \in AppThreads
<1>1. t \notin MachThreads
  BY DEF NoMach, Runs
<1>2. f.kind # "mach"
  BY <1>1, PoppedThreads DEF StacksInv
<1> QED BY <1>1, <1>2, ThreadNames DEF NoMach, Popped, Settled

LEMMA NoMachStarts ==
  ASSUME NoMach, NEW t \in Threads, NEW n, NEW g, Started(t, n, g), Settled, queue' = queue, thread[t] # "gone"
  PROVE  NoMach' /\ t \in AppThreads
BY ThreadNames DEF NoMach, Started, Settled

LEMMA NoMachStops ==
  ASSUME NoMach, NEW t \in Threads, Stopped(t), Settled
  PROVE  NoMach' /\ t \in AppThreads
BY ThreadNames DEF NoMach, Stopped, Settled, Runs

\* What is written next is written last.
LEMMA WritesNext ==
  ASSUME TypeOK, NEW t \in Threads, NEW n, NEW f, NEW g, Moved(t, n, f, g), Effect(t, f, g)
  PROVE  /\ g.pc = "write" <=> f.pc = "context" /\ ~g_crashedDuringExceptionHandling
         /\ g.pc = "write" => ~g_crashedDuringExceptionHandling' /\ g_lastCrashReportFilePath' = g.id
                              /\ enabled' = enabled /\ Undisturbed(t)
         /\ g.pc # "write" => g_lastCrashReportFilePath' = g_lastCrashReportFilePath
         /\ g_crashedDuringExceptionHandling => g_crashedDuringExceptionHandling'
         /\ enabled = {} => enabled' = {}
         /\ GoesTo(f, g) /\ f.pc \in Pcs
<1>1. f.pc \in Pcs
  BY TopPc DEF Moved
<1>2. GoesTo(f, g)
  BY DEF Effect
<1>3. g.pc = "write" <=> f.pc = "context" /\ ~g_crashedDuringExceptionHandling
  BY <1>1, <1>2 DEF GoesTo, Pcs
<1>4. g.pc = "write" => ~Disables(f)
  BY <1>3 DEF Disables
<1> QED BY <1>1, <1>2, <1>3, <1>4 DEF Effect, GoesTo, Disabled, Undisturbed

LEMMA LastMoves ==
  ASSUME HeldInv, Shape, Noticed, \A u \in AppThreads : WritesAsLast(u),
         NEW t \in AppThreads, NEW n, NEW f, NEW g, Runs(t), Moved(t, n, f, g), Effect(t, f, g)
  PROVE  \A u \in AppThreads : WritesAsLast(u)'
<1>0. TypeOK /\ t \in Threads /\ AppThreads \subseteq Threads
  BY ThreadNames DEF HeldInv
<1>1. ASSUME NEW u \in AppThreads, u # t PROVE WritesAsLast(u)'
  <2>1. frames'[u] = frames[u]
    BY <1>0, <1>1, ThreadNames DEF Moved, Ended
  <2>2. ASSUME NEW i \in DOMAIN frames[u], Suspends(frames[u][i].kind), frames[u][i].pc = "write"
        PROVE  FALSE
    BY <1>0, <1>1, <2>2, HeldStill DEF Holding, Stopping
  <2>3. frames[u] # <<>> => 1 \in DOMAIN frames[u]
    BY <1>0, EmptySeq, LenProperties DEF TypeOK
  <2> QED BY <2>1, <2>2, <2>3 DEF WritesAsLast, First
<1>2. WritesAsLast(t)'
  <2>0. /\ n \in Nat \ {0} /\ Len(frames[t]) = n /\ DOMAIN frames[t] = 1 .. n /\ frames[t] # <<>>
        /\ Top(t) = f /\ frames[t][n] = f /\ Len(frames'[t]) = n /\ DOMAIN frames'[t] = 1 .. n
        /\ frames'[t] # <<>> /\ Top(t)' = g /\ frames'[t][n] = g /\ g.kind = f.kind
        /\ \A i \in 1 .. n : i # n => frames'[t][i] = frames[t][i]
    BY DEF Moved
  <2>1. /\ g.pc = "write" <=> f.pc = "context" /\ ~g_crashedDuringExceptionHandling
        /\ g.pc = "write" => ~g_crashedDuringExceptionHandling' /\ g_lastCrashReportFilePath' = g.id
        /\ g.pc # "write" => g_lastCrashReportFilePath' = g_lastCrashReportFilePath
        /\ enabled = {} => enabled' = {}
        /\ GoesTo(f, g)
    BY <1>0, WritesNext
  <2>2. g_crashedDuringExceptionHandling' => g_crashedDuringExceptionHandling \/ f.pc = "check"
    BY DEF Effect
  <2>3. f.pc = "set" /\ g_crashedDuringExceptionHandling => enabled' = {}
    BY DEF Effect, Disables, Disabled
  <2>4. ASSUME NEW i \in 1 .. n, i # 1, i # n PROVE g.pc # "write"
    <3>1. Kills(frames[t][i])
      BY <2>0, <2>4, <1>0 DEF Shape, Kills, Suspends, Fatal
    <3>2. i < n /\ n \in DOMAIN frames[t]
      BY <2>0, <2>4
    <3>3. f.pc \notin {"suspend", "check"} => g_crashedDuringExceptionHandling
      BY <1>0, <2>0, <3>1, <3>2, BelowTop
    <3> QED BY <2>1, <3>3
  <2>5. ASSUME NEW i \in DOMAIN frames'[t], Suspends(frames'[t][i].kind), frames'[t][i].pc = "write"
        PROVE  /\ g_crashedDuringExceptionHandling' => enabled' = {} \/ Top(t)'.pc = "set"
               /\ i # 1 => g_lastCrashReportFilePath' = frames'[t][i].id
    <3>1. CASE i = n
      BY <2>0, <2>1, <2>5, <3>1
    <3>2. CASE i # n
      <4>1. i \in DOMAIN frames[t] /\ frames'[t][i] = frames[t][i]
        BY <2>0, <2>5, <3>2
      <4>2. /\ g_crashedDuringExceptionHandling => enabled = {} \/ f.pc = "set"
            /\ i # 1 => g_lastCrashReportFilePath = frames[t][i].id
        BY <2>0, <2>5, <4>1 DEF WritesAsLast
      <4>3. g_crashedDuringExceptionHandling' => enabled' = {} \/ g.pc = "set"
        BY <2>1, <2>2, <2>3, <4>2 DEF GoesTo
      <4> QED BY <2>0, <2>1, <2>4, <3>2, <4>1, <4>2, <4>3
    <3> QED BY <3>1, <3>2
  <2>6. ASSUME Suspends(First(t)'.kind), First(t)'.pc = "write"
        PROVE  \/ g_lastCrashReportFilePath' = First(t)'.id
               \/ Len(frames'[t]) # 1 /\ frames'[t][2].pc = "write"
               \/ Len(frames'[t]) = 2 /\ frames'[t][2].pc = "tail" /\ ~g_crashedDuringExceptionHandling'
               \/ Len(frames'[t]) = 2 /\ frames'[t][2].pc \in {"tail", "resume"} /\ enabled' = {}
               \/ Len(frames'[t]) = 1 /\ enabled' = {}
    <3>1. CASE n = 1
      BY <2>0, <2>1, <2>6, <3>1 DEF First
    <3>2. CASE n # 1
      <4>1. 1 \in 1 .. n /\ 2 \in 1 .. n
        BY <2>0, <3>2
      <4>2. First(t)' = First(t)
        BY <2>0, <3>2, <4>1 DEF First
      <4>3. frames'[t][2] = frames[t][2] \/ n = 2
        BY <2>0, <4>1
      <4>4. /\ 2 # 1 /\ frames[t][2].kind = "signal"
        BY <1>0, <2>0, <4>1 DEF Shape
      <4>5. Kills(frames[t][2]) /\ Suspends(frames[t][2].kind)
        BY <4>4 DEF Kills, Suspends, Fatal
      <4>6. CASE g_lastCrashReportFilePath = First(t).id
        BY <2>0, <2>1, <2>4, <3>2, <4>1, <4>2, <4>6
      <4>7. CASE frames[t][2].pc = "write" /\ n # 2
        BY <2>0, <3>2, <4>3, <4>7
      <4>8. CASE frames[t][2].pc = "write" /\ n = 2
        <5>1. f.pc = "write" /\ g.pc = "tail"
          BY <2>0, <2>1, <4>8 DEF GoesTo
        <5>2. g_crashedDuringExceptionHandling => enabled = {}
          BY <2>0, <4>1, <4>5, <4>8, <5>1 DEF WritesAsLast
        <5> QED BY <2>0, <2>1, <2>2, <4>8, <5>1, <5>2
      <4>9. CASE n = 2 /\ f.pc = "tail" /\ ~g_crashedDuringExceptionHandling
        <5>1. g_handlingFatalException
          BY <1>0, <2>0, <4>1, <4>5, <4>9 DEF Noticed, Armed
        <5>2. Disables(f) /\ g.pc = "resume"
          BY <2>0, <2>1, <4>4, <4>9, <5>1 DEF Disables, GoesTo
        <5>3. enabled' = {}
          BY <5>2 DEF Effect, Disabled
        <5> QED BY <2>0, <4>9, <5>2, <5>3
      <4>10. CASE n = 2 /\ f.pc \in {"tail", "resume"} /\ enabled = {}
        <5>1. g.pc = "resume" /\ enabled' = {}
          BY <2>1, <4>10 DEF GoesTo
        <5> QED BY <2>0, <4>10, <5>1
      <4> QED BY <2>0, <2>6, <3>2, <4>2, <4>6, <4>7, <4>8, <4>9, <4>10 DEF WritesAsLast
    <3> QED BY <3>1, <3>2
  <2> QED BY <2>5, <2>6 DEF WritesAsLast
<1> QED BY <1>1, <1>2

LEMMA LastPops ==
  ASSUME TypeOK, Shape, \A u \in AppThreads : WritesAsLast(u),
         NEW t \in AppThreads, NEW n, NEW f, Popped(t, n, f), Settled
  PROVE  \A u \in AppThreads : WritesAsLast(u)'
<1>0. t \in Threads /\ AppThreads \subseteq Threads
  BY ThreadNames
<1>1. ASSUME NEW u \in AppThreads, u # t PROVE WritesAsLast(u)'
  <2>1. frames'[u] = frames[u]
    BY <1>0, <1>1 DEF Popped
  <2> QED BY <2>1 DEF WritesAsLast, First, Settled, Top
<1>2. WritesAsLast(t)'
  <2>0. /\ n \in Nat \ {0} /\ Len(frames[t]) = n /\ DOMAIN frames[t] = 1 .. n /\ frames[t] # <<>>
        /\ Top(t) = f /\ frames[t][n] = f /\ f.pc \in {"resume", "after"}
    BY DEF Popped
  <2>1. CASE frames'[t] = <<>>
    BY <2>1 DEF WritesAsLast
  <2>2. CASE /\ n # 1 /\ Len(frames'[t]) = n - 1 /\ DOMAIN frames'[t] = 1 .. n - 1 /\ frames'[t] # <<>>
             /\ \A i \in 1 .. n - 1 : frames'[t][i] = frames[t][i]
    <3>1. ASSUME NEW i \in DOMAIN frames'[t], Suspends(frames'[t][i].kind), frames'[t][i].pc = "write"
          PROVE  /\ g_crashedDuringExceptionHandling' => enabled' = {} \/ Top(t)'.pc = "set"
                 /\ i # 1 => g_lastCrashReportFilePath' = frames'[t][i].id
      <4>1. i \in DOMAIN frames[t] /\ frames'[t][i] = frames[t][i]
        BY <2>0, <2>2
      <4> QED BY <2>0, <3>1, <4>1 DEF WritesAsLast, Settled
    <3>2. ASSUME Suspends(First(t)'.kind), First(t)'.pc = "write"
          PROVE  \/ g_lastCrashReportFilePath' = First(t)'.id
                 \/ Len(frames'[t]) # 1 /\ frames'[t][2].pc = "write"
                 \/ Len(frames'[t]) = 1 /\ enabled' = {}
      <4>1. First(t)' = First(t)
        <5>1. 1 \in 1 .. n - 1
          BY <2>0, <2>2
        <5> QED BY <2>2, <5>1 DEF First
      <4>2. CASE n = 2
        <5>1. f = frames[t][2] /\ Len(frames'[t]) = 1
          BY <2>0, <2>2, <4>2
        <5> QED BY <2>0, <3>2, <4>1, <4>2, <5>1 DEF WritesAsLast, Settled
      <4>3. CASE n # 2
        <5>1. 2 \in 1 .. n - 1 /\ Len(frames'[t]) # 1
          BY <2>0, <2>2, <4>3
        <5>2. frames'[t][2] = frames[t][2]
          BY <2>2, <5>1
        <5> QED BY <2>0, <2>2, <3>2, <4>1, <4>3, <5>1, <5>2 DEF WritesAsLast, Settled
      <4> QED BY <4>2, <4>3
    <3> QED BY <3>1, <3>2 DEF WritesAsLast
  <2>3. CASE /\ f.kind = "passon" /\ DOMAIN frames'[t] = 1 .. n
             /\ frames'[t][n] = Frame("nsexception", "suspend", t)
    <3>1. n = 1
      BY <1>0, <2>0, <2>3 DEF Shape
    <3>2. \A i \in DOMAIN frames'[t] : frames'[t][i].pc # "write"
      BY <2>3, <3>1 DEF Frame
    <3>3. First(t)'.pc # "write"
      BY <2>3, <3>1 DEF Frame, First
    <3> QED BY <3>2, <3>3 DEF WritesAsLast
  <2> QED BY <2>1, <2>2, <2>3 DEF Popped
<1> QED BY <1>1, <1>2

LEMMA LastStarts ==
  ASSUME TypeOK, \A u \in AppThreads : WritesAsLast(u),
         NEW t \in AppThreads, NEW n, NEW g, Started(t, n, g), Settled, g.pc # "write",
         n # 0 => enabled # {} /\ Top(t).pc \in Failing
  PROVE  \A u \in AppThreads : WritesAsLast(u)'
<1>0. t \in Threads /\ AppThreads \subseteq Threads
  BY ThreadNames
<1>1. ASSUME NEW u \in AppThreads, u # t PROVE WritesAsLast(u)'
  <2>1. frames'[u] = frames[u]
    BY <1>0, <1>1 DEF Started
  <2> QED BY <2>1 DEF WritesAsLast, First, Settled, Top
<1>2. WritesAsLast(t)'
  <2>0. /\ n \in Nat /\ Len(frames[t]) = n /\ DOMAIN frames[t] = 1 .. n
        /\ Len(frames'[t]) = n + 1 /\ DOMAIN frames'[t] = 1 .. n + 1 /\ frames'[t][n + 1] = g
        /\ \A i \in 1 .. n : frames'[t][i] = frames[t][i]
        /\ (frames[t] # <<>> => n # 0)
    BY <1>0, EmptySeq DEF Started, TypeOK
  <2>1. ASSUME NEW i \in DOMAIN frames'[t], Suspends(frames'[t][i].kind), frames'[t][i].pc = "write"
        PROVE  /\ ~g_crashedDuringExceptionHandling'
               /\ i # 1 => g_lastCrashReportFilePath' = frames'[t][i].id
    <3>1. i \in 1 .. n /\ n # 0
      BY <2>0, <2>1
    <3>2. frames'[t][i] = frames[t][i]
      BY <2>0, <3>1
    <3> QED BY <1>0, <2>0, <2>1, <3>1, <3>2 DEF WritesAsLast, Settled, Failing
  <2>2. ASSUME Suspends(First(t)'.kind), First(t)'.pc = "write"
        PROVE  \/ g_lastCrashReportFilePath' = First(t)'.id
               \/ Len(frames'[t]) # 1 /\ frames'[t][2].pc = "write"
    <3>1. n # 0
      BY <2>0, <2>2 DEF First
    <3>2. 1 \in 1 .. n
      BY <2>0, <3>1
    <3>3. First(t)' = First(t) /\ frames[t] # <<>>
      BY <2>0, <3>2 DEF First
    <3>4. n = 2 => Top(t) = frames[t][2]
      BY <2>0 DEF Top, Last
    <3>5. n # 1 => frames'[t][2] = frames[t][2] /\ Len(frames'[t]) # 1
      <4>1. n # 1 => 2 \in 1 .. n
        BY <2>0, <3>1
      <4> QED BY <2>0, <3>1, <4>1
    <3> QED BY <1>0, <2>0, <2>2, <3>1, <3>3, <3>4, <3>5 DEF WritesAsLast, Settled, Failing
  <2> QED BY <2>1, <2>2 DEF WritesAsLast
<1> QED BY <1>1, <1>2

LEMMA LastStops ==
  ASSUME \A u \in AppThreads : WritesAsLast(u), frames' = frames, Settled
  PROVE  \A u \in AppThreads : WritesAsLast(u)'
BY DEF WritesAsLast, First, Settled, Top

-----------------------------------------------------------------------------
(* The report a failing handler goes on with                               *)

\* The innermost handler below f on thread t that still writes a report, if it stops
\* the program, began the last one.
WritesLast(t, n) ==
  \A i \in 1 .. n :
    /\ i # n /\ frames[t][i].pc = "write" /\ Suspends(frames[t][i].kind)
    /\ \A k \in i + 1 .. n - 1 : frames[t][k].pc # "write"
    => g_lastCrashReportFilePath = frames[t][i].id

LEMMA OwnMoves ==
  ASSUME TypeOK, RecrashIsItsOwn, NEW t \in Threads, NEW n, NEW f, NEW g,
         Moved(t, n, f, g), Effect(t, f, g),
         f.pc = "context" /\ g_crashedDuringExceptionHandling => WritesLast(t, n)
  PROVE  RecrashIsItsOwn'
<1> SUFFICES ASSUME NEW u \in Threads, NEW i \in DOMAIN frames'[u], NEW j \in DOMAIN frames'[u],
                    i < j, frames'[u][i].pc = "write", frames'[u][j].pc = "rewrite",
                    Suspends(frames'[u][i].kind), \A k \in i + 1 .. j - 1 : frames'[u][k].pc # "write"
             PROVE  frames'[u][i].id = frames'[u][j].id
  BY DEF RecrashIsItsOwn
<1>1. CASE frames'[u] = frames[u]
  BY <1>1 DEF RecrashIsItsOwn
<1>2. CASE u = t
  <2>0. /\ n \in Nat \ {0} /\ DOMAIN frames[t] = 1 .. n /\ frames[t][n] = f
        /\ DOMAIN frames'[t] = 1 .. n /\ frames'[t][n] = g
        /\ \A k \in 1 .. n : k # n => frames'[t][k] = frames[t][k]
    BY DEF Moved
  <2>1. i \in 1 .. n /\ j \in 1 .. n /\ i # n
    BY <1>2, <2>0
  <2>2. frames'[t][i] = frames[t][i]
    BY <2>0, <2>1
  <2>3. \A k \in i + 1 .. j - 1 : frames[t][k].pc # "write"
    <3>1. \A k \in i + 1 .. j - 1 : k \in 1 .. n /\ k # n
      BY <2>1, <2>0
    <3>2. \A k \in i + 1 .. j - 1 : frames'[t][k] = frames[t][k]
      BY <2>0, <3>1
    <3> QED BY <1>2, <3>2
  <2>4. CASE j # n
    <3>1. frames'[t][j] = frames[t][j]
      BY <2>0, <2>1, <2>4
    <3> QED BY <1>2, <2>0, <2>1, <2>2, <2>3, <3>1 DEF RecrashIsItsOwn
  <2>5. CASE j = n
    <3>1. g.pc = "rewrite"
      BY <1>2, <2>0, <2>5
    <3>2. f.pc \in Pcs /\ GoesTo(f, g)
      BY TopPc DEF Moved, Effect
    <3>3. f.pc = "context" /\ g_crashedDuringExceptionHandling /\ g_lastCrashReportFilePath = g.id
      BY <3>1, <3>2 DEF GoesTo, Pcs
    <3>4. g_lastCrashReportFilePath = frames[t][i].id
      BY <1>2, <2>1, <2>2, <2>3, <2>5, <3>3 DEF WritesLast
    <3> QED BY <1>2, <2>0, <2>2, <2>5, <3>3, <3>4
  <2> QED BY <2>4, <2>5
<1>3. u # t => frames'[u] = frames[u]
  BY MovedView
<1> QED BY <1>1, <1>2, <1>3

LEMMA OwnPops ==
  ASSUME TypeOK, Shape, RecrashIsItsOwn, NEW t \in Threads, NEW n, NEW f, Popped(t, n, f)
  PROVE  RecrashIsItsOwn'
<1> SUFFICES ASSUME NEW u \in Threads, NEW i \in DOMAIN frames'[u], NEW j \in DOMAIN frames'[u],
                    i < j, frames'[u][i].pc = "write", frames'[u][j].pc = "rewrite",
                    Suspends(frames'[u][i].kind), \A k \in i + 1 .. j - 1 : frames'[u][k].pc # "write"
             PROVE  frames'[u][i].id = frames'[u][j].id
  BY DEF RecrashIsItsOwn
<1>1. frames'[u] # <<>>
  OBVIOUS
<1>2. CASE u # t
  <2>1. frames'[u] = frames[u]
    BY <1>2 DEF Popped
  <2> QED BY <2>1 DEF RecrashIsItsOwn
<1>3. CASE /\ u = t /\ DOMAIN frames'[t] = 1 .. n - 1 /\ n \in Nat
           /\ \A k \in 1 .. n - 1 : frames'[t][k] = frames[t][k] /\ k \in DOMAIN frames[t]
  <2>1. i \in 1 .. n - 1 /\ j \in 1 .. n - 1 /\ \A k \in i + 1 .. j - 1 : k \in 1 .. n - 1
    BY <1>3
  <2>2. frames'[t][i] = frames[t][i] /\ frames'[t][j] = frames[t][j] /\ i \in DOMAIN frames[t] /\ j \in DOMAIN frames[t]
    BY <1>3, <2>1
  <2>3. \A k \in i + 1 .. j - 1 : frames[t][k].pc # "write"
    BY <1>3, <2>1
  <2> QED BY <1>3, <2>2, <2>3 DEF RecrashIsItsOwn
<1>4. CASE DOMAIN frames'[u] = {1}
  BY <1>4
<1>5. CASE u = t /\ ~(DOMAIN frames'[u] = {1})
  <2>1. /\ n \in Nat \ {0} /\ DOMAIN frames[t] = 1 .. n /\ \A k \in 1 .. n - 1 : k \in 1 .. n
    BY DEF Popped
  <2>2. f.kind = "passon" /\ DOMAIN frames'[t] = 1 .. n => n = 1
    BY <2>1 DEF Popped, Shape
  <2>3. n = 1 => 1 .. n = {1}
    OBVIOUS
  <2>4. DOMAIN frames'[t] = 1 .. n - 1 /\ \A k \in 1 .. n - 1 : frames'[t][k] = frames[t][k]
    BY <1>1, <1>5, <2>2, <2>3 DEF Popped
  <2> QED BY <1>3, <1>5, <2>1, <2>4
<1> QED BY <1>2, <1>4, <1>5

LEMMA OwnStarts ==
  ASSUME RecrashIsItsOwn, NEW t \in Threads, NEW n, NEW g, Started(t, n, g), g.pc # "rewrite"
  PROVE  RecrashIsItsOwn'
<1> SUFFICES ASSUME NEW u \in Threads, NEW i \in DOMAIN frames'[u], NEW j \in DOMAIN frames'[u],
                    i < j, frames'[u][i].pc = "write", frames'[u][j].pc = "rewrite",
                    Suspends(frames'[u][i].kind), \A k \in i + 1 .. j - 1 : frames'[u][k].pc # "write"
             PROVE  frames'[u][i].id = frames'[u][j].id
  BY DEF RecrashIsItsOwn
<1>1. CASE u # t
  <2>1. frames'[u] = frames[u]
    BY <1>1 DEF Started
  <2> QED BY <2>1 DEF RecrashIsItsOwn
<1>2. CASE u = t
  <2>1. /\ n \in Nat /\ DOMAIN frames[t] = 1 .. n /\ DOMAIN frames'[t] = 1 .. n + 1 /\ frames'[t][n + 1] = g
        /\ \A k \in 1 .. n : frames'[t][k] = frames[t][k]
    BY DEF Started
  <2>2. j # n + 1
    BY <1>2, <2>1
  <2>3. i \in 1 .. n /\ j \in 1 .. n /\ \A k \in i + 1 .. j - 1 : k \in 1 .. n
    BY <1>2, <2>1, <2>2
  <2>4. frames'[t][i] = frames[t][i] /\ frames'[t][j] = frames[t][j] /\ i \in DOMAIN frames[t] /\ j \in DOMAIN frames[t]
    BY <2>1, <2>3
  <2>5. \A k \in i + 1 .. j - 1 : frames[t][k].pc # "write"
    BY <1>2, <2>1, <2>3
  <2> QED BY <1>2, <2>4, <2>5 DEF RecrashIsItsOwn
<1> QED BY <1>1, <1>2

\* Without exception threads.
LEMMA LastIsOwn ==
  ASSUME TypeOK, NEW t \in Threads, NEW n, NEW f, frames[t] # <<>>, Len(frames[t]) = n, n \in Nat \ {0},
         DOMAIN frames[t] = 1 .. n, frames[t][n] = f, f.pc = "context", WritesAsLast(t)
  PROVE  WritesLast(t, n)
<1> SUFFICES ASSUME NEW i \in 1 .. n, i # n, frames[t][i].pc = "write", Suspends(frames[t][i].kind),
                    \A k \in i + 1 .. n - 1 : frames[t][k].pc # "write"
             PROVE  g_lastCrashReportFilePath = frames[t][i].id
  BY DEF WritesLast
<1>1. CASE i # 1
  BY <1>1 DEF WritesAsLast
<1>2. CASE i = 1
  <2>1. n # 1
    BY <1>2
  <2>2. n # 2 => 2 \in i + 1 .. n - 1
    BY <1>2, <2>1
  <2>3. frames[t][2].pc # "write"
    BY <2>2
  <2> QED BY <1>2, <2>1, <2>3 DEF WritesAsLast, First
<1> QED BY <1>1, <1>2

-----------------------------------------------------------------------------
(* With exception threads: the first alone handles a crash                 *)

\* What an exception thread's first handler is.
LEMMA MachFirst ==
  ASSUME TypeOK, Shape, NEW m \in MachThreads, frames[m] # <<>>
  PROVE  /\ 1 \in DOMAIN frames[m] /\ First(m).kind = "mach" /\ Kills(First(m)) /\ Suspends(First(m).kind)
         /\ \A i \in DOMAIN frames[m] : Suspends(frames[m][i].kind) /\ Kills(frames[m][i])
<1>1. m \in Threads
  BY ThreadNames
<1>2. 1 \in DOMAIN frames[m]
  BY <1>1, EmptySeq, LenProperties DEF TypeOK
<1>3. First(m).kind = "mach"
  BY <1>1 DEF Shape
<1>4. \A i \in DOMAIN frames[m] : frames[m][i].kind \in {"mach", "signal"}
  BY <1>1, <1>3 DEF Shape, First
<1> QED BY <1>2, <1>3, <1>4 DEF Kills, Suspends, Fatal, First

\* An exception thread's handler is the first, or the signal handler above it.
LEMMA MachMoves ==
  ASSUME TypeOK, Shape, Noticed, NEW m \in MachThreads, NEW n, NEW f, NEW g, Moved(m, n, f, g)
  PROVE  /\ f.kind \in {"mach", "signal"} /\ (f.kind = "mach" => n = 1)
         /\ n = 1 => First(m) = f /\ First(m)' = g /\ f.kind = "mach" /\ Kills(f)
         /\ n # 1 => /\ First(m)' = First(m) /\ f.kind = "signal" /\ First(m).pc \in Failing
                     /\ f.pc \notin {"suspend", "check"} => g_crashedDuringExceptionHandling
<1>0. m \in Threads /\ frames[m] # <<>> /\ 1 \in DOMAIN frames[m] /\ First(m).kind = "mach" /\ Kills(First(m))
  BY ThreadNames, MachFirst DEF Moved
<1>1. /\ n \in Nat \ {0} /\ Len(frames[m]) = n /\ DOMAIN frames[m] = 1 .. n /\ frames[m][n] = f
      /\ frames'[m][n] = g /\ \A i \in 1 .. n : i # n => frames'[m][i] = frames[m][i]
  BY DEF Moved
<1>2. CASE n = 1
  BY <1>0, <1>1, <1>2 DEF First
<1>3. CASE n # 1
  <2>1. 1 \in 1 .. n /\ 1 < n /\ n \in DOMAIN frames[m]
    BY <1>1, <1>3
  <2>2. First(m)' = First(m)
    BY <1>1, <1>3, <2>1 DEF First
  <2>3. f.kind = "signal"
    BY <1>0, <1>1, <1>3, <2>1 DEF Shape
  <2>4. /\ First(m).pc \in Failing
        /\ f.pc \notin {"suspend", "check"} => g_crashedDuringExceptionHandling
    BY <1>0, <1>1, <2>1, BelowTop DEF First
  <2> QED BY <1>3, <2>2, <2>3, <2>4
<1> QED BY <1>2, <1>3

\* An exception thread's handler stops the program.
LEMMA HeldByMach ==
  ASSUME HeldInv, Shape, NEW m \in MachThreads, NEW i \in DOMAIN frames[m], frames[m][i].pc \in Stopping,
         NEW t \in AppThreads
  PROVE  ~Runs(t)
<1>1. frames[m] # <<>>
  OBVIOUS
<1>2. Holding(frames[m][i])
  BY <1>1, MachFirst DEF HeldInv, Holding
<1> QED BY <1>2, HeldStill, ThreadNames

\* No thread of the program runs between the first exception thread's check and its end.
LEMMA HeldByFirst ==
  ASSUME HeldInv, Shape, PrimaryAt({"check", "set"} \cup Armed), NEW t \in AppThreads
  PROVE  ~Runs(t)
<1>1. "primary" \in MachThreads /\ frames["primary"] # <<>> /\ First("primary").pc \in Stopping
  BY ThreadNames DEF PrimaryAt, Armed, Stopping
<1>2. 1 \in DOMAIN frames["primary"]
  BY <1>1, MachFirst DEF HeldInv
<1> QED BY <1>1, <1>2, HeldByMach DEF First

\* Until a second crash is noticed the second exception thread only waits.
LEMMA SecondWaits ==
  ASSUME TypeOK, StacksInv, FirstAlone, NEW n, NEW f, NEW g, Moved("secondary", n, f, g),
         Effect("secondary", f, g), ~g_crashedDuringExceptionHandling'
  PROVE  /\ n = 1 /\ f = First("secondary") /\ f.kind = "mach" /\ f.pc = "suspend"
         /\ g.pc \in {"suspend", "check"} /\ ~Disables(f) /\ Undisturbed("secondary")
<1> USE DEF StacksInv
<1>0. "secondary" \in MachThreads /\ "primary" \in MachThreads /\ "primary" \in Threads
  BY ThreadNames
<1>1. frames["secondary"] # <<>> /\ Len(frames["secondary"]) = n /\ ~g_crashedDuringExceptionHandling
  BY DEF Moved, Effect
<1>2. n = 1 /\ First("secondary").pc \in {"suspend", "check", "after"}
  BY <1>1 DEF FirstAlone
<1>3. First("secondary") = f /\ f.kind = "mach"
  BY <1>0, <1>2, MachMoves
<1>4. suspended["secondary"] = 0
  BY <1>1 DEF Awake
<1>5. PrimaryAt(Restored)
  BY <1>1, <1>4 DEF FirstAlone
<1>6. g_handlingFatalException
  <2>1. frames["primary"] # <<>> /\ First("primary").pc \in Armed
    BY <1>5 DEF PrimaryAt, Restored, Failing, Armed
  <2>2. 1 \in DOMAIN frames["primary"] /\ Kills(First("primary"))
    BY <1>0, <2>1, MachFirst
  <2> QED BY <1>0, <2>1, <2>2 DEF Noticed, First
<1>7. f.pc # "check" /\ f.pc # "after"
  BY <1>6 DEF Effect, GoesTo
<1>8. f.pc = "suspend" /\ ~Disables(f)
  BY <1>2, <1>3, <1>7 DEF Disables
<1>9. g.pc \in {"suspend", "check"}
  BY <1>3, <1>8 DEF Effect, GoesTo, Fatal
<1> QED BY <1>2, <1>3, <1>8, <1>9 DEF Effect

LEMMA FirstAloneMoves ==
  ASSUME HeldInv, StacksInv, FirstAlone, NEW t \in Threads, NEW n, NEW f, NEW g, Runs(t),
         Moved(t, n, f, g), Effect(t, f, g)
  PROVE  FirstAlone'
<1> USE DEF StacksInv
<1>0. /\ TypeOK /\ "primary" \in MachThreads /\ "secondary" \in MachThreads /\ "primary" # "secondary"
      /\ "primary" \in Threads /\ "secondary" \in Threads
      /\ t # "primary" /\ t # "secondary" => t \in AppThreads
  BY ThreadNames DEF HeldInv
<1>1. (enabled' = enabled \/ enabled' = {}) /\ (enabled' # {} => ~Disables(f) /\ Undisturbed(t))
  BY DEF Effect, Disabled, Undisturbed
<1>2. /\ g.pc = "write" <=> f.pc = "context" /\ ~g_crashedDuringExceptionHandling
      /\ GoesTo(f, g) /\ f.pc \in Pcs
  BY <1>0, WritesNext
<1>3. t = "secondary" => /\ f.kind \in {"mach", "signal"}
                         /\ n = 1 => First(t) = f /\ First(t)' = g /\ f.kind = "mach"
                         /\ n # 1 => First(t)' = First(t)
  BY <1>0, MachMoves
<1>4. enabled' = {} \/ {"mach", "signal"} \subseteq enabled'
  BY <1>1 DEF FirstAlone
<1>5. ASSUME frames'["secondary"] # <<>>, First("secondary")'.pc \notin {"suspend", "check", "set"}
      PROVE  enabled' = {}
  <2>1. frames["secondary"] # <<>> /\ (t # "secondary" => frames'["secondary"] = frames["secondary"])
    BY <1>0, <1>5, MovedView
  <2>2. CASE First("secondary")' = First("secondary")
    BY <1>1, <1>5, <2>1, <2>2 DEF FirstAlone
  <2>3. CASE t = "secondary" /\ First(t) = f /\ First(t)' = g /\ f.kind = "mach"
    <3>1. CASE f.pc \notin {"suspend", "check", "set"}
      BY <1>1, <2>1, <2>3, <3>1 DEF FirstAlone
    <3>2. CASE f.pc \in {"suspend", "check", "set"}
      <4>1. f.pc = "set"
        BY <1>2, <1>5, <2>3, <3>2 DEF GoesTo, Fatal
      <4>2. g_crashedDuringExceptionHandling
        BY <2>1, <2>3, <4>1 DEF FirstAlone
      <4> QED BY <1>1, <4>1, <4>2 DEF Disables
    <3> QED BY <3>1, <3>2
  <2> QED BY <1>3, <2>1, <2>2, <2>3 DEF First
<1>6. ASSUME NEW i \in DOMAIN frames'["secondary"], frames'["secondary"][i].pc = "write"
      PROVE  FALSE
  <2>1. frames'["secondary"] # <<>>
    BY <1>6
  <2>2. /\ i \in DOMAIN frames["secondary"]
        /\ \/ frames'["secondary"][i] = frames["secondary"][i]
           \/ "secondary" = t /\ frames'["secondary"][i] = g
    BY <1>0, <1>6, <2>1, MovedView
  <2>3. t = "secondary" /\ g.pc = "write"
    BY <1>6, <2>2 DEF FirstAlone
  <2>4. f.pc = "context" /\ ~g_crashedDuringExceptionHandling'
    BY <1>2, <2>3 DEF Effect
  <2> QED BY <1>0, <2>3, <2>4, SecondWaits
<1>7. SUFFICES ASSUME ~g_crashedDuringExceptionHandling'
               PROVE  /\ enabled' # {} => ports' = "ours" \/ PrimaryAt(Restored)'
                      /\ PrimaryAt({"check", "set"} \cup Armed)' => g_isHandlingCrash'
                      /\ PrimaryAt({"resume", "after"})' => enabled' = {}
                      /\ suspended'["secondary"] = 0 =>
                           \/ thread'["secondary"] = "gone" /\ frames'["secondary"] = <<>>
                           \/ PrimaryAt(Restored)' /\ "mach" \in enabled'
                      /\ frames'["secondary"] # <<>> =>
                           Len(frames'["secondary"]) = 1 /\ First("secondary")'.pc \in {"suspend", "check", "after"}
                      /\ \A u \in AppThreads :
                           /\ frames'[u] = <<>> \/ Len(frames'[u]) = 1
                           /\ thread'[u] = "signalled" /\ enabled' # {} => frames'[u] = <<>>
                           /\ PrimaryAt({"set"} \cup Armed)' =>
                                \A i \in DOMAIN frames'[u] : Kills(frames'[u][i]) => frames'[u][i].pc \notin Armed
  BY <1>4, <1>5, <1>6 DEF FirstAlone
<1>8. ~g_crashedDuringExceptionHandling /\ (f.pc = "check" => ~g_handlingFatalException)
  BY <1>7 DEF Effect
<1>9. t = "secondary" => /\ n = 1 /\ f.kind = "mach" /\ f.pc = "suspend" /\ First(t)' = g
                         /\ g.pc \in {"suspend", "check"} /\ ~Disables(f) /\ Undisturbed(t)
  BY <1>0, <1>3, <1>7, SecondWaits
<1>10. t = "primary" /\ n = 1 => First(t) = f /\ First(t)' = g /\ f.kind = "mach" /\ Kills(f)
  BY <1>0, MachMoves
<1>11. t = "primary" /\ n # 1 => /\ First(t)' = First(t) /\ f.kind = "signal" /\ First(t).pc \in Failing
                                 /\ f.pc \in {"suspend", "check"} /\ ~Disables(f) /\ Undisturbed(t)
  <2> SUFFICES ASSUME t = "primary", n # 1
               PROVE  /\ First(t)' = First(t) /\ f.kind = "signal" /\ First(t).pc \in Failing
                      /\ f.pc \in {"suspend", "check"} /\ ~Disables(f) /\ Undisturbed(t)
    OBVIOUS
  <2>1. /\ First(t)' = First(t) /\ f.kind = "signal" /\ First(t).pc \in Failing
        /\ f.pc \in {"suspend", "check"}
    BY <1>0, <1>8, MachMoves
  <2> QED BY <2>1 DEF Disables, Effect
<1>12. t # "primary" => \/ frames'["primary"] = frames["primary"]
                        \/ frames'["primary"] = <<>> /\ enabled' = {}
  BY <1>0 DEF Moved, Ended
<1>13. t = "primary" => frames[t] # <<>> /\ frames'[t] # <<>>
  BY DEF Moved
<1>14. t # "primary" /\ PrimaryAt({"check", "set"} \cup Armed) => t = "secondary"
  BY <1>0, HeldByFirst
<1>15. t = "primary" /\ n = 1 /\ f.pc = "tail" => Disables(f)
  <2> SUFFICES ASSUME t = "primary", n = 1, f.pc = "tail" PROVE Disables(f)
    OBVIOUS
  <2>1. g_handlingFatalException
    BY <1>0, <1>10, <1>13, MachFirst DEF Noticed, Armed, First
  <2> QED BY <1>8, <1>10, <2>1 DEF Disables
<1>16. enabled' # {} => ports' = "ours" \/ PrimaryAt(Restored)'
  <2> SUFFICES ASSUME enabled' # {} PROVE ports' = "ours" \/ PrimaryAt(Restored)'
    OBVIOUS
  <2>1. ~Disables(f) /\ Undisturbed(t) /\ enabled # {}
    BY <1>1
  <2>2. CASE t = "primary" /\ f.pc = "restore"
    <3>1. n = 1 /\ g.pc = "context"
      BY <1>2, <1>11, <2>2 DEF GoesTo
    <3> QED BY <1>10, <1>13, <2>2, <3>1 DEF PrimaryAt, Restored, Failing
  <2>3. CASE ~(t = "primary" /\ f.pc = "restore")
    <3>1. ports' = ports
      BY <2>1, <2>3 DEF Effect
    <3>2. ASSUME PrimaryAt(Restored) PROVE PrimaryAt(Restored)'
      <4>1. CASE t # "primary"
        BY <1>0, <2>1, <3>2, <4>1 DEF Undisturbed, PrimaryAt, First
      <4>2. CASE t = "primary" /\ n # 1
        BY <1>11, <1>13, <3>2, <4>2 DEF PrimaryAt
      <4>3. CASE t = "primary" /\ n = 1
        <5>1. f.pc \in Restored /\ f.pc # "tail"
          BY <1>10, <1>15, <2>1, <3>2, <4>3 DEF PrimaryAt
        <5>2. g.pc \in Restored
          BY <1>2, <1>8, <5>1 DEF GoesTo, Restored, Failing
        <5> QED BY <1>10, <1>13, <4>3, <5>2 DEF PrimaryAt
      <4> QED BY <4>1, <4>2, <4>3
    <3> QED BY <1>8, <2>1, <3>1, <3>2 DEF FirstAlone
  <2> QED BY <2>2, <2>3
<1>17. PrimaryAt({"check", "set"} \cup Armed)' => g_isHandlingCrash'
  <2> SUFFICES ASSUME PrimaryAt({"check", "set"} \cup Armed)' PROVE g_isHandlingCrash'
    OBVIOUS
  <2>1. frames'["primary"] # <<>> /\ First("primary")'.pc \in {"check", "set"} \cup Armed
    BY DEF PrimaryAt, Armed
  <2>2. CASE t # "primary"
    <3>1. frames'["primary"] = frames["primary"]
      BY <1>12, <2>1, <2>2
    <3>2. PrimaryAt({"check", "set"} \cup Armed)
      BY <2>1, <3>1 DEF PrimaryAt, First
    <3>3. f.pc = "suspend" /\ g_isHandlingCrash
      BY <1>8, <1>9, <1>14, <2>2, <3>2 DEF FirstAlone
    <3> QED BY <3>3 DEF Effect
  <2>3. CASE t = "primary" /\ n # 1
    <3>1. PrimaryAt({"check", "set"} \cup Armed) /\ f.pc # "resume"
      BY <1>11, <1>13, <2>3 DEF PrimaryAt, Armed, Failing
    <3>2. g_isHandlingCrash
      BY <1>8, <3>1 DEF FirstAlone
    <3> QED BY <3>1, <3>2 DEF Effect
  <2>4. CASE t = "primary" /\ n = 1
    <3>1. f.kind = "mach" /\ g.pc \in {"check", "set"} \cup Armed /\ First(t) = f
      BY <1>10, <2>1, <2>4
    <3>2. CASE f.pc = "suspend"
      BY <3>1, <3>2 DEF Effect, Armed
    <3>3. CASE f.pc # "suspend"
      <4>1. f.pc \in {"check", "set"} \cup Armed
        BY <1>2, <3>1, <3>3 DEF GoesTo, Armed, Pcs
      <4>2. PrimaryAt({"check", "set"} \cup Armed)
        BY <1>13, <2>4, <3>1, <4>1 DEF PrimaryAt
      <4>3. g_isHandlingCrash /\ f.pc # "resume"
        BY <1>8, <4>1, <4>2 DEF FirstAlone, Armed
      <4> QED BY <3>3, <4>3 DEF Effect
    <3> QED BY <3>2, <3>3
  <2> QED BY <2>2, <2>3, <2>4
<1>18. PrimaryAt({"resume", "after"})' => enabled' = {}
  <2> SUFFICES ASSUME PrimaryAt({"resume", "after"})', enabled' # {} PROVE FALSE
    OBVIOUS
  <2>1. frames'["primary"] # <<>> /\ First("primary")'.pc \in {"resume", "after"}
    BY DEF PrimaryAt
  <2>2. ~Disables(f) /\ enabled # {} /\ ~PrimaryAt({"resume", "after"})
    BY <1>1, <1>8 DEF FirstAlone
  <2>3. CASE t # "primary"
    BY <1>12, <2>1, <2>2, <2>3 DEF PrimaryAt, First
  <2>4. CASE t = "primary" /\ n # 1
    BY <1>11, <2>1, <2>4 DEF Failing
  <2>5. CASE t = "primary" /\ n = 1
    <3>1. f.kind = "mach" /\ g.pc \in {"resume", "after"} /\ f.pc # "tail" /\ f.pc \notin {"resume", "after"}
      BY <1>10, <1>13, <1>15, <2>1, <2>2, <2>5 DEF PrimaryAt
    <3> QED BY <1>2, <1>8, <3>1 DEF GoesTo, Fatal, Pcs
  <2> QED BY <2>3, <2>4, <2>5
<1>19. suspended'["secondary"] = 0 =>
         \/ thread'["secondary"] = "gone" /\ frames'["secondary"] = <<>>
         \/ PrimaryAt(Restored)' /\ "mach" \in enabled'
  <2> SUFFICES ASSUME suspended'["secondary"] = 0,
                      ~(thread'["secondary"] = "gone" /\ frames'["secondary"] = <<>>)
               PROVE  PrimaryAt(Restored)' /\ "mach" \in enabled'
    OBVIOUS
  <2>1. CASE suspended["secondary"] # 0
    <3>1. f.pc = "restore" /\ t = "primary" /\ "mach" \in enabled
      BY <2>1 DEF Effect
    <3>2. n = 1 /\ g.pc = "context" /\ ~Disables(f)
      BY <1>2, <1>11, <3>1 DEF GoesTo, Disables
    <3>3. enabled' = enabled
      BY <3>2 DEF Effect, Undisturbed
    <3> QED BY <1>10, <1>13, <3>1, <3>2, <3>3 DEF PrimaryAt, Restored, Failing
  <2>2. CASE suspended["secondary"] = 0
    <3>1. ~(thread["secondary"] = "gone" /\ frames["secondary"] = <<>>)
      BY <1>0 DEF Moved, Ended
    <3>2. PrimaryAt(Restored) /\ "mach" \in enabled
      BY <1>8, <2>2, <3>1 DEF FirstAlone
    <3>3. PrimaryAt({"check", "set"} \cup Armed)
      BY <3>2 DEF PrimaryAt, Restored, Failing, Armed
    <3>4. CASE t # "primary"
      BY <1>0, <1>9, <1>14, <3>2, <3>3, <3>4 DEF Undisturbed, PrimaryAt, First
    <3>5. CASE t = "primary" /\ n # 1
      BY <1>11, <1>13, <3>2, <3>5 DEF PrimaryAt, Undisturbed, Restored
    <3>6. CASE t = "primary" /\ n = 1
      <4>1. ~Disables(f)
        <5> SUFFICES ASSUME Disables(f) PROVE FALSE
          OBVIOUS
        <5>1. g_isHandlingCrash
          BY <1>8, <3>3 DEF FirstAlone
        <5>2. Disabled(t)
          BY DEF Effect
        <5>3. Ended("secondary")
          BY <1>0, <3>2, <3>6, <5>1, <5>2 DEF Disabled
        <5> QED BY <5>3 DEF Ended
      <4>2. f.pc \in Failing
        BY <1>10, <1>15, <3>2, <3>6, <4>1 DEF PrimaryAt, Restored
      <4>3. g.pc \in Restored
        BY <1>2, <1>8, <4>2 DEF GoesTo, Restored, Failing
      <4>4. enabled' = enabled
        BY <4>1 DEF Effect, Undisturbed
      <4> QED BY <1>10, <1>13, <3>2, <3>6, <4>3, <4>4 DEF PrimaryAt
    <3> QED BY <3>4, <3>5, <3>6
  <2> QED BY <2>1, <2>2
<1>20. frames'["secondary"] # <<>> =>
         Len(frames'["secondary"]) = 1 /\ First("secondary")'.pc \in {"suspend", "check", "after"}
  <2>1. CASE t = "secondary"
    BY <1>9, <2>1 DEF Moved
  <2>2. CASE t # "secondary"
    BY <1>0, <1>8, <2>2 DEF FirstAlone, Moved, Ended, First
  <2> QED BY <2>1, <2>2
<1>21. ASSUME NEW u \in AppThreads
       PROVE  /\ frames'[u] = <<>> \/ Len(frames'[u]) = 1
              /\ thread'[u] = "signalled" /\ enabled' # {} => frames'[u] = <<>>
              /\ PrimaryAt({"set"} \cup Armed)' =>
                   \A i \in DOMAIN frames'[u] : Kills(frames'[u][i]) => frames'[u][i].pc \notin Armed
  <2>1. /\ u \in Threads /\ u \notin MachThreads /\ u # "primary" /\ u # "secondary"
        /\ u # t => frames'[u] = frames[u] /\ thread'[u] = thread[u]
        /\ u = t => Len(frames'[u]) = Len(frames[u]) /\ frames[u] # <<>> /\ thread'[u] = "runs"
    BY ThreadNames DEF Moved, Ended, Runs
  <2>2. /\ frames[u] = <<>> \/ Len(frames[u]) = 1
        /\ thread[u] = "signalled" /\ enabled # {} => frames[u] = <<>>
        /\ PrimaryAt({"set"} \cup Armed) =>
             \A i \in DOMAIN frames[u] : Kills(frames[u][i]) => frames[u][i].pc \notin Armed
    BY <1>8 DEF FirstAlone
  <2>3. ASSUME PrimaryAt({"set"} \cup Armed)'
        PROVE  \A i \in DOMAIN frames'[u] : Kills(frames'[u][i]) => frames'[u][i].pc \notin Armed
    <3>1. frames'["primary"] # <<>> /\ First("primary")'.pc \in {"set"} \cup Armed
      BY <2>3 DEF PrimaryAt, Armed
    <3>2. t # "primary" => PrimaryAt({"set"} \cup Armed) /\ PrimaryAt({"check", "set"} \cup Armed)
      BY <1>12, <3>1 DEF PrimaryAt, First
    <3>3. u # t /\ frames'[u] = frames[u]
      BY <1>14, <2>1, <3>2
    <3>4. CASE PrimaryAt({"set"} \cup Armed)
      BY <2>2, <3>3, <3>4
    <3>5. CASE ~PrimaryAt({"set"} \cup Armed)
      <4>1. t = "primary" /\ n = 1
        BY <1>11, <1>13, <3>2, <3>5 DEF PrimaryAt, Armed, Failing
      <4>2. f.kind = "mach" /\ g.pc \in {"set"} \cup Armed /\ f.pc \notin {"set"} \cup Armed
        BY <1>10, <1>13, <3>1, <3>5, <4>1 DEF PrimaryAt
      <4>3. f.pc = "check"
        BY <1>2, <4>2 DEF GoesTo, Fatal, Armed, Pcs
      <4>4. ~g_handlingFatalException
        BY <1>8, <4>3
      <4> QED BY <2>1, <3>3, <4>4 DEF Noticed
    <3> QED BY <3>4, <3>5
  <2> QED BY <1>1, <2>1, <2>2, <2>3
<1> QED BY <1>16, <1>17, <1>18, <1>19, <1>20, <1>21

LEMMA FirstAlonePops ==
  ASSUME TypeOK, StacksInv, FirstAlone, NEW t \in Threads, NEW n, NEW f, Runs(t), Popped(t, n, f), Settled
  PROVE  FirstAlone'
<1> USE DEF StacksInv
<1>0. /\ "primary" \in MachThreads /\ "secondary" \in MachThreads /\ "primary" # "secondary"
      /\ "primary" \in Threads /\ "secondary" \in Threads /\ thread[t] = "runs"
  BY ThreadNames DEF Runs
<1>1. /\ enabled' = enabled /\ ports' = ports /\ suspended'["secondary"] = suspended["secondary"]
      /\ g_isHandlingCrash' = g_isHandlingCrash
      /\ g_crashedDuringExceptionHandling' = g_crashedDuringExceptionHandling
  BY DEF Settled
<1>2. /\ n \in Nat \ {0} /\ Len(frames[t]) = n /\ frames[t] # <<>> /\ frames[t][n] = f /\ f.pc \in {"resume", "after"}
      /\ \A u \in Threads : u # t => frames'[u] = frames[u]
  BY DEF Popped
<1>3. ASSUME NEW m \in MachThreads, frames'[m] # <<>>
      PROVE  frames[m] # <<>> /\ First(m)' = First(m)
  <2>1. m \in Threads /\ frames[m] # <<>> /\ 1 \in DOMAIN frames'[m]
    BY <1>3, PoppedView, ThreadNames
  <2>2. frames'[m][1] = frames[m][1] \/ First(m).kind = "passon"
    BY <1>3, <2>1, PoppedView DEF First
  <2>3. First(m).kind = "mach"
    BY <1>3, <2>1, MachFirst
  <2> QED BY <2>1, <2>2, <2>3 DEF First
<1>4. ASSUME t \in MachThreads, n = 1
      PROVE  First(t) = f /\ f.kind = "mach" /\ frames'[t] = <<>>
  <2>1. First(t) = f /\ f.kind = "mach"
    BY <1>2, <1>4, MachFirst DEF First
  <2> QED BY <2>1, PoppedThreads
<1>5. PrimaryAt(Restored) => PrimaryAt(Restored)'
  <2> SUFFICES ASSUME PrimaryAt(Restored) PROVE PrimaryAt(Restored)'
    OBVIOUS
  <2>1. frames["primary"] # <<>> /\ First("primary").pc \in Restored
    BY DEF PrimaryAt
  <2>2. frames'["primary"] # <<>>
    BY <1>0, <1>2, <1>4, <2>1 DEF Popped, Restored, Failing
  <2> QED BY <1>0, <1>3, <2>1, <2>2 DEF PrimaryAt, Restored, Failing
<1>6. /\ PrimaryAt({"check", "set"} \cup Armed)' => PrimaryAt({"check", "set"} \cup Armed)
      /\ PrimaryAt({"resume", "after"})' => PrimaryAt({"resume", "after"})
      /\ PrimaryAt({"set"} \cup Armed)' => PrimaryAt({"set"} \cup Armed)
  BY <1>0, <1>3 DEF PrimaryAt, Armed
<1>7. frames'["secondary"] # <<>> /\ First("secondary")'.pc \notin {"suspend", "check", "set"} => enabled' = {}
  BY <1>0, <1>1, <1>3 DEF FirstAlone
<1>8. \A i \in DOMAIN frames'["secondary"] : frames'["secondary"][i].pc # "write"
  <2> SUFFICES ASSUME NEW i \in DOMAIN frames'["secondary"] PROVE frames'["secondary"][i].pc # "write"
    OBVIOUS
  <2>1. \/ i \in DOMAIN frames["secondary"] /\ frames'["secondary"][i] = frames["secondary"][i]
        \/ i = 1 /\ frames'["secondary"][1] = Frame("nsexception", "suspend", t)
    BY <1>0, PoppedView
  <2> QED BY <2>1 DEF FirstAlone, Frame
<1>9. SUFFICES ASSUME ~g_crashedDuringExceptionHandling
               PROVE  /\ suspended'["secondary"] = 0 =>
                           \/ thread'["secondary"] = "gone" /\ frames'["secondary"] = <<>>
                           \/ PrimaryAt(Restored)' /\ "mach" \in enabled'
                      /\ frames'["secondary"] # <<>> =>
                           Len(frames'["secondary"]) = 1 /\ First("secondary")'.pc \in {"suspend", "check", "after"}
                      /\ \A u \in AppThreads :
                           /\ frames'[u] = <<>> \/ Len(frames'[u]) = 1
                           /\ thread'[u] = "signalled" /\ enabled' # {} => frames'[u] = <<>>
                           /\ PrimaryAt({"set"} \cup Armed)' =>
                                \A i \in DOMAIN frames'[u] : Kills(frames'[u][i]) => frames'[u][i].pc \notin Armed
  BY <1>1, <1>5, <1>6, <1>7, <1>8 DEF FirstAlone
<1>10. suspended'["secondary"] = 0 =>
            \/ thread'["secondary"] = "gone" /\ frames'["secondary"] = <<>>
            \/ PrimaryAt(Restored)' /\ "mach" \in enabled'
  <2> SUFFICES ASSUME suspended["secondary"] = 0, thread["secondary"] = "gone", frames["secondary"] = <<>>
               PROVE  thread'["secondary"] = "gone" /\ frames'["secondary"] = <<>>
    BY <1>1, <1>5, <1>9 DEF FirstAlone
  <2>1. t # "secondary"
    BY <1>2
  <2>2. thread'["secondary"] = thread["secondary"]
    BY <1>0, <2>1, PoppedThreads
  <2> QED BY <1>0, <1>2, <2>1, <2>2
<1>11. frames'["secondary"] # <<>> =>
         Len(frames'["secondary"]) = 1 /\ First("secondary")'.pc \in {"suspend", "check", "after"}
  <2> SUFFICES ASSUME frames'["secondary"] # <<>>
               PROVE  Len(frames'["secondary"]) = 1 /\ First("secondary")'.pc \in {"suspend", "check", "after"}
    OBVIOUS
  <2>1. /\ frames["secondary"] # <<>> /\ First("secondary")' = First("secondary")
        /\ Len(frames["secondary"]) = 1 /\ First("secondary").pc \in {"suspend", "check", "after"}
    BY <1>0, <1>3, <1>9 DEF FirstAlone
  <2>2. t # "secondary"
    BY <1>0, <1>2, <1>4, <2>1
  <2> QED BY <1>0, <1>2, <2>1, <2>2
<1>12. ASSUME NEW u \in AppThreads
       PROVE  /\ frames'[u] = <<>> \/ Len(frames'[u]) = 1
              /\ thread'[u] = "signalled" /\ enabled' # {} => frames'[u] = <<>>
              /\ PrimaryAt({"set"} \cup Armed)' =>
                   \A i \in DOMAIN frames'[u] : Kills(frames'[u][i]) => frames'[u][i].pc \notin Armed
  <2>1. u \in Threads /\ u \notin MachThreads /\ (u # t => frames'[u] = frames[u])
    BY <1>2, ThreadNames
  <2>2. /\ frames[u] = <<>> \/ Len(frames[u]) = 1
        /\ thread[u] = "signalled" /\ enabled # {} => frames[u] = <<>>
        /\ PrimaryAt({"set"} \cup Armed) =>
             \A i \in DOMAIN frames[u] : Kills(frames[u][i]) => frames[u][i].pc \notin Armed
    BY <1>9 DEF FirstAlone
  <2>3. u = t => frames'[u] = <<>> \/ (Len(frames'[u]) = 1 /\ thread'[u] = "runs")
    BY <1>0, <1>2, <2>2 DEF Popped
  <2>4. ASSUME thread'[u] = "signalled", enabled' # {}, u # t
        PROVE  frames'[u] = <<>>
    <3>1. CASE thread'[u] = thread[u]
      BY <1>1, <2>1, <2>2, <2>4, <3>1
    <3>2. CASE thread'[u] # thread[u]
      <4>1. f.kind = "mach"
        BY <2>1, <2>4, <3>2, PoppedThreads
      <4>2. t \in MachThreads /\ First(t) = f
        BY <4>1, PoppedThreads
      <4>3. First(t).pc \in {"resume", "after"} /\ (t = "primary" \/ t = "secondary")
        BY <1>2, <4>2, ThreadNames
      <4>4. enabled = {}
        BY <1>2, <1>9, <4>3 DEF FirstAlone, PrimaryAt
      <4> QED BY <1>1, <2>4, <4>4
    <3> QED BY <3>1, <3>2
  <2>5. ASSUME PrimaryAt({"set"} \cup Armed)', NEW i \in DOMAIN frames'[u], Kills(frames'[u][i])
        PROVE  frames'[u][i].pc \notin Armed
    <3>1. \/ i \in DOMAIN frames[u] /\ frames'[u][i] = frames[u][i]
          \/ i = 1 /\ frames'[u][1] = Frame("nsexception", "suspend", t)
      BY <2>1, PoppedView
    <3> QED BY <1>6, <2>2, <2>5, <3>1 DEF Frame, Armed
  <2> QED BY <2>1, <2>2, <2>3, <2>4, <2>5
<1> QED BY <1>10, <1>11, <1>12

LEMMA FirstAloneStarts ==
  ASSUME TypeOK, StacksInv, FirstAlone, NEW t \in Threads, NEW n, NEW g, Started(t, n, g), Settled,
         g.pc # "write", Kills(g) => g.pc \notin Armed,
         n # 0 => thread[t] = "signalled" /\ enabled # {},
         n = 0 /\ t \in MachThreads =>
           /\ g.kind = "mach" /\ thread[t] = "receives" /\ g.pc \in {"suspend", "after"}
           /\ g.pc = "after" => "mach" \notin enabled
  PROVE  FirstAlone'
<1> USE DEF StacksInv
<1>0. /\ "primary" \in MachThreads /\ "secondary" \in MachThreads /\ "primary" # "secondary"
      /\ "primary" \in Threads /\ "secondary" \in Threads
  BY ThreadNames
<1>1. /\ enabled' = enabled /\ ports' = ports /\ suspended'["secondary"] = suspended["secondary"]
      /\ g_isHandlingCrash' = g_isHandlingCrash
      /\ g_crashedDuringExceptionHandling' = g_crashedDuringExceptionHandling
  BY DEF Settled
<1>2. /\ n \in Nat /\ Len(frames[t]) = n /\ Len(frames'[t]) = n + 1 /\ frames'[t] # <<>> /\ frames'[t][n + 1] = g
      /\ \A i \in 1 .. n : frames'[t][i] = frames[t][i]
      /\ \A u \in Threads : u # t => frames'[u] = frames[u] /\ thread'[u] = thread[u]
      /\ thread'[t] = "runs" /\ frames[t] \in Seq(Handlers)
  BY DEF Started, TypeOK
<1>3. frames[t] = <<>> <=> n = 0
  BY <1>2, EmptySeq
<1>4. (n = 0 => First(t)' = g) /\ (n # 0 => First(t)' = First(t))
  <2>1. n # 0 => 1 \in 1 .. n
    BY <1>2
  <2> QED BY <1>2, <2>1 DEF First
<1>5. ASSUME NEW m \in MachThreads, frames'[m] # <<>>
      PROVE  \/ frames[m] # <<>> /\ First(m)' = First(m)
             \/ /\ m = t /\ n = 0 /\ First(m)'.pc \in {"suspend", "after"}
                /\ First(m)'.pc = "after" => enabled = {}
  <2>1. m \in Threads
    BY ThreadNames
  <2>2. CASE m # t
    BY <1>2, <1>5, <2>1, <2>2 DEF First
  <2>3. CASE m = t /\ n # 0
    BY <1>3, <1>4, <2>3
  <2>4. CASE m = t /\ n = 0
    BY <1>4, <2>4 DEF FirstAlone
  <2> QED BY <2>2, <2>3, <2>4
<1>6. ASSUME PrimaryAt(Restored) PROVE PrimaryAt(Restored)'
  <2>1. t = "primary" => n # 0
    BY <1>3, <1>6 DEF PrimaryAt
  <2>2. t # "primary" => frames'["primary"] = frames["primary"]
    BY <1>0, <1>2
  <2> QED BY <1>2, <1>4, <1>6, <2>1, <2>2 DEF PrimaryAt, First, Restored, Failing
<1>7. /\ PrimaryAt({"check", "set"} \cup Armed)' => PrimaryAt({"check", "set"} \cup Armed)
      /\ PrimaryAt({"resume", "after"})' => PrimaryAt({"resume", "after"}) \/ enabled = {}
      /\ PrimaryAt({"set"} \cup Armed)' => PrimaryAt({"set"} \cup Armed)
  BY <1>0, <1>5 DEF PrimaryAt, Armed
<1>8. frames'["secondary"] # <<>> /\ First("secondary")'.pc \notin {"suspend", "check", "set"} => enabled' = {}
  BY <1>0, <1>1, <1>5 DEF FirstAlone
<1>9. \A i \in DOMAIN frames'["secondary"] : frames'["secondary"][i].pc # "write"
  <2> SUFFICES ASSUME NEW i \in DOMAIN frames'["secondary"] PROVE frames'["secondary"][i].pc # "write"
    OBVIOUS
  <2>1. \/ i \in DOMAIN frames["secondary"] /\ frames'["secondary"][i] = frames["secondary"][i]
        \/ frames'["secondary"][i] = g
    BY <1>0, StartedView
  <2> QED BY <2>1 DEF FirstAlone
<1>10. SUFFICES ASSUME ~g_crashedDuringExceptionHandling
                PROVE  /\ suspended'["secondary"] = 0 =>
                            \/ thread'["secondary"] = "gone" /\ frames'["secondary"] = <<>>
                            \/ PrimaryAt(Restored)' /\ "mach" \in enabled'
                       /\ frames'["secondary"] # <<>> =>
                            Len(frames'["secondary"]) = 1 /\ First("secondary")'.pc \in {"suspend", "check", "after"}
                       /\ \A u \in AppThreads :
                            /\ frames'[u] = <<>> \/ Len(frames'[u]) = 1
                            /\ thread'[u] = "signalled" /\ enabled' # {} => frames'[u] = <<>>
                            /\ PrimaryAt({"set"} \cup Armed)' =>
                                 \A i \in DOMAIN frames'[u] : Kills(frames'[u][i]) => frames'[u][i].pc \notin Armed
  BY <1>1, <1>6, <1>7, <1>8, <1>9 DEF FirstAlone
<1>11. suspended'["secondary"] = 0 =>
            \/ thread'["secondary"] = "gone" /\ frames'["secondary"] = <<>>
            \/ PrimaryAt(Restored)' /\ "mach" \in enabled'
  <2> SUFFICES ASSUME suspended["secondary"] = 0, thread["secondary"] = "gone", frames["secondary"] = <<>>
               PROVE  thread'["secondary"] = "gone" /\ frames'["secondary"] = <<>>
    BY <1>1, <1>6, <1>10 DEF FirstAlone
  <2>1. t # "secondary"
    BY <1>0, <1>3
  <2> QED BY <1>0, <1>2, <2>1
<1>12. frames'["secondary"] # <<>> =>
         Len(frames'["secondary"]) = 1 /\ First("secondary")'.pc \in {"suspend", "check", "after"}
  <2> SUFFICES ASSUME frames'["secondary"] # <<>>
               PROVE  Len(frames'["secondary"]) = 1 /\ First("secondary")'.pc \in {"suspend", "check", "after"}
    OBVIOUS
  <2>1. frames["secondary"] # <<>> =>
          Len(frames["secondary"]) = 1 /\ First("secondary").pc \in {"suspend", "check", "after"}
    BY <1>10 DEF FirstAlone
  <2>2. CASE t # "secondary"
    BY <1>0, <1>2, <2>1, <2>2 DEF First
  <2>3. CASE t = "secondary" /\ n = 0
    BY <1>0, <1>2, <1>4, <2>3
  <2>4. CASE t = "secondary" /\ n # 0
    <3>1. Top(t).pc \in Failing
      BY <1>3, <2>4 DEF Shape
    <3>2. Top(t) = First(t)
      BY <1>2, <1>3, <2>1, <2>4, TopIsOne DEF Top, First
    <3> QED BY <1>3, <2>1, <2>4, <3>1, <3>2 DEF Failing
  <2> QED BY <2>2, <2>3, <2>4
<1>13. ASSUME NEW u \in AppThreads
       PROVE  /\ frames'[u] = <<>> \/ Len(frames'[u]) = 1
              /\ thread'[u] = "signalled" /\ enabled' # {} => frames'[u] = <<>>
              /\ PrimaryAt({"set"} \cup Armed)' =>
                   \A i \in DOMAIN frames'[u] : Kills(frames'[u][i]) => frames'[u][i].pc \notin Armed
  <2>1. u \in Threads /\ (u # t => frames'[u] = frames[u] /\ thread'[u] = thread[u])
    BY <1>2, ThreadNames
  <2>2. /\ frames[u] = <<>> \/ Len(frames[u]) = 1
        /\ thread[u] = "signalled" /\ enabled # {} => frames[u] = <<>>
        /\ PrimaryAt({"set"} \cup Armed) =>
             \A i \in DOMAIN frames[u] : Kills(frames[u][i]) => frames[u][i].pc \notin Armed
    BY <1>10 DEF FirstAlone
  <2>3. u = t => Len(frames'[u]) = 1 /\ thread'[u] = "runs"
    <3>1. u = t => n = 0
      BY <1>3, <2>2
    <3>2. u = t => Len(frames'[t]) = 1 /\ thread'[t] = "runs"
      BY <1>2, <3>1
    <3> QED BY <3>2
  <2>4. ASSUME PrimaryAt({"set"} \cup Armed)', NEW i \in DOMAIN frames'[u], Kills(frames'[u][i])
        PROVE  frames'[u][i].pc \notin Armed
    <3>1. \/ i \in DOMAIN frames[u] /\ frames'[u][i] = frames[u][i]
          \/ frames'[u][i] = g
      BY <2>1, StartedView
    <3> QED BY <1>7, <2>2, <2>4, <3>1
  <2> QED BY <1>1, <2>1, <2>2, <2>3, <2>4
<1> QED BY <1>11, <1>12, <1>13

LEMMA FirstAloneStops ==
  ASSUME HeldInv, StacksInv, FirstAlone, NEW t \in Threads, Stopped(t), Settled
  PROVE  FirstAlone'
<1>0. "primary" \in Threads /\ "secondary" \in Threads /\ Shape
  BY ThreadNames DEF StacksInv
<1>1. /\ enabled' = enabled /\ ports' = ports /\ suspended'["secondary"] = suspended["secondary"]
      /\ g_isHandlingCrash' = g_isHandlingCrash
      /\ g_crashedDuringExceptionHandling' = g_crashedDuringExceptionHandling
  BY DEF Settled
<1>2. /\ frames' = frames /\ Runs(t) /\ thread[t] = "runs"
      /\ \A u \in Threads : u # t => thread'[u] = thread[u]
  BY DEF Stopped, Runs
<1>3. \A pcs : PrimaryAt(pcs)' <=> PrimaryAt(pcs)
  BY <1>2 DEF PrimaryAt, First
<1>4. /\ frames'["secondary"] # <<>> /\ First("secondary")'.pc \notin {"suspend", "check", "set"} => enabled' = {}
      /\ \A i \in DOMAIN frames'["secondary"] : frames'["secondary"][i].pc # "write"
  BY <1>1, <1>2 DEF FirstAlone, First
<1>5. SUFFICES ASSUME ~g_crashedDuringExceptionHandling
               PROVE  /\ enabled' # {} => ports' = "ours" \/ PrimaryAt(Restored)'
                      /\ PrimaryAt({"check", "set"} \cup Armed)' => g_isHandlingCrash'
                      /\ PrimaryAt({"resume", "after"})' => enabled' = {}
                      /\ suspended'["secondary"] = 0 =>
                           \/ thread'["secondary"] = "gone" /\ frames'["secondary"] = <<>>
                           \/ PrimaryAt(Restored)' /\ "mach" \in enabled'
                      /\ frames'["secondary"] # <<>> =>
                           Len(frames'["secondary"]) = 1 /\ First("secondary")'.pc \in {"suspend", "check", "after"}
                      /\ \A u \in AppThreads :
                           /\ frames'[u] = <<>> \/ Len(frames'[u]) = 1
                           /\ thread'[u] = "signalled" /\ enabled' # {} => frames'[u] = <<>>
                           /\ PrimaryAt({"set"} \cup Armed)' =>
                                \A i \in DOMAIN frames'[u] : Kills(frames'[u][i]) => frames'[u][i].pc \notin Armed
  BY <1>1, <1>4 DEF FirstAlone
<1>6. /\ enabled' # {} => ports' = "ours" \/ PrimaryAt(Restored)'
      /\ PrimaryAt({"check", "set"} \cup Armed)' => g_isHandlingCrash'
      /\ PrimaryAt({"resume", "after"})' => enabled' = {}
  BY <1>1, <1>3, <1>5 DEF FirstAlone
<1>7. suspended'["secondary"] = 0 =>
        \/ thread'["secondary"] = "gone" /\ frames'["secondary"] = <<>>
        \/ PrimaryAt(Restored)' /\ "mach" \in enabled'
  <2>1. thread["secondary"] = "gone" => thread'["secondary"] = "gone"
    BY <1>0, <1>2
  <2> QED BY <1>1, <1>2, <1>3, <1>5, <2>1 DEF FirstAlone
<1>8. frames'["secondary"] # <<>> =>
        Len(frames'["secondary"]) = 1 /\ First("secondary")'.pc \in {"suspend", "check", "after"}
  BY <1>2, <1>5 DEF FirstAlone, First
<1>9. ASSUME NEW u \in AppThreads
      PROVE  /\ frames'[u] = <<>> \/ Len(frames'[u]) = 1
             /\ thread'[u] = "signalled" /\ enabled' # {} => frames'[u] = <<>>
             /\ PrimaryAt({"set"} \cup Armed)' =>
                  \A i \in DOMAIN frames'[u] : Kills(frames'[u][i]) => frames'[u][i].pc \notin Armed
  <2>1. u \in Threads
    BY ThreadNames
  <2>2. /\ frames[u] = <<>> \/ Len(frames[u]) = 1
        /\ thread[u] = "signalled" /\ enabled # {} => frames[u] = <<>>
        /\ PrimaryAt({"set"} \cup Armed) =>
             \A i \in DOMAIN frames[u] : Kills(frames[u][i]) => frames[u][i].pc \notin Armed
    BY <1>5 DEF FirstAlone
  <2>3. ASSUME u = t, thread'[u] = "signalled", enabled' # {}, frames[u] # <<>>
        PROVE  FALSE
    <3>1. ports # "ours"
      BY <2>3 DEF Stopped
    <3>2. PrimaryAt(Restored)
      BY <1>1, <1>5, <2>3, <3>1 DEF FirstAlone
    <3>3. PrimaryAt({"check", "set"} \cup Armed)
      BY <3>2 DEF PrimaryAt, Restored, Failing, Armed
    <3> QED BY <1>0, <1>2, <2>3, <3>3, HeldByFirst
  <2>4. PrimaryAt({"set"} \cup Armed)' => PrimaryAt({"set"} \cup Armed)
    BY <1>3
  <2> QED BY <1>1, <1>2, <2>1, <2>2, <2>3, <2>4
<1> QED BY <1>6, <1>7, <1>8, <1>9

LEMMA FirstAloneCancel ==
  ASSUME TypeOK, StacksInv, FirstAlone, NEW t \in MachThreads, t \in cancelled, Settled, queue' = queue,
         frames'[t] = <<>>, thread'[t] = "gone",
         \A u \in Threads : u # t => frames'[u] = frames[u] /\ thread'[u] = thread[u]
  PROVE  FirstAlone'
<1>0. /\ "primary" \in Threads /\ "secondary" \in Threads
      /\ \A u \in AppThreads : u \in Threads /\ u # t
  BY ThreadNames
<1>1. /\ enabled = {} /\ enabled' = {} /\ suspended'["secondary"] = suspended["secondary"]
      /\ g_isHandlingCrash' = g_isHandlingCrash
      /\ g_crashedDuringExceptionHandling' = g_crashedDuringExceptionHandling
  BY DEF Settled, StacksInv, Awake
<1>2. /\ PrimaryAt({"check", "set"} \cup Armed)' => PrimaryAt({"check", "set"} \cup Armed)
      /\ PrimaryAt({"set"} \cup Armed)' => PrimaryAt({"set"} \cup Armed)
  BY <1>0 DEF PrimaryAt, First
<1>3. \A i \in DOMAIN frames'["secondary"] : frames'["secondary"][i].pc # "write"
  BY <1>0 DEF FirstAlone
<1>4. ~g_crashedDuringExceptionHandling =>
        /\ suspended'["secondary"] = 0 =>
             thread'["secondary"] = "gone" /\ frames'["secondary"] = <<>>
        /\ frames'["secondary"] # <<>> =>
             Len(frames'["secondary"]) = 1 /\ First("secondary")'.pc \in {"suspend", "check", "after"}
  BY <1>0, <1>1 DEF FirstAlone, First
<1>5. ~g_crashedDuringExceptionHandling =>
        \A u \in AppThreads :
          /\ frames'[u] = <<>> \/ Len(frames'[u]) = 1
          /\ PrimaryAt({"set"} \cup Armed)' =>
               \A i \in DOMAIN frames'[u] : Kills(frames'[u][i]) => frames'[u][i].pc \notin Armed
  BY <1>0, <1>2 DEF FirstAlone
<1> QED BY <1>1, <1>2, <1>3, <1>4, <1>5 DEF FirstAlone

-----------------------------------------------------------------------------
(* Who stopped the others before it failed is the last in the queue        *)

\* What a thread holds is told by its stack.
LEMMA HoldsSame ==
  ASSUME NEW u, frames'[u] = frames[u]
  PROVE  Holds(u)' <=> Holds(u)
BY DEF Holds, Holding

\* Steps that send and receive no message, and leave the threads that wait for an answer alone.
LEMMA QueueKeeps ==
  ASSUME Messages, LastInQueue, queue' = queue,
         \A u \in AppThreads : thread[u] = "faulted" => frames'[u] = frames[u],
         \A m \in MachThreads : frames'[m] # <<>> => frames[m] # <<>> /\ First(m)'.victim = First(m).victim
  PROVE  LastInQueue'
<1>0. "primary" \in MachThreads /\ "secondary" \in MachThreads
  BY ThreadNames
<1>1. \A k \in DOMAIN queue : Holds(queue[k])' <=> Holds(queue[k])
  BY HoldsSame DEF Messages
<1>2. \A k \in DOMAIN queue' : k # Len(queue') => ~Holds(queue[k])'
  <2> SUFFICES ASSUME NEW k \in DOMAIN queue', k # Len(queue')
               PROVE  ~Holds(queue[k])'
    OBVIOUS
  <2>1. k \in DOMAIN queue /\ k # Len(queue) /\ queue'[k] = queue[k]
    OBVIOUS
  <2>2. frames'[queue'[k]] = frames[queue'[k]]
    BY <2>1 DEF Messages
  <2>3. ~Holds(queue[k])
    BY <2>1 DEF LastInQueue
  <2> QED BY <2>1, <2>2, <2>3 DEF Holds, Holding
<1>3. frames'["primary"] # <<>> /\ Holds(Victim("primary"))' => queue' = <<>> /\ frames'["secondary"] = <<>>
  <2> SUFFICES ASSUME frames'["primary"] # <<>>, Holds(Victim("primary"))'
               PROVE  queue' = <<>> /\ frames'["secondary"] = <<>>
    OBVIOUS
  <2>1. frames["primary"] # <<>> /\ Victim("primary")' = Victim("primary")
    BY <1>0 DEF Victim
  <2>2. frames'[Victim("primary")] = frames[Victim("primary")]
    BY <1>0, <2>1 DEF Messages
  <2>3. Holds(Victim("primary"))
    BY <2>1, <2>2 DEF Holds, Holding
  <2> QED BY <1>0, <2>1, <2>3 DEF LastInQueue
<1> QED BY <1>2, <1>3 DEF LastInQueue

LEMMA QueueMoves ==
  ASSUME Messages, LastInQueue, NEW t \in Threads, NEW n, NEW f, NEW g, Runs(t), Moved(t, n, f, g)
  PROVE  LastInQueue'
<1>1. queue' = queue /\ thread[t] = "runs"
  BY DEF Moved, Runs
<1>2. ASSUME NEW u \in AppThreads, thread[u] = "faulted" PROVE frames'[u] = frames[u]
  <2>1. u \in Threads /\ u \notin MachThreads /\ u # t
    BY <1>1, <1>2, ThreadNames
  <2> QED BY <2>1 DEF Moved, Ended
<1>3. ASSUME NEW m \in MachThreads, frames'[m] # <<>>
      PROVE  frames[m] # <<>> /\ First(m)'.victim = First(m).victim
  BY <1>3, MovedView, ThreadNames
<1> QED BY <1>1, <1>2, <1>3, QueueKeeps

LEMMA QueuePops ==
  ASSUME TypeOK, StacksInv, LastInQueue, NEW t \in Threads, NEW n, NEW f, Runs(t), Popped(t, n, f)
  PROVE  LastInQueue'
<1> USE DEF StacksInv
<1>1. queue' = queue /\ thread[t] = "runs" /\ \A u \in Threads : u # t => frames'[u] = frames[u]
  BY DEF Popped, Runs
<1>2. ASSUME NEW u \in AppThreads, thread[u] = "faulted" PROVE frames'[u] = frames[u]
  BY <1>1, <1>2, ThreadNames
<1>3. ASSUME NEW m \in MachThreads, frames'[m] # <<>>
      PROVE  frames[m] # <<>> /\ First(m)'.victim = First(m).victim
  <2>1. m \in Threads /\ frames[m] # <<>> /\ 1 \in DOMAIN frames'[m]
    BY <1>3, PoppedView, ThreadNames
  <2>2. frames'[m][1] = frames[m][1] \/ First(m).kind = "passon"
    BY <1>3, <2>1, PoppedView DEF First
  <2>3. First(m).kind = "mach"
    BY <1>3, <2>1, MachFirst
  <2> QED BY <2>1, <2>2, <2>3 DEF First
<1> QED BY <1>1, <1>2, <1>3, QueueKeeps

LEMMA QueueStarts ==
  ASSUME TypeOK, Messages, LastInQueue, NEW t \in Threads, NEW n, NEW g, Started(t, n, g), queue' = queue,
         thread[t] # "faulted", n = 0 => t \in AppThreads
  PROVE  LastInQueue'
<1>1. /\ n \in Nat /\ \A u \in Threads : u # t => frames'[u] = frames[u]
      /\ \A i \in 1 .. n : frames'[t][i] = frames[t][i]
      /\ Len(frames[t]) = n /\ frames[t] \in Seq(Handlers)
  BY DEF Started, TypeOK
<1>2. ASSUME NEW u \in AppThreads, thread[u] = "faulted" PROVE frames'[u] = frames[u]
  BY <1>1, <1>2, ThreadNames
<1>3. ASSUME NEW m \in MachThreads, frames'[m] # <<>>
      PROVE  frames[m] # <<>> /\ First(m)'.victim = First(m).victim
  <2>1. m \in Threads
    BY ThreadNames
  <2>2. CASE m # t
    BY <1>1, <1>3, <2>1, <2>2 DEF First
  <2>3. CASE m = t
    <3>1. n # 0
      BY <2>3, ThreadNames
    <3>2. 1 \in 1 .. n /\ frames[t] # <<>>
      BY <1>1, <3>1, EmptySeq
    <3> QED BY <1>1, <2>3, <3>2 DEF First
  <2> QED BY <2>2, <2>3
<1> QED BY <1>2, <1>3, QueueKeeps

LEMMA QueueReceives ==
  ASSUME TypeOK, StacksInv, LastInQueue, NEW t \in MachThreads, NEW n, NEW g, Started(t, n, g),
         thread[t] = "receives", queue # <<>>, queue' = Tail(queue), g.victim = Head(queue)
  PROVE  LastInQueue'
<1> USE DEF StacksInv
<1>0. /\ t \in Threads /\ "primary" \in Threads /\ (t = "primary" \/ t = "secondary")
      /\ "primary" # "secondary" /\ "secondary" \in Threads /\ "primary" \in MachThreads
      /\ queue \in Seq(Threads)
  BY ThreadNames DEF TypeOK
<1>1. frames[t] = <<>> /\ n = 0
  BY <1>0, EmptySeq DEF Shape, Started
<1>2. First(t)' = g /\ \A u \in Threads : u # t => frames'[u] = frames[u]
  BY <1>1 DEF Started, First
<1>3. \A u \in AppThreads : frames'[u] = frames[u]
  BY <1>2, ThreadNames
<1>4. \A k \in DOMAIN queue' : k # Len(queue') => ~Holds(queue[k])'
  <2> SUFFICES ASSUME NEW k \in DOMAIN queue', k # Len(queue')
               PROVE  ~Holds(queue[k])'
    OBVIOUS
  <2>1. k + 1 \in DOMAIN queue /\ queue'[k] = queue[k + 1]
    BY <1>0, QueueTail
  <2>2. k + 1 # Len(queue)
    BY <1>0, QueueTail
  <2>3. ~Holds(queue[k + 1]) /\ queue[k + 1] \in AppThreads
    BY <2>1, <2>2 DEF LastInQueue, Messages
  <2> QED BY <1>3, <2>1, <2>3 DEF Holds, Holding
<1>5. frames'["primary"] # <<>> /\ Holds(Victim("primary"))' => queue' = <<>> /\ frames'["secondary"] = <<>>
  <2> SUFFICES ASSUME frames'["primary"] # <<>>, Holds(Victim("primary"))'
               PROVE  queue' = <<>> /\ frames'["secondary"] = <<>>
    OBVIOUS
  <2>1. CASE t = "primary"
    <3>1. Victim("primary")' = queue[1] /\ 1 \in DOMAIN queue
      BY <1>0, <1>2, <2>1, QueueTail DEF Victim
    <3>2. Holds(queue[1])
      BY <1>3, <3>1 DEF Messages, Holds, Holding
    <3>3. Len(queue) = 1
      BY <3>1, <3>2 DEF LastInQueue
    <3>4. queue' = <<>>
      BY <1>0, <3>3, EmptySeq
    <3>5. frames["secondary"] = <<>>
      BY <2>1 DEF Awake
    <3> QED BY <1>0, <1>2, <2>1, <3>4, <3>5
  <2>2. CASE t = "secondary"
    <3>1. frames'["primary"] = frames["primary"]
      BY <1>0, <1>2, <2>2
    <3>2. Victim("primary")' = Victim("primary") /\ Victim("primary") \in AppThreads
      BY <1>0, <3>1 DEF Victim, First, Messages
    <3>3. Holds(Victim("primary"))
      BY <1>3, <3>2 DEF Holds, Holding
    <3> QED BY <3>1, <3>3 DEF LastInQueue
  <2> QED BY <1>0, <2>1, <2>2
<1> QED BY <1>4, <1>5 DEF LastInQueue

LEMMA QueueStops ==
  ASSUME HeldInv, StacksInv, LastInQueue, NEW t \in Threads, Stopped(t)
  PROVE  LastInQueue'
<1> USE DEF StacksInv
<1>0. TypeOK /\ queue \in Seq(Threads) /\ Runs(t) /\ thread[t] = "runs" /\ frames' = frames
  BY DEF HeldInv, TypeOK, Stopped, Runs
<1>1. CASE queue' = queue
  BY <1>0, <1>1, QueueKeeps DEF First
<1>2. CASE ports = "ours" /\ queue' = Append(queue, t)
  <2>1. t \in AppThreads
    BY <1>0, <1>2, AppMessages
  <2>2. ASSUME NEW u \in AppThreads, thread[u] = "faulted" PROVE ~Holds(u)
    <3>1. u # t /\ u \in Threads
      BY <1>0, <2>2, ThreadNames
    <3> QED BY <1>0, <2>1, <3>1, HeldStill DEF Holds
  <2>3. \A k \in DOMAIN queue' : k # Len(queue') => ~Holds(queue[k])'
    <3> SUFFICES ASSUME NEW k \in DOMAIN queue', k # Len(queue')
                 PROVE  ~Holds(queue[k])'
      OBVIOUS
    <3>1. k \in DOMAIN queue /\ queue'[k] = queue[k]
      BY <1>0, <1>2, QueueAppend
    <3>2. ~Holds(queue[k])
      BY <2>2, <3>1 DEF Messages
    <3> QED BY <1>0, <3>1, <3>2 DEF Holds, Holding
  <2>4. ~(frames'["primary"] # <<>> /\ Holds(Victim("primary"))')
    <3>1. frames["primary"] # <<>> => ~Holds(Victim("primary"))
      BY <2>2, ThreadNames DEF Messages
    <3> QED BY <1>0, <3>1 DEF Holds, Holding, Victim, First
  <2> QED BY <2>3, <2>4 DEF LastInQueue
<1> QED BY <1>1, <1>2 DEF Stopped

-----------------------------------------------------------------------------
(* Overtaken reports                                                       *)

\* Who begins a report in a first crash finds no other crash that writes.
LEMMA OthersWriting ==
  ASSUME HeldInv, StacksInv, FirstAlone, NEW t \in AppThreads \cup {"primary"}, NEW n, NEW f, Runs(t),
         Len(frames[t]) = n, frames[t] # <<>>, frames[t][n] = f, f.pc = "context",
         ~g_crashedDuringExceptionHandling,
         NEW u \in AppThreads \cup {"primary"}, NEW i \in DOMAIN frames[u],
         Kills(frames[u][i]), frames[u][i].pc = "write"
  PROVE  FALSE
<1> USE DEF StacksInv
<1>0. /\ TypeOK /\ t \in Threads /\ u \in Threads /\ "primary" \in MachThreads
      /\ DOMAIN frames[u] = 1 .. Len(frames[u]) /\ Len(frames[t]) \in DOMAIN frames[t]
      /\ DOMAIN frames[t] = 1 .. n /\ n \in Nat \ {0}
  BY ThreadNames, TopIsOne, LenProperties DEF HeldInv, TypeOK
<1>1. Holding(frames[u][i])
  BY DEF Kills, Holding, Stopping
<1>2. CASE t \in AppThreads
  <2>1. u = t
    BY <1>0, <1>1, <1>2, HeldStill
  <2>2. n = 1
    BY <1>0, <1>2 DEF FirstAlone
  <2>3. i = 1
    BY <1>0, <2>1, <2>2
  <2> QED BY <2>1, <2>2, <2>3
<1>3. CASE t = "primary"
  <2>1. First(t).pc \in Armed
    <3>1. CASE n = 1
      BY <1>3, <3>1 DEF First, Armed
    <3>2. CASE n # 1
      <4>1. 1 \in DOMAIN frames[t] /\ n \in DOMAIN frames[t] /\ 1 < n
        BY <1>0, <3>2
      <4> QED BY <1>0, <4>1 DEF Shape, First, Armed, Failing
    <3> QED BY <3>1, <3>2
  <2>2. PrimaryAt({"set"} \cup Armed)
    BY <1>3, <2>1 DEF PrimaryAt
  <2>3. CASE u \in AppThreads
    BY <2>2, <2>3 DEF FirstAlone, Armed
  <2>4. CASE u = "primary"
    <3>1. i # n /\ i < n /\ n \in DOMAIN frames[u] /\ u = t
      BY <1>0, <1>3, <2>4
    <3>2. g_crashedDuringExceptionHandling
      BY <1>0, <3>1, BelowTop
    <3> QED BY <3>2
  <2> QED BY <2>3, <2>4
<1> QED BY <1>2, <1>3

LEMMA LatestMoves ==
  ASSUME HeldInv, StacksInv, FirstAlone, LatestWrites, NEW t \in Threads, NEW n, NEW f, NEW g, Runs(t),
         Moved(t, n, f, g), Effect(t, f, g)
  PROVE  LatestWrites'
<1> USE DEF StacksInv
<1> SUFFICES ASSUME NEW u \in AppThreads \cup {"primary"}, NEW i \in DOMAIN frames'[u],
                    Kills(frames'[u][i]), frames'[u][i].pc = "write"
             PROVE  g_lastCrashReportFilePath' = frames'[u][i].id
  BY DEF LatestWrites, Kills
<1>0. /\ TypeOK /\ u \in Threads /\ "secondary" \in MachThreads
      /\ t \in AppThreads \cup {"primary"} \/ t = "secondary"
  BY ThreadNames DEF HeldInv
<1>1. /\ i \in DOMAIN frames[u]
      /\ \/ frames'[u][i] = frames[u][i]
         \/ u = t /\ frames'[u][i] = g
  <2>1. frames'[u] # <<>>
    OBVIOUS
  <2> QED BY <1>0, <2>1, MovedView
<1>2. /\ g.pc = "write" => f.pc = "context" /\ ~g_crashedDuringExceptionHandling
                           /\ ~g_crashedDuringExceptionHandling' /\ g_lastCrashReportFilePath' = g.id
      /\ g.pc # "write" => g_lastCrashReportFilePath' = g_lastCrashReportFilePath
  BY <1>0, WritesNext
<1>3. CASE frames'[u][i] = frames[u][i]
  <2>1. CASE g.pc # "write"
    BY <1>1, <1>2, <1>3, <2>1 DEF LatestWrites
  <2>2. CASE g.pc = "write"
    <3>1. t # "secondary"
      BY <1>2, <2>2, SecondWaits, <1>0
    <3>2. Len(frames[t]) = n /\ frames[t] # <<>> /\ frames[t][n] = f
      BY DEF Moved
    <3> QED BY <1>0, <1>1, <1>2, <1>3, <2>2, <3>1, <3>2, OthersWriting
  <2> QED BY <2>1, <2>2
<1>4. CASE frames'[u][i] = g
  BY <1>2, <1>4
<1> QED BY <1>1, <1>3, <1>4

LEMMA LatestPops ==
  ASSUME TypeOK, Shape, LatestWrites, NEW t \in Threads, NEW n, NEW f, Popped(t, n, f), Settled
  PROVE  LatestWrites'
<1> SUFFICES ASSUME NEW u \in AppThreads \cup {"primary"}, NEW i \in DOMAIN frames'[u],
                    Kills(frames'[u][i]), frames'[u][i].pc = "write"
             PROVE  g_lastCrashReportFilePath' = frames'[u][i].id
  BY DEF LatestWrites, Kills
<1>1. u \in Threads /\ g_lastCrashReportFilePath' = g_lastCrashReportFilePath
  BY ThreadNames DEF Settled
<1>2. \/ i \in DOMAIN frames[u] /\ frames'[u][i] = frames[u][i]
      \/ i = 1 /\ frames'[u][1] = Frame("nsexception", "suspend", t)
  <2>1. frames'[u] # <<>>
    OBVIOUS
  <2> QED BY <1>1, <2>1, PoppedView
<1> QED BY <1>1, <1>2 DEF LatestWrites, Frame

LEMMA LatestStarts ==
  ASSUME LatestWrites, NEW t \in Threads, NEW n, NEW g, Started(t, n, g), Settled, g.pc # "write"
  PROVE  LatestWrites'
<1> SUFFICES ASSUME NEW u \in AppThreads \cup {"primary"}, NEW i \in DOMAIN frames'[u],
                    Kills(frames'[u][i]), frames'[u][i].pc = "write"
             PROVE  g_lastCrashReportFilePath' = frames'[u][i].id
  BY DEF LatestWrites, Kills
<1>1. u \in Threads /\ g_lastCrashReportFilePath' = g_lastCrashReportFilePath
  BY ThreadNames DEF Settled
<1>2. \/ i \in DOMAIN frames[u] /\ frames'[u][i] = frames[u][i]
      \/ frames'[u][i] = g
  BY <1>1, StartedView
<1> QED BY <1>1, <1>2 DEF LatestWrites

LEMMA LatestStops ==
  ASSUME LatestWrites, Settled, \A u \in Threads : frames'[u] \in {frames[u], <<>>}
  PROVE  LatestWrites'
<1> SUFFICES ASSUME NEW u \in AppThreads \cup {"primary"}, NEW i \in DOMAIN frames'[u],
                    Kills(frames'[u][i]), frames'[u][i].pc = "write"
             PROVE  g_lastCrashReportFilePath' = frames'[u][i].id
  BY DEF LatestWrites, Kills
<1>1. u \in Threads
  BY ThreadNames
<1> QED BY <1>1 DEF LatestWrites, Settled

\* Only an exception thread runs while a handler writes first on another stack.
LEMMA HeldByWriter ==
  ASSUME HeldInv, NEW u \in AppThreads, WritesFirst(u), NEW t \in Threads, t # u, Runs(t)
  PROVE  t \in MachThreads
<1>1. u \in Threads /\ 1 \in DOMAIN frames[u]
  BY ThreadNames, EmptySeq, LenProperties DEF HeldInv, TypeOK, WritesFirst
<1>2. Holding(frames[u][1]) /\ Holds(u)
  BY <1>1 DEF WritesFirst, First, Holding, Holds, Stopping
<1> QED BY <1>1, <1>2, HeldStill, ThreadNames

\* The first exception thread has announced its crash when it writes.
LEMMA PrimaryArmed ==
  ASSUME TypeOK, Shape, Noticed, PrimaryAt({"write", "tail"})
  PROVE  g_handlingFatalException
<1>1. frames["primary"] # <<>> /\ First("primary").pc \in Armed
  BY DEF PrimaryAt, Armed
<1>2. 1 \in DOMAIN frames["primary"] /\ Kills(First("primary")) /\ "primary" \in Threads
  BY <1>1, MachFirst, ThreadNames
<1> QED BY <1>1, <1>2 DEF Noticed, First

\* Who is about to uninstall everything goes on to do so, or passes it on to who failed or noticed.
LEMMA UninstallsMoves ==
  ASSUME HeldInv, StacksInv, FirstAlone, LastInQueue, NEW u \in AppThreads, WritesFirst(u),
         Uninstalls(u), NEW t \in MachThreads, NEW n, NEW f, NEW g, Moved(t, n, f, g), Effect(t, f, g)
  PROVE  enabled' = {} \/ Uninstalls(u)'
<1> USE DEF StacksInv
<1>0. /\ TypeOK /\ "primary" \in MachThreads /\ "secondary" \in MachThreads /\ "primary" # "secondary"
      /\ "primary" \in Threads /\ "secondary" \in Threads /\ t \in Threads /\ (t = "primary" \/ t = "secondary")
  BY ThreadNames DEF HeldInv
<1>1. SUFFICES ASSUME enabled' # {} PROVE Uninstalls(u)'
  OBVIOUS
<1>2. ~Disables(f) /\ Undisturbed(t) /\ \A v \in Threads : v # t => frames'[v] = frames[v]
  BY <1>1 DEF Effect, Disabled, Undisturbed
<1>3. /\ frames[t] # <<>> /\ Top(t) = f /\ frames'[t] # <<>> /\ Top(t)' = g
      /\ g.victim = f.victim /\ GoesTo(f, g) /\ Len(frames[t]) = n
      /\ g_crashedDuringExceptionHandling' <=>
           g_crashedDuringExceptionHandling \/ (f.pc = "check" /\ g_handlingFatalException)
  BY DEF Moved, Effect
<1>4. CASE ~g_crashedDuringExceptionHandling /\ PrimaryAt({"write", "tail"})
  <2>1. g_handlingFatalException
    BY <1>0, <1>4, PrimaryArmed
  <2>2. CASE t = "primary" /\ n # 1
    <3>1. f.pc \in {"suspend", "check"} /\ First(t)' = First(t)
      BY <1>0, <1>4, <2>2, MachMoves
    <3>2. CASE f.pc = "check"
      <4>1. g_crashedDuringExceptionHandling' /\ g.pc = "set"
        BY <1>3, <2>1, <3>2 DEF GoesTo
      <4> QED BY <1>3, <2>2, <4>1 DEF Uninstalls
    <3>3. CASE f.pc = "suspend"
      <4>1. ~g_crashedDuringExceptionHandling'
        BY <1>3, <1>4, <3>3
      <4> QED BY <1>3, <1>4, <2>2, <3>1, <4>1 DEF Uninstalls, PrimaryAt
    <3> QED BY <3>1, <3>2, <3>3
  <2>3. CASE t = "primary" /\ n = 1
    <3>1. First(t) = f /\ First(t)' = g /\ f.kind = "mach"
      BY <1>0, <2>3, MachMoves
    <3>2. f.pc = "write"
      BY <1>2, <1>4, <2>1, <2>3, <3>1 DEF PrimaryAt, Disables
    <3>3. g.pc = "tail" /\ ~g_crashedDuringExceptionHandling'
      BY <1>3, <1>4, <3>2 DEF GoesTo
    <3> QED BY <1>3, <2>3, <3>1, <3>3 DEF Uninstalls, PrimaryAt
  <2>4. CASE t = "secondary"
    <3>0. frames'["primary"] = frames["primary"]
      BY <1>0, <1>2, <2>4
    <3>1. n = 1 /\ First(t).pc \in {"suspend", "check", "after"}
      BY <1>3, <1>4, <2>4 DEF FirstAlone
    <3>2. f.pc \in {"suspend", "check"}
      BY <1>0, <1>3, <3>1, MachMoves DEF GoesTo
    <3>3. CASE f.pc = "suspend"
      <4>1. ~g_crashedDuringExceptionHandling'
        BY <1>3, <1>4, <3>3
      <4> QED BY <1>4, <3>0, <4>1 DEF Uninstalls, PrimaryAt, First
    <3>4. CASE f.pc = "check"
      <4>1. g_crashedDuringExceptionHandling' /\ g.pc = "set"
        BY <1>3, <2>1, <3>4 DEF GoesTo
      <4>2. Holds(u)
        <5>1. u \in Threads /\ 1 \in DOMAIN frames[u]
          BY <1>0, ThreadNames, EmptySeq, LenProperties DEF TypeOK, WritesFirst
        <5> QED BY <5>1 DEF WritesFirst, First, Holding, Holds, Stopping
      <4>3. frames["primary"] # <<>> /\ Victim("primary") # u
        BY <1>3, <1>4, <2>4, <4>2 DEF LastInQueue, PrimaryAt
      <4>4. Victim("primary")' = Victim("primary")
        BY <3>0 DEF Victim, First
      <4> QED BY <1>3, <2>4, <4>1, <4>3, <4>4 DEF Uninstalls
    <3> QED BY <3>2, <3>3, <3>4
  <2> QED BY <1>0, <2>2, <2>3, <2>4
<1>5. CASE g_crashedDuringExceptionHandling /\ frames["primary"] # <<>> /\ Top("primary").pc = "set"
  <2>1. t # "primary"
    BY <1>2, <1>3, <1>5 DEF Disables
  <2>2. frames'["primary"] = frames["primary"] /\ g_crashedDuringExceptionHandling'
    BY <1>0, <1>2, <1>3, <1>5, <2>1
  <2> QED BY <1>5, <2>2 DEF Uninstalls, Top
<1>6. CASE /\ g_crashedDuringExceptionHandling /\ frames["secondary"] # <<>> /\ Top("secondary").pc = "set"
           /\ frames["primary"] # <<>> => Victim("primary") # u
  <2>1. t # "secondary"
    BY <1>2, <1>3, <1>6 DEF Disables
  <2>2. frames'["secondary"] = frames["secondary"] /\ g_crashedDuringExceptionHandling' /\ t = "primary"
    BY <1>0, <1>2, <1>3, <1>6, <2>1
  <2>3. First("primary")'.victim = First("primary").victim
    BY <1>0, <1>3, <2>2, MovedView
  <2>4. frames'["primary"] # <<>> => Victim("primary")' # u
    BY <1>3, <1>6, <2>2, <2>3 DEF Victim
  <2> QED BY <1>6, <2>2, <2>4 DEF Uninstalls, Top
<1> QED BY <1>4, <1>5, <1>6 DEF Uninstalls

LEMMA OvertakenMoves ==
  ASSUME HeldInv, StacksInv, FirstAlone, LastInQueue, Overtaken, NEW t \in Threads, NEW n, NEW f, NEW g,
         Runs(t), Moved(t, n, f, g), Effect(t, f, g)
  PROVE  Overtaken'
<1> USE DEF StacksInv
<1>0. /\ TypeOK /\ "primary" \in MachThreads /\ "primary" \in Threads /\ "secondary" \in MachThreads
      /\ t \in MachThreads => t = "primary" \/ t = "secondary"
  BY ThreadNames DEF HeldInv
<1>1. LatestWrites'
  BY LatestMoves DEF Overtaken
<1>2. SUFFICES ASSUME NEW u \in AppThreads, WritesFirst(u)'
               PROVE  LastOrOvertaken(u)'
  BY <1>1 DEF Overtaken
<1>3. u \in Threads /\ u \notin MachThreads /\ frames'[u] # <<>> /\ First(u)'.pc = "write"
      /\ Suspends(First(u)'.kind)
  BY <1>2, ThreadNames DEF WritesFirst
<1>4. /\ frames[u] # <<>> /\ thread'[u] = thread[u] /\ Len(frames'[u]) = Len(frames[u])
      /\ 1 \in DOMAIN frames[u] /\ First(u)'.kind = First(u).kind
      /\ \/ First(u)' = First(u)
         \/ u = t /\ n = 1 /\ First(u) = f /\ First(u)' = g
  <2>1. frames[u] # <<>>
    BY <1>3, MovedView
  <2>2. 1 \in DOMAIN frames[u]
    BY <1>0, <1>3, <2>1, EmptySeq, LenProperties DEF TypeOK
  <2> QED BY <1>3, <2>1, <2>2, MovedView DEF First
<1>5. /\ g.pc = "write" <=> f.pc = "context" /\ ~g_crashedDuringExceptionHandling
      /\ g.pc = "write" => ~g_crashedDuringExceptionHandling' /\ g_lastCrashReportFilePath' = g.id
                           /\ enabled' = enabled
      /\ g.pc # "write" => g_lastCrashReportFilePath' = g_lastCrashReportFilePath
      /\ enabled = {} => enabled' = {}
  BY <1>0, WritesNext
<1>6. CASE First(u)' # First(u)
  BY <1>3, <1>4, <1>5, <1>6 DEF LastOrOvertaken
<1>7. CASE First(u)' = First(u)
  <2>1. WritesFirst(u) /\ LastOrOvertaken(u)
    BY <1>3, <1>4, <1>7 DEF WritesFirst, Overtaken
  <2>2. CASE g.pc = "write"
    <3>1. Len(frames[u]) = 1 /\ ~g_crashedDuringExceptionHandling /\ f.pc = "context"
      BY <1>4, <1>5, <2>2 DEF FirstAlone
    <3>2. u # t
      <4> SUFFICES ASSUME u = t PROVE FALSE
        OBVIOUS
      <4>1. n = 1 /\ frames[t][1] = f
        BY <3>1 DEF Moved
      <4> QED BY <1>3, <1>7, <3>1, <4>1 DEF First
    <3>3. t \in MachThreads
      BY <2>1, <3>2, HeldByWriter
    <3>4. t = "primary"
      BY <1>0, <1>5, <2>2, <3>1, <3>3, SecondWaits
    <3>5. First("primary")'.pc = "write" /\ frames'["primary"] # <<>>
      <4>1. n = 1
        BY <1>0, <3>1, <3>4, MachMoves
      <4>2. First(t)' = g
        BY <1>0, <3>4, <4>1, MachMoves
      <4>3. frames'[t] # <<>>
        BY DEF Moved
      <4> QED BY <2>2, <3>4, <4>2, <4>3
    <3>6. Uninstalls(u)'
      BY <1>5, <2>2, <3>5 DEF Uninstalls, PrimaryAt
    <3>7. thread[u] = "signalled" => enabled = {}
      BY <1>4, <3>1 DEF FirstAlone
    <3> QED BY <1>4, <1>5, <3>1, <3>6, <3>7 DEF LastOrOvertaken
  <2>3. CASE g.pc # "write"
    <3>1. CASE g_lastCrashReportFilePath = First(u).id
      BY <1>5, <1>7, <2>3, <3>1 DEF LastOrOvertaken
    <3>2. CASE Len(frames[u]) = 1 /\ enabled = {}
      BY <1>4, <1>5, <3>2 DEF LastOrOvertaken
    <3>3. CASE Len(frames[u]) = 1 /\ thread[u] # "signalled" /\ Uninstalls(u)
      <4>1. u # t
        <5> SUFFICES ASSUME u = t PROVE FALSE
          OBVIOUS
        <5>1. n = 1 /\ frames[t][1] = f /\ frames'[t][1] = g
          BY <3>3 DEF Moved
        <5> QED BY <1>3, <2>3, <5>1 DEF First
      <4>2. t \in MachThreads
        BY <2>1, <4>1, HeldByWriter
      <4>3. enabled' = {} \/ Uninstalls(u)'
        BY <2>1, <3>3, <4>2, UninstallsMoves
      <4> QED BY <1>4, <3>3, <4>3 DEF LastOrOvertaken
    <3> QED BY <2>1, <3>1, <3>2, <3>3 DEF LastOrOvertaken
  <2> QED BY <2>2, <2>3
<1> QED BY <1>6, <1>7

LEMMA OvertakenPops ==
  ASSUME HeldInv, StacksInv, FirstAlone, Overtaken, NEW t \in Threads, NEW n, NEW f,
         Runs(t), Popped(t, n, f), Settled
  PROVE  Overtaken'
<1> USE DEF StacksInv
<1>0. /\ TypeOK /\ "primary" \in MachThreads /\ "primary" \in Threads /\ "secondary" \in MachThreads
      /\ "secondary" \in Threads /\ "primary" # "secondary"
      /\ t \in MachThreads => t = "primary" \/ t = "secondary"
  BY ThreadNames DEF HeldInv
<1>1. LatestWrites'
  BY <1>0, LatestPops DEF Overtaken
<1>2. SUFFICES ASSUME NEW u \in AppThreads, WritesFirst(u)'
               PROVE  LastOrOvertaken(u)'
  BY <1>1 DEF Overtaken
<1>3. u \in Threads /\ u \notin MachThreads /\ frames'[u] # <<>> /\ First(u)'.pc = "write"
      /\ Suspends(First(u)'.kind)
  BY <1>2, ThreadNames DEF WritesFirst
<1>4. frames[u] # <<>> /\ First(u)' = First(u)
  <2>1. /\ frames[u] # <<>> /\ 1 \in DOMAIN frames'[u]
        /\ \/ frames'[u][1] = frames[u][1]
           \/ frames'[u][1] = Frame("nsexception", "suspend", t)
    BY <1>0, <1>3, PoppedView
  <2> QED BY <1>3, <2>1 DEF First, Frame
<1>5. WritesFirst(u) /\ LastOrOvertaken(u)
  BY <1>3, <1>4 DEF WritesFirst, Overtaken
<1>6. /\ enabled' = enabled /\ g_lastCrashReportFilePath' = g_lastCrashReportFilePath
      /\ g_crashedDuringExceptionHandling' = g_crashedDuringExceptionHandling
  BY DEF Settled
<1>7. /\ Len(frames[t]) = n /\ frames[t] # <<>> /\ Top(t) = f /\ f.pc \in {"resume", "after"} /\ frames[t][n] = f
      /\ \A v \in Threads : v # t => frames'[v] = frames[v]
  BY DEF Popped
<1>8. Len(frames[u]) = 1 => u # t /\ frames'[u] = frames[u]
  <2> SUFFICES ASSUME Len(frames[u]) = 1 PROVE u # t
    BY <1>3, <1>7
  <2> SUFFICES ASSUME u = t PROVE FALSE
    OBVIOUS
  <2>1. n = 1 /\ First(u) = f
    BY <1>7 DEF First
  <2> QED BY <1>3, <1>4, <1>7, <2>1
<1>9. CASE g_lastCrashReportFilePath = First(u).id
  BY <1>4, <1>6, <1>9 DEF LastOrOvertaken
<1>10. CASE Len(frames[u]) = 1 /\ enabled = {}
  BY <1>6, <1>8, <1>10 DEF LastOrOvertaken
<1>11. CASE Len(frames[u]) = 1 /\ enabled # {} /\ thread[u] # "signalled" /\ Uninstalls(u)
  <2>1. t \in MachThreads /\ u # t /\ frames'[u] = frames[u]
    BY <1>5, <1>8, <1>11, HeldByWriter
  <2>2. t = "primary"
    <3> SUFFICES ASSUME t = "secondary" PROVE FALSE
      BY <1>0, <2>1
    <3>1. First(t).pc \in {"suspend", "check", "set"}
      BY <1>7, <1>11 DEF FirstAlone
    <3>2. n = 1
      <4> SUFFICES ASSUME n # 1 PROVE FALSE
        OBVIOUS
      <4>1. 1 \in DOMAIN frames[t] /\ 1 # Len(frames[t])
        BY <1>0, <1>7, MachFirst
      <4> QED BY <3>1, <4>1 DEF Shape, First, Failing
    <3> QED BY <1>7, <3>1, <3>2 DEF First
  <2>3. Top(t).pc # "set" /\ frames'["secondary"] = frames["secondary"]
    BY <1>0, <1>7, <2>2
  <2>4. ~(~g_crashedDuringExceptionHandling /\ PrimaryAt({"write", "tail"}))
    <3> SUFFICES ASSUME ~g_crashedDuringExceptionHandling, PrimaryAt({"write", "tail"}) PROVE FALSE
      OBVIOUS
    <3>1. First(t).pc \in {"write", "tail"} /\ 1 \in DOMAIN frames[t] /\ Kills(First(t))
      BY <1>0, <1>7, <2>2, MachFirst DEF PrimaryAt
    <3>2. n # 1
      BY <1>7, <3>1 DEF First
    <3>3. n \in DOMAIN frames[t] /\ 1 < n
      BY <3>2 DEF Popped
    <3>4. frames[t][n].pc \notin {"suspend", "check"} => g_crashedDuringExceptionHandling
      BY <1>0, <3>1, <3>3, BelowTop DEF First
    <3> QED BY <1>7, <3>4
  <2>5. /\ g_crashedDuringExceptionHandling /\ frames["secondary"] # <<>> /\ Top("secondary").pc = "set"
        /\ Victim("primary") # u
    BY <1>7, <1>11, <2>2, <2>3, <2>4 DEF Uninstalls
  <2>6. thread'[u] = thread[u]
    <3>1. thread'[u] = thread[u] \/ (f.kind = "mach" /\ u = Victim(t))
      BY <1>0, <1>3, <2>1, PoppedThreads
    <3> QED BY <2>2, <2>5, <3>1
  <2>7. frames'["primary"] # <<>> => Victim("primary")' # u
    <3> SUFFICES ASSUME frames'["primary"] # <<>> PROVE Victim("primary")' # u
      OBVIOUS
    <3>1. /\ 1 \in DOMAIN frames'["primary"]
          /\ frames'["primary"][1] = frames["primary"][1] \/ First("primary").kind = "passon"
      BY <1>0, PoppedView DEF First
    <3>2. First("primary").kind = "mach"
      BY <1>0, <1>7, <2>2, MachFirst
    <3> QED BY <2>5, <3>1, <3>2 DEF Victim, First
  <2>8. Uninstalls(u)'
    BY <1>6, <2>3, <2>5, <2>7 DEF Uninstalls, Top
  <2> QED BY <1>11, <2>1, <2>6, <2>8 DEF LastOrOvertaken
<1> QED BY <1>5, <1>9, <1>10, <1>11 DEF LastOrOvertaken

LEMMA OvertakenStarts ==
  ASSUME HeldInv, StacksInv, Overtaken, NEW t \in Threads, NEW n, NEW g, Started(t, n, g), Settled,
         g.pc # "write",
         n # 0 => thread[t] = "signalled" /\ enabled # {},
         n = 0 /\ t \in MachThreads => thread[t] = "receives"
  PROVE  Overtaken'
<1> USE DEF StacksInv
<1>0. /\ TypeOK /\ "primary" \in MachThreads /\ "primary" \in Threads /\ "secondary" \in MachThreads
      /\ "secondary" \in Threads /\ "primary" # "secondary"
  BY ThreadNames DEF HeldInv
<1>1. LatestWrites'
  BY LatestStarts DEF Overtaken
<1>2. SUFFICES ASSUME NEW u \in AppThreads, WritesFirst(u)'
               PROVE  LastOrOvertaken(u)'
  BY <1>1 DEF Overtaken
<1>3. u \in Threads /\ u \notin MachThreads /\ frames'[u] # <<>> /\ First(u)'.pc = "write"
      /\ Suspends(First(u)'.kind)
  BY <1>2, ThreadNames DEF WritesFirst
<1>4. /\ n \in Nat /\ Len(frames[t]) = n /\ frames'[t][n + 1] = g
      /\ \A i \in 1 .. n : frames'[t][i] = frames[t][i]
      /\ \A v \in Threads : v # t => frames'[v] = frames[v] /\ thread'[v] = thread[v]
      /\ frames[t] \in Seq(Handlers)
  BY <1>0 DEF Started, TypeOK
<1>5. (frames[t] = <<>> <=> n = 0) /\ (n # 0 => First(t)' = First(t) /\ Top(t).pc \in Failing)
  <2>1. frames[t] = <<>> <=> n = 0
    BY <1>4, EmptySeq
  <2>2. n # 0 => 1 \in 1 .. n
    BY <1>4
  <2> QED BY <1>4, <2>1, <2>2 DEF First, Shape
<1>6. frames[u] # <<>> /\ First(u)' = First(u)
  <2>1. CASE u # t
    BY <1>3, <1>4, <2>1 DEF First
  <2>2. CASE u = t
    <3>1. n # 0
      <4> SUFFICES ASSUME n = 0 PROVE FALSE
        OBVIOUS
      <4>1. First(u)' = g
        BY <1>4, <2>2 DEF First
      <4> QED BY <1>3, <4>1
    <3> QED BY <1>5, <2>2, <3>1
  <2> QED BY <2>1, <2>2
<1>7. WritesFirst(u) /\ LastOrOvertaken(u)
  BY <1>3, <1>6 DEF WritesFirst, Overtaken
<1>8. /\ enabled' = enabled /\ g_lastCrashReportFilePath' = g_lastCrashReportFilePath
      /\ g_crashedDuringExceptionHandling' = g_crashedDuringExceptionHandling
  BY DEF Settled
<1>9. u = t => enabled # {} /\ thread[u] = "signalled"
  BY <1>5, <1>6
<1>10. CASE g_lastCrashReportFilePath = First(u).id
  BY <1>6, <1>8, <1>10 DEF LastOrOvertaken
<1>11. CASE Len(frames[u]) = 1 /\ enabled = {}
  BY <1>3, <1>4, <1>8, <1>9, <1>11 DEF LastOrOvertaken
<1>12. CASE Len(frames[u]) = 1 /\ thread[u] # "signalled" /\ Uninstalls(u)
  <2>1. frames'[u] = frames[u] /\ thread'[u] = thread[u]
    BY <1>3, <1>4, <1>9, <1>12
  <2>2. \A m \in {"primary", "secondary"} : frames[m] # <<>> =>
          frames'[m] # <<>> /\ First(m)' = First(m) /\ (Top(m).pc = "set" => Top(m)' = Top(m))
    <3> SUFFICES ASSUME NEW m \in {"primary", "secondary"}, frames[m] # <<>>
                 PROVE  frames'[m] # <<>> /\ First(m)' = First(m) /\ (Top(m).pc = "set" => Top(m)' = Top(m))
      OBVIOUS
    <3>1. CASE m # t
      BY <1>0, <1>4, <3>1 DEF First, Top
    <3>2. CASE m = t
      <4>1. frames'[t] # <<>>
        BY DEF Started
      <4> QED BY <1>5, <3>2, <4>1 DEF Failing
    <3> QED BY <3>1, <3>2
  <2>3. Uninstalls(u)'
    <3>1. CASE ~g_crashedDuringExceptionHandling /\ PrimaryAt({"write", "tail"})
      BY <1>8, <2>2, <3>1 DEF Uninstalls, PrimaryAt
    <3>2. CASE g_crashedDuringExceptionHandling /\ frames["primary"] # <<>> /\ Top("primary").pc = "set"
      BY <1>8, <2>2, <3>2 DEF Uninstalls
    <3>3. CASE /\ g_crashedDuringExceptionHandling /\ frames["secondary"] # <<>> /\ Top("secondary").pc = "set"
               /\ frames["primary"] # <<>> => Victim("primary") # u
      <4>1. thread["primary"] # "receives"
        BY <3>3 DEF Awake
      <4>2. frames'["primary"] # <<>> => frames["primary"] # <<>>
        BY <1>0, <1>4, <1>5, <4>1
      <4>3. frames'["primary"] # <<>> => Victim("primary")' # u
        BY <2>2, <3>3, <4>2 DEF Victim
      <4> QED BY <1>8, <2>2, <3>3, <4>3 DEF Uninstalls
    <3> QED BY <1>12, <3>1, <3>2, <3>3 DEF Uninstalls
  <2> QED BY <1>12, <2>1, <2>3 DEF LastOrOvertaken
<1> QED BY <1>7, <1>10, <1>11, <1>12 DEF LastOrOvertaken

LEMMA OvertakenStops ==
  ASSUME HeldInv, StacksInv, Overtaken, NEW t \in Threads, Stopped(t), Settled
  PROVE  Overtaken'
<1> USE DEF StacksInv
<1>1. /\ frames' = frames /\ Runs(t) /\ \A v \in Threads : v # t => thread'[v] = thread[v]
      /\ enabled' = enabled /\ g_lastCrashReportFilePath' = g_lastCrashReportFilePath
      /\ g_crashedDuringExceptionHandling' = g_crashedDuringExceptionHandling
  BY DEF Stopped, Settled
<1>2. LatestWrites'
  BY <1>1, LatestStops DEF Overtaken
<1>3. SUFFICES ASSUME NEW u \in AppThreads, WritesFirst(u)'
               PROVE  LastOrOvertaken(u)'
  BY <1>2 DEF Overtaken
<1>4. WritesFirst(u) /\ LastOrOvertaken(u) /\ First(u)' = First(u) /\ u \in Threads
  BY <1>1, <1>3, ThreadNames DEF WritesFirst, Overtaken, First
<1>5. Uninstalls(u)' <=> Uninstalls(u)
  BY <1>1 DEF Uninstalls, PrimaryAt, First, Top, Victim
<1>6. ASSUME Uninstalls(u), u = t PROVE FALSE
  <2>0. /\ TypeOK /\ "primary" \in MachThreads /\ "primary" \in Threads
        /\ "secondary" \in MachThreads /\ "secondary" \in Threads
    BY ThreadNames DEF HeldInv
  <2>1. CASE PrimaryAt({"write", "tail"})
    <3>1. PrimaryAt({"check", "set"} \cup Armed)
      BY <2>1 DEF PrimaryAt, Armed
    <3> QED BY <1>1, <1>6, <3>1, HeldByFirst
  <2>2. ASSUME NEW m \in {"primary", "secondary"}, frames[m] # <<>>, Top(m).pc = "set" PROVE FALSE
    <3>1. m \in MachThreads /\ m \in Threads
      BY <2>0, <2>2
    <3>2. Len(frames[m]) \in DOMAIN frames[m] /\ frames[m][Len(frames[m])].pc \in Stopping
      BY <2>0, <2>2, <3>1, TopFrame DEF TypeOK, Stopping
    <3> QED BY <1>1, <1>6, <3>1, <3>2, HeldByMach
  <2> QED BY <1>6, <2>1, <2>2 DEF Uninstalls
<1>7. Uninstalls(u) => thread'[u] = thread[u]
  BY <1>1, <1>4, <1>6
<1> QED BY <1>1, <1>4, <1>5, <1>7 DEF LastOrOvertaken

LEMMA OvertakenCancel ==
  ASSUME Overtaken, NEW t \in MachThreads, Settled, enabled = {}, frames'[t] = <<>>,
         \A u \in Threads : u # t => frames'[u] = frames[u]
  PROVE  Overtaken'
<1>1. enabled' = {} /\ g_lastCrashReportFilePath' = g_lastCrashReportFilePath
  BY DEF Settled
<1>2. LatestWrites'
  BY LatestStops DEF Overtaken
<1>3. SUFFICES ASSUME NEW u \in AppThreads, WritesFirst(u)'
               PROVE  LastOrOvertaken(u)'
  BY <1>2 DEF Overtaken
<1>4. frames'[u] = frames[u]
  BY ThreadNames
<1>5. WritesFirst(u) /\ LastOrOvertaken(u) /\ First(u)' = First(u)
  BY <1>3, <1>4 DEF WritesFirst, Overtaken, First
<1> QED BY <1>1, <1>4, <1>5 DEF LastOrOvertaken

-----------------------------------------------------------------------------
(* A handler that fails is reported in its own report                      *)

\* The innermost handler below the top that writes is the one whose path is remembered.
LEMMA FirstIsOwn ==
  ASSUME TypeOK, StacksInv, FirstAlone, Overtaken, NEW t \in Threads, NEW n, frames[t] # <<>>,
         Len(frames[t]) = n, n \in Nat \ {0}, DOMAIN frames[t] = 1 .. n
  PROVE  WritesLast(t, n)
<1> SUFFICES ASSUME NEW i \in 1 .. n, i # n, frames[t][i].pc = "write", Suspends(frames[t][i].kind)
             PROVE  g_lastCrashReportFilePath = frames[t][i].id
  BY DEF WritesLast
<1>0. t \in AppThreads \/ t = "primary" \/ t = "secondary"
  BY ThreadNames
<1>1. t # "secondary"
  BY DEF FirstAlone
<1>2. CASE Kills(frames[t][i])
  BY <1>0, <1>1, <1>2 DEF Overtaken, LatestWrites
<1>3. CASE ~Kills(frames[t][i])
  <2>1. frames[t][i].kind # "signal" /\ frames[t][i].kind # "mach"
    BY <1>3 DEF Kills, Suspends, Fatal
  <2>2. i = 1
    BY <2>1 DEF StacksInv, Shape
  <2>3. t \in AppThreads
    BY <1>0, <1>1, <2>1, <2>2, ThreadNames, MachFirst DEF First, StacksInv
  <2>4. WritesFirst(t)
    BY <2>2 DEF WritesFirst, First
  <2> QED BY <2>2, <2>3, <2>4 DEF Overtaken, LastOrOvertaken, First
<1> QED BY <1>2, <1>3

LEMMA OwnAfterMoves ==
  ASSUME OwnInv, NEW t \in Threads, NEW n, NEW f, NEW g, Runs(t), Moved(t, n, f, g), Effect(t, f, g)
  PROVE  StacksInv' /\ RecrashIsItsOwn' /\ EitherWay'
<1>0. /\ HeldInv /\ StacksInv /\ RecrashIsItsOwn /\ EitherWay /\ TypeOK /\ Shape /\ Noticed /\ Messages
      /\ n \in Nat \ {0} /\ Len(frames[t]) = n /\ DOMAIN frames[t] = 1 .. n /\ frames[t] # <<>> /\ frames[t][n] = f
  BY DEF OwnInv, HeldInv, StacksInv, Moved
<1>1. StacksInv'
  BY <1>0, StacksMoves
<1>2. CASE NoMach /\ \A u \in AppThreads : WritesAsLast(u)
  <2>1. NoMach' /\ t \in AppThreads
    BY <1>2, NoMachMoves
  <2>2. \A u \in AppThreads : WritesAsLast(u)'
    BY <1>0, <1>2, <2>1, LastMoves
  <2>3. f.pc = "context" => WritesLast(t, n)
    BY <1>0, <1>2, <2>1, LastIsOwn
  <2>4. RecrashIsItsOwn'
    BY <1>0, <2>3, OwnMoves
  <2> QED BY <1>1, <2>1, <2>2, <2>4 DEF EitherWay
<1>3. CASE FirstAlone /\ LastInQueue /\ Overtaken
  <2>1. FirstAlone'
    BY <1>0, <1>3, FirstAloneMoves
  <2>2. LastInQueue'
    BY <1>0, <1>3, QueueMoves
  <2>3. Overtaken'
    BY <1>0, <1>3, OvertakenMoves
  <2>4. WritesLast(t, n)
    BY <1>0, <1>3, FirstIsOwn
  <2>5. RecrashIsItsOwn'
    BY <1>0, <2>4, OwnMoves
  <2> QED BY <1>1, <2>1, <2>2, <2>3, <2>5 DEF EitherWay
<1> QED BY <1>0, <1>2, <1>3 DEF EitherWay

LEMMA OwnAfterPops ==
  ASSUME OwnInv, NEW t \in Threads, NEW n, NEW f, Runs(t), Popped(t, n, f), Settled
  PROVE  StacksInv' /\ RecrashIsItsOwn' /\ EitherWay'
<1>0. HeldInv /\ StacksInv /\ RecrashIsItsOwn /\ EitherWay /\ TypeOK /\ Shape
  BY DEF OwnInv, HeldInv, StacksInv
<1>1. StacksInv' /\ RecrashIsItsOwn'
  BY <1>0, StacksPops, OwnPops
<1>2. CASE NoMach /\ \A u \in AppThreads : WritesAsLast(u)
  <2>1. NoMach' /\ t \in AppThreads
    BY <1>0, <1>2, NoMachPops
  <2>2. \A u \in AppThreads : WritesAsLast(u)'
    BY <1>0, <1>2, <2>1, LastPops
  <2> QED BY <1>1, <2>1, <2>2 DEF EitherWay
<1>3. CASE FirstAlone /\ LastInQueue /\ Overtaken
  <2>1. FirstAlone'
    BY <1>0, <1>3, FirstAlonePops
  <2>2. LastInQueue'
    BY <1>0, <1>3, QueuePops
  <2>3. Overtaken'
    BY <1>0, <1>3, OvertakenPops
  <2> QED BY <1>1, <2>1, <2>2, <2>3 DEF EitherWay
<1> QED BY <1>0, <1>2, <1>3 DEF EitherWay

LEMMA OwnAfterStarts ==
  ASSUME OwnInv, NEW t \in Threads, NEW n, NEW g, Started(t, n, g), Settled, queue' = queue,
         g.kind # "mach", g.pc \notin {"write", "rewrite"}, Kills(g) => g.pc = "suspend",
         thread[t] \in {"runs", "signalled"},
         n # 0 => thread[t] = "signalled" /\ g.kind = "signal" /\ enabled # {},
         n = 0 /\ thread[t] = "runs" => t \in AppThreads
  PROVE  StacksInv' /\ RecrashIsItsOwn' /\ EitherWay'
<1>0. HeldInv /\ StacksInv /\ RecrashIsItsOwn /\ EitherWay /\ TypeOK /\ Shape /\ Messages
  BY DEF OwnInv, HeldInv, StacksInv
<1>1. StacksInv' /\ RecrashIsItsOwn'
  BY <1>0, StacksStarts, OwnStarts
<1>2. frames[t] = <<>> <=> n = 0
  BY <1>0, EmptySeq DEF Started, TypeOK
<1>3. n = 0 => t \in AppThreads
  BY <1>0, <1>2, ThreadNames DEF Shape
<1>4. n # 0 => Top(t).pc \in Failing
  BY <1>0, <1>2 DEF Shape
<1>5. Kills(g) => g.pc \notin Armed
  BY DEF Armed
<1>6. CASE NoMach /\ \A u \in AppThreads : WritesAsLast(u)
  <2>1. NoMach' /\ t \in AppThreads
    BY <1>6, NoMachStarts
  <2>2. \A u \in AppThreads : WritesAsLast(u)'
    BY <1>0, <1>4, <1>6, <2>1, LastStarts
  <2> QED BY <1>1, <2>1, <2>2 DEF EitherWay
<1>7. CASE FirstAlone /\ LastInQueue /\ Overtaken
  <2>0. ~(n = 0 /\ t \in MachThreads)
    BY <1>3, ThreadNames
  <2>1. FirstAlone'
    BY <1>0, <1>5, <1>7, <2>0, FirstAloneStarts
  <2>2. LastInQueue'
    BY <1>0, <1>3, <1>7, QueueStarts
  <2>3. Overtaken'
    BY <1>0, <1>7, <2>0, OvertakenStarts
  <2> QED BY <1>1, <2>1, <2>2, <2>3 DEF EitherWay
<1> QED BY <1>0, <1>6, <1>7 DEF EitherWay

LEMMA OwnAfterStops ==
  ASSUME OwnInv, NEW t \in Threads, Stopped(t), Settled
  PROVE  StacksInv' /\ RecrashIsItsOwn' /\ EitherWay'
<1>0. HeldInv /\ StacksInv /\ RecrashIsItsOwn /\ EitherWay /\ TypeOK /\ frames' = frames
  BY DEF OwnInv, HeldInv, Stopped
<1>1. StacksInv' /\ RecrashIsItsOwn'
  BY <1>0, StacksStops DEF RecrashIsItsOwn
<1>2. CASE NoMach /\ \A u \in AppThreads : WritesAsLast(u)
  BY <1>0, <1>1, <1>2, NoMachStops, LastStops DEF EitherWay
<1>3. CASE FirstAlone /\ LastInQueue /\ Overtaken
  BY <1>0, <1>1, <1>3, FirstAloneStops, QueueStops, OvertakenStops DEF EitherWay
<1> QED BY <1>0, <1>2, <1>3 DEF EitherWay

\* Steps that change nothing of this.
LEMMA OwnSame ==
  ASSUME OwnInv, Settled, frames' = frames, thread' = thread, queue' = queue
  PROVE  StacksInv' /\ RecrashIsItsOwn' /\ EitherWay'
<1>1. Shape' /\ Noticed' /\ Awake' /\ Messages'
  BY DEF OwnInv, StacksInv, Settled, Shape, Noticed, Awake, Messages, First, Top, Kills, PrimaryAt, Victim
<1>2. RecrashIsItsOwn'
  BY DEF OwnInv, RecrashIsItsOwn
<1>3. NoMach => NoMach'
  BY DEF NoMach, Settled
<1>4. \A t \in AppThreads : WritesAsLast(t)' <=> WritesAsLast(t)
  BY DEF WritesAsLast, Settled, Top, First
<1>5. FirstAlone => FirstAlone'
  BY DEF FirstAlone, Settled, PrimaryAt, First, Kills
<1>6. LastInQueue => LastInQueue'
  BY DEF LastInQueue, Holds, Holding, Victim, First
<1>7. LatestWrites => LatestWrites'
  BY DEF LatestWrites, Settled, Kills
<1>8. \A t \in AppThreads : (WritesFirst(t)' <=> WritesFirst(t)) /\ (LastOrOvertaken(t)' <=> LastOrOvertaken(t))
  BY DEF WritesFirst, LastOrOvertaken, Settled, Uninstalls, PrimaryAt, First, Top, Victim
<1>9. Overtaken => Overtaken'
  BY <1>7, <1>8 DEF Overtaken
<1> QED BY <1>1, <1>2, <1>3, <1>4, <1>5, <1>6, <1>9 DEF OwnInv, StacksInv, EitherWay

LEMMA OwnOutside ==
  ASSUME OwnInv
  PROVE  /\ \A t \in AppThreads, kind \in Events : Event(t, kind) => StacksInv' /\ RecrashIsItsOwn' /\ EitherWay'
         /\ \A t \in Threads : HandlerFault(t) => StacksInv' /\ RecrashIsItsOwn' /\ EitherWay'
         /\ \A t \in Threads : Deliver(t) => StacksInv' /\ RecrashIsItsOwn' /\ EitherWay'
<1>0. TypeOK /\ Shape
  BY DEF OwnInv, HeldInv, StacksInv
<1>1. ASSUME NEW t \in AppThreads, NEW kind \in Events, Event(t, kind)
      PROVE  StacksInv' /\ RecrashIsItsOwn' /\ EitherWay'
  <2>0. t \in Threads /\ Settled /\ Runs(t)
    BY <1>0, <1>1, EventDoes, ThreadNames
  <2>1. CASE frames' = frames /\ thread' = thread /\ queue' = queue
    BY <2>0, <2>1, OwnSame
  <2>2. CASE Stopped(t)
    BY <2>0, <2>2, OwnAfterStops
  <2>3. ASSUME NEW g \in Handlers, Started(t, 0, g), queue' = queue, g.kind \notin {"mach", "signal"},
               g.pc \in {"suspend", "check", "context"}, Kills(g) => g.pc = "suspend"
        PROVE  StacksInv' /\ RecrashIsItsOwn' /\ EitherWay'
    BY <2>0, <2>3, OwnAfterStarts DEF Runs
  <2> QED BY <1>0, <1>1, <2>1, <2>2, <2>3, EventDoes
<1>2. ASSUME NEW t \in Threads, HandlerFault(t)
      PROVE  StacksInv' /\ RecrashIsItsOwn' /\ EitherWay'
  BY <1>0, <1>2, KernelDoes, OwnAfterStops
<1>3. ASSUME NEW t \in Threads, Deliver(t)
      PROVE  StacksInv' /\ RecrashIsItsOwn' /\ EitherWay'
  <2>0. Settled /\ queue' = queue /\ thread[t] = "signalled"
    BY <1>0, <1>3, KernelDoes
  <2>1. CASE frames' = frames /\ thread' = thread
    BY <2>0, <2>1, OwnSame
  <2>2. CASE "signal" \in enabled /\ Started(t, Len(frames[t]), Frame("signal", "suspend", t))
    BY <2>0, <2>2, OwnAfterStarts DEF Frame
  <2> QED BY <1>0, <1>3, <2>1, <2>2, KernelDoes
<1> QED BY <1>1, <1>2, <1>3

LEMMA OwnReceives ==
  ASSUME OwnInv, NEW t \in MachThreads, Receive(t)
  PROVE  StacksInv' /\ RecrashIsItsOwn' /\ EitherWay'
<1> DEFINE g == Frame("mach", IF "mach" \in enabled THEN "suspend" ELSE "after", Head(queue))
<1>0. /\ HeldInv /\ StacksInv /\ RecrashIsItsOwn /\ EitherWay /\ TypeOK /\ Shape /\ t \in Threads
  BY ThreadNames DEF OwnInv, HeldInv, StacksInv
<1>1. /\ Settled /\ thread[t] = "receives" /\ suspended[t] = 0
      /\ queue # <<>> /\ queue' = Tail(queue) /\ Head(queue) \in Threads
      /\ Started(t, Len(frames[t]), g)
  BY <1>0, KernelDoes
<1>2. /\ g.kind = "mach" /\ g.pc \in {"suspend", "after"} /\ g.victim = Head(queue)
      /\ g.pc = "after" => "mach" \notin enabled
  BY DEF Frame
<1> HIDE DEF g
<1>3. Len(frames[t]) = 0
  BY <1>0, <1>1, EmptySeq DEF Shape, TypeOK
<1>4. StacksInv' /\ RecrashIsItsOwn'
  BY <1>0, <1>1, <1>2, StacksReceives, OwnStarts
<1>5. FirstAlone /\ LastInQueue /\ Overtaken
  BY <1>0, <1>1 DEF EitherWay, NoMach
<1>6. FirstAlone'
  BY <1>0, <1>1, <1>2, <1>3, <1>5, FirstAloneStarts DEF Armed
<1>7. LastInQueue'
  BY <1>0, <1>1, <1>2, <1>5, QueueReceives
<1>8. Overtaken'
  BY <1>0, <1>1, <1>2, <1>3, <1>5, OvertakenStarts
<1> QED BY <1>4, <1>6, <1>7, <1>8 DEF EitherWay

LEMMA OwnCancel ==
  ASSUME OwnInv, NEW t \in MachThreads, Cancel(t)
  PROVE  StacksInv' /\ RecrashIsItsOwn' /\ EitherWay'
<1>0. /\ HeldInv /\ StacksInv /\ RecrashIsItsOwn /\ EitherWay /\ TypeOK /\ Awake /\ Messages /\ t \in Threads
  BY ThreadNames DEF OwnInv, HeldInv, StacksInv
<1>1. /\ Settled /\ t \in cancelled /\ Runs(t) /\ queue' = queue
      /\ frames'[t] = <<>> /\ thread'[t] = "gone"
      /\ \A u \in Threads : u # t => frames'[u] = frames[u] /\ thread'[u] = thread[u]
  BY <1>0, KernelDoes
<1>2. StacksInv'
  BY <1>0, <1>1, StacksCancel
<1>3. RecrashIsItsOwn'
  <2>1. \A u \in Threads : frames'[u] = frames[u] \/ frames'[u] = <<>>
    BY <1>1
  <2> QED BY <1>0, <2>1 DEF RecrashIsItsOwn
<1>4. FirstAlone /\ LastInQueue /\ Overtaken
  BY <1>0, <1>1 DEF EitherWay, NoMach, Runs
<1>5. enabled = {}
  BY <1>0, <1>1 DEF Awake
<1>6. FirstAlone'
  BY <1>0, <1>1, <1>4, FirstAloneCancel
<1>7. LastInQueue'
  <2>1. ASSUME NEW u \in AppThreads PROVE frames'[u] = frames[u]
    BY <1>1, ThreadNames
  <2>2. ASSUME NEW m \in MachThreads, frames'[m] # <<>>
        PROVE  frames[m] # <<>> /\ First(m)'.victim = First(m).victim
    BY <1>1, <2>2, ThreadNames DEF First
  <2> QED BY <1>0, <1>1, <1>4, <2>1, <2>2, QueueKeeps
<1>8. Overtaken'
  BY <1>1, <1>4, <1>5, OvertakenCancel
<1> QED BY <1>2, <1>3, <1>6, <1>7, <1>8 DEF EitherWay

LEMMA InitOwn == Init => OwnInv
<1> SUFFICES ASSUME Init PROVE OwnInv
  OBVIOUS
<1>0. HeldInv
  BY InitHeld
<1>1. /\ \A t \in Threads : frames[t] = <<>> /\ thread[t] \in {"runs", "receives", "gone"}
      /\ queue = <<>> /\ cancelled = {} /\ suspended["secondary"] = 1 /\ ~g_crashedDuringExceptionHandling
      /\ \A t \in MachThreads : thread[t] = IF ports = "ours" THEN "receives" ELSE "gone"
  BY ThreadNames DEF Init
<1>2. /\ frames["primary"] = <<>> /\ frames["secondary"] = <<>>
      /\ \A t \in AppThreads : frames[t] = <<>> /\ thread[t] # "signalled"
      /\ \A t \in MachThreads : frames[t] = <<>>
  BY <1>1, ThreadNames
<1>3. \A pcs : ~PrimaryAt(pcs)
  BY <1>2 DEF PrimaryAt
<1>4. StacksInv
  BY <1>1, <1>2, <1>3 DEF StacksInv, Shape, Noticed, Awake, Messages
<1>5. RecrashIsItsOwn
  BY <1>1 DEF RecrashIsItsOwn
<1>6. CASE ports = "previous"
  <2>1. NoMach
    BY <1>1, <1>2, <1>6 DEF NoMach
  <2>2. \A t \in AppThreads : WritesAsLast(t)
    BY <1>2 DEF WritesAsLast
  <2> QED BY <1>0, <1>4, <1>5, <2>1, <2>2 DEF OwnInv, EitherWay
<1>7. CASE ports # "previous"
  <2>1. ports = "ours" /\ {"mach", "signal"} \subseteq enabled
    BY <1>7 DEF Init, Unmasked, Monitors, DebuggerUnsafe
  <2>2. FirstAlone
    BY <1>1, <1>2, <1>3, <2>1 DEF FirstAlone
  <2>3. LastInQueue
    BY <1>1, <1>2 DEF LastInQueue
  <2>4. Overtaken
    BY <1>2 DEF Overtaken, LatestWrites, WritesFirst
  <2> QED BY <1>0, <1>4, <1>5, <2>2, <2>3, <2>4 DEF OwnInv, EitherWay
<1> QED BY <1>6, <1>7

\* The inductive invariant.
LEMMA OwnNext == OwnInv /\ [Next]_vars => OwnInv'
<1> SUFFICES ASSUME OwnInv, [Next]_vars PROVE OwnInv'
  OBVIOUS
<1>0. HeldInv /\ TypeOK /\ HeldInv'
  BY HeldNext DEF OwnInv, HeldInv
<1> SUFFICES StacksInv' /\ RecrashIsItsOwn' /\ EitherWay'
  BY <1>0 DEF OwnInv
<1>1. CASE UNCHANGED vars
  BY <1>1, OwnSame DEF vars, flags, files, Settled
<1>2. CASE Next
  <2>1. ASSUME NEW t \in Threads, Step(t)
        PROVE  StacksInv' /\ RecrashIsItsOwn' /\ EitherWay'
    <3>1. CASE after(t)
      BY <1>0, <3>1, AfterPops, OwnAfterPops
    <3>2. CASE ~after(t)
      <4>1. PICK g \in Handlers : Moved(t, Len(frames[t]), Top(t), g) /\ Effect(t, Top(t), g)
        BY <1>0, <2>1, <3>2, StepMoves
      <4>2. Runs(t)
        BY <1>0, <2>1, <3>2, StepMoves
      <4> QED BY <4>1, <4>2, OwnAfterMoves
    <3> QED BY <3>1, <3>2
  <2> QED BY <1>2, <2>1, OwnOutside, OwnReceives, OwnCancel DEF Next
<1> QED BY <1>1, <1>2

\* A handler that stops the program and fails while it writes is reported in its own
\* report, however many threads crash at the same time and whatever fails meanwhile:
\* the report reopened for the failure, through g_lastCrashReportFilePath, is the one
\* that the innermost handler still writing on that stack had begun (onCrash).
THEOREM RecrashesIntoItsOwn == Spec => []RecrashIsItsOwn
<1>1. Init => OwnInv
  BY InitOwn
<1>2. OwnInv /\ [Next]_vars => OwnInv'
  BY OwnNext
<1>3. OwnInv => RecrashIsItsOwn
  BY DEF OwnInv
<1> QED BY <1>1, <1>2, <1>3, PTL DEF Spec
=============================================================================
