-------------------------- MODULE KSCrashAppState --------------------------
(***************************************************************************)
(* The application state that survives a launch                            *)
(* (Monitors/KSCrashMonitor_AppState.c): counters and durations that every *)
(* launch loads from CrashState.json, updates on the notifications of the  *)
(* application's life and saves again, element by element, into a file it  *)
(* has truncated.  The process may be killed between any two writes.       *)
(***************************************************************************)
EXTENDS Naturals, Sequences

CONSTANTS MaxNow,       \* bound: the clock stops here
          MaxLaunches,  \* bound: how often the program is started
          MaxSessions   \* bound: sessions of one launch

ASSUME BoundsAssumption ==
  MaxNow \in Nat \ {0} /\ MaxLaunches \in Nat \ {0} /\ MaxSessions \in Nat \ {0}

VARIABLES
  g_state,      \* KSCrash_AppState of the running process
  g_isEnabled,  \* the monitor is on
  file,         \* what CrashState.json holds: the elements and how much was written
  written,      \* how much of a save in progress is on disk; Idle when none is
  app,          \* the life of the application, as UIKit tells it
  now,          \* the wall clock; launches happen after time 0
  hist          \* what really happened, for the properties only

vars == <<g_state, g_isEnabled, file, written, app, now, hist>>

-----------------------------------------------------------------------------
(* The file is written one element after the other, and an element is two  *)
(* writes: its name and value, then the separator that ends it.  The       *)
(* decoder takes a boolean as soon as it is there and a number only when   *)
(* something follows it; what it took before the data ends stays taken.    *)
Elements == <<"version", "crashedLastLaunch", "activeDurationSinceLastCrash",
              "backgroundDurationSinceLastCrash", "launchesSinceLastCrash",
              "sessionsSinceLastCrash">>
Saved == 2 * Len(Elements)      \* the whole file
Idle  == Saved + 1              \* no save in progress

OnDisk(name, length) ==
  \E i \in DOMAIN Elements :
    /\ Elements[i] = name
    /\ length >= IF name = "crashedLastLaunch" THEN 2 * i - 1 ELSE 2 * i

NoState == [activeDurationSinceLastCrash |-> 0, backgroundDurationSinceLastCrash |-> 0,
            launchesSinceLastCrash |-> 0, sessionsSinceLastCrash |-> 0,
            activeDurationSinceLaunch |-> 0, backgroundDurationSinceLaunch |-> 0,
            sessionsSinceLaunch |-> 0, crashedLastLaunch |-> FALSE,
            crashedThisLaunch |-> FALSE, appStateTransitionTime |-> 0,
            applicationIsActive |-> FALSE, applicationIsInForeground |-> FALSE]

\* Mutant: what crashed in the last launch is stored again.
Contents_Again(s) ==
  [crashedLastLaunch |-> s.crashedThisLaunch \/ s.crashedLastLaunch,
   activeDurationSinceLastCrash |-> s.activeDurationSinceLastCrash,
   backgroundDurationSinceLastCrash |-> s.backgroundDurationSinceLastCrash,
   launchesSinceLastCrash |-> s.launchesSinceLastCrash,
   sessionsSinceLastCrash |-> s.sessionsSinceLastCrash]

\* The elements a save of state s writes: what crashed in this launch is
\* stored as what crashed in the last one.
Contents(s) ==
  [crashedLastLaunch |-> s.crashedThisLaunch,
   activeDurationSinceLastCrash |-> s.activeDurationSinceLastCrash,
   backgroundDurationSinceLastCrash |-> s.backgroundDurationSinceLastCrash,
   launchesSinceLastCrash |-> s.launchesSinceLastCrash,
   sessionsSinceLastCrash |-> s.sessionsSinceLastCrash]

\* Loading starts from a state that is all zero and keeps what it decoded.
loadState(f) ==
  [name \in DOMAIN NoState |->
     IF name \in DOMAIN f.elements /\ OnDisk(name, f.length)
     THEN f.elements[name] ELSE NoState[name]]

NoFile == [elements |-> Contents(NoState), length |-> 0]

-----------------------------------------------------------------------------
\* Mutant: the new launch is no session.
kscrashstate_reset_NoSession(s) ==
  [s EXCEPT !.sessionsSinceLaunch = 1, !.crashedThisLaunch = FALSE,
            !.launchesSinceLastCrash = (IF s.crashedLastLaunch THEN 0 ELSE @) + 1,
            !.sessionsSinceLastCrash = IF s.crashedLastLaunch THEN 0 ELSE @,
            !.applicationIsInForeground = TRUE]

kscrashstate_reset(s) ==
  LET since == [s EXCEPT !.activeDurationSinceLastCrash = 0,
                         !.backgroundDurationSinceLastCrash = 0,
                         !.launchesSinceLastCrash = 0,
                         !.sessionsSinceLastCrash = 0]
      base == IF s.crashedLastLaunch THEN since ELSE s
  IN [base EXCEPT !.sessionsSinceLaunch = 1,
                  !.activeDurationSinceLaunch = 0,
                  !.backgroundDurationSinceLaunch = 0,
                  !.crashedThisLaunch = FALSE,
                  !.launchesSinceLastCrash = @ + 1,
                  !.sessionsSinceLastCrash = @ + 1,
                  !.applicationIsInForeground = TRUE]

AddActive(s, d) == [s EXCEPT !.activeDurationSinceLaunch = @ + d,
                             !.activeDurationSinceLastCrash = @ + d]
AddBackground(s, d) == [s EXCEPT !.backgroundDurationSinceLaunch = @ + d,
                                 !.backgroundDurationSinceLastCrash = @ + d]
timeSince(s) == now - s.appStateTransitionTime

\* open(O_TRUNC): from here on the old contents are gone.
BeginSave(s) ==
  /\ file' = [elements |-> Contents(s), length |-> 0]
  /\ written' = 0

\* The two outcomes of a launch that leave a crash in the file.
Noted == {"crashed", "reported"}

-----------------------------------------------------------------------------
Running == app # "dead" /\ written = Idle

Init ==
  /\ g_state = NoState /\ g_isEnabled = FALSE
  /\ file = NoFile /\ written = Idle
  /\ app = "dead" /\ now = 1
  /\ hist = [launches |-> 0, enabled |-> 0, crashed |-> FALSE, noted |-> "none",
             last |-> "none", torn |-> FALSE, start |-> 1, reports |-> FALSE,
             background |-> FALSE]

\* The process starts, in the foreground or in the background, and
\* kscrash_install loads the state ...
kscrashstate_initialize(background) ==
  /\ app = "dead" /\ hist.launches < MaxLaunches
  /\ app' = "installing"
  /\ g_state' = loadState(file)
  /\ g_isEnabled' = FALSE
  /\ hist' = [hist EXCEPT !.launches = @ + 1, !.start = now, !.reports = FALSE,
                          !.background = background,
                          !.noted = hist.last]
  /\ UNCHANGED <<file, written, now>>

\* ... and then turns the monitors on, which resets and saves it.
setEnabled ==
  /\ app = "installing"
  /\ ~g_isEnabled
  /\ g_isEnabled' = TRUE
  /\ app' = IF hist.background THEN "background" ELSE "inactive"
  /\ g_state' = kscrashstate_reset(g_state)
  /\ BeginSave(g_state')
  /\ hist' = [hist EXCEPT !.enabled = (IF hist.noted \in Noted THEN 0 ELSE @) + 1,
                          !.torn = @ /\ hist.noted \notin Noted,
                          !.last = "reset"]
  /\ UNCHANGED now

saveState ==
  /\ written < Saved
  /\ written' = IF written + 1 = Saved THEN Idle ELSE written + 1
  /\ file' = [file EXCEPT !.length = written + 1]
  /\ app' = IF written + 1 = Saved /\ hist.crashed THEN "dead" ELSE app
  /\ hist' = IF written + 1 = Saved /\ hist.crashed
             THEN [hist EXCEPT !.crashed = FALSE] ELSE hist
  /\ IF app' = "dead" THEN g_state' = NoState /\ g_isEnabled' = FALSE
                     ELSE UNCHANGED <<g_state, g_isEnabled>>
  /\ UNCHANGED now

notifyAppActive(isActive) ==
  /\ Running /\ app = IF isActive THEN "inactive" ELSE "active"
  /\ app' = IF isActive THEN "active" ELSE "inactive"
  /\ g_state' = IF isActive
                THEN [g_state EXCEPT !.applicationIsActive = TRUE,
                                     !.appStateTransitionTime = now]
                ELSE AddActive([g_state EXCEPT !.applicationIsActive = FALSE],
                               timeSince(g_state))
  /\ UNCHANGED <<g_isEnabled, file, written, now, hist>>

notifyAppInForeground ==
  /\ Running /\ app = "background"
  /\ g_state.sessionsSinceLaunch < MaxSessions
  /\ app' = "inactive"
  /\ g_state' = [AddBackground(g_state, timeSince(g_state)) EXCEPT
                   !.applicationIsInForeground = TRUE,
                   !.sessionsSinceLastCrash = @ + 1,
                   !.sessionsSinceLaunch = @ + 1]
  /\ UNCHANGED <<g_isEnabled, file, written, now, hist>>

\* Mutant: the time of the transition is not taken.
notifyAppInBackground_NoTime ==
  /\ Running /\ app = "inactive"
  /\ app' = "background"
  /\ g_state' = [g_state EXCEPT !.applicationIsInForeground = FALSE]
  /\ BeginSave(g_state')
  /\ UNCHANGED <<g_isEnabled, now, hist>>

notifyAppInBackground ==
  /\ Running /\ app = "inactive"
  /\ app' = "background"
  /\ g_state' = [g_state EXCEPT !.applicationIsInForeground = FALSE,
                                !.appStateTransitionTime = now]
  /\ BeginSave(g_state')
  /\ UNCHANGED <<g_isEnabled, now, hist>>

notifyAppTerminate ==
  /\ Running /\ app \in {"inactive", "background"}
  /\ app' = "terminating"
  /\ g_state' = [g_state EXCEPT !.backgroundDurationSinceLastCrash = @ + timeSince(g_state)]
  /\ BeginSave(g_state')
  /\ UNCHANGED <<g_isEnabled, now, hist>>

\* Every event the monitors report calls this unless it is a snapshot: a crash,
\* and also a report the user asked for, after which the program goes on (bound:
\* one such report in a launch).
notifyAppCrash(fatal) ==
  /\ fatal \/ ~hist.reports
  /\ Running /\ app \in {"inactive", "active", "background"}
  /\ UNCHANGED <<app, now, g_isEnabled>>
  /\ g_state' =
       [(IF g_state.applicationIsActive THEN AddActive(g_state, timeSince(g_state))
         ELSE IF ~g_state.applicationIsInForeground
         THEN AddBackground(g_state, timeSince(g_state))
         ELSE g_state) EXCEPT !.crashedThisLaunch = TRUE]
  /\ BeginSave(g_state')
  /\ hist' = [hist EXCEPT !.crashed = fatal, !.reports = @ \/ ~fatal,
                          !.last = IF fatal THEN "crashed" ELSE "reported"]

\* The system ends the process without asking, also while a save is going on.
Kill ==
  /\ app # "dead"
  /\ app' = "dead"
  /\ written' = Idle
  /\ hist' = [hist EXCEPT !.crashed = FALSE, !.torn = @ \/ written # Idle,
                          !.last = IF written <= 2 THEN "lost" ELSE @]
  /\ g_state' = NoState /\ g_isEnabled' = FALSE
  /\ UNCHANGED <<file, now>>

Tick ==
  /\ now < MaxNow
  /\ now' = now + 1
  /\ UNCHANGED <<g_state, g_isEnabled, file, written, app, hist>>

Next ==
  \/ \E b \in BOOLEAN : kscrashstate_initialize(b)
  \/ setEnabled
  \/ saveState
  \/ \E b \in BOOLEAN : notifyAppActive(b)
  \/ notifyAppInForeground
  \/ notifyAppInBackground
  \/ notifyAppTerminate
  \/ \E f \in BOOLEAN : notifyAppCrash(f)
  \/ Kill
  \/ Tick

Spec == Init /\ [][Next]_vars

-----------------------------------------------------------------------------
Apps == {"dead", "installing", "inactive", "active", "background", "terminating"}

\* Types: the state's counters and durations are numbers, a save in progress
\* is somewhere between nothing and everything, and the file holds a prefix.
TypeOK ==
  /\ g_state \in [activeDurationSinceLastCrash : Nat, backgroundDurationSinceLastCrash : Nat,
                  launchesSinceLastCrash : Nat, sessionsSinceLastCrash : Nat,
                  activeDurationSinceLaunch : Nat, backgroundDurationSinceLaunch : Nat,
                  sessionsSinceLaunch : Nat, crashedLastLaunch : BOOLEAN,
                  crashedThisLaunch : BOOLEAN, appStateTransitionTime : 0 .. MaxNow,
                  applicationIsActive : BOOLEAN, applicationIsInForeground : BOOLEAN]
  /\ g_isEnabled \in BOOLEAN
  /\ written \in (0 .. Saved - 1) \cup {Idle} /\ file.length \in 0 .. Saved
  /\ app \in Apps /\ now \in 1 .. MaxNow

\* A launch reports a crash of the last one exactly when the last launch that
\* got as far as its own reset noted one and had written it before it ended: a
\* kill in the middle of a save, at any write, neither invents nor keeps a
\* crash that belongs to an earlier launch.
CrashReportedOnce ==
  app # "dead" => (g_state.crashedLastLaunch <=> hist.noted \in Noted)

\* A launch is a session, so there are never fewer sessions than launches since
\* the last crash, unless a save was cut between the two counters.
SessionsCoverLaunches ==
  g_isEnabled /\ ~hist.torn =>
    g_state.sessionsSinceLastCrash >= g_state.launchesSinceLastCrash

\* The active and the background time of a launch add up to no more than its
\* age, if it began in the foreground and reported nothing but its end.
DurationsWithinLaunch ==
  app \notin {"dead", "installing"} /\ ~hist.background /\ ~hist.reports =>
    g_state.activeDurationSinceLaunch + g_state.backgroundDurationSinceLaunch
      <= now - hist.start

=============================================================================
