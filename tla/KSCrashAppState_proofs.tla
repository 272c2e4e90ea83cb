----------------------- MODULE KSCrashAppState_proofs -----------------------
(***************************************************************************)
(* Proofs about the application state, for any clock, any number of        *)
(* launches and any number of sessions.                                    *)
(*                                                                         *)
(* What a launch will load is decided by how far the last save came, so    *)
(* the invariant speaks of the elements that are on disk: of all of them   *)
(* between two saves, and of those written so far while a save goes on.    *)
(***************************************************************************)
EXTENDS KSCrashAppState, TLAPS

State == [activeDurationSinceLastCrash : Nat, backgroundDurationSinceLastCrash : Nat,
          launchesSinceLastCrash : Nat, sessionsSinceLastCrash : Nat,
          activeDurationSinceLaunch : Nat, backgroundDurationSinceLaunch : Nat,
          sessionsSinceLaunch : Nat, crashedLastLaunch : BOOLEAN,
          crashedThisLaunch : BOOLEAN, appStateTransitionTime : 0 .. MaxNow,
          applicationIsActive : BOOLEAN, applicationIsInForeground : BOOLEAN]

File == [elements : [crashedLastLaunch : BOOLEAN, activeDurationSinceLastCrash : Nat,
                     backgroundDurationSinceLastCrash : Nat, launchesSinceLastCrash : Nat,
                     sessionsSinceLastCrash : Nat],
         length : 0 .. 12]

Outcomes == {"none", "reset", "crashed", "reported", "lost"}
History == [launches : Nat, enabled : Nat, crashed : BOOLEAN, noted : Outcomes, last : Outcomes,
            torn : BOOLEAN, start : 1 .. MaxNow, reports : BOOLEAN, background : BOOLEAN]

Types ==
  /\ g_state \in State /\ file \in File /\ hist \in History
  /\ g_isEnabled \in BOOLEAN /\ written \in 0 .. 13
  /\ app \in Apps /\ now \in 1 .. MaxNow
  /\ written # 12

\* Where the process is: a save goes on only in a process that has been enabled, and a
\* crash is being saved until the process ends.
Stages ==
  /\ g_isEnabled <=> app \notin {"dead", "installing"}
  /\ written # 13 => g_isEnabled /\ file.length = written
  /\ app = "terminating" \/ hist.crashed => g_isEnabled
  /\ hist.crashed => written # 13
  /\ hist.start <= now
  /\ g_state.appStateTransitionTime <= now
  /\ app = "installing" => ~g_state.applicationIsActive

\* The crash of the last launch that got as far as its reset is on disk.
CrashOnDisk == file.length >= 3 /\ file.elements.crashedLastLaunch
CrashNoted ==
  /\ written = 13 => (CrashOnDisk <=> hist.last \in Noted)
  /\ g_isEnabled =>
       /\ g_state.crashedThisLaunch <=> hist.last \in Noted
       /\ file.elements.crashedLastLaunch <=> hist.last \in Noted
  /\ CrashReportedOnce

\* The counters that are on disk, and those that were loaded.
Covers(c) == c.sessionsSinceLastCrash >= c.launchesSinceLastCrash
CountersCover ==
  ~hist.torn =>
    /\ written = 13 => file.length \in {0, 12}
    /\ Covers(file.elements)
    /\ app # "dead" => Covers(g_state)

\* The time counted so far ends at the last transition, while more is to be counted.
Counted == g_state.activeDurationSinceLaunch + g_state.backgroundDurationSinceLaunch
Aged ==
  ~hist.background /\ g_isEnabled =>
    /\ app = "inactive" => ~g_state.applicationIsActive /\ g_state.applicationIsInForeground
    /\ app = "active" => g_state.applicationIsActive /\ g_state.applicationIsInForeground
    /\ app = "background" => ~g_state.applicationIsActive /\ ~g_state.applicationIsInForeground
    /\ ~hist.reports =>
         /\ Counted <= now - hist.start
         /\ app \in {"active", "background"} /\ ~hist.crashed =>
              Counted <= g_state.appStateTransitionTime - hist.start

IInv == Types /\ Stages /\ CrashNoted /\ CountersCover /\ Aged

-----------------------------------------------------------------------------
(* The records of the state and of the file *)

LEMMA StateFields ==
  ASSUME NEW s \in State
  PROVE  /\ s.activeDurationSinceLastCrash \in Nat /\ s.backgroundDurationSinceLastCrash \in Nat
         /\ s.launchesSinceLastCrash \in Nat /\ s.sessionsSinceLastCrash \in Nat
         /\ s.activeDurationSinceLaunch \in Nat /\ s.backgroundDurationSinceLaunch \in Nat
         /\ s.sessionsSinceLaunch \in Nat /\ s.crashedLastLaunch \in BOOLEAN
         /\ s.crashedThisLaunch \in BOOLEAN /\ s.appStateTransitionTime \in 0 .. MaxNow
         /\ s.applicationIsActive \in BOOLEAN /\ s.applicationIsInForeground \in BOOLEAN
BY DEF State

LEMMA NoStateType == NoState \in State
BY BoundsAssumption DEF NoState, State

\* A save writes the counters of the state, and its own crash as the last one.
LEMMA ContentsType ==
  ASSUME NEW s \in State, NEW n \in 0 .. 12
  PROVE  LET f == [elements |-> Contents(s), length |-> n]
         IN  /\ f \in File
             /\ f.length = n
             /\ f.elements.crashedLastLaunch = s.crashedThisLaunch
             /\ f.elements.sessionsSinceLastCrash = s.sessionsSinceLastCrash
             /\ f.elements.launchesSinceLastCrash = s.launchesSinceLastCrash
BY StateFields DEF Contents, File

\* The crash flag is known from its first character on, a number only when something
\* follows it.
LEMMA OnDiskLength ==
  ASSUME NEW n \in 0 .. 12
  PROVE  /\ OnDisk("crashedLastLaunch", n) <=> n >= 3
         /\ OnDisk("launchesSinceLastCrash", n) <=> n >= 10
         /\ OnDisk("sessionsSinceLastCrash", n) <=> n >= 12
<1>1. DOMAIN Elements = 1 .. 6
  BY DEF Elements
<1>2. /\ Elements[1] = "version" /\ Elements[2] = "crashedLastLaunch"
      /\ Elements[3] = "activeDurationSinceLastCrash" /\ Elements[4] = "backgroundDurationSinceLastCrash"
      /\ Elements[5] = "launchesSinceLastCrash" /\ Elements[6] = "sessionsSinceLastCrash"
  BY DEF Elements
<1>3. \A i \in 1 .. 6 : i = 1 \/ i = 2 \/ i = 3 \/ i = 4 \/ i = 5 \/ i = 6
  OBVIOUS
<1> QED BY <1>1, <1>2, <1>3 DEF OnDisk

\* What is loaded: nothing but what is on disk.
LEMMA LoadedState ==
  ASSUME NEW f \in File
  PROVE  LET s == loadState(f)
         IN  /\ s \in State
             /\ s.crashedLastLaunch <=> f.length >= 3 /\ f.elements.crashedLastLaunch
             /\ s.crashedThisLaunch = FALSE
             /\ s.appStateTransitionTime = 0
             /\ s.applicationIsActive = FALSE
             /\ f.length = 0 \/ (f.length = 12 /\ Covers(f.elements)) => Covers(s)
<1> DEFINE s == loadState(f)
<1>1. /\ f.elements.crashedLastLaunch \in BOOLEAN
      /\ f.elements.activeDurationSinceLastCrash \in Nat
      /\ f.elements.backgroundDurationSinceLastCrash \in Nat
      /\ f.elements.launchesSinceLastCrash \in Nat /\ f.elements.sessionsSinceLastCrash \in Nat
      /\ f.length \in 0 .. 12
      /\ DOMAIN f.elements = {"crashedLastLaunch", "activeDurationSinceLastCrash",
           "backgroundDurationSinceLastCrash", "launchesSinceLastCrash", "sessionsSinceLastCrash"}
  BY DEF File
<1>2. DOMAIN NoState = {"activeDurationSinceLastCrash", "backgroundDurationSinceLastCrash",
        "launchesSinceLastCrash", "sessionsSinceLastCrash", "activeDurationSinceLaunch",
        "backgroundDurationSinceLaunch", "sessionsSinceLaunch", "crashedLastLaunch",
        "crashedThisLaunch", "appStateTransitionTime", "applicationIsActive",
        "applicationIsInForeground"}
  BY DEF NoState
<1>3. /\ s = [name \in DOMAIN NoState |-> IF name \in DOMAIN f.elements /\ OnDisk(name, f.length)
                                          THEN f.elements[name] ELSE NoState[name]]
  BY DEF loadState
<1> HIDE DEF s
<1>4. /\ s.crashedLastLaunch = IF f.length >= 3 THEN f.elements.crashedLastLaunch ELSE FALSE
      /\ s.launchesSinceLastCrash = IF f.length >= 10 THEN f.elements.launchesSinceLastCrash ELSE 0
      /\ s.sessionsSinceLastCrash = IF f.length >= 12 THEN f.elements.sessionsSinceLastCrash ELSE 0
  BY <1>1, <1>2, <1>3, OnDiskLength DEF NoState
<1>5. /\ s.crashedThisLaunch = FALSE /\ s.appStateTransitionTime = 0
      /\ s.activeDurationSinceLaunch = 0 /\ s.backgroundDurationSinceLaunch = 0
      /\ s.sessionsSinceLaunch = 0 /\ s.applicationIsActive = FALSE /\ s.applicationIsInForeground = FALSE
  BY <1>1, <1>2, <1>3 DEF NoState
<1>6. s.activeDurationSinceLastCrash \in Nat /\ s.backgroundDurationSinceLastCrash \in Nat
  BY <1>1, <1>2, <1>3 DEF NoState
<1>7. s \in State
  <2>1. s.launchesSinceLastCrash \in Nat /\ s.sessionsSinceLastCrash \in Nat
    BY <1>1, <1>4
  <2>4. s.crashedLastLaunch \in BOOLEAN
    BY <1>1, <1>4, Zenon
  <2>2. 0 \in 0 .. MaxNow
    BY BoundsAssumption
  <2>3. s = [activeDurationSinceLastCrash |-> s.activeDurationSinceLastCrash,
             backgroundDurationSinceLastCrash |-> s.backgroundDurationSinceLastCrash,
             launchesSinceLastCrash |-> s.launchesSinceLastCrash,
             sessionsSinceLastCrash |-> s.sessionsSinceLastCrash,
             activeDurationSinceLaunch |-> s.activeDurationSinceLaunch,
             backgroundDurationSinceLaunch |-> s.backgroundDurationSinceLaunch,
             sessionsSinceLaunch |-> s.sessionsSinceLaunch,
             crashedLastLaunch |-> s.crashedLastLaunch, crashedThisLaunch |-> s.crashedThisLaunch,
             appStateTransitionTime |-> s.appStateTransitionTime,
             applicationIsActive |-> s.applicationIsActive,
             applicationIsInForeground |-> s.applicationIsInForeground]
    BY <1>2, <1>3
  <2>5. s.crashedThisLaunch \in BOOLEAN /\ s.applicationIsActive \in BOOLEAN
        /\ s.applicationIsInForeground \in BOOLEAN
    BY <1>5
  <2>6. s.appStateTransitionTime \in 0 .. MaxNow /\ s.activeDurationSinceLaunch \in Nat
        /\ s.backgroundDurationSinceLaunch \in Nat /\ s.sessionsSinceLaunch \in Nat
    BY <1>5, <2>2
  <2> QED BY <2>1, <2>3, <2>4, <2>5, <2>6, <1>6, Zenon DEF State
<1>8. f.length = 0 \/ (f.length = 12 /\ Covers(f.elements)) => Covers(s)
  BY <1>1, <1>4 DEF Covers
<1> QED BY <1>1, <1>4, <1>5, <1>7, <1>8 DEF s

\* A reset counts a launch and a session, from zero after a crash.
LEMMA ResetState ==
  ASSUME NEW s \in State
  PROVE  LET n == kscrashstate_reset(s)
             before(c) == IF s.crashedLastLaunch THEN 0 ELSE c
         IN  /\ n \in State
             /\ n.crashedLastLaunch = s.crashedLastLaunch
             /\ n.crashedThisLaunch = FALSE
             /\ n.appStateTransitionTime = s.appStateTransitionTime
             /\ n.applicationIsActive = s.applicationIsActive
             /\ n.applicationIsInForeground = TRUE
             /\ n.activeDurationSinceLaunch = 0 /\ n.backgroundDurationSinceLaunch = 0
             /\ n.launchesSinceLastCrash = before(s.launchesSinceLastCrash) + 1
             /\ n.sessionsSinceLastCrash = before(s.sessionsSinceLastCrash) + 1
<1> DEFINE b == IF s.crashedLastLaunch
                THEN [s EXCEPT !.activeDurationSinceLastCrash = 0, !.backgroundDurationSinceLastCrash = 0,
                               !.launchesSinceLastCrash = 0, !.sessionsSinceLastCrash = 0]
                ELSE s
           l == b.launchesSinceLastCrash + 1
           k == b.sessionsSinceLastCrash + 1
<1>1. /\ b \in State
      /\ b.crashedLastLaunch = s.crashedLastLaunch
      /\ b.appStateTransitionTime = s.appStateTransitionTime
      /\ b.applicationIsActive = s.applicationIsActive
      /\ b.launchesSinceLastCrash = IF s.crashedLastLaunch THEN 0 ELSE s.launchesSinceLastCrash
      /\ b.sessionsSinceLastCrash = IF s.crashedLastLaunch THEN 0 ELSE s.sessionsSinceLastCrash
  BY DEF State
<1>2. kscrashstate_reset(s) =
        [b EXCEPT !.sessionsSinceLaunch = 1, !.activeDurationSinceLaunch = 0,
                  !.backgroundDurationSinceLaunch = 0, !.crashedThisLaunch = FALSE,
                  !.launchesSinceLastCrash = l, !.sessionsSinceLastCrash = k,
                  !.applicationIsInForeground = TRUE]
  BY DEF kscrashstate_reset
<1>3. l \in Nat /\ k \in Nat
  BY <1>1, StateFields
<1> HIDE DEF b, l, k
<1> DEFINE n == kscrashstate_reset(s)
<1>4. n \in State
  <2> DEFINE b1 == [b EXCEPT !.sessionsSinceLaunch = 1, !.activeDurationSinceLaunch = 0,
                             !.backgroundDurationSinceLaunch = 0, !.crashedThisLaunch = FALSE]
  <2>1. b1 \in State
    BY <1>1 DEF State
  <2>2. n = [b1 EXCEPT !.launchesSinceLastCrash = l, !.sessionsSinceLastCrash = k,
                       !.applicationIsInForeground = TRUE]
    BY <1>2
  <2> HIDE DEF b1
  <2> QED BY <2>1, <2>2, <1>3 DEF State
<1>5. /\ n.crashedLastLaunch = b.crashedLastLaunch /\ n.crashedThisLaunch = FALSE
      /\ n.appStateTransitionTime = b.appStateTransitionTime
      /\ n.applicationIsActive = b.applicationIsActive /\ n.applicationIsInForeground = TRUE
  BY <1>1, <1>2 DEF State
<1>6. /\ n.activeDurationSinceLaunch = 0 /\ n.backgroundDurationSinceLaunch = 0
      /\ n.launchesSinceLastCrash = l /\ n.sessionsSinceLastCrash = k
  BY <1>1, <1>2 DEF State
<1> QED BY <1>1, <1>4, <1>5, <1>6 DEF l, k

LEMMA FileFields ==
  ASSUME NEW f \in File
  PROVE  /\ f.length \in 0 .. 12 /\ f.elements.crashedLastLaunch \in BOOLEAN
         /\ f.elements.launchesSinceLastCrash \in Nat /\ f.elements.sessionsSinceLastCrash \in Nat
BY DEF File

LEMMA HistoryFields ==
  ASSUME NEW h \in History
  PROVE  /\ h.launches \in Nat /\ h.enabled \in Nat /\ h.crashed \in BOOLEAN
         /\ h.noted \in Outcomes /\ h.last \in Outcomes /\ h.torn \in BOOLEAN
         /\ h.start \in 1 .. MaxNow /\ h.reports \in BOOLEAN /\ h.background \in BOOLEAN
BY DEF History

LEMMA Sizes == Saved = 12 /\ Idle = 13
BY DEF Saved, Idle, Elements

-----------------------------------------------------------------------------
(* The invariant, action by action *)

LEMMA InitInv == Init => IInv
<1> SUFFICES ASSUME Init PROVE IInv
  OBVIOUS
<1> DEFINE h == [launches |-> 0, enabled |-> 0, crashed |-> FALSE, noted |-> "none",
                 last |-> "none", torn |-> FALSE, start |-> 1, reports |-> FALSE,
                 background |-> FALSE]
<1>1. h \in History
  BY BoundsAssumption DEF History, Outcomes
<1>2. /\ file \in File /\ file.length = 0 /\ file.elements.crashedLastLaunch = FALSE
      /\ file.elements.sessionsSinceLastCrash = 0 /\ file.elements.launchesSinceLastCrash = 0
  <2>1. file = [elements |-> Contents(NoState), length |-> 0] /\ 0 \in 0 .. 12
    BY DEF Init, NoFile
  <2>2. /\ NoState.crashedThisLaunch = FALSE /\ NoState.sessionsSinceLastCrash = 0
        /\ NoState.launchesSinceLastCrash = 0
    BY DEF NoState
  <2> QED BY <2>1, <2>2, ContentsType, NoStateType
<1>3. Types
  <2>1. hist \in History
    BY <1>1 DEF Init
  <2>2. g_state \in State /\ g_isEnabled \in BOOLEAN
    BY NoStateType DEF Init
  <2>3. written = 13 /\ app \in Apps /\ now \in 1 .. MaxNow
    BY BoundsAssumption, Sizes DEF Init, Apps
  <2> QED BY <1>2, <2>1, <2>2, <2>3 DEF Types
<1>4. Stages
  BY Sizes DEF Stages, Init, NoState
<1>5. CrashNoted
  BY <1>2 DEF CrashNoted, CrashReportedOnce, CrashOnDisk, Init, Noted
<1>6. CountersCover
  BY <1>2 DEF CountersCover, Covers, Init
<1>7. Aged
  BY DEF Aged, Init
<1> QED BY <1>3, <1>4, <1>5, <1>6, <1>7 DEF IInv

LEMMA InitializeInv ==
  ASSUME IInv, NEW b \in BOOLEAN, kscrashstate_initialize(b)
  PROVE  IInv'
<1> USE DEF IInv
<1>1. /\ g_state' = loadState(file) /\ app = "dead" /\ app' = "installing" /\ g_isEnabled' = FALSE
      /\ file' = file /\ written' = written /\ now' = now
      /\ hist' = [hist EXCEPT !.launches = @ + 1, !.start = now, !.reports = FALSE,
                              !.background = b, !.noted = hist.last]
  BY DEF kscrashstate_initialize
<1>2. /\ hist' \in History /\ hist'.last = hist.last /\ hist'.torn = hist.torn
      /\ hist'.start = now /\ hist'.crashed = hist.crashed /\ hist'.noted = hist.last
  <2> DEFINE k == hist.launches + 1
             l == hist.last
  <2>1. k \in Nat /\ l \in Outcomes /\ now \in 1 .. MaxNow
    BY HistoryFields DEF Types
  <2>2. hist' = [hist EXCEPT !.launches = k, !.start = now, !.reports = FALSE,
                             !.background = b, !.noted = l]
    BY <1>1
  <2> HIDE DEF k, l
  <2>3. /\ hist' \in History /\ hist'.last = hist.last /\ hist'.torn = hist.torn
        /\ hist'.start = now /\ hist'.crashed = hist.crashed /\ hist'.noted = l
    BY <2>1, <2>2 DEF Types, History
  <2> QED BY <2>3 DEF l
<1>3. /\ g_state' \in State /\ g_state'.crashedThisLaunch = FALSE
      /\ g_state'.appStateTransitionTime = 0
      /\ g_state'.applicationIsActive = FALSE
      /\ g_state'.crashedLastLaunch <=> CrashOnDisk
      /\ file.length = 0 \/ (file.length = 12 /\ Covers(file.elements)) => Covers(g_state')
  BY <1>1, LoadedState DEF Types, CrashOnDisk
<1>4. written = 13 /\ ~hist.crashed /\ ~g_isEnabled
  BY <1>1 DEF Stages
<1>5. Types'
  BY <1>1, <1>2, <1>3 DEF Types, Apps
<1>6. Stages'
  BY <1>1, <1>2, <1>3, <1>4 DEF Stages, Types
<1>7. CrashNoted'
  BY <1>1, <1>2, <1>3, <1>4 DEF CrashNoted, CrashReportedOnce, CrashOnDisk
<1>8. CountersCover'
  BY <1>1, <1>2, <1>3, <1>4 DEF CountersCover, Covers
<1>9. Aged'
  BY <1>1 DEF Aged
<1> QED BY <1>5, <1>6, <1>7, <1>8, <1>9

\* A save of state s begins.
LEMMA SaveBegins ==
  ASSUME NEW s \in State, BeginSave(s)
  PROVE  /\ file' \in File /\ file'.length = 0 /\ written' = 0
         /\ file'.elements.crashedLastLaunch = s.crashedThisLaunch
         /\ Covers(file'.elements) <=> Covers(s)
<1>1. file' = [elements |-> Contents(s), length |-> 0] /\ written' = 0 /\ 0 \in 0 .. 12
  BY DEF BeginSave
<1> QED BY <1>1, ContentsType DEF Covers

LEMMA SetEnabledInv ==
  ASSUME IInv, setEnabled
  PROVE  IInv'
<1> USE DEF IInv
<1>1. /\ app = "installing" /\ ~g_isEnabled /\ g_isEnabled' = TRUE
      /\ app' = IF hist.background THEN "background" ELSE "inactive"
      /\ g_state' = kscrashstate_reset(g_state) /\ now' = now
      /\ BeginSave(g_state')
      /\ hist' = [hist EXCEPT !.enabled = (IF hist.noted \in Noted THEN 0 ELSE @) + 1,
                              !.torn = @ /\ hist.noted \notin Noted, !.last = "reset"]
  BY DEF setEnabled
<1>2. /\ g_state' \in State /\ g_state'.crashedThisLaunch = FALSE
      /\ g_state'.crashedLastLaunch = g_state.crashedLastLaunch
      /\ g_state'.appStateTransitionTime = g_state.appStateTransitionTime
      /\ g_state'.activeDurationSinceLaunch = 0 /\ g_state'.backgroundDurationSinceLaunch = 0
      /\ g_state'.applicationIsActive = g_state.applicationIsActive
      /\ g_state'.applicationIsInForeground = TRUE
  BY <1>1, ResetState DEF Types
<1>3. g_state.crashedLastLaunch \/ Covers(g_state) => Covers(g_state')
  <2>1. g_state \in State
    BY DEF Types
  <2>2. /\ g_state'.launchesSinceLastCrash =
             (IF g_state.crashedLastLaunch THEN 0 ELSE g_state.launchesSinceLastCrash) + 1
        /\ g_state'.sessionsSinceLastCrash =
             (IF g_state.crashedLastLaunch THEN 0 ELSE g_state.sessionsSinceLastCrash) + 1
    BY <1>1, <2>1, ResetState
  <2>3. g_state.launchesSinceLastCrash \in Nat /\ g_state.sessionsSinceLastCrash \in Nat
    BY <2>1, StateFields
  <2>4. CASE g_state.crashedLastLaunch
    BY <2>2, <2>4 DEF Covers
  <2>5. CASE ~g_state.crashedLastLaunch
    BY <2>2, <2>3, <2>5 DEF Covers
  <2> QED BY <2>4, <2>5
<1>4. /\ hist' \in History /\ hist'.last = "reset" /\ hist'.noted = hist.noted
      /\ hist'.torn <=> hist.torn /\ hist.noted \notin Noted
      /\ hist'.crashed = hist.crashed /\ hist'.start = hist.start
      /\ hist'.background = hist.background /\ hist'.reports = hist.reports
  <2> DEFINE k == (IF hist.noted \in Noted THEN 0 ELSE hist.enabled) + 1
             t == hist.torn /\ hist.noted \notin Noted
  <2>1. k \in Nat
    BY HistoryFields DEF Types
  <2>2. t \in BOOLEAN /\ "reset" \in Outcomes
    BY DEF Outcomes
  <2>3. hist' = [hist EXCEPT !.enabled = k, !.torn = t, !.last = "reset"]
    BY <1>1
  <2> HIDE DEF k, t
  <2>4. /\ hist' \in History /\ hist'.last = "reset" /\ hist'.noted = hist.noted
        /\ hist'.torn = t
        /\ hist'.crashed = hist.crashed /\ hist'.start = hist.start
        /\ hist'.background = hist.background /\ hist'.reports = hist.reports
    BY <2>1, <2>2, <2>3 DEF Types, History
  <2> QED BY <2>4 DEF t
<1>5. /\ file' \in File /\ file'.length = 0 /\ written' = 0
      /\ file'.elements.crashedLastLaunch = FALSE
      /\ Covers(file'.elements) <=> Covers(g_state')
  BY <1>1, <1>2, SaveBegins
<1>6. ~hist.crashed
  BY <1>1 DEF Stages
<1>7. Types'
  BY <1>1, <1>2, <1>4, <1>5 DEF Types, Apps
<1>8. Stages'
  BY <1>1, <1>2, <1>4, <1>5, <1>6 DEF Stages
<1>9. CrashNoted'
  BY <1>1, <1>2, <1>4, <1>5 DEF CrashNoted, CrashReportedOnce, Noted
<1>10. CountersCover'
  BY <1>1, <1>3, <1>4, <1>5 DEF CountersCover, CrashNoted, CrashReportedOnce
<1>11. hist.start <= now /\ hist.start \in 1 .. MaxNow /\ now \in 1 .. MaxNow
  BY HistoryFields DEF Stages, Types
<1>12. Aged'
  <2>1. hist'.background \/ app' = "inactive"
    BY <1>1, <1>4
  <2>2. ~g_state.applicationIsActive
    BY <1>1 DEF Stages
  <2>3. Counted' <= now' - hist'.start
    BY <1>1, <1>2, <1>4, <1>11 DEF Counted
  <2> QED BY <1>2, <2>1, <2>2, <2>3 DEF Aged
<1> QED BY <1>7, <1>8, <1>9, <1>10, <1>12

LEMMA SaveInv ==
  ASSUME IInv, saveState
  PROVE  IInv'
<1> USE DEF IInv
<1>1. /\ written < 12 /\ now' = now
      /\ written' = IF written + 1 = 12 THEN 13 ELSE written + 1
      /\ file' = [file EXCEPT !.length = written + 1]
      /\ app' = IF written + 1 = 12 /\ hist.crashed THEN "dead" ELSE app
      /\ hist' = IF written + 1 = 12 /\ hist.crashed THEN [hist EXCEPT !.crashed = FALSE] ELSE hist
      /\ IF app' = "dead" THEN g_state' = NoState /\ g_isEnabled' = FALSE
                          ELSE UNCHANGED <<g_state, g_isEnabled>>
  BY Sizes DEF saveState
<1>2. written \in 0 .. 11 /\ g_isEnabled /\ file.length = written /\ app \notin {"dead", "installing"}
  BY <1>1 DEF Types, Stages
<1>3. file' \in File /\ file'.length = written + 1 /\ file'.elements = file.elements
  BY <1>1, <1>2 DEF Types, File
<1>4. /\ hist' \in History /\ hist'.last = hist.last /\ hist'.torn = hist.torn
      /\ hist'.start = hist.start /\ hist'.background = hist.background
      /\ hist'.reports = hist.reports /\ hist'.noted = hist.noted
      /\ hist'.crashed \in BOOLEAN
  BY <1>1 DEF Types, History
<1>5. CASE written + 1 = 12 /\ hist.crashed
  <2>1. /\ app' = "dead" /\ g_state' = NoState /\ g_isEnabled' = FALSE /\ written' = 13
        /\ file'.length = 12
    BY <1>1, <1>2, <1>3, <1>5
  <2>2. hist'.crashed = FALSE
    BY <1>1, <1>5 DEF Types, History
  <2>3. Types'
    <3>1. g_state' \in State
      BY <2>1, NoStateType
    <3>2. now' \in 1 .. MaxNow /\ app' \in Apps /\ g_isEnabled' \in BOOLEAN
      BY <1>1, <2>1 DEF Types, Apps
    <3> QED BY <1>3, <1>4, <2>1, <3>1, <3>2 DEF Types
  <2>4. NoState.appStateTransitionTime = 0 /\ hist.start <= now /\ now \in 1 .. MaxNow
    BY DEF Stages, Types, NoState
  <2>5. Stages'
    BY <1>1, <1>4, <2>1, <2>2, <2>4 DEF Stages
  <2>6. CrashNoted'
    BY <1>2, <1>3, <1>4, <2>1 DEF CrashNoted, CrashReportedOnce, CrashOnDisk
  <2>7. CountersCover'
    BY <1>3, <1>4, <2>1 DEF CountersCover, Covers
  <2>8. Aged'
    BY <2>1 DEF Aged
  <2> QED BY <2>3, <2>5, <2>6, <2>7, <2>8
<1>6. CASE ~(written + 1 = 12 /\ hist.crashed)
  <2>1. /\ app' = app /\ g_state' = g_state /\ g_isEnabled' = g_isEnabled /\ hist' = hist
        /\ written' \in 0 .. 13 /\ written' # 12
        /\ written' # 13 => file'.length = written'
        /\ written' = 13 => file'.length = 12 /\ ~hist.crashed
    <3>1. app' = app /\ hist' = hist
      BY <1>1, <1>6
    <3>2. g_state' = g_state /\ g_isEnabled' = g_isEnabled
      BY <1>1, <1>2, <3>1
    <3>3. CASE written = 11
      <4>1. written' = 13 /\ ~hist.crashed /\ file'.length = 12
        BY <1>1, <1>3, <1>6, <3>3
      <4> QED BY <3>1, <3>2, <4>1
    <3>4. CASE written # 11
      <4>1. written' = written + 1 /\ written \in 0 .. 10 /\ file'.length = written'
        BY <1>1, <1>2, <1>3, <3>4
      <4> QED BY <3>1, <3>2, <4>1
    <3> QED BY <3>3, <3>4
  <2>2. Types'
    BY <1>1, <1>3, <2>1 DEF Types
  <2>3. Stages'
    BY <1>1, <1>2, <2>1 DEF Stages
  <2>4. CrashNoted'
    BY <1>2, <1>3, <2>1 DEF CrashNoted, CrashReportedOnce, CrashOnDisk
  <2>5. CountersCover'
    BY <1>3, <2>1 DEF CountersCover, Covers
  <2>6. Aged'
    BY <1>1, <2>1 DEF Aged, Counted
  <2> QED BY <2>2, <2>3, <2>4, <2>5, <2>6
<1> QED BY <1>5, <1>6

\* Adding active time changes the two durations of its kind, and nothing else.
LEMMA AddActiveState ==
  ASSUME NEW s \in State, NEW d \in Nat
  PROVE  LET n == AddActive(s, d)
         IN  /\ n \in State
             /\ n.activeDurationSinceLaunch + n.backgroundDurationSinceLaunch
                  = s.activeDurationSinceLaunch + s.backgroundDurationSinceLaunch + d
             /\ n.launchesSinceLastCrash = s.launchesSinceLastCrash
             /\ n.sessionsSinceLastCrash = s.sessionsSinceLastCrash
             /\ n.sessionsSinceLaunch = s.sessionsSinceLaunch
             /\ n.crashedLastLaunch = s.crashedLastLaunch
             /\ n.crashedThisLaunch = s.crashedThisLaunch
             /\ n.appStateTransitionTime = s.appStateTransitionTime
             /\ n.applicationIsActive = s.applicationIsActive
             /\ n.applicationIsInForeground = s.applicationIsInForeground
<1> DEFINE a == s.activeDurationSinceLaunch + d
           c == s.activeDurationSinceLastCrash + d
           n == AddActive(s, d)
<1>1. a \in Nat /\ c \in Nat /\ a = s.activeDurationSinceLaunch + d
      /\ s.activeDurationSinceLaunch \in Nat /\ s.backgroundDurationSinceLaunch \in Nat
  BY StateFields
<1>2. n = [s EXCEPT !.activeDurationSinceLaunch = a, !.activeDurationSinceLastCrash = c]
  BY DEF AddActive
<1> HIDE DEF a, c, n
<1>3. n \in State
  BY <1>1, <1>2 DEF State
<1>4. /\ n.activeDurationSinceLaunch = a
      /\ n.backgroundDurationSinceLaunch = s.backgroundDurationSinceLaunch
      /\ n.launchesSinceLastCrash = s.launchesSinceLastCrash
      /\ n.sessionsSinceLastCrash = s.sessionsSinceLastCrash
      /\ n.sessionsSinceLaunch = s.sessionsSinceLaunch
      /\ n.crashedLastLaunch = s.crashedLastLaunch
      /\ n.crashedThisLaunch = s.crashedThisLaunch
      /\ n.appStateTransitionTime = s.appStateTransitionTime
      /\ n.applicationIsActive = s.applicationIsActive
      /\ n.applicationIsInForeground = s.applicationIsInForeground
  BY <1>2 DEF State
<1>5. n.activeDurationSinceLaunch + n.backgroundDurationSinceLaunch
        = s.activeDurationSinceLaunch + s.backgroundDurationSinceLaunch + d
  BY <1>1, <1>4
<1> QED BY <1>3, <1>4, <1>5 DEF n

\* Adding background time changes the two durations of its kind, and nothing else.
LEMMA AddBackgroundState ==
  ASSUME NEW s \in State, NEW d \in Nat
  PROVE  LET n == AddBackground(s, d)
         IN  /\ n \in State
             /\ n.activeDurationSinceLaunch + n.backgroundDurationSinceLaunch
                  = s.activeDurationSinceLaunch + s.backgroundDurationSinceLaunch + d
             /\ n.launchesSinceLastCrash = s.launchesSinceLastCrash
             /\ n.sessionsSinceLastCrash = s.sessionsSinceLastCrash
             /\ n.sessionsSinceLaunch = s.sessionsSinceLaunch
             /\ n.crashedLastLaunch = s.crashedLastLaunch
             /\ n.crashedThisLaunch = s.crashedThisLaunch
             /\ n.appStateTransitionTime = s.appStateTransitionTime
             /\ n.applicationIsActive = s.applicationIsActive
             /\ n.applicationIsInForeground = s.applicationIsInForeground
<1> DEFINE a == s.backgroundDurationSinceLaunch + d
           c == s.backgroundDurationSinceLastCrash + d
           n == AddBackground(s, d)
<1>1. a \in Nat /\ c \in Nat /\ a = s.backgroundDurationSinceLaunch + d
      /\ s.activeDurationSinceLaunch \in Nat /\ s.backgroundDurationSinceLaunch \in Nat
  BY StateFields
<1>2. n = [s EXCEPT !.backgroundDurationSinceLaunch = a, !.backgroundDurationSinceLastCrash = c]
  BY DEF AddBackground
<1> HIDE DEF a, c, n
<1>3. n \in State
  BY <1>1, <1>2 DEF State
<1>4. /\ n.backgroundDurationSinceLaunch = a
      /\ n.activeDurationSinceLaunch = s.activeDurationSinceLaunch
      /\ n.launchesSinceLastCrash = s.launchesSinceLastCrash
      /\ n.sessionsSinceLastCrash = s.sessionsSinceLastCrash
      /\ n.sessionsSinceLaunch = s.sessionsSinceLaunch
      /\ n.crashedLastLaunch = s.crashedLastLaunch
      /\ n.crashedThisLaunch = s.crashedThisLaunch
      /\ n.appStateTransitionTime = s.appStateTransitionTime
      /\ n.applicationIsActive = s.applicationIsActive
      /\ n.applicationIsInForeground = s.applicationIsInForeground
  BY <1>2 DEF State
<1>5. n.activeDurationSinceLaunch + n.backgroundDurationSinceLaunch
        = s.activeDurationSinceLaunch + s.backgroundDurationSinceLaunch + d
  BY <1>1, <1>4
<1> QED BY <1>3, <1>4, <1>5 DEF n

\* The time since the last transition is a time.
LEMMA SinceTransition ==
  ASSUME IInv
  PROVE  /\ timeSince(g_state) \in Nat
         /\ g_state.appStateTransitionTime + timeSince(g_state) = now
         /\ g_state.activeDurationSinceLaunch \in Nat /\ g_state.backgroundDurationSinceLaunch \in Nat
         /\ hist.start \in 1 .. MaxNow /\ now \in 1 .. MaxNow /\ g_state.appStateTransitionTime \in Nat
<1>1. /\ g_state.appStateTransitionTime \in 0 .. MaxNow /\ now \in 1 .. MaxNow
      /\ g_state.appStateTransitionTime <= now
  BY StateFields DEF IInv, Types, Stages
<1> QED BY <1>1, StateFields, HistoryFields DEF IInv, Types, timeSince

LEMMA ActiveInv ==
  ASSUME IInv, NEW isActive \in BOOLEAN, notifyAppActive(isActive)
  PROVE  IInv'
<1> USE DEF IInv
<1>1. /\ app = IF isActive THEN "inactive" ELSE "active"
      /\ app' = IF isActive THEN "active" ELSE "inactive"
      /\ written = 13 /\ g_isEnabled' = g_isEnabled /\ file' = file /\ written' = written
      /\ now' = now /\ hist' = hist
      /\ g_state' = IF isActive
                    THEN [g_state EXCEPT !.applicationIsActive = TRUE,
                                         !.appStateTransitionTime = now]
                    ELSE AddActive([g_state EXCEPT !.applicationIsActive = FALSE],
                                   timeSince(g_state))
  BY Sizes DEF notifyAppActive, Running
<1>2. g_isEnabled /\ ~hist.crashed
  BY <1>1 DEF Stages
<1>3. now \in 0 .. MaxNow /\ now \in 1 .. MaxNow /\ g_state \in State
  BY DEF Types
<1>4. /\ g_state' \in State
      /\ g_state'.launchesSinceLastCrash = g_state.launchesSinceLastCrash
      /\ g_state'.sessionsSinceLastCrash = g_state.sessionsSinceLastCrash
      /\ g_state'.crashedLastLaunch = g_state.crashedLastLaunch
      /\ g_state'.crashedThisLaunch = g_state.crashedThisLaunch
      /\ g_state'.applicationIsActive = isActive
      /\ g_state'.applicationIsInForeground = g_state.applicationIsInForeground
      /\ IF isActive
         THEN g_state'.appStateTransitionTime = now /\ Counted' = Counted
         ELSE /\ g_state'.appStateTransitionTime = g_state.appStateTransitionTime
              /\ Counted' = Counted + timeSince(g_state)
  <2>1. CASE isActive
    <3>1. g_state' = [g_state EXCEPT !.applicationIsActive = TRUE, !.appStateTransitionTime = now]
      BY <1>1, <2>1
    <3>2. g_state' \in State
      BY <1>3, <3>1 DEF State
    <3>3. /\ g_state'.launchesSinceLastCrash = g_state.launchesSinceLastCrash
          /\ g_state'.sessionsSinceLastCrash = g_state.sessionsSinceLastCrash
          /\ g_state'.crashedLastLaunch = g_state.crashedLastLaunch
          /\ g_state'.crashedThisLaunch = g_state.crashedThisLaunch
          /\ g_state'.applicationIsActive = TRUE /\ g_state'.appStateTransitionTime = now
          /\ g_state'.applicationIsInForeground = g_state.applicationIsInForeground
          /\ Counted' = Counted
      BY <1>3, <3>1 DEF State, Counted
    <3> QED BY <2>1, <3>2, <3>3
  <2>2. CASE ~isActive
    <3> DEFINE s == [g_state EXCEPT !.applicationIsActive = FALSE]
               d == timeSince(g_state)
    <3>1. /\ s \in State
          /\ s.launchesSinceLastCrash = g_state.launchesSinceLastCrash
          /\ s.sessionsSinceLastCrash = g_state.sessionsSinceLastCrash
          /\ s.crashedLastLaunch = g_state.crashedLastLaunch
          /\ s.crashedThisLaunch = g_state.crashedThisLaunch
          /\ s.applicationIsActive = FALSE
          /\ s.appStateTransitionTime = g_state.appStateTransitionTime
          /\ s.applicationIsInForeground = g_state.applicationIsInForeground
          /\ s.activeDurationSinceLaunch = g_state.activeDurationSinceLaunch
          /\ s.backgroundDurationSinceLaunch = g_state.backgroundDurationSinceLaunch
      BY <1>3 DEF State
    <3>2. g_state' = AddActive(s, d) /\ d \in Nat
      BY <1>1, <2>2, SinceTransition
    <3> HIDE DEF s, d
    <3>3. /\ g_state' \in State
          /\ Counted' = s.activeDurationSinceLaunch + s.backgroundDurationSinceLaunch + d
          /\ g_state'.launchesSinceLastCrash = s.launchesSinceLastCrash
          /\ g_state'.sessionsSinceLastCrash = s.sessionsSinceLastCrash
          /\ g_state'.crashedLastLaunch = s.crashedLastLaunch
          /\ g_state'.crashedThisLaunch = s.crashedThisLaunch
          /\ g_state'.appStateTransitionTime = s.appStateTransitionTime
          /\ g_state'.applicationIsActive = s.applicationIsActive
          /\ g_state'.applicationIsInForeground = s.applicationIsInForeground
      BY <3>1, <3>2, AddActiveState DEF Counted
    <3>4. Counted' = Counted + timeSince(g_state)
      BY <3>1, <3>3 DEF Counted, d
    <3> QED BY <2>2, <3>1, <3>3, <3>4
  <2> QED BY <2>1, <2>2
<1>5. Types'
  BY <1>1, <1>4 DEF Types, Apps
<1>6. Stages'
  BY <1>1, <1>2, <1>3, <1>4 DEF Stages
<1>7. CrashNoted'
  BY <1>1, <1>2, <1>4 DEF CrashNoted, CrashReportedOnce, CrashOnDisk
<1>8. CountersCover'
  BY <1>1, <1>2, <1>4 DEF CountersCover, Covers
<1>9. Aged'
  <2> SUFFICES ASSUME ~hist.background PROVE Aged'
    BY <1>1 DEF Aged
  <2>1. Counted \in Nat /\ hist.start \in Nat /\ now \in Nat
        /\ g_state.appStateTransitionTime \in Nat /\ timeSince(g_state) \in Nat
        /\ g_state.appStateTransitionTime + timeSince(g_state) = now
    BY SinceTransition DEF Counted
  <2>2. CASE isActive
    <3>1. ~hist.reports => Counted' <= now - hist.start
      BY <1>2, <1>4, <2>2 DEF Aged
    <3>2. g_state.applicationIsInForeground
      BY <1>1, <1>2, <2>2 DEF Aged
    <3> QED BY <1>1, <1>4, <2>2, <3>1, <3>2 DEF Aged
  <2>3. CASE ~isActive
    <3>1. ~hist.reports => Counted <= g_state.appStateTransitionTime - hist.start
      BY <1>1, <1>2, <2>3 DEF Aged
    <3>2. ~hist.reports => Counted' <= now - hist.start
      BY <1>4, <2>1, <2>3, <3>1
    <3>3. g_state.applicationIsInForeground
      BY <1>1, <1>2, <2>3 DEF Aged
    <3> QED BY <1>1, <1>4, <2>3, <3>2, <3>3 DEF Aged
  <2> QED BY <2>2, <2>3
<1> QED BY <1>5, <1>6, <1>7, <1>8, <1>9

\* What a step owes when it begins a save of the new state: the file will tell its crash
\* and its counters, and no time has been counted that has not passed.
LEMMA SavingStep ==
  ASSUME IInv, g_isEnabled, written = 13, BeginSave(g_state'),
         g_isEnabled' = g_isEnabled, now' = now, app' \in Apps \ {"dead", "installing"},
         hist' \in History, hist'.torn = hist.torn, hist'.start = hist.start,
         hist'.background = hist.background, hist'.noted = hist.noted,
         g_state' \in State,
         g_state'.launchesSinceLastCrash = g_state.launchesSinceLastCrash,
         g_state'.sessionsSinceLastCrash >= g_state.sessionsSinceLastCrash,
         g_state'.crashedLastLaunch = g_state.crashedLastLaunch,
         g_state'.crashedThisLaunch <=> hist'.last \in Noted,
         g_state'.appStateTransitionTime <= now,
         Aged'
  PROVE  IInv'
<1>1. app \notin {"dead", "installing"} /\ hist.start <= now
  BY DEF IInv, Stages, CountersCover
<1>2. /\ file' \in File /\ file'.length = 0 /\ written' = 0
      /\ file'.elements.crashedLastLaunch = g_state'.crashedThisLaunch
      /\ Covers(file'.elements) <=> Covers(g_state')
  BY SaveBegins
<1>3. Types'
  BY <1>2 DEF IInv, Types
<1>4. Stages'
  BY <1>2 DEF IInv, Stages
<1>5. CrashNoted'
  BY <1>1, <1>2 DEF IInv, Stages, CrashNoted, CrashReportedOnce
<1>6. CountersCover'
  <2>1. /\ g_state.launchesSinceLastCrash \in Nat /\ g_state.sessionsSinceLastCrash \in Nat
        /\ g_state'.launchesSinceLastCrash \in Nat /\ g_state'.sessionsSinceLastCrash \in Nat
    BY StateFields DEF IInv, Types
  <2>2. ~hist.torn => Covers(g_state')
    <3>1. ~hist.torn => Covers(g_state)
      BY DEF IInv, Stages, CountersCover
    <3> QED BY <2>1, <3>1 DEF Covers
  <2> QED BY <1>2, <2>2 DEF CountersCover
<1> QED BY <1>3, <1>4, <1>5, <1>6 DEF IInv

LEMMA InBackgroundInv ==
  ASSUME IInv, notifyAppInBackground
  PROVE  IInv'
<1> USE DEF IInv
<1>1. /\ app = "inactive" /\ app' = "background" /\ written = 13 /\ g_isEnabled' = g_isEnabled
      /\ now' = now /\ hist' = hist /\ BeginSave(g_state')
      /\ g_state' = [g_state EXCEPT !.applicationIsInForeground = FALSE,
                                    !.appStateTransitionTime = now]
  BY Sizes DEF notifyAppInBackground, Running
<1>2. now \in 0 .. MaxNow /\ now \in 1 .. MaxNow /\ g_state \in State /\ g_isEnabled /\ ~hist.crashed
  BY <1>1 DEF Types, Stages
<1>3. /\ g_state' \in State
      /\ g_state'.launchesSinceLastCrash = g_state.launchesSinceLastCrash
      /\ g_state'.sessionsSinceLastCrash = g_state.sessionsSinceLastCrash
      /\ g_state'.crashedLastLaunch = g_state.crashedLastLaunch
      /\ g_state'.crashedThisLaunch = g_state.crashedThisLaunch
      /\ g_state'.applicationIsActive = g_state.applicationIsActive
      /\ g_state'.appStateTransitionTime = now /\ g_state'.applicationIsInForeground = FALSE
      /\ Counted' = Counted
  BY <1>1, <1>2 DEF State, Counted
<1>4. Aged'
  <2>1. ~hist.background /\ ~hist.reports => Counted <= now - hist.start
    BY <1>1, <1>2 DEF Aged
  <2>2. ~hist.background => ~g_state.applicationIsActive
    BY <1>1, <1>2 DEF Aged
  <2> QED BY <1>1, <1>3, <2>1, <2>2 DEF Aged
<1>5. /\ g_state'.crashedThisLaunch <=> hist'.last \in Noted
      /\ hist' \in History /\ app' \in Apps \ {"dead", "installing"}
  BY <1>1, <1>2, <1>3 DEF CrashNoted, Types, Apps
<1>6. g_state'.sessionsSinceLastCrash >= g_state.sessionsSinceLastCrash
      /\ g_state'.appStateTransitionTime <= now
  BY <1>2, <1>3, StateFields
<1> QED BY <1>1, <1>2, <1>3, <1>4, <1>5, <1>6, SavingStep

LEMMA InForegroundInv ==
  ASSUME IInv, notifyAppInForeground
  PROVE  IInv'
<1> USE DEF IInv
<1> DEFINE d == timeSince(g_state)
           s == AddBackground(g_state, d)
           k == s.sessionsSinceLastCrash + 1
           l == s.sessionsSinceLaunch + 1
<1>1. /\ app = "background" /\ app' = "inactive" /\ written = 13 /\ g_isEnabled' = g_isEnabled
      /\ now' = now /\ hist' = hist /\ file' = file /\ written' = written
      /\ g_state' = [s EXCEPT !.applicationIsInForeground = TRUE,
                              !.sessionsSinceLastCrash = k, !.sessionsSinceLaunch = l]
  BY Sizes DEF notifyAppInForeground, Running
<1>2. g_state \in State /\ g_isEnabled /\ ~hist.crashed /\ d \in Nat
  BY <1>1, SinceTransition DEF Types, Stages
<1>3. /\ s \in State
      /\ s.activeDurationSinceLaunch + s.backgroundDurationSinceLaunch = Counted + d
      /\ s.launchesSinceLastCrash = g_state.launchesSinceLastCrash
      /\ s.sessionsSinceLastCrash = g_state.sessionsSinceLastCrash
      /\ s.sessionsSinceLaunch = g_state.sessionsSinceLaunch
      /\ s.crashedLastLaunch = g_state.crashedLastLaunch
      /\ s.crashedThisLaunch = g_state.crashedThisLaunch
      /\ s.appStateTransitionTime = g_state.appStateTransitionTime
      /\ s.applicationIsActive = g_state.applicationIsActive
  BY <1>2, AddBackgroundState DEF Counted
<1>4. k \in Nat /\ l \in Nat /\ k = g_state.sessionsSinceLastCrash + 1
  BY <1>3, StateFields
<1> HIDE DEF s, k, l
<1>5. /\ g_state' \in State
      /\ g_state'.launchesSinceLastCrash = s.launchesSinceLastCrash
      /\ g_state'.sessionsSinceLastCrash = k
      /\ g_state'.crashedLastLaunch = s.crashedLastLaunch
      /\ g_state'.crashedThisLaunch = s.crashedThisLaunch
      /\ g_state'.appStateTransitionTime = s.appStateTransitionTime
      /\ g_state'.applicationIsActive = s.applicationIsActive
      /\ g_state'.applicationIsInForeground = TRUE
      /\ Counted' = s.activeDurationSinceLaunch + s.backgroundDurationSinceLaunch
  BY <1>1, <1>3, <1>4 DEF State, Counted
<1>6. Types'
  BY <1>1, <1>5 DEF Types, Apps
<1>7. Stages'
  BY <1>1, <1>2, <1>3, <1>5 DEF Stages
<1>8. CrashNoted'
  BY <1>1, <1>2, <1>3, <1>5 DEF CrashNoted, CrashReportedOnce, CrashOnDisk
<1>9. CountersCover'
  <2>1. ~hist.torn => Covers(g_state)
    BY <1>1 DEF CountersCover
  <2>2. g_state.launchesSinceLastCrash \in Nat /\ g_state.sessionsSinceLastCrash \in Nat
    BY <1>2, StateFields
  <2>3. ~hist.torn => Covers(g_state')
    BY <1>3, <1>4, <1>5, <2>1, <2>2 DEF Covers
  <2> QED BY <1>1, <2>3 DEF CountersCover
<1>10. Aged'
  <2> SUFFICES ASSUME ~hist.background PROVE Aged'
    BY <1>1 DEF Aged
  <2>1. Counted \in Nat /\ hist.start \in Nat /\ now \in Nat
        /\ g_state.appStateTransitionTime \in Nat
        /\ g_state.appStateTransitionTime + d = now
    BY SinceTransition DEF Counted
  <2>2. ~hist.reports => Counted <= g_state.appStateTransitionTime - hist.start
    BY <1>1, <1>2 DEF Aged
  <2>3. ~hist.reports => Counted' <= now - hist.start
    BY <1>2, <1>3, <1>5, <2>1, <2>2
  <2>4. ~g_state.applicationIsActive
    BY <1>1, <1>2 DEF Aged
  <2> QED BY <1>1, <1>3, <1>5, <2>3, <2>4 DEF Aged
<1> QED BY <1>6, <1>7, <1>8, <1>9, <1>10

LEMMA TerminateInv ==
  ASSUME IInv, notifyAppTerminate
  PROVE  IInv'
<1> USE DEF IInv
<1> DEFINE b == g_state.backgroundDurationSinceLastCrash + timeSince(g_state)
<1>1. /\ app \in {"inactive", "background"} /\ app' = "terminating" /\ written = 13
      /\ g_isEnabled' = g_isEnabled /\ now' = now /\ hist' = hist /\ BeginSave(g_state')
      /\ g_state' = [g_state EXCEPT !.backgroundDurationSinceLastCrash = b]
  BY Sizes DEF notifyAppTerminate, Running
<1>2. g_state \in State /\ g_isEnabled /\ b \in Nat
  BY <1>1, SinceTransition, StateFields DEF Types, Stages
<1> HIDE DEF b
<1>3. /\ g_state' \in State
      /\ g_state'.launchesSinceLastCrash = g_state.launchesSinceLastCrash
      /\ g_state'.sessionsSinceLastCrash = g_state.sessionsSinceLastCrash
      /\ g_state'.crashedLastLaunch = g_state.crashedLastLaunch
      /\ g_state'.crashedThisLaunch = g_state.crashedThisLaunch
      /\ g_state'.appStateTransitionTime = g_state.appStateTransitionTime
      /\ Counted' = Counted
  BY <1>1, <1>2 DEF State, Counted
<1>4. Aged'
  <2>1. ~hist.background /\ ~hist.reports => Counted <= now - hist.start
    BY <1>2 DEF Aged
  <2> QED BY <1>1, <1>3, <2>1 DEF Aged
<1>5. /\ g_state'.crashedThisLaunch <=> hist'.last \in Noted
      /\ hist' \in History /\ app' \in Apps \ {"dead", "installing"}
  BY <1>1, <1>2, <1>3 DEF CrashNoted, Types, Apps
<1>6. g_state'.sessionsSinceLastCrash >= g_state.sessionsSinceLastCrash
      /\ g_state'.appStateTransitionTime <= now
  BY <1>2, <1>3, StateFields DEF Stages
<1> QED BY <1>1, <1>2, <1>3, <1>4, <1>5, <1>6, SavingStep

LEMMA CrashInv ==
  ASSUME IInv, NEW fatal \in BOOLEAN, notifyAppCrash(fatal)
  PROVE  IInv'
<1> USE DEF IInv
<1> DEFINE d == timeSince(g_state)
           s == IF g_state.applicationIsActive THEN AddActive(g_state, d)
                ELSE IF ~g_state.applicationIsInForeground THEN AddBackground(g_state, d)
                ELSE g_state
           o == IF fatal THEN "crashed" ELSE "reported"
           r == hist.reports \/ ~fatal
<1>1. /\ app \in {"inactive", "active", "background"} /\ app' = app /\ written = 13
      /\ g_isEnabled' = g_isEnabled /\ now' = now /\ BeginSave(g_state')
      /\ g_state' = [s EXCEPT !.crashedThisLaunch = TRUE]
      /\ hist' = [hist EXCEPT !.crashed = fatal, !.reports = r, !.last = o]
  BY Sizes DEF notifyAppCrash, Running
<1>2. g_state \in State /\ g_isEnabled /\ ~hist.crashed /\ d \in Nat
  BY <1>1, SinceTransition DEF Types, Stages
<1>3. o \in Outcomes /\ o \in Noted
  BY DEF Outcomes, Noted
<1>4. r \in BOOLEAN /\ (~r => fatal /\ ~hist.reports)
  OBVIOUS
<1>5. /\ s \in State
      /\ s.launchesSinceLastCrash = g_state.launchesSinceLastCrash
      /\ s.sessionsSinceLastCrash = g_state.sessionsSinceLastCrash
      /\ s.crashedLastLaunch = g_state.crashedLastLaunch
      /\ s.appStateTransitionTime = g_state.appStateTransitionTime
      /\ s.applicationIsActive = g_state.applicationIsActive
      /\ s.applicationIsInForeground = g_state.applicationIsInForeground
  <2>1. CASE g_state.applicationIsActive
    BY <1>2, <2>1, AddActiveState
  <2>2. CASE ~g_state.applicationIsActive /\ ~g_state.applicationIsInForeground
    BY <1>2, <2>2, AddBackgroundState
  <2>3. CASE ~g_state.applicationIsActive /\ g_state.applicationIsInForeground
    BY <1>2, <2>3
  <2> QED BY <2>1, <2>2, <2>3
<1>6. IF g_state.applicationIsActive \/ ~g_state.applicationIsInForeground
      THEN s.activeDurationSinceLaunch + s.backgroundDurationSinceLaunch = Counted + d
      ELSE s.activeDurationSinceLaunch + s.backgroundDurationSinceLaunch = Counted
  <2>1. CASE g_state.applicationIsActive
    BY <1>2, <2>1, AddActiveState DEF Counted
  <2>2. CASE ~g_state.applicationIsActive /\ ~g_state.applicationIsInForeground
    BY <1>2, <2>2, AddBackgroundState DEF Counted
  <2>3. CASE ~g_state.applicationIsActive /\ g_state.applicationIsInForeground
    BY <2>3 DEF Counted
  <2> QED BY <2>1, <2>2, <2>3
<1> HIDE DEF s, o, r
<1>7. /\ g_state' \in State
      /\ g_state'.launchesSinceLastCrash = s.launchesSinceLastCrash
      /\ g_state'.sessionsSinceLastCrash = s.sessionsSinceLastCrash
      /\ g_state'.crashedLastLaunch = s.crashedLastLaunch
      /\ g_state'.crashedThisLaunch = TRUE
      /\ g_state'.appStateTransitionTime = s.appStateTransitionTime
      /\ g_state'.applicationIsActive = s.applicationIsActive
      /\ g_state'.applicationIsInForeground = s.applicationIsInForeground
      /\ Counted' = s.activeDurationSinceLaunch + s.backgroundDurationSinceLaunch
  BY <1>1, <1>5 DEF State, Counted
<1>8. /\ hist' \in History /\ hist'.last = o /\ hist'.crashed = fatal /\ hist'.reports = r
      /\ hist'.torn = hist.torn /\ hist'.start = hist.start
      /\ hist'.background = hist.background /\ hist'.noted = hist.noted
  BY <1>1, <1>3, <1>4 DEF Types, History
<1>9. Aged'
  <2> SUFFICES ASSUME ~hist.background PROVE Aged'
    BY <1>8 DEF Aged
  <2>1. /\ Counted \in Nat /\ hist.start \in Nat /\ now \in Nat
        /\ g_state.appStateTransitionTime \in Nat
        /\ g_state.appStateTransitionTime + d = now
    BY SinceTransition DEF Counted
  <2>2. ~hist.reports => Counted <= now - hist.start
    BY <1>2 DEF Aged
  <2>3. ~hist.reports /\ (g_state.applicationIsActive \/ ~g_state.applicationIsInForeground)
          => Counted <= g_state.appStateTransitionTime - hist.start
    BY <1>1, <1>2 DEF Aged
  <2>4. ~hist.reports => Counted' <= now - hist.start
    <3>1. CASE g_state.applicationIsActive \/ ~g_state.applicationIsInForeground
      BY <1>2, <1>6, <1>7, <2>1, <2>3, <3>1
    <3>2. CASE ~(g_state.applicationIsActive \/ ~g_state.applicationIsInForeground)
      BY <1>6, <1>7, <2>2, <3>2
    <3> QED BY <3>1, <3>2
  <2>5. ~hist'.reports => Counted' <= now' - hist'.start /\ hist'.crashed
    BY <1>1, <1>4, <1>8, <2>4
  <2>6. /\ app' = "inactive" => ~g_state'.applicationIsActive /\ g_state'.applicationIsInForeground
        /\ app' = "active" => g_state'.applicationIsActive /\ g_state'.applicationIsInForeground
        /\ app' = "background" => ~g_state'.applicationIsActive /\ ~g_state'.applicationIsInForeground
    BY <1>1, <1>2, <1>5, <1>7 DEF Aged
  <2> QED BY <2>5, <2>6 DEF Aged
<1>10. /\ g_state'.crashedThisLaunch <=> hist'.last \in Noted
       /\ app' \in Apps \ {"dead", "installing"}
  BY <1>1, <1>3, <1>7, <1>8 DEF Apps
<1>11. g_state'.sessionsSinceLastCrash >= g_state.sessionsSinceLastCrash
       /\ g_state'.appStateTransitionTime <= now
  BY <1>2, <1>5, <1>7, StateFields DEF Stages
<1> QED BY <1>1, <1>2, <1>5, <1>7, <1>8, <1>9, <1>10, <1>11, SavingStep

\* A kill leaves what is on disk, and what is known of the launch is what is on disk.
LEMMA KillInv ==
  ASSUME IInv, Kill
  PROVE  IInv'
<1> USE DEF IInv
<1> DEFINE t == hist.torn \/ written # 13
           l == IF written <= 2 THEN "lost" ELSE hist.last
<1>1. /\ app # "dead" /\ app' = "dead" /\ written' = 13 /\ g_state' = NoState
      /\ g_isEnabled' = FALSE /\ file' = file /\ now' = now
      /\ hist' = [hist EXCEPT !.crashed = FALSE, !.torn = t, !.last = l]
  BY Sizes DEF Kill
<1>2. t \in BOOLEAN /\ l \in Outcomes
  <2>1. hist.last \in Outcomes /\ "lost" \in Outcomes
    BY HistoryFields DEF Types, Outcomes
  <2> QED BY <2>1
<1>3. written = 13 \/ (written \in 0 .. 11 /\ file.length = written /\ g_isEnabled)
  BY DEF Types, Stages
<1>4. CrashOnDisk <=> l \in Noted
  <2>1. CASE written = 13
    BY <2>1 DEF CrashNoted
  <2>2. CASE written # 13
    BY <1>3, <2>2 DEF CrashNoted, CrashOnDisk, Noted
  <2> QED BY <2>1, <2>2
<1>5. ~t => ~hist.torn /\ written = 13
  OBVIOUS
<1> HIDE DEF t, l
<1>6. /\ hist' \in History /\ hist'.crashed = FALSE /\ hist'.torn = t /\ hist'.last = l
      /\ hist'.start = hist.start
  BY <1>1, <1>2 DEF Types, History
<1>7. NoState.appStateTransitionTime = 0 /\ NoState \in State
  BY NoStateType DEF NoState
<1>8. Types'
  <2>1. g_state' \in State /\ g_isEnabled' \in BOOLEAN /\ app' \in Apps
    BY <1>1, <1>7 DEF Apps
  <2>2. file' \in File /\ now' \in 1 .. MaxNow /\ written' \in 0 .. 13 /\ written' # 12
    BY <1>1 DEF Types
  <2> QED BY <1>6, <2>1, <2>2 DEF Types
<1>9. Stages'
  BY <1>1, <1>6, <1>7 DEF Stages, Types
<1>10. CrashNoted'
  BY <1>1, <1>4, <1>6 DEF CrashNoted, CrashReportedOnce, CrashOnDisk
<1>11. CountersCover'
  BY <1>1, <1>5, <1>6 DEF CountersCover, Covers
<1>12. Aged'
  BY <1>1 DEF Aged
<1> QED BY <1>8, <1>9, <1>10, <1>11, <1>12

LEMMA TickInv ==
  ASSUME IInv, Tick
  PROVE  IInv'
<1> USE DEF IInv
<1>1. /\ now < MaxNow /\ now' = now + 1
      /\ g_state' = g_state /\ g_isEnabled' = g_isEnabled /\ file' = file
      /\ written' = written /\ app' = app /\ hist' = hist
  BY DEF Tick
<1>2. /\ now \in 1 .. MaxNow /\ MaxNow \in Nat /\ hist.start \in 1 .. MaxNow
      /\ g_state.appStateTransitionTime \in 0 .. MaxNow
      /\ g_state.activeDurationSinceLaunch \in Nat /\ g_state.backgroundDurationSinceLaunch \in Nat
  BY BoundsAssumption, StateFields, HistoryFields DEF Types
<1>3. now' \in 1 .. MaxNow
  BY <1>1, <1>2
<1>4. Types'
  BY <1>1, <1>3 DEF Types
<1>5. Stages'
  <2>1. hist.start <= now' /\ g_state.appStateTransitionTime <= now'
    BY <1>1, <1>2 DEF Stages
  <2> QED BY <1>1, <2>1 DEF Stages
<1>6. CrashNoted'
  BY <1>1 DEF CrashNoted, CrashReportedOnce, CrashOnDisk
<1>7. CountersCover'
  BY <1>1 DEF CountersCover, Covers
<1>8. Aged'
  <2>1. Counted' = Counted
    BY <1>1 DEF Counted
  <2>2. Counted <= now - hist.start => Counted <= now' - hist.start
    BY <1>1, <1>2 DEF Counted
  <2> QED BY <1>1, <2>1, <2>2 DEF Aged
<1> QED BY <1>4, <1>5, <1>6, <1>7, <1>8

LEMMA StutterInv ==
  ASSUME IInv, UNCHANGED vars
  PROVE  IInv'
<1>1. /\ g_state' = g_state /\ g_isEnabled' = g_isEnabled /\ file' = file /\ now' = now
      /\ written' = written /\ app' = app /\ hist' = hist
  BY DEF vars
<1>2. Types' /\ Stages'
  BY <1>1 DEF IInv, Types, Stages
<1>3. CrashNoted' /\ CountersCover'
  BY <1>1 DEF IInv, CrashNoted, CrashReportedOnce, CrashOnDisk, CountersCover, Covers
<1>4. Aged'
  BY <1>1 DEF IInv, Aged, Counted
<1> QED BY <1>2, <1>3, <1>4 DEF IInv

LEMMA NextInv == IInv /\ [Next]_vars => IInv'
<1> SUFFICES ASSUME IInv, [Next]_vars PROVE IInv'
  OBVIOUS
<1>1. ASSUME NEW b \in BOOLEAN, kscrashstate_initialize(b) PROVE IInv'
  BY <1>1, InitializeInv
<1>2. CASE setEnabled
  BY <1>2, SetEnabledInv
<1>3. CASE saveState
  BY <1>3, SaveInv
<1>4. ASSUME NEW b \in BOOLEAN, notifyAppActive(b) PROVE IInv'
  BY <1>4, ActiveInv
<1>5. CASE notifyAppInForeground
  BY <1>5, InForegroundInv
<1>6. CASE notifyAppInBackground
  BY <1>6, InBackgroundInv
<1>7. CASE notifyAppTerminate
  BY <1>7, TerminateInv
<1>8. ASSUME NEW f \in BOOLEAN, notifyAppCrash(f) PROVE IInv'
  BY <1>8, CrashInv
<1>9. CASE Kill
  BY <1>9, KillInv
<1>10. CASE Tick
  BY <1>10, TickInv
<1>11. CASE UNCHANGED vars
  BY <1>11, StutterInv
<1> QED BY <1>1, <1>2, <1>3, <1>4, <1>5, <1>6, <1>7, <1>8, <1>9, <1>10, <1>11 DEF Next

-----------------------------------------------------------------------------
\* The invariant holds of every launch, however it ends.
THEOREM StateInvariant == Spec => []IInv
<1>1. Init => IInv
  BY InitInv
<1>2. IInv /\ [Next]_vars => IInv'
  BY NextInv
<1> QED BY <1>1, <1>2, PTL DEF Spec

\* Types: counters and durations stay numbers and the file a prefix.
THEOREM TypeCorrect == Spec => []TypeOK
<1>1. IInv => TypeOK
  <2> SUFFICES ASSUME IInv PROVE TypeOK
    OBVIOUS
  <2>1. file.length \in 0 .. Saved
    BY FileFields, Sizes DEF IInv, Types
  <2>2. written \in (0 .. Saved - 1) \cup {Idle}
    BY Sizes DEF IInv, Types
  <2> QED BY <2>1, <2>2 DEF IInv, Types, TypeOK, State
<1> QED BY <1>1, StateInvariant, PTL

\* For any number of launches, kills and reports: a launch is told of a crash exactly
\* when the last one that came to its reset had one on disk (kscrashstate_initialize).
THEOREM CrashReported == Spec => []CrashReportedOnce
<1>1. IInv => CrashReportedOnce
  BY DEF IInv, CrashNoted
<1> QED BY <1>1, StateInvariant, PTL

\* For any number of launches: while no save was cut, the sessions since the last crash
\* are at least the launches (kscrashstate_reset and the notifications).
THEOREM Sessions == Spec => []SessionsCoverLaunches
<1>1. IInv => SessionsCoverLaunches
  <2> SUFFICES ASSUME IInv, g_isEnabled, ~hist.torn PROVE Covers(g_state)
    BY DEF SessionsCoverLaunches, Covers
  <2> QED BY DEF IInv, Stages, CountersCover
<1> QED BY <1>1, StateInvariant, PTL

\* For any clock and any order of notifications: the time a launch has counted is no
\* longer than the launch (kscrashstate_notifyAppActive and its neighbours).
THEOREM Durations == Spec => []DurationsWithinLaunch
<1>1. IInv => DurationsWithinLaunch
  BY DEF IInv, Stages, Aged, Counted, DurationsWithinLaunch
<1> QED BY <1>1, StateInvariant, PTL

=============================================================================
