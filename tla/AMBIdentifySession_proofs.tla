---------------------- MODULE AMBIdentifySession_proofs ----------------------
(***************************************************************************)
(* Safety of device identification and of identify sessions, for any       *)
(* calls, users, tries, message sheets and bounds.  Good is an invariant   *)
(* of the object that every handler of a device keeps; each handler has a  *)
(* lemma of its own, and the device's theorems are put together from them. *)
(* A session's steps take the device's part from the same lemmas; what is  *)
(* added is what closing a socket does to managers and stored channel.     *)
(***************************************************************************)
EXTENDS AMBIdentifySession, TLAPS

------------------------------------------------------------------------------
(* The device: AMBIdentify.                                                   *)


\* n says how often each call asked.  A block that waits in identifyCompletion was
\* called less often than it was set.
AnswerInv(s, n) ==
    /\ \A c \in Call : s.answered[c] <= n[c]
    /\ s.identifyCompletion \in Call /\ ~s.identifyCompletionCalled
         => s.answered[s.identifyCompletion] < n[s.identifyCompletion]

\* Whatever completes identifying, now or later, has seen the fingerprint.
DeviceInv(s, known) ==
    \/ s.identifyProcessComplete
    \/ s.identifyFinishedTimer
    \/ "identifyComplete" \in s.onDismissed
    => known

PageInv(s) == s.identifyProcessComplete => s.safariVC # "up"

\* The part that does not depend on how often a call asked.
Sound(s, known) ==
    /\ s \in AMBIdentifyObject
    /\ DeviceInv(s, known)
    /\ PageInv(s)

Good(s, n, known) == Sound(s, known) /\ AnswerInv(s, n)

\* A handler that turns s into t keeps both.
Keeps(s, t, n, known) ==
    Sound(t, known) /\ (AnswerInv(s, n) => AnswerInv(t, n))

IInv == TypeOK /\ Good(identify, asked, fingerprint)

------------------------------------------------------------------------------
(* The handlers *)

LEMMA AnswerKeeps ==
    ASSUME NEW s, NEW R \in [Call -> Nat], NEW k \in BOOLEAN, Sound(s, k)
    PROVE  /\ Keeps(s, answer(s), R, k)
           /\ answer(s).safariVC = s.safariVC
           /\ answer(s).identifyProcessComplete = s.identifyProcessComplete
<1>1. CASE s.identifyCompletion = NoCall \/ s.identifyCompletionCalled
  BY <1>1 DEF answer, Keeps
<1>2. CASE ~(s.identifyCompletion = NoCall \/ s.identifyCompletionCalled)
  <2> DEFINE c == s.identifyCompletion
             t == answer(s)
  <2>1. s \in AMBIdentifyObject /\ c \in Call /\ s.answered \in [Call -> Nat]
    BY <1>2 DEF Sound, AMBIdentifyObject
  <2>2. t = [s EXCEPT !.identifyCompletionCalled = TRUE, !.answered[c] = @ + 1]
    BY <1>2 DEF answer
  <2>3. t \in AMBIdentifyObject
    <3>1. [s.answered EXCEPT ![c] = @ + 1] \in [Call -> Nat]
      BY <2>1
    <3>2. t = [s EXCEPT !.identifyCompletionCalled = TRUE,
                        !.answered = [s.answered EXCEPT ![c] = @ + 1]]
      BY <2>1, <2>2 DEF AMBIdentifyObject
    <3>. HIDE DEF t
    <3>. QED
      BY <2>1, <3>1, <3>2 DEF AMBIdentifyObject
  <2>4. /\ t.answered = [s.answered EXCEPT ![c] = @ + 1]
        /\ t.identifyCompletionCalled = TRUE
        /\ t.identifyCompletion = s.identifyCompletion
        /\ t.identifyProcessComplete = s.identifyProcessComplete
        /\ t.identifyFinishedTimer = s.identifyFinishedTimer
        /\ t.onDismissed = s.onDismissed
        /\ t.safariVC = s.safariVC
    BY <2>1, <2>2 DEF AMBIdentifyObject
  <2>5. ASSUME AnswerInv(s, R) PROVE AnswerInv(t, R)
    <3>1. s.answered[c] < R[c] /\ s.answered[c] \in Nat /\ R[c] \in Nat
      BY <1>2, <2>1, <2>5 DEF AnswerInv
    <3>2. t.answered[c] <= R[c] /\ \A d \in Call \ {c} : t.answered[d] = s.answered[d]
      BY <2>1, <2>4, <3>1
    <3>. QED
      BY <2>1, <2>4, <2>5, <3>2 DEF AnswerInv
  <2>6. DeviceInv(t, k) /\ PageInv(t)
    BY <2>4 DEF Sound, DeviceInv, PageInv
  <2>. QED
    BY <2>3, <2>4, <2>5, <2>6 DEF Sound, Keeps
<1>. QED
  BY <1>1, <1>2

\* Handlers that change none of the fields about blocks keep AnswerInv.
LEMMA SameAnswers ==
    ASSUME NEW s, NEW t, NEW R, NEW k, Sound(t, k),
           t.answered = s.answered,
           t.identifyCompletion = s.identifyCompletion,
           t.identifyCompletionCalled = s.identifyCompletionCalled
    PROVE  Keeps(s, t, R, k)
BY DEF Keeps, AnswerInv

LEMMA KeepsComposes ==
    ASSUME NEW s, NEW t, NEW u, NEW R, NEW k, Keeps(s, t, R, k), Keeps(t, u, R, k)
    PROVE  Keeps(s, u, R, k)
BY DEF Keeps

LEMMA CompleteKeeps ==
    ASSUME NEW s, NEW R \in [Call -> Nat], Sound(s, TRUE), s.safariVC # "up"
    PROVE  Keeps(s, identifyComplete(s), R, TRUE)
<1> DEFINE t == [s EXCEPT !.identifyProcessComplete = TRUE, !.closeSocket = TRUE]
<1>1. t \in AMBIdentifyObject
  BY DEF Sound, AMBIdentifyObject
<1>2. DeviceInv(t, TRUE) /\ PageInv(t)
  BY DEF Sound, AMBIdentifyObject, DeviceInv, PageInv
<1>3. Keeps(s, t, R, TRUE)
  BY <1>1, <1>2, SameAnswers DEF Sound, AMBIdentifyObject
<1>4. Keeps(t, answer(t), R, TRUE)
  BY <1>1, <1>2, AnswerKeeps DEF Sound
<1>. QED
  BY <1>3, <1>4, KeepsComposes DEF identifyComplete

\* After a dismissal the page is not on screen any more.
LEMMA DismissKeeps ==
    ASSUME NEW s, NEW R \in [Call -> Nat], NEW k \in BOOLEAN, NEW b \in Block,
           Sound(s, k), b = "identifyComplete" => k
    PROVE  /\ Keeps(s, dismiss(s, b), R, k)
           /\ dismiss(s, b).safariVC # "up"
<1>1. CASE s.safariVC \in {"up", "closing"}
  <2> DEFINE t == [s EXCEPT !.safariVC = "closing", !.onDismissed = @ \cup {b}]
  <2>1. dismiss(s, b) = t
    BY <1>1 DEF dismiss
  <2>2. t \in AMBIdentifyObject
    BY DEF Sound, AMBIdentifyObject, SafariVC
  <2>3. DeviceInv(t, k) /\ PageInv(t) /\ t.safariVC # "up"
    BY DEF Sound, AMBIdentifyObject, DeviceInv, PageInv
  <2>4. Keeps(s, t, R, k)
    BY <2>2, <2>3, SameAnswers DEF Sound, AMBIdentifyObject
  <2>. QED
    BY <2>1, <2>3, <2>4
<1>2. CASE s.safariVC \notin {"up", "closing"}
  BY <1>2 DEF dismiss, Keeps
<1>. QED
  BY <1>1, <1>2

LEMMA FinishKeeps ==
    ASSUME NEW s, NEW R \in [Call -> Nat], Sound(s, TRUE)
    PROVE  Keeps(s, finishIdentify(s), R, TRUE)
<1> DEFINE d == dismiss(s, "identifyComplete")
<1>1. Keeps(s, d, R, TRUE) /\ d.safariVC # "up"
  BY DismissKeeps DEF Block
<1>2. Keeps(d, identifyComplete(d), R, TRUE)
  BY <1>1, CompleteKeeps DEF Keeps
<1>. QED
  BY <1>1, <1>2, KeepsComposes DEF finishIdentify

LEMMA DeviceInfoKeeps ==
    ASSUME NEW s, NEW R \in [Call -> Nat], NEW soon \in BOOLEAN, Sound(s, TRUE)
    PROVE  Keeps(s, deviceInfoReceived(s, soon), R, TRUE)
<1> DEFINE t == [s EXCEPT !.identifyTimer = FALSE]
           u == [t EXCEPT !.identifyFinishedTimer = TRUE]
<1>1. t \in AMBIdentifyObject /\ u \in AMBIdentifyObject
  BY DEF Sound, AMBIdentifyObject
<1>2. Sound(t, TRUE) /\ Sound(u, TRUE)
  BY <1>1 DEF Sound, AMBIdentifyObject, DeviceInv, PageInv
<1>3. Keeps(s, t, R, TRUE) /\ Keeps(s, u, R, TRUE)
  BY <1>2, SameAnswers DEF Sound, AMBIdentifyObject
<1>4. Keeps(t, finishIdentify(t), R, TRUE)
  BY <1>2, FinishKeeps
<1>5. Keeps(s, finishIdentify(t), R, TRUE)
  BY <1>3, <1>4, KeepsComposes
<1>. QED
  BY <1>3, <1>5 DEF deviceInfoReceived

LEMMA GiveUpKeeps ==
    ASSUME NEW s, NEW R \in [Call -> Nat], NEW k \in BOOLEAN, Sound(s, k)
    PROVE  Keeps(s, giveUp(s), R, k)
<1> DEFINE t == [s EXCEPT !.identifyTimer = FALSE, !.closeSocket = TRUE]
<1>1. t \in AMBIdentifyObject
  BY DEF Sound, AMBIdentifyObject
<1>2. Sound(t, k)
  BY <1>1 DEF Sound, AMBIdentifyObject, DeviceInv, PageInv
<1>3. Keeps(s, t, R, k)
  BY <1>2, SameAnswers DEF Sound, AMBIdentifyObject
<1>4. Keeps(t, answer(t), R, k)
  BY <1>2, AnswerKeeps
<1>5. Keeps(t, dismiss(t, "answer"), R, k)
  BY <1>2, DismissKeeps DEF Block
<1>. HIDE DEF t
<1>6. Keeps(s, answer(t), R, k) /\ Keeps(s, dismiss(t, "answer"), R, k)
  BY <1>3, <1>4, <1>5, KeepsComposes
<1>. QED
  BY <1>6 DEF giveUp, t

LEMMA OpenPageKeeps ==
    ASSUME NEW s, NEW R \in [Call -> Nat], NEW k \in BOOLEAN, Sound(s, k),
           ~s.identifyProcessComplete
    PROVE  Keeps(s, openPage(s), R, k)
<1> DEFINE t == [s EXCEPT !.safariVC = "up",
                          !.startDate = IF @ = "nil" THEN "recent" ELSE @]
<1>1. t \in AMBIdentifyObject
  BY DEF Sound, AMBIdentifyObject, SafariVC, StartDate
<1>2. Sound(t, k)
  BY <1>1 DEF Sound, AMBIdentifyObject, DeviceInv, PageInv
<1>3. Keeps(s, t, R, k) /\ Keeps(s, s, R, k)
  BY <1>2, SameAnswers DEF Sound, AMBIdentifyObject
<1>. QED
  BY <1>3 DEF openPage

LEMMA PerformKeeps ==
    ASSUME TypeOK, NEW s, NEW R \in [Call -> Nat], NEW soon \in BOOLEAN, Sound(s, fingerprint)
    PROVE  Keeps(s, performIdentifyForiOS10(s, soon), R, fingerprint)
<1> DEFINE t == countTry(s)
<1>0. fingerprint \in BOOLEAN
  BY DEF TypeOK
<1>1. Keeps(s, giveUp(s), R, fingerprint) /\ Keeps(s, s, R, fingerprint)
  BY <1>0, GiveUpKeeps, SameAnswers
<1>2. ASSUME ~outOfTries(s)
      PROVE  /\ Sound(t, fingerprint)
             /\ Keeps(s, t, R, fingerprint)
             /\ t.identifyProcessComplete = s.identifyProcessComplete
  <2>1. s.tryCount + 1 \in 0 .. maxTryCount
    BY <1>2, IdentifyAssumption DEF outOfTries, Sound, AMBIdentifyObject
  <2>2. t \in AMBIdentifyObject
    BY <2>1 DEF countTry, Sound, AMBIdentifyObject
  <2>3. Sound(t, fingerprint)
    BY <2>2 DEF countTry, Sound, AMBIdentifyObject, DeviceInv, PageInv
  <2>4. Keeps(s, t, R, fingerprint)
    BY <2>3, SameAnswers DEF countTry, Sound, AMBIdentifyObject
  <2>5. t.identifyProcessComplete = s.identifyProcessComplete
    BY DEF countTry, Sound, AMBIdentifyObject
  <2>. QED
    BY <2>3, <2>4, <2>5
<1>. HIDE DEF t
<1>3. ASSUME ~outOfTries(s), s.identifyProcessComplete \/ fingerprint
      PROVE  Keeps(s, deviceInfoReceived(t, soon), R, fingerprint)
  <2>1. fingerprint = TRUE
    BY <1>0, <1>3 DEF Sound, DeviceInv
  <2>2. Keeps(t, deviceInfoReceived(t, soon), R, fingerprint)
    BY <1>2, <1>3, <2>1, DeviceInfoKeeps
  <2>. QED
    BY <1>2, <1>3, <2>2, KeepsComposes
<1>4. ASSUME ~outOfTries(s), ~(s.identifyProcessComplete \/ fingerprint)
      PROVE  Keeps(s, openPage(t), R, fingerprint)
  <2>1. Keeps(t, openPage(t), R, fingerprint)
    BY <1>0, <1>2, <1>4, OpenPageKeeps
  <2>. QED
    BY <1>2, <1>4, <2>1, KeepsComposes
<1>. QED
  BY <1>1, <1>3, <1>4 DEF performIdentifyForiOS10, t

\* How often the calls asked, when c asks once more.
OneMore(n, c) == [n EXCEPT ![c] = @ + 1]

LEMMA OneMoreAsk ==
    ASSUME NEW R \in [Call -> Nat], NEW c \in Call
    PROVE  /\ OneMore(R, c) \in [Call -> Nat]
           /\ OneMore(R, c)[c] = R[c] + 1
           /\ \A d \in Call : OneMore(R, c)[d] >= R[d]
BY DEF OneMore

LEMMA GetIdentityKeeps ==
    ASSUME TypeOK, NEW s, NEW R \in [Call -> Nat], NEW soon \in BOOLEAN, NEW c \in Call,
           Sound(s, fingerprint)
    PROVE  /\ Sound(getIdentity(s, c, soon), fingerprint)
           /\ AnswerInv(s, R) => AnswerInv(getIdentity(s, c, soon), OneMore(R, c))
<1> DEFINE t == setCompletion(s, c)
           p == performIdentifyForiOS10(t, soon)
           Q == OneMore(R, c)
<1>0. /\ Q \in [Call -> Nat] /\ Q[c] = R[c] + 1
      /\ \A d \in Call : Q[d] >= R[d]
  BY OneMoreAsk
<1>. HIDE DEF Q
<1>1. Sound(t, fingerprint)
  <2>1. t \in AMBIdentifyObject
    BY DEF setCompletion, Sound, AMBIdentifyObject
  <2>. QED
    BY <2>1 DEF setCompletion, Sound, AMBIdentifyObject, DeviceInv, PageInv
<1>2. ASSUME AnswerInv(s, R) PROVE AnswerInv(t, Q)
  <2>1. s \in AMBIdentifyObject /\ s.answered \in [Call -> Nat]
    BY DEF Sound, AMBIdentifyObject
  <2>2. \A d \in Call : s.answered[d] <= R[d] /\ s.answered[d] \in Nat /\ R[d] \in Nat
    BY <1>2, <2>1 DEF AnswerInv
  <2>3. \A d \in Call : s.answered[d] <= Q[d]
    <3>1. TAKE d \in Call
    <3>2. s.answered[d] <= R[d] /\ s.answered[d] \in Nat /\ R[d] \in Nat
      BY <2>2
    <3>3. Q[d] \in Nat /\ Q[d] >= R[d]
      BY <1>0
    <3>. QED
      BY <3>2, <3>3
  <2>4. s.answered[c] < Q[c]
    BY <1>0, <2>2
  <2>5. CASE c \in Silent
    <3>1. t = s
      BY <2>5 DEF setCompletion
    <3>2. s.identifyCompletion \in Call /\ ~s.identifyCompletionCalled
            => s.answered[s.identifyCompletion] < Q[s.identifyCompletion]
      BY <1>0, <1>2, <2>2 DEF AnswerInv
    <3>. QED
      BY <2>3, <3>1, <3>2 DEF AnswerInv
  <2>6. CASE c \notin Silent
    <3>1. t.answered = s.answered /\ t.identifyCompletion = c
      BY <2>1, <2>6 DEF setCompletion, AMBIdentifyObject
    <3>. HIDE DEF t
    <3>. QED
      BY <2>3, <2>4, <3>1 DEF AnswerInv
  <2>. QED
    BY <2>5, <2>6
<1>3. Keeps(t, p, Q, fingerprint)
  BY <1>0, <1>1, PerformKeeps
<1>. HIDE DEF t
<1>4. Sound(p, fingerprint) /\ (AnswerInv(t, Q) => AnswerInv(p, Q))
  BY <1>3 DEF Keeps
<1>. HIDE DEF p
<1>5. Keeps(p, startTimer(p), Q, fingerprint)
  <2>1. startTimer(p) \in AMBIdentifyObject
    <3>1. 0 \in 0 .. maxTryCount
      BY IdentifyAssumption
    <3>. QED
      BY <1>4, <3>1 DEF startTimer, Sound, AMBIdentifyObject
  <2>2. Sound(startTimer(p), fingerprint)
    BY <1>4, <2>1 DEF startTimer, Sound, AMBIdentifyObject, DeviceInv, PageInv
  <2>. QED
    BY <1>4, <2>2, SameAnswers DEF startTimer, Sound, AMBIdentifyObject
<1>. QED
  BY <1>2, <1>4, <1>5 DEF getIdentity, Keeps, p, t, Q

LEMMA TellKeeps ==
    ASSUME NEW s, NEW R \in [Call -> Nat], NEW k \in BOOLEAN, NEW c \in Call, Sound(s, k)
    PROVE  /\ Sound(tell(s, c), k)
           /\ AnswerInv(s, R) => AnswerInv(tell(s, c), OneMore(R, c))
<1> DEFINE Q == OneMore(R, c)
           t == tell(s, c)
<1>0. /\ Q \in [Call -> Nat] /\ Q[c] = R[c] + 1
      /\ \A d \in Call : Q[d] >= R[d]
      /\ \A d \in Call \ {c} : Q[d] = R[d]
  BY OneMoreAsk DEF OneMore
<1>1. s \in AMBIdentifyObject /\ s.answered \in [Call -> Nat]
  BY DEF Sound, AMBIdentifyObject
<1>. HIDE DEF Q
<1>2. CASE c \in Silent
  <2>1. t = s
    BY <1>2 DEF tell
  <2>2. ASSUME AnswerInv(s, R) PROVE AnswerInv(s, Q)
    <3>1. \A d \in Call : s.answered[d] \in Nat /\ R[d] \in Nat /\ Q[d] \in Nat
      BY <1>0, <1>1
    <3>. QED
      BY <1>0, <2>2, <3>1 DEF AnswerInv
  <2>. QED
    BY <2>1, <2>2 DEF Q
<1>3. CASE c \notin Silent
  <2> DEFINE a == [s.answered EXCEPT ![c] = @ + 1]
  <2>1. a \in [Call -> Nat] /\ a[c] = s.answered[c] + 1
        /\ \A d \in Call \ {c} : a[d] = s.answered[d]
    BY <1>1
  <2>2. t = [s EXCEPT !.answered = a]
    BY <1>1, <1>3 DEF tell, AMBIdentifyObject
  <2>. HIDE DEF a, t
  <2>3. t \in AMBIdentifyObject
    BY <1>1, <2>1, <2>2 DEF AMBIdentifyObject
  <2>4. /\ t.answered = a
        /\ t.identifyCompletion = s.identifyCompletion
        /\ t.identifyCompletionCalled = s.identifyCompletionCalled
        /\ t.identifyProcessComplete = s.identifyProcessComplete
        /\ t.identifyFinishedTimer = s.identifyFinishedTimer
        /\ t.onDismissed = s.onDismissed
        /\ t.safariVC = s.safariVC
    BY <1>1, <2>2 DEF AMBIdentifyObject
  <2>5. Sound(t, k)
    BY <2>3, <2>4 DEF Sound, DeviceInv, PageInv
  <2>6. ASSUME AnswerInv(s, R) PROVE AnswerInv(t, Q)
    <3>1. \A d \in Call : s.answered[d] \in Nat /\ R[d] \in Nat /\ s.answered[d] <= R[d]
      BY <1>1, <2>6 DEF AnswerInv
    <3>2. \A d \in Call : a[d] <= Q[d]
      <4>1. TAKE d \in Call
      <4>2. s.answered[d] \in Nat /\ R[d] \in Nat /\ s.answered[d] <= R[d]
        BY <3>1
      <4>3. CASE d = c
        <5>1. a[d] = s.answered[d] + 1 /\ Q[d] = R[d] + 1
          BY <1>0, <2>1, <4>3
        <5>. QED
          BY <4>2, <5>1
      <4>4. CASE d # c
        <5>1. a[d] = s.answered[d] /\ Q[d] = R[d]
          BY <1>0, <2>1, <4>4
        <5>. QED
          BY <4>2, <5>1
      <4>. QED
        BY <4>3, <4>4
    <3>3. ASSUME s.identifyCompletion \in Call, ~s.identifyCompletionCalled
          PROVE  a[s.identifyCompletion] < Q[s.identifyCompletion]
      <4>1. s.answered[s.identifyCompletion] < R[s.identifyCompletion]
        BY <2>6, <3>3 DEF AnswerInv
      <4>. QED
        BY <1>0, <2>1, <3>1, <3>3, <4>1
    <3>. QED
      BY <2>4, <3>2, <3>3 DEF AnswerInv
  <2>. QED
    BY <2>5, <2>6 DEF t, Q
<1>. QED
  BY <1>2, <1>3

------------------------------------------------------------------------------
(* The actions *)

Stable == TypeOK /\ Sound(identify, fingerprint)

\* What a step of the device owes: also to AMBIdentifySession, which takes the
\* same steps.
Step ==
    /\ TypeOK'
    /\ Sound(identify', fingerprint')
    /\ AnswerInv(identify, asked) => AnswerInv(identify', asked')

LEMMA InitGood == Init => IInv
<1> SUFFICES ASSUME Init PROVE IInv
  OBVIOUS
<1>1. NewIdentify \in AMBIdentifyObject
  BY IdentifyAssumption DEF NewIdentify, AMBIdentifyObject, SafariVC, StartDate, Block
<1>2. TypeOK
  <2>1. 0 \in 0 .. MaxSheets
    BY IdentifyAssumption
  <2>. QED
    BY <1>1, <2>1 DEF Init, TypeOK
<1>3. AnswerInv(identify, asked) /\ DeviceInv(identify, fingerprint) /\ PageInv(identify)
  BY IdentifyAssumption DEF Init, NewIdentify, AnswerInv, DeviceInv, PageInv
<1>. QED
  BY <1>1, <1>2, <1>3 DEF IInv, Good, Sound, Init

\* Clearing the note about closeSocket changes nothing that matters.
LEMMA SelfKeeps ==
    ASSUME Stable
    PROVE  /\ Sound(self, fingerprint)
           /\ Keeps(identify, self, asked, fingerprint)
           /\ self.safariVC = identify.safariVC
           /\ self.identifyProcessComplete = identify.identifyProcessComplete
           /\ self.onDismissed = identify.onDismissed
<1>1. self \in AMBIdentifyObject
  BY DEF self, Stable, Sound, AMBIdentifyObject
<1>2. Sound(self, fingerprint)
  BY <1>1 DEF self, Stable, Sound, AMBIdentifyObject, DeviceInv, PageInv
<1>3. Keeps(identify, self, asked, fingerprint)
  BY <1>2, SameAnswers DEF self, Stable, Sound, AMBIdentifyObject
<1>4. /\ self.safariVC = identify.safariVC
      /\ self.identifyProcessComplete = identify.identifyProcessComplete
      /\ self.onDismissed = identify.onDismissed
  BY DEF self, Stable, Sound, AMBIdentifyObject
<1>. QED
  BY <1>2, <1>3, <1>4

\* What is sound stays sound when the fingerprint becomes known.
LEMMA KnownIsBetter ==
    ASSUME NEW s, NEW k, Sound(s, k)
    PROVE  Sound(s, TRUE)
BY DEF Sound, DeviceInv

LEMMA SoonIsBoolean == Stable => TooSoon \subseteq BOOLEAN
BY DEF TooSoon, Stable, Sound, AMBIdentifyObject, StartDate

\* An action that leaves the rest alone does its duty when its object does.
LEMMA OnlyTheObject ==
    ASSUME Stable, UNCHANGED environment, Keeps(self, identify', asked, fingerprint)
    PROVE  Step
<1>1. Keeps(identify, identify', asked, fingerprint)
  BY SelfKeeps, KeepsComposes
<1>. QED
  BY <1>1 DEF Stable, TypeOK, Step, Keeps, Sound, environment

LEMMA TimerSteps == ASSUME Stable, TimerFires PROVE Step
<1>1. PICK soon \in TooSoon : identify' = performIdentifyForiOS10(self, soon)
  BY DEF TimerFires
<1>2. Keeps(self, identify', asked, fingerprint)
  BY <1>1, SoonIsBoolean, SelfKeeps, PerformKeeps DEF Stable, TypeOK
<1>. QED
  BY <1>2, OnlyTheObject DEF TimerFires

LEMMA FinishedTimerSteps == ASSUME Stable, FinishedTimerFires PROVE Step
<1> DEFINE s == [self EXCEPT !.identifyFinishedTimer = FALSE]
<1>1. fingerprint = TRUE
  BY DEF FinishedTimerFires, Stable, TypeOK, Sound, DeviceInv
<1>2. Sound(s, TRUE)
  BY <1>1, SelfKeeps DEF Sound, AMBIdentifyObject, DeviceInv, PageInv
<1>3. Keeps(self, s, asked, TRUE)
  BY <1>2, SelfKeeps, SameAnswers DEF Sound, AMBIdentifyObject
<1>. HIDE DEF s
<1>4. Keeps(self, finishIdentify(s), asked, TRUE)
  BY <1>2, <1>3, FinishKeeps, KeepsComposes DEF Stable, TypeOK
<1>. QED
  BY <1>1, <1>4, OnlyTheObject DEF FinishedTimerFires, s

LEMMA DeviceInfoSteps == ASSUME Stable, DeviceInfo PROVE Step
<1>1. PICK soon \in TooSoon :
        identify' = IF observing THEN deviceInfoReceived(self, soon) ELSE self
  BY DEF DeviceInfo
<1>2. Sound(self, TRUE) /\ Sound(identify, TRUE)
  BY SelfKeeps, KnownIsBetter DEF Stable
<1>3. Keeps(identify, self, asked, TRUE)
  BY <1>2, SelfKeeps DEF Keeps
<1>4. Keeps(self, deviceInfoReceived(self, soon), asked, TRUE)
  BY <1>1, <1>2, SoonIsBoolean, DeviceInfoKeeps DEF Stable, TypeOK
<1>5. Keeps(identify, identify', asked, TRUE)
  BY <1>1, <1>3, <1>4, KeepsComposes
<1>. QED
  BY <1>5 DEF DeviceInfo, Stable, TypeOK, Step, Keeps, Sound

LEMMA FingerprintSavedSteps == ASSUME Stable, FingerprintSaved PROVE Step
<1>1. Sound(self, TRUE)
  BY SelfKeeps, KnownIsBetter
<1>. QED
  BY <1>1, SelfKeeps DEF FingerprintSaved, Stable, TypeOK, Step, Keeps, Sound

LEMMA PageDismissedSteps == ASSUME Stable, PageDismissed PROVE Step
<1> DEFINE s == [self EXCEPT !.safariVC = "down", !.onDismissed = {}]
<1>1. s \in AMBIdentifyObject
  BY SelfKeeps DEF Sound, AMBIdentifyObject, SafariVC
<1>2. Sound(s, fingerprint) /\ s.safariVC # "up"
  BY <1>1, SelfKeeps DEF Sound, AMBIdentifyObject, DeviceInv, PageInv
<1>3. Keeps(self, s, asked, fingerprint)
  BY <1>2, SelfKeeps, SameAnswers DEF Sound, AMBIdentifyObject
<1>. HIDE DEF s
<1>4. CASE "identifyComplete" \in identify.onDismissed
  <2>1. fingerprint = TRUE
    BY <1>4 DEF Stable, TypeOK, Sound, DeviceInv
  <2>2. Keeps(self, identifyComplete(s), asked, fingerprint)
    BY <1>2, <1>3, <2>1, CompleteKeeps, KeepsComposes DEF Stable, TypeOK
  <2>. QED
    BY <1>4, <2>2, OnlyTheObject DEF PageDismissed, s
<1>5. CASE "identifyComplete" \notin identify.onDismissed
  <2>1. Keeps(self, answer(s), asked, fingerprint)
    BY <1>2, <1>3, AnswerKeeps, KeepsComposes DEF Stable, TypeOK
  <2>. QED
    BY <1>5, <2>1, OnlyTheObject DEF PageDismissed, s
<1>. QED
  BY <1>4, <1>5

LEMMA DoneSteps == ASSUME Stable, safariViewControllerDidFinish PROVE Step
<1> DEFINE s == [self EXCEPT !.safariVC = "down", !.doneButtonPressed = TRUE]
           t == [s EXCEPT !.identifyTimer = FALSE, !.identifyFinishedTimer = FALSE]
<1>1. s \in AMBIdentifyObject /\ t \in AMBIdentifyObject
  BY SelfKeeps DEF Sound, AMBIdentifyObject, SafariVC
<1>2. Sound(s, fingerprint) /\ Sound(t, fingerprint) /\ t.safariVC # "up"
  BY <1>1, SelfKeeps DEF Sound, AMBIdentifyObject, DeviceInv, PageInv
<1>3. Keeps(self, s, asked, fingerprint) /\ Keeps(self, t, asked, fingerprint)
  BY <1>2, SelfKeeps, SameAnswers DEF Sound, AMBIdentifyObject
<1>4. CASE identify.identifyProcessComplete \/ fingerprint
  <2>1. fingerprint = TRUE
    BY <1>4 DEF Stable, TypeOK, Sound, DeviceInv
  <2>2. Keeps(t, identifyComplete(t), asked, TRUE)
    BY <1>2, <2>1, CompleteKeeps DEF Stable, TypeOK
  <2>3. Keeps(self, identifyComplete(t), asked, fingerprint)
    <3>. HIDE DEF t
    <3>. QED
      BY <1>3, <2>1, <2>2, KeepsComposes
  <2>. QED
    BY <1>4, <2>3, OnlyTheObject DEF safariViewControllerDidFinish
<1>5. CASE ~(identify.identifyProcessComplete \/ fingerprint)
  BY <1>3, <1>5, OnlyTheObject DEF safariViewControllerDidFinish
<1>. QED
  BY <1>4, <1>5

LEMMA LoadedSteps == ASSUME Stable, didCompleteInitialLoad PROVE Step
<1> DEFINE s == [self EXCEPT !.safariViewLoaded = TRUE]
<1>1. Sound(s, fingerprint)
  BY SelfKeeps DEF Sound, AMBIdentifyObject, DeviceInv, PageInv
<1>2. Keeps(self, s, asked, fingerprint)
  BY <1>1, SelfKeeps, SameAnswers DEF Sound, AMBIdentifyObject
<1>. QED
  BY <1>2, OnlyTheObject DEF didCompleteInitialLoad

LEMMA MinimumTimeSteps == ASSUME Stable, MinimumTimePasses PROVE Step
<1> DEFINE s == [self EXCEPT !.startDate = "past"]
<1>1. s \in AMBIdentifyObject
  BY SelfKeeps DEF Sound, AMBIdentifyObject, StartDate
<1>2. Sound(s, fingerprint)
  BY <1>1, SelfKeeps DEF Sound, AMBIdentifyObject, DeviceInv, PageInv
<1>3. Keeps(self, s, asked, fingerprint)
  BY <1>2, SelfKeeps, SameAnswers DEF Sound, AMBIdentifyObject
<1>. QED
  BY <1>3, OnlyTheObject DEF MinimumTimePasses

LEMMA SheetSteps == ASSUME Stable, SheetOpens \/ SheetCloses PROVE Step
<1>1. /\ identify' = self /\ asked' = asked /\ fingerprint' = fingerprint
      /\ observing' = observing /\ sheetUp' \in BOOLEAN
  BY DEF SheetOpens, SheetCloses
<1>2. sheets' \in 0 .. MaxSheets
  BY IdentifyAssumption DEF SheetOpens, SheetCloses, Stable, TypeOK
<1>. QED
  BY <1>1, <1>2, SelfKeeps DEF Stable, TypeOK, Step, Keeps, Sound

\* A call asks: also in AMBIdentifySession, and any number of times.
LEMMA AskSteps ==
    ASSUME Stable, NEW c \in Call, askForDevice(c), UNCHANGED <<fingerprint, sheetUp, sheets>>
    PROVE  Step
<1>1. asked \in [Call -> Nat] /\ fingerprint \in BOOLEAN /\ observing \in BOOLEAN /\ TypeOK
  BY DEF Stable, TypeOK
<1>2. asked' = OneMore(asked, c) /\ asked' \in [Call -> Nat]
  BY <1>1, OneMoreAsk DEF askForDevice, OneMore
<1>3. Sound(self, fingerprint) /\ (AnswerInv(identify, asked) => AnswerInv(self, asked))
  BY SelfKeeps DEF Keeps
<1>4. /\ Sound(identify', fingerprint)
      /\ AnswerInv(self, asked) => AnswerInv(identify', OneMore(asked, c))
      /\ observing' \in BOOLEAN
  <2>1. CASE identify.identifyProcessComplete
    BY <1>1, <1>3, <2>1, TellKeeps DEF askForDevice
  <2>2. CASE ~identify.identifyProcessComplete
    <3>1. PICK soon \in TooSoon : identify' = getIdentity(self, c, soon)
      BY <2>2 DEF askForDevice
    <3>2. soon \in BOOLEAN
      BY <3>1, SoonIsBoolean
    <3>. QED
      BY <1>1, <1>3, <2>2, <3>1, <3>2, GetIdentityKeeps DEF askForDevice
  <2>. QED
    BY <2>1, <2>2
<1>5. TypeOK'
  BY <1>1, <1>2, <1>4 DEF TypeOK, Sound
<1>. QED
  BY <1>2, <1>3, <1>4, <1>5 DEF Step

\* Every step keeps the inductive invariant.
THEOREM Invariance == Spec => []IInv
<1>1. ASSUME IInv, [Next]_vars PROVE IInv'
  <2>1. Stable
    BY <1>1 DEF IInv, Good, Stable
  <2>2. Step => IInv'
    BY <1>1 DEF Step, IInv, Good
  <2>3. CASE UNCHANGED vars
    BY <1>1, <2>3 DEF vars, IInv, TypeOK, Good, Sound, AnswerInv, DeviceInv, PageInv
  <2>4. CASE \E c \in Call : GetIdentity(c)
    BY <2>1, <2>2, <2>4, AskSteps DEF GetIdentity
  <2>5. CASE TimerFires \/ FinishedTimerFires
    BY <2>1, <2>2, <2>5, TimerSteps, FinishedTimerSteps
  <2>6. CASE DeviceInfo \/ FingerprintSaved
    BY <2>1, <2>2, <2>6, DeviceInfoSteps, FingerprintSavedSteps
  <2>7. CASE PageDismissed \/ safariViewControllerDidFinish \/ didCompleteInitialLoad
    BY <2>1, <2>2, <2>7, PageDismissedSteps, DoneSteps, LoadedSteps
  <2>8. CASE MinimumTimePasses \/ SheetOpens \/ SheetCloses
    BY <2>1, <2>2, <2>8, MinimumTimeSteps, SheetSteps
  <2>. QED
    BY <1>1, <2>3, <2>4, <2>5, <2>6, <2>7, <2>8 DEF Next
<1>. QED
  BY <1>1, InitGood, PTL DEF Spec

\* Every variable and every field of the object keeps its type.
THEOREM TypeCorrect == Spec => []TypeOK
<1>1. IInv => TypeOK
  BY DEF IInv
<1>. QED
  BY <1>1, Invariance, PTL

\* No completion block is called twice for one time it was asked for, whichever of
\* the timers, notifications, taps, dismissals and other calls come together.
THEOREM AnsweredOnce == Spec => []AnsweredOncePerAsk
<1>1. IInv => AnsweredOncePerAsk
  BY DEF IInv, Good, AnswerInv, AnsweredOncePerAsk
<1>. QED
  BY <1>1, Invariance, PTL

\* Identifying never completes without the fingerprint.
THEOREM CompleteHasFingerprint == Spec => []CompleteKnowsDevice
<1>1. IInv => CompleteKnowsDevice
  BY DEF IInv, Good, Sound, DeviceInv, CompleteKnowsDevice
<1>. QED
  BY <1>1, Invariance, PTL

\* A completed identification has no page left on the screen.
THEOREM CompleteHasNoPage == Spec => []CompleteClosesPage
<1>1. IInv => CompleteClosesPage
  BY DEF IInv, Good, Sound, PageInv, CompleteClosesPage
<1>. QED
  BY <1>1, Invariance, PTL

------------------------------------------------------------------------------
(* The session.                                                               *)

\* The channels the service has opened, those of refused requests included.
Granted == started \ requests

\* A manager that may run a completion has one; it wants no channel that it has
\* closed, and events reach it on channels it wants only; and what it has closed or
\* may close was granted, so that no later grant brings it back.
Tidy(m, G) ==
    /\ m.connected \/ m.reconnect \/ m.callbacks > 0 => m.completion \in Call
    /\ m.closed \cap m.subscribed = {}
    /\ m.confirmed \subseteq m.subscribed
    /\ m.closed \subseteq G
    /\ m.channel \in G \cup {NoCall}

AllTidy(ms, G) == ms \in [Call -> Manager] /\ \A m \in Call : Tidy(ms[m], G)

SInv ==
    /\ Stable
    /\ SessionTypeOK
    /\ AllTidy(managers, Granted)
    /\ requests \subseteq started
    /\ requests # {} => pusherManager \in Call

\* Managers that have closed no more than before: what a handler may do before
\* closeSocket is called.
SameClosed(ms) ==
    /\ AllTidy(ms, Granted)
    /\ \A m \in Call : ms[m].closed = managers[m].closed

Kept ==
    /\ AllTidy(managers', Granted')
    /\ pusherChannel' \in Call \cup {NoCall}
    /\ identifyInProgress' \in BOOLEAN

------------------------------------------------------------------------------
(* What the steps make of a manager *)

LEMMA TidyGrows ==
    ASSUME NEW m, NEW G, NEW H, Tidy(m, G), G \subseteq H
    PROVE  Tidy(m, H)
BY DEF Tidy

LEMMA AllTidyGrows ==
    ASSUME NEW ms, NEW G, NEW H, AllTidy(ms, G), G \subseteq H
    PROVE  AllTidy(ms, H)
BY TidyGrows DEF AllTidy

\* Changing one manager, and keeping it tidy.
LEMMA OneManager ==
    ASSUME NEW ms, NEW G, AllTidy(ms, G), NEW m \in Call, NEW r \in Manager, Tidy(r, G)
    PROVE  AllTidy([ms EXCEPT ![m] = r], G)
BY DEF AllTidy

LEMMA DisconnectTidy ==
    ASSUME NEW m \in Manager, NEW G, Tidy(m, G)
    PROVE  disconnect(m) \in Manager /\ Tidy(disconnect(m), G)
<1>1. m.channel \in Call \cup {NoCall} /\ m.closed \subseteq Call
  BY DEF Manager
<1>2. disconnect(m) \in Manager
  BY <1>1 DEF disconnect, Manager
<1>3. Tidy(disconnect(m), G)
  BY <1>1 DEF disconnect, Manager, Tidy
<1>. QED
  BY <1>2, <1>3

LEMMA TakesListTidy ==
    ASSUME NEW m \in Manager, NEW G, Tidy(m, G)
    PROVE  takesList(m) \in Manager /\ Tidy(takesList(m), G) /\ takesList(m).closed = m.closed
<1>1. takesList(m) \in Manager
  BY DEF takesList, Manager
<1>. QED
  BY <1>1 DEF takesList, Manager, Tidy

LEMMA TakesChannelTidy ==
    ASSUME NEW m \in Manager, NEW G, Tidy(m, G), NEW c \in Call, c \notin G
    PROVE  /\ takesChannel(m, c) \in Manager
           /\ Tidy(takesChannel(m, c), G \cup {c})
           /\ takesChannel(m, c).closed = m.closed
<1>1. takesChannel(m, c) \in Manager
  BY DEF takesChannel, Manager
<1>. QED
  BY <1>1 DEF takesChannel, Manager, Tidy

LEMMA ConfirmsTidy ==
    ASSUME NEW m \in Manager, NEW G, Tidy(m, G), NEW k \in m.subscribed, m.connected
    PROVE  /\ confirms(m, k) \in Manager
           /\ Tidy(confirms(m, k), G)
           /\ confirms(m, k).closed = m.closed
<1>0. m.callbacks + 1 \in Nat /\ m.confirmed \cup {k} \in SUBSET Call
  <2>1. m.callbacks \in Nat /\ m.confirmed \subseteq Call /\ m.subscribed \subseteq Call
    BY DEF Manager
  <2>. QED
    BY <2>1
<1>1. confirms(m, k) \in Manager
  BY <1>0 DEF confirms, Manager
<1>. QED
  BY <1>1 DEF confirms, Manager, Tidy

LEMMA LosesTidy ==
    ASSUME NEW m \in Manager, NEW G, Tidy(m, G), NEW again \in BOOLEAN, m.connected
    PROVE  /\ loses(m, again) \in Manager
           /\ Tidy(loses(m, again), G)
           /\ loses(m, again).closed = m.closed
<1>1. loses(m, again) \in Manager
  BY DEF loses, Manager
<1>. QED
  BY <1>1 DEF loses, Manager, Tidy

LEMMA ReconnectsTidy ==
    ASSUME NEW m \in Manager, NEW G, Tidy(m, G), m.reconnect
    PROVE  /\ reconnects(m) \in Manager
           /\ Tidy(reconnects(m), G)
           /\ reconnects(m).closed = m.closed
<1>1. reconnects(m) \in Manager
  BY DEF reconnects, Manager
<1>. QED
  BY <1>1 DEF reconnects, Manager, Tidy

LEMMA BindsTidy ==
    ASSUME NEW m \in Manager, NEW G, Tidy(m, G), m.channel # NoCall
    PROVE  binds(m) \in Manager /\ Tidy(binds(m), G) /\ binds(m).closed = m.closed
<1>1. binds(m) \in Manager
  BY DEF binds, Manager
<1>. QED
  BY <1>1 DEF binds, Manager, Tidy

LEMMA RunsBlockTidy ==
    ASSUME NEW m \in Manager, NEW G, Tidy(m, G), m.callbacks > 0
    PROVE  runsBlock(m) \in Manager /\ Tidy(runsBlock(m), G) /\ runsBlock(m).closed = m.closed
<1>0. m.callbacks \in Nat /\ m.callbacks - 1 \in Nat
  <2>1. m.callbacks \in Nat
    BY DEF Manager
  <2>. QED
    BY <2>1
<1>1. runsBlock(m) \in Manager
  BY <1>0 DEF runsBlock, Manager
<1>. QED
  BY <1>0, <1>1 DEF runsBlock, Manager, Tidy

\* closeSocket, of managers that may only close knowing the device.
LEMMA ClosingKeeps ==
    ASSUME SInv, NEW ms, SameClosed(ms), NEW closing \in SUBSET Call,
           closeSockets(ms, closing), closing # {} => fingerprint',
           UNCHANGED <<started, requests>>
    PROVE  /\ Kept
           /\ \A m \in Call : Closes(m) => fingerprint'
<1>1. managers' = [m \in Call |-> IF m \in closing THEN disconnect(ms[m]) ELSE ms[m]]
  BY DEF closeSockets
<1>2. \A m \in Call : ms[m] \in Manager /\ Tidy(ms[m], Granted)
  BY DEF SameClosed, AllTidy
<1>3. \A m \in Call : managers'[m] \in Manager /\ Tidy(managers'[m], Granted)
  BY <1>1, <1>2, DisconnectTidy
<1>4. AllTidy(managers', Granted)
  BY <1>1, <1>3 DEF AllTidy
<1>5. pusherChannel' \in Call \cup {NoCall} /\ identifyInProgress' \in BOOLEAN
  BY DEF closeSockets, SInv, SessionTypeOK
<1>6. ASSUME NEW m \in Call, Closes(m) PROVE fingerprint'
  <2>1. m \in closing
    BY <1>1, <1>6 DEF Closes, SameClosed
  <2>. QED
    BY <2>1
<1>7. Granted' = Granted
  BY DEF Granted
<1>. QED
  BY <1>4, <1>5, <1>6, <1>7 DEF Kept

\* The managers that closeSocket lets through know the device.
LEMMA AskedKnows ==
    ASSUME NEW ms, Sound(identify', fingerprint')
    PROVE  /\ askedToClose(ms) \in SUBSET Call
           /\ askedToClose(ms) # {} => fingerprint'
BY DEF askedToClose, closable, Sound, DeviceInv

LEMMA ClosableKnows ==
    ASSUME SInv, fingerprint => fingerprint', NEW ms, NEW m
    PROVE  /\ {m} \cap closable(ms, identify.identifyProcessComplete) \in SUBSET Call
           /\ {m} \cap closable(ms, identify.identifyProcessComplete) # {} => fingerprint'
BY DEF closable, SInv, Stable, Sound, DeviceInv

LEMMA UnchangedClosed == SInv => SameClosed(managers)
BY DEF SInv, SameClosed

LEMMA ReceivedClosed ==
    ASSUME SInv, NEW m \in Call
    PROVE  SameClosed(received(m))
<1>1. managers \in [Call -> Manager] /\ AllTidy(managers, Granted)
  BY DEF SInv, AllTidy
<1>2. received(m) = [managers EXCEPT ![m] = takesList(managers[m])]
  BY <1>1 DEF received
<1>3. /\ takesList(managers[m]) \in Manager
      /\ Tidy(takesList(managers[m]), Granted)
      /\ takesList(managers[m]).closed = managers[m].closed
  BY <1>1, TakesListTidy DEF AllTidy
<1> DEFINE r == takesList(managers[m])
<1>. HIDE DEF r
<1>4. r \in Manager /\ Tidy(r, Granted) /\ r.closed = managers[m].closed
  BY <1>3 DEF r
<1>5. received(m) = [managers EXCEPT ![m] = r]
  BY <1>2 DEF r
<1>6. AllTidy(received(m), Granted)
  <2>1. AllTidy([managers EXCEPT ![m] = r], Granted)
    BY <1>1, <1>4, OneManager
  <2>. QED
    BY <1>5, <2>1
<1>7. \A n \in Call : received(m)[n].closed = managers[n].closed
  BY <1>1, <1>4, <1>5
<1>. QED
  BY <1>6, <1>7 DEF SameClosed

\* The device's part and the managers' part make up the invariant.
LEMMA Assemble ==
    ASSUME SInv, Step, Kept,
           user' \in User \cup {NoUser}, campaignList' \in User \cup {NoUser},
           UNCHANGED <<pusherManager, started>>,
           requests' \subseteq requests,
           identified' \subseteq User \X Call, payloads' \subseteq User,
           losses' \in Nat, outages' \in Nat, losses' + outages' <= MaxTroubles
    PROVE  SInv'
<1>1. SessionTypeOK'
  BY DEF SInv, Kept, SessionTypeOK, AllTidy
<1>2. Stable' /\ AllTidy(managers', Granted')
  BY DEF Step, Stable, Kept
<1>3. requests' \subseteq started' /\ (requests' # {} => pusherManager' \in Call)
  BY DEF SInv
<1>. QED
  BY <1>1, <1>2, <1>3 DEF SInv

LEMMA UnchangedDevice == ASSUME Stable, UNCHANGED vars PROVE Step
BY DEF vars, Stable, Step, TypeOK, Sound, DeviceInv, PageInv

LEMMA UnchangedManagers ==
    ASSUME SInv, UNCHANGED <<managers, pusherChannel, identifyInProgress, started>>,
           requests' \subseteq requests
    PROVE  Kept
<1>1. AllTidy(managers, Granted) /\ Granted \subseteq Granted'
  BY DEF SInv, Granted
<1>2. AllTidy(managers', Granted')
  BY <1>1, AllTidyGrows
<1>. QED
  BY <1>2 DEF SInv, SessionTypeOK, Kept

\* One manager changes, and closes nothing.
LEMMA ChangedManager ==
    ASSUME SInv, NEW m \in Call, NEW r \in Manager, Tidy(r, Granted),
           managers' = [managers EXCEPT ![m] = r], r.closed = managers[m].closed,
           UNCHANGED <<pusherChannel, identifyInProgress, started, requests>>
    PROVE  Kept /\ \A n \in Call : ~Closes(n)
<1>1. AllTidy(managers, Granted) /\ managers \in [Call -> Manager] /\ Granted' = Granted
  BY DEF SInv, AllTidy, Granted
<1>2. AllTidy(managers', Granted')
  BY <1>1, OneManager
<1>3. \A n \in Call : managers'[n].closed = managers[n].closed
  BY <1>1
<1>. QED
  BY <1>2, <1>3 DEF SInv, SessionTypeOK, Kept, Closes

------------------------------------------------------------------------------
(* The actions *)

\* What a step owes: the invariant, the device's part of it, and closing only with
\* the device known.
Owed ==
    /\ SInv'
    /\ Step
    /\ \A m \in Call : Closes(m) => fingerprint'

LEMMA SInitGood == SessionInit => SInv
<1> SUFFICES ASSUME SessionInit PROVE SInv
  OBVIOUS
<1>1. Stable
  BY InitGood DEF SessionInit, IInv, Good, Stable
<1>2. NewManager \in Manager
  BY DEF NewManager, Manager
<1>3. SessionTypeOK
  <2>1. losses \in Nat /\ outages \in Nat /\ losses + outages <= MaxTroubles
    BY SessionAssumption DEF SessionInit
  <2>. QED
    BY <1>2, <2>1 DEF SessionInit, SessionTypeOK
<1>4. AllTidy(managers, Granted)
  <2>1. Tidy(NewManager, Granted)
    BY DEF NewManager, Tidy
  <2>. QED
    BY <1>2, <2>1 DEF SessionInit, AllTidy
<1>. QED
  BY <1>1, <1>3, <1>4 DEF SessionInit, SInv

LEMMA CallsOwed ==
    ASSUME SInv, NEW c \in Call, localIdentify(c) \/ attemptAutoEnroll(c) PROVE Owed
<1>1. Step
  BY UnchangedDevice DEF SInv, localIdentify, attemptAutoEnroll
<1>2. /\ c \notin started
      /\ pusherManager' = c /\ started' = started \cup {c} /\ requests' = requests \cup {c}
      /\ UNCHANGED <<pusherChannel, managers, identified, payloads, losses, outages>>
  BY DEF localIdentify, attemptAutoEnroll, subscribeToPusher
<1>3. user' \in User \cup {NoUser} /\ campaignList' \in User \cup {NoUser}
  <2>1. CASE localIdentify(c)
    <3>1. UserOf[c] \in User
      BY <2>1, SessionAssumption DEF localIdentify
    <3>. QED
      BY <2>1, <3>1 DEF localIdentify
  <2>2. CASE attemptAutoEnroll(c)
    BY <2>2 DEF attemptAutoEnroll, SInv, SessionTypeOK
  <2>. QED
    BY <2>1, <2>2
<1>4. identifyInProgress' \in BOOLEAN
  BY DEF localIdentify, attemptAutoEnroll, SInv, SessionTypeOK
<1>5. AllTidy(managers', Granted')
  <2>1. Granted \subseteq Granted'
    BY <1>2 DEF Granted
  <2>. QED
    BY <1>2, <2>1, AllTidyGrows DEF SInv
<1>6. SessionTypeOK'
  BY <1>2, <1>3, <1>4 DEF SInv, SessionTypeOK
<1>7. SInv'
  BY <1>1, <1>2, <1>5, <1>6 DEF SInv, Step, Stable
<1>. QED
  BY <1>1, <1>2, <1>7 DEF Owed, Closes

LEMMA UnidentifyOwed == ASSUME SInv, unidentify PROVE Owed
<1>1. Step /\ Kept
  BY UnchangedDevice, UnchangedManagers DEF SInv, unidentify, network
<1>2. SInv'
  BY <1>1, Assemble DEF unidentify, network, SInv, SessionTypeOK
<1>. QED
  BY <1>1, <1>2 DEF unidentify, Owed, Closes

LEMMA GrantedOwed == ASSUME SInv, NEW c \in Call, SessionGranted(c) PROVE Owed
<1> DEFINE p == pusherManager
           r == takesChannel(managers[p], c)
<1>1. p \in Call /\ managers \in [Call -> Manager] /\ AllTidy(managers, Granted)
  BY DEF SessionGranted, SInv, AllTidy
<1>2. /\ managers' = [managers EXCEPT ![p] = r]
      /\ pusherChannel' = c /\ identifyInProgress' = identifyInProgress
  BY <1>1 DEF SessionGranted
<1>3. c \notin Granted /\ Granted' = Granted \cup {c}
  BY DEF SessionGranted, SInv, Granted
<1>4. r \in Manager /\ Tidy(r, Granted \cup {c}) /\ r.closed = managers[p].closed
  BY <1>1, <1>3, TakesChannelTidy DEF AllTidy
<1>. HIDE DEF r
<1>5. AllTidy(managers, Granted \cup {c})
  BY <1>1, AllTidyGrows
<1>6. AllTidy(managers', Granted')
  BY <1>1, <1>2, <1>3, <1>4, <1>5, OneManager
<1>7. Kept
  BY <1>2, <1>6 DEF Kept, SInv, SessionTypeOK
<1>8. Step
  BY UnchangedDevice DEF SessionGranted, SInv
<1>9. SInv'
  BY <1>7, <1>8, Assemble DEF SessionGranted, SInv, SessionTypeOK
<1>10. \A m \in Call : managers'[m].closed = managers[m].closed
  BY <1>1, <1>2, <1>4
<1>. QED
  BY <1>8, <1>9, <1>10 DEF Owed, Closes

LEMMA OutagesOwed ==
    ASSUME SInv, (\E c \in Call : SessionRefused(c)) \/ (\E u \in User : PayloadFails(u))
    PROVE  Owed
<1>1. /\ UNCHANGED <<vars, sdk, identified, losses>>
      /\ requests' \subseteq requests /\ payloads' \subseteq payloads
      /\ losses + outages < MaxTroubles /\ outages' = outages + 1
  BY DEF SessionRefused, PayloadFails
<1>2. outages' \in Nat /\ losses' \in Nat /\ losses' + outages' <= MaxTroubles
  BY <1>1, SessionAssumption DEF SInv, SessionTypeOK
<1>3. Step /\ Kept
  BY <1>1, UnchangedDevice, UnchangedManagers DEF SInv, sdk
<1>4. SInv'
  BY <1>1, <1>2, <1>3, Assemble DEF SInv, SessionTypeOK, sdk
<1>. QED
  BY <1>1, <1>3, <1>4 DEF Owed, Closes, sdk

LEMMA ConfirmedOwed ==
    ASSUME SInv, NEW m \in Call, NEW k \in Call, didSubscribeToChannel(m, k) PROVE Owed
<1> DEFINE r == confirms(managers[m], k)
<1>1. /\ managers[m] \in Manager /\ Tidy(managers[m], Granted) /\ managers[m].connected
      /\ k \in managers[m].subscribed
  BY DEF didSubscribeToChannel, SInv, AllTidy
<1>2. managers' = [managers EXCEPT ![m] = r]
  BY DEF didSubscribeToChannel, SInv, AllTidy
<1>3. r \in Manager /\ Tidy(r, Granted) /\ r.closed = managers[m].closed
  BY <1>1, ConfirmsTidy
<1>. HIDE DEF r
<1>4. Kept /\ \A n \in Call : ~Closes(n)
  BY <1>2, <1>3, ChangedManager DEF didSubscribeToChannel, network
<1>5. Step
  BY UnchangedDevice DEF didSubscribeToChannel, SInv
<1>6. SInv'
  BY <1>4, <1>5, Assemble DEF didSubscribeToChannel, network, SInv, SessionTypeOK
<1>. QED
  BY <1>4, <1>5, <1>6 DEF Owed

LEMMA LossOwed ==
    ASSUME SInv, NEW m \in Call, ConnectionLost(m) \/ ConnectionEnds(m) PROVE Owed
<1>1. PICK again \in BOOLEAN : managers' = [managers EXCEPT ![m] = loses(managers[m], again)]
  BY DEF ConnectionLost, ConnectionEnds, SInv, AllTidy
<1> DEFINE r == loses(managers[m], again)
<1>2. managers[m] \in Manager /\ Tidy(managers[m], Granted) /\ managers[m].connected
  BY DEF ConnectionLost, ConnectionEnds, SInv, AllTidy
<1>3. r \in Manager /\ Tidy(r, Granted) /\ r.closed = managers[m].closed
  BY <1>2, LosesTidy
<1>. HIDE DEF r
<1>4. managers' = [managers EXCEPT ![m] = r]
  BY <1>1 DEF r
<1>5. /\ UNCHANGED <<vars, user, campaignList, pusherChannel, identifyInProgress,
                     pusherManager, started, requests, identified, payloads>>
      /\ losses + outages < MaxTroubles
      /\ \/ losses' = losses + 1 /\ outages' = outages
         \/ losses' = losses /\ outages' = outages + 1
  BY DEF ConnectionLost, ConnectionEnds
<1>6. Kept /\ \A n \in Call : ~Closes(n)
  BY <1>3, <1>4, <1>5, ChangedManager
<1>7. Step
  BY <1>5, UnchangedDevice DEF SInv
<1>8. losses' \in Nat /\ outages' \in Nat /\ losses' + outages' <= MaxTroubles
  BY <1>5, SessionAssumption DEF SInv, SessionTypeOK
<1>9. SInv'
  BY <1>5, <1>6, <1>7, <1>8, Assemble DEF SInv, SessionTypeOK
<1>. QED
  BY <1>6, <1>7, <1>9 DEF Owed

LEMMA ReconnectOwed == ASSUME SInv, NEW m \in Call, ReconnectFires(m) PROVE Owed
<1> DEFINE r == reconnects(managers[m])
<1>1. managers[m] \in Manager /\ Tidy(managers[m], Granted) /\ managers[m].reconnect
  BY DEF ReconnectFires, SInv, AllTidy
<1>2. managers' = [managers EXCEPT ![m] = r]
  BY DEF ReconnectFires, SInv, AllTidy
<1>3. r \in Manager /\ Tidy(r, Granted) /\ r.closed = managers[m].closed
  BY <1>1, ReconnectsTidy
<1>. HIDE DEF r
<1>4. Kept /\ \A n \in Call : ~Closes(n)
  BY <1>2, <1>3, ChangedManager DEF ReconnectFires, network
<1>5. Step
  BY UnchangedDevice DEF ReconnectFires, SInv
<1>6. SInv'
  BY <1>4, <1>5, Assemble DEF ReconnectFires, network, SInv, SessionTypeOK
<1>. QED
  BY <1>4, <1>5, <1>6 DEF Owed

\* Binding the current manager to its channel closes nothing.
LEMMA BindClosed ==
    ASSUME SInv, NEW ms, SameClosed(ms)
    PROVE  SameClosed(bindCurrent(ms))
<1>1. CASE pusherManager = NoCall \/ ms[pusherManager].channel = NoCall
  BY <1>1 DEF bindCurrent
<1>2. CASE ~(pusherManager = NoCall \/ ms[pusherManager].channel = NoCall)
  <2> DEFINE r == binds(ms[pusherManager])
             bs == [ms EXCEPT ![pusherManager] = r]
  <2>1. pusherManager \in Call /\ ms \in [Call -> Manager] /\ AllTidy(ms, Granted)
    BY <1>2 DEF SInv, SessionTypeOK, SameClosed, AllTidy
  <2>2. bindCurrent(ms) = bs
    BY <1>2, <2>1 DEF bindCurrent
  <2>3. r \in Manager /\ Tidy(r, Granted) /\ r.closed = ms[pusherManager].closed
    BY <1>2, <2>1, BindsTidy DEF AllTidy
  <2>. HIDE DEF r
  <2>4. AllTidy(bs, Granted)
    BY <2>1, <2>3, OneManager
  <2>5. \A n \in Call : bs[n].closed = managers[n].closed
    BY <2>1, <2>3 DEF SameClosed
  <2>. QED
    BY <2>2, <2>4, <2>5 DEF SameClosed
<1>. QED
  BY <1>1, <1>2

LEMMA RunsBlockClosed ==
    ASSUME SInv, NEW m \in Call, managers[m].callbacks > 0
    PROVE  SameClosed([managers EXCEPT ![m] = runsBlock(@)])
<1> DEFINE r == runsBlock(managers[m])
           ms == [managers EXCEPT ![m] = r]
<1>1. managers \in [Call -> Manager] /\ AllTidy(managers, Granted)
  BY DEF SInv, AllTidy
<1>2. r \in Manager /\ Tidy(r, Granted) /\ r.closed = managers[m].closed
  BY <1>1, RunsBlockTidy DEF AllTidy
<1>3. [managers EXCEPT ![m] = runsBlock(@)] = ms
  BY <1>1
<1>. HIDE DEF r
<1>4. AllTidy(ms, Granted)
  BY <1>1, <1>2, OneManager
<1>5. \A n \in Call : ms[n].closed = managers[n].closed
  BY <1>1, <1>2
<1>. QED
  BY <1>3, <1>4, <1>5 DEF SameClosed

\* A list may bring the fingerprint along, and the object is only looked at.
LEMMA LookSteps ==
    ASSUME Stable, identify' = self, fingerprint' \in {fingerprint, TRUE},
           UNCHANGED <<observing, sheetUp, sheets, asked>>
    PROVE  Step /\ (fingerprint => fingerprint')
<1>1. Sound(self, fingerprint) /\ Sound(self, TRUE)
  BY SelfKeeps, KnownIsBetter
<1>2. AnswerInv(identify, asked) => AnswerInv(identify', asked')
  BY SelfKeeps DEF Keeps
<1>. QED
  BY <1>1, <1>2 DEF Stable, Step, TypeOK, Sound

LEMMA SubscribedOwed == ASSUME SInv, NEW m \in Call, subscribed(m) PROVE Owed
<1> DEFINE c  == managers[m].completion
           ms == bindCurrent([managers EXCEPT ![m] = runsBlock(@)])
<1>1. managers[m].callbacks > 0
  BY DEF subscribed
<1>2. c \in Call /\ Stable
  BY <1>1 DEF SInv, AllTidy, Tidy
<1>3. SameClosed(ms)
  BY <1>1, RunsBlockClosed, BindClosed
<1>4. closeSockets(ms, askedToClose(ms))
  BY DEF subscribed
<1>5. Step
  <2>1. CASE c \in Enroll
    BY <1>2, <2>1, LookSteps DEF subscribed
  <2>2. CASE c \notin Enroll
    BY <1>2, <2>2, AskSteps DEF subscribed
  <2>. QED
    BY <2>1, <2>2
<1>6. Sound(identify', fingerprint')
  BY <1>5 DEF Step
<1>7. UNCHANGED <<started, requests>>
  BY DEF subscribed
<1>. HIDE DEF c, ms
<1>8. Kept /\ \A n \in Call : Closes(n) => fingerprint'
  BY <1>3, <1>4, <1>6, <1>7, AskedKnows, ClosingKeeps
<1>9. identified' \subseteq User \X Call
  BY DEF subscribed, sendIdentify, SInv, SessionTypeOK
<1>10. SInv'
  BY <1>5, <1>8, <1>9, Assemble DEF subscribed, SInv, SessionTypeOK
<1>. QED
  BY <1>5, <1>8, <1>10 DEF Owed

LEMMA ListOwed ==
    ASSUME SInv, NEW m \in Call, NEW e \in identified, ListEvent(m, e) \/ UrlEvent(m, e)
    PROVE  Owed
<1> DEFINE ms == received(m)
           closing == {m} \cap closable(ms, identify.identifyProcessComplete)
<1>1. Step /\ (fingerprint => fingerprint')
  BY LookSteps DEF ListEvent, UrlEvent, environment, SInv
<1>2. closeSockets(ms, closing)
  BY DEF ListEvent, UrlEvent
<1>3. SameClosed(ms)
  BY ReceivedClosed
<1>4. closing \in SUBSET Call /\ (closing # {} => fingerprint')
  BY <1>1, ClosableKnows
<1>5. UNCHANGED <<started, requests>>
  BY DEF ListEvent, UrlEvent, network
<1>. HIDE DEF ms, closing
<1>6. Kept /\ \A n \in Call : Closes(n) => fingerprint'
  BY <1>2, <1>3, <1>4, <1>5, ClosingKeeps
<1>7. e[1] \in User
  BY DEF SInv, SessionTypeOK
<1>8. SInv'
  BY <1>1, <1>6, <1>7, Assemble
     DEF ListEvent, UrlEvent, saveList, network, SInv, SessionTypeOK
<1>. QED
  BY <1>1, <1>6, <1>8 DEF Owed

LEMMA PayloadOwed == ASSUME SInv, NEW u \in User, PayloadArrives(u) PROVE Owed
<1>1. Step
  BY LookSteps DEF PayloadArrives, SInv
<1>2. Kept
  BY UnchangedManagers DEF PayloadArrives
<1>3. SInv'
  BY <1>1, <1>2, Assemble DEF PayloadArrives, saveList, SInv, SessionTypeOK
<1>. QED
  BY <1>1, <1>3 DEF PayloadArrives, Owed, Closes

LEMMA DeviceEventsOwed ==
    ASSUME SInv, NEW m \in Call, NEW k \in Call,
           CookieEvent(m, k) \/ FingerprintEvent(m, k)
    PROVE  Owed
<1>1. DeviceInfo
  BY DEF CookieEvent, FingerprintEvent
<1>2. Step /\ fingerprint' /\ Sound(identify', fingerprint')
  BY <1>1, DeviceInfoSteps DEF DeviceInfo, SInv, Step
<1>3. SameClosed(managers) /\ SameClosed(received(m))
  BY UnchangedClosed, ReceivedClosed
<1>4. UNCHANGED <<started, requests>>
  BY DEF CookieEvent, FingerprintEvent, network
<1>5. Kept /\ \A n \in Call : Closes(n) => fingerprint'
  <2>1. CASE CookieEvent(m, k)
    <3>1. askedToClose(managers) \in SUBSET Call
      BY <1>2, AskedKnows
    <3>. QED
      BY <1>2, <1>3, <1>4, <2>1, <3>1, ClosingKeeps DEF CookieEvent
  <2>2. CASE FingerprintEvent(m, k)
    <3> DEFINE closing == askedToClose(received(m)) \cup
                  ({m} \cap closable(received(m), identify.identifyProcessComplete))
    <3>1. closing \in SUBSET Call
      BY <1>2, AskedKnows
    <3>2. closeSockets(received(m), closing)
      BY <2>2 DEF FingerprintEvent
    <3>. HIDE DEF closing
    <3>. QED
      BY <1>2, <1>3, <1>4, <3>1, <3>2, ClosingKeeps
  <2>. QED
    BY <2>1, <2>2
<1>6. SInv'
  BY <1>2, <1>5, Assemble DEF CookieEvent, FingerprintEvent, network, SInv, SessionTypeOK
<1>. QED
  BY <1>2, <1>5, <1>6 DEF Owed

LEMMA DeviceStepOwed == ASSUME SInv, DeviceStep PROVE Owed
<1>1. Stable
  BY DEF SInv
<1>2. Step
  BY <1>1, TimerSteps, FinishedTimerSteps, PageDismissedSteps, DoneSteps, LoadedSteps,
     MinimumTimeSteps DEF DeviceStep
<1>3. Sound(identify', fingerprint')
  BY <1>2 DEF Step
<1>4. UNCHANGED <<started, requests>>
  BY DEF DeviceStep, network
<1>5. Kept /\ \A n \in Call : Closes(n) => fingerprint'
  BY <1>3, <1>4, AskedKnows, UnchangedClosed, ClosingKeeps DEF DeviceStep
<1>6. SInv'
  BY <1>2, <1>5, Assemble DEF DeviceStep, network, SInv, SessionTypeOK
<1>. QED
  BY <1>2, <1>5, <1>6 DEF Owed

------------------------------------------------------------------------------

LEMMA StepOwed == ASSUME SInv, SessionNext PROVE Owed
<1>1. CASE \E c \in Call : localIdentify(c) \/ attemptAutoEnroll(c)
  BY <1>1, CallsOwed
<1>2. CASE unidentify
  BY <1>2, UnidentifyOwed
<1>3. CASE \E c \in Call : SessionGranted(c)
  BY <1>3, GrantedOwed
<1>4. CASE (\E c \in Call : SessionRefused(c)) \/ (\E u \in User : PayloadFails(u))
  BY <1>4, OutagesOwed
<1>5. CASE \E m, k \in Call : didSubscribeToChannel(m, k)
  BY <1>5, ConfirmedOwed
<1>6. CASE \E m \in Call : subscribed(m) \/ ReconnectFires(m)
  BY <1>6, SubscribedOwed, ReconnectOwed
<1>7. CASE \E m \in Call : ConnectionLost(m) \/ ConnectionEnds(m)
  BY <1>7, LossOwed
<1>8. CASE \E m \in Call, e \in identified : ListEvent(m, e) \/ UrlEvent(m, e)
  BY <1>8, ListOwed
<1>9. CASE \E u \in User : PayloadArrives(u)
  BY <1>9, PayloadOwed
<1>10. CASE \E m, k \in Call : CookieEvent(m, k) \/ FingerprintEvent(m, k)
  BY <1>10, DeviceEventsOwed
<1>11. CASE DeviceStep
  BY <1>11, DeviceStepOwed
<1>. QED
  BY <1>1, <1>2, <1>3, <1>4, <1>5, <1>6, <1>7, <1>8, <1>9, <1>10, <1>11 DEF SessionNext

LEMMA StutterOwed == ASSUME SInv, UNCHANGED sessionVars PROVE SInv' /\ Step
<1>1. Step /\ Kept
  BY UnchangedDevice, UnchangedManagers DEF SInv, sessionVars, sdk, network
<1>. QED
  BY <1>1, Assemble DEF sessionVars, sdk, network, SInv, SessionTypeOK

\* Every step of a session keeps the inductive invariant.
THEOREM SessionInvariance == SessionSpec => []SInv
<1>1. ASSUME SInv, [SessionNext]_sessionVars PROVE SInv'
  BY <1>1, StepOwed, StutterOwed DEF Owed
<1>. QED
  BY <1>1, SInitGood, PTL DEF SessionSpec

\* Every variable of the session keeps its type.
THEOREM SessionTypeCorrect == SessionSpec => []SessionTypeOK
<1>1. SInv => SessionTypeOK
  BY DEF SInv
<1>. QED
  BY <1>1, SessionInvariance, PTL

\* In a whole session too, a block is called at most once for each time it was
\* asked for: however connections are lost and made again, calls overlap and
\* events come.
THEOREM SessionAnsweredOnce == SessionSpec => []AnsweredOncePerAsk
<1>1. SessionInit => SInv /\ AnswerInv(identify, asked)
  BY SInitGood, InitGood DEF SessionInit, IInv, Good
<1>2. ASSUME SInv, AnswerInv(identify, asked), [SessionNext]_sessionVars
      PROVE  SInv' /\ AnswerInv(identify, asked)'
  BY <1>2, StepOwed, StutterOwed DEF Owed, Step
<1>3. SInv /\ AnswerInv(identify, asked) => AnsweredOncePerAsk
  BY DEF AnswerInv, AnsweredOncePerAsk
<1>. QED
  BY <1>1, <1>2, <1>3, PTL DEF SessionSpec

\* No confirmation, completion or reconnect that comes after closeSocket makes a
\* manager hear events on the channel it has closed.
THEOREM ClosedIsQuiet == SessionSpec => []ClosedChannelStaysQuiet
<1>1. SInv => ClosedChannelStaysQuiet
  BY DEF SInv, AllTidy, Tidy, ClosedChannelStaysQuiet, listens
<1>. QED
  BY <1>1, SessionInvariance, PTL

\* No manager closes its socket before the fingerprint is stored.
THEOREM ClosesOnlyKnowing == SessionSpec => ClosesKnowingDevice
<1>1. ASSUME SInv, SessionNext PROVE \A m \in Call : Closes(m) => fingerprint'
  BY <1>1, StepOwed DEF Owed
<1>2. SInv /\ [SessionNext]_sessionVars
        => [\A m \in Call : Closes(m) => fingerprint']_sessionVars
  BY <1>1
<1>. QED
  BY <1>2, SessionInvariance, PTL DEF SessionSpec, ClosesKnowingDevice
=============================================================================
