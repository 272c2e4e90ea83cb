---------------------------- MODULE AMBIdentify ----------------------------
(***************************************************************************)
(* The device identification of AMBIdentify: a Safari page is put over the *)
(* application so that the service can fingerprint the device, a timer     *)
(* looks again every three seconds, and the completion of an identify call *)
(* is due when the fingerprint has arrived or the tries are used up.       *)
(*                                                                         *)
(* Timers, notifications, delegate calls and UIKit's completion blocks all *)
(* come on the main thread, one at a time and in any order.  A handler     *)
(* calls others of the same object, so the object is one record, handlers  *)
(* are operators from its value before to its value after, and an action   *)
(* is one entry from the run loop.                                         *)
(*                                                                         *)
(* Left out: UI test runs and iOS below 9, where getIdentity does nothing. *)
(***************************************************************************)
EXTENDS Integers

CONSTANTS
    Call,         \* identify calls that reach getIdentity
    Silent,       \* those made without a completion block
    NoCall,       \* identifyCompletion before any block was set
    maxTryCount,
    MaxSheets,    \* bound: message sheets the user opens
    MaxAsks       \* bound: how often a call asks for its device

ASSUME IdentifyAssumption ==
    /\ Silent \subseteq Call
    /\ NoCall \notin Call
    /\ maxTryCount \in Nat
    /\ MaxSheets \in Nat
    /\ MaxAsks \in Nat

VARIABLES
    identify,     \* the AMBIdentify object
    fingerprint,  \* NSUserDefaults holds a device fingerprint
    observing,    \* the object listens for deviceInfoReceived notifications
    sheetUp,      \* an MFMessageComposeViewController is on top
    sheets,       \* how many were opened
    asked         \* how often each call asked for the identity of the device

vars == <<identify, fingerprint, observing, sheetUp, sheets, asked>>
environment == <<fingerprint, observing, sheetUp, sheets, asked>>

\* The page: never created, on screen, being dismissed, or created and gone.
SafariVC == {"nil", "up", "closing", "down"}

\* startDate as identifying sees it: nil, less than minimumTime ago, or longer.
StartDate == {"nil", "recent", "past"}

\* The blocks handed to dismissViewController, by what they do.
Block == {"identifyComplete", "answer"}

\* closeSocket and answered are not fields of the object: they show whether
\* the last step called closeSocket, and how often each block was called.
AMBIdentifyObject ==
    [identifyProcessComplete : BOOLEAN, identifyTimer : BOOLEAN,
     identifyFinishedTimer : BOOLEAN, tryCount : 0 .. maxTryCount,
     safariVC : SafariVC, safariViewLoaded : BOOLEAN, doneButtonPressed : BOOLEAN,
     startDate : StartDate, identifyCompletion : Call \cup {NoCall},
     identifyCompletionCalled : BOOLEAN, onDismissed : SUBSET Block,
     closeSocket : BOOLEAN, answered : [Call -> Nat]]

TypeOK ==
    /\ identify \in AMBIdentifyObject
    /\ fingerprint \in BOOLEAN
    /\ observing \in BOOLEAN
    /\ sheetUp \in BOOLEAN
    /\ sheets \in 0 .. MaxSheets
    /\ asked \in [Call -> Nat]

NewIdentify ==
    [identifyProcessComplete |-> FALSE, identifyTimer |-> FALSE,
     identifyFinishedTimer |-> FALSE, tryCount |-> 0,
     safariVC |-> "nil", safariViewLoaded |-> FALSE, doneButtonPressed |-> FALSE,
     startDate |-> "nil", identifyCompletion |-> NoCall,
     identifyCompletionCalled |-> FALSE, onDismissed |-> {},
     closeSocket |-> FALSE, answered |-> [c \in Call |-> 0]]

\* A fresh process; the fingerprint may be known from an earlier one.
Init ==
    /\ identify = NewIdentify
    /\ fingerprint \in BOOLEAN
    /\ observing = FALSE
    /\ sheetUp = FALSE
    /\ sheets = 0
    /\ asked = [c \in Call |-> 0]

------------------------------------------------------------------------------
(* The parts of the handlers.  An operator named after another with a suffix *)
(* (answer_Again) is not part of the model: it states a slip in that place   *)
(* which the properties have to notice.                                      *)

\* The object at the start of an entry from the run loop.
self == [identify EXCEPT !.closeSocket = FALSE]

answer_Again(s) ==
    IF s.identifyCompletion = NoCall THEN s
    ELSE [s EXCEPT !.identifyCompletionCalled = TRUE,
                   !.answered[s.identifyCompletion] = @ + 1]

\* identifyCompletion is called once for every time it was set.
answer(s) ==
    IF s.identifyCompletion = NoCall \/ s.identifyCompletionCalled THEN s
    ELSE [s EXCEPT !.identifyCompletionCalled = TRUE,
                   !.answered[s.identifyCompletion] = @ + 1]

identifyComplete(s) ==
    answer([s EXCEPT !.identifyProcessComplete = TRUE, !.closeSocket = TRUE])

\* UIKit: a page that is not on screen is not dismissed and its block is never
\* called, which is what the code's "catch" comments are about.
dismiss(s, block) ==
    IF s.safariVC \in {"up", "closing"}
    THEN [s EXCEPT !.safariVC = "closing", !.onDismissed = @ \cup {block}]
    ELSE s

finishIdentify_NoCatch(s) ==
    IF s.safariVC = "nil" THEN identifyComplete(s) ELSE dismiss(s, "identifyComplete")

\* Dismisses the page, then completes at once unless that happened before.
finishIdentify(s) ==
    LET dismissed == dismiss(s, "identifyComplete")
    IN  IF s.safariVC # "nil" /\ s.identifyProcessComplete
        THEN dismissed
        ELSE identifyComplete(dismissed)

\* Whether fewer than minimumTime seconds passed; with startDate nil the
\* result of timeIntervalSinceDate: is undefined.
TooSoon == CASE identify.startDate = "recent" -> {TRUE}
             [] identify.startDate = "past"   -> {FALSE}
             [] identify.startDate = "nil"    -> BOOLEAN

deviceInfoReceived_Early(s, soon) ==
    IF soon /\ ~s.doneButtonPressed THEN [s EXCEPT !.identifyTimer = FALSE]
    ELSE finishIdentify([s EXCEPT !.identifyTimer = FALSE])

\* Before minimumTime is over only the second timer is set.
deviceInfoReceived(s, soon) ==
    LET stopped == [s EXCEPT !.identifyTimer = FALSE]
    IN  IF soon /\ ~s.doneButtonPressed
        THEN [stopped EXCEPT !.identifyFinishedTimer = TRUE]
        ELSE finishIdentify(stopped)

giveUp_Complete(s) ==
    identifyComplete(dismiss([s EXCEPT !.identifyTimer = FALSE], "answer"))

\* The tries are used up: identifyProcessComplete stays as it is.
giveUp(s) ==
    LET stopped == [s EXCEPT !.identifyTimer = FALSE, !.closeSocket = TRUE]
    IN  IF s.safariVC = "nil" THEN answer(stopped) ELSE dismiss(stopped, "answer")

openPage(s) ==
    IF s.safariVC \in {"nil", "down"} /\ ~s.safariViewLoaded
    THEN [s EXCEPT !.safariVC = "up",
                   !.startDate = IF @ = "nil" THEN "recent" ELSE @]
    ELSE s

countTry(s) == [s EXCEPT !.tryCount = @ + 1]

outOfTries(s) == s.tryCount >= maxTryCount

performIdentifyForiOS10(s, soon) ==
    IF sheetUp THEN s
    ELSE IF outOfTries(s) THEN giveUp(s)
    ELSE IF s.identifyProcessComplete \/ fingerprint
         THEN deviceInfoReceived(countTry(s), soon)
    ELSE openPage(countTry(s))

startTimer(s) ==
    IF s.identifyTimer THEN s
    ELSE [s EXCEPT !.identifyTimer = TRUE, !.tryCount = 0,
                   !.safariViewLoaded = FALSE, !.doneButtonPressed = FALSE]

setCompletion(s, c) ==
    IF c \in Silent THEN s
    ELSE [s EXCEPT !.identifyCompletion = c, !.identifyCompletionCalled = FALSE]

\* The first look comes before the count of the previous call is reset.
getIdentity(s, c, soon) ==
    startTimer(performIdentifyForiOS10(setCompletion(s, c), soon))

\* Blocks that are called without identifyCompletion.
tell(s, c) == IF c \in Silent THEN s ELSE [s EXCEPT !.answered[c] = @ + 1]

\* The end of localIdentify, once the call is subscribed: its block is called at
\* once, or handed to getIdentity.  A subscription that is confirmed again, after
\* a reconnect, comes here again with the same block.
askForDevice(c) ==
    /\ asked' = [asked EXCEPT ![c] = @ + 1]
    /\ IF identify.identifyProcessComplete
       THEN identify' = tell(self, c) /\ UNCHANGED observing
       ELSE /\ \E soon \in TooSoon : identify' = getIdentity(self, c, soon)
            /\ observing' = TRUE

------------------------------------------------------------------------------
(* Entries from the run loop *)

GetIdentity(c) ==
    /\ asked[c] < MaxAsks
    /\ askForDevice(c)
    /\ UNCHANGED <<fingerprint, sheetUp, sheets>>

TimerFires ==
    /\ identify.identifyTimer
    /\ \E soon \in TooSoon : identify' = performIdentifyForiOS10(self, soon)
    /\ UNCHANGED environment

\* Set for the rest of minimumTime, so it does not fire before that is over.
FinishedTimerFires ==
    /\ identify.identifyFinishedTimer
    /\ identify.startDate # "recent"
    /\ identify' = finishIdentify([self EXCEPT !.identifyFinishedTimer = FALSE])
    /\ UNCHANGED environment

\* A pusher event carried the fingerprint and the notification is posted.
DeviceInfo ==
    /\ fingerprint' = TRUE
    /\ \E soon \in TooSoon :
         identify' = IF observing THEN deviceInfoReceived(self, soon) ELSE self
    /\ UNCHANGED <<observing, sheetUp, sheets, asked>>

\* A campaign list brought the fingerprint along: nothing is posted.
FingerprintSaved ==
    /\ fingerprint' = TRUE
    /\ identify' = self
    /\ UNCHANGED <<observing, sheetUp, sheets, asked>>

\* The page is gone: the blocks of its dismissal run.
PageDismissed ==
    /\ identify.safariVC = "closing"
    /\ LET gone == [self EXCEPT !.safariVC = "down", !.onDismissed = {}]
       IN  identify' = IF "identifyComplete" \in identify.onDismissed
                       THEN identifyComplete(gone) ELSE answer(gone)
    /\ UNCHANGED environment

\* The user taps Done.  With the device known this ends identifying at once
\* (deviceInfoReceivedNoWait); otherwise only the page goes away.
safariViewControllerDidFinish ==
    /\ identify.safariVC = "up"
    /\ LET gone == [self EXCEPT !.safariVC = "down", !.doneButtonPressed = TRUE]
       IN  identify' = IF identify.identifyProcessComplete \/ fingerprint
                       THEN identifyComplete([gone EXCEPT !.identifyTimer = FALSE,
                                                          !.identifyFinishedTimer = FALSE])
                       ELSE gone
    /\ UNCHANGED environment

didCompleteInitialLoad ==
    /\ identify.safariVC = "up"
    /\ identify' = [self EXCEPT !.safariViewLoaded = TRUE]
    /\ UNCHANGED environment

MinimumTimePasses ==
    /\ identify.startDate = "recent"
    /\ identify' = [self EXCEPT !.startDate = "past"]
    /\ UNCHANGED environment

SheetOpens ==
    /\ ~sheetUp /\ sheets < MaxSheets
    /\ identify.safariVC \in {"nil", "down"}
    /\ sheetUp' = TRUE /\ sheets' = sheets + 1
    /\ identify' = self
    /\ UNCHANGED <<fingerprint, observing, asked>>

SheetCloses ==
    /\ sheetUp
    /\ sheetUp' = FALSE
    /\ identify' = self
    /\ UNCHANGED <<fingerprint, observing, sheets, asked>>

Next ==
    \/ \E c \in Call : GetIdentity(c)
    \/ TimerFires
    \/ FinishedTimerFires
    \/ DeviceInfo
    \/ FingerprintSaved
    \/ PageDismissed
    \/ safariViewControllerDidFinish
    \/ didCompleteInitialLoad
    \/ MinimumTimePasses
    \/ SheetOpens
    \/ SheetCloses

\* Timers fire, time passes, a dismissal ends and a message sheet is closed in
\* the end.  The user need not touch the page and the service need not answer.
Fairness ==
    /\ WF_vars(TimerFires)
    /\ WF_vars(FinishedTimerFires)
    /\ WF_vars(PageDismissed)
    /\ WF_vars(MinimumTimePasses)
    /\ WF_vars(SheetCloses)

Spec == Init /\ [][Next]_vars /\ Fairness

------------------------------------------------------------------------------
(* Properties *)

\* A call asks for its device once for every confirmation of its subscription,
\* and its block is called at most once for each of these, though the timers, the
\* notification, the Done button and the end of a dismissal may all want to, and
\* though a block that was set aside by another call's may be set again.  (That a
\* reconnect makes it be called again is what the code does, against the comment
\* at AMBIdentify.m:29.)
AnsweredOncePerAsk == \A c \in Call : identify.answered[c] <= asked[c]

\* identifyProcessComplete means that the fingerprint is in NSUserDefaults:
\* conversions and identify requests rely on it once no page will be opened.
CompleteKnowsDevice == identify.identifyProcessComplete => fingerprint

\* Once identifying is complete the page is off the screen or on its way out,
\* and it never comes back.
CompleteClosesPage == identify.identifyProcessComplete => identify.safariVC # "up"

\* With the fingerprint known and a try left, or the minimum time running,
\* identifying completes, however the fingerprint came.
KnownDeviceCompletes ==
    /\ fingerprint
    /\ \/ identify.identifyFinishedTimer
       \/ identify.identifyTimer /\ identify.tryCount < maxTryCount
    ~> identify.identifyProcessComplete
==============================================================================
