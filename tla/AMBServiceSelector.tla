------------------------- MODULE AMBServiceSelector --------------------------
(***************************************************************************)
(* The refer-a-friend (RAF) screen: AmbassadorSDK presents it, it waits    *)
(* for a campaign list or has the user enrolled, keeps the URL object of   *)
(* its campaign, raises its alerts, and lets the user share the link.      *)
(*                                                                         *)
(* Screens are numbered in the order they are presented, which is also the *)
(* order in which they observe "PusherReceived".  A screen that was closed *)
(* lives on while the block of its auto-enrollment is held, and goes on    *)
(* observing.  How requests, channels and managers bring the list is in    *)
(* AMBIdentifySession; here a request is answered with some list.          *)
(***************************************************************************)
EXTENDS Integers

CONSTANTS
    Campaign,
    NoCampaign,
    NoList,
    Answer,         \* the lists the service sends
    MaxScreens,     \* bound: presentations of the screen
    MaxIdentifies,  \* bound: identify calls of the host application
    MaxRepeats,     \* bound: lists sent again for a request already answered
    MaxRefusals     \* bound: requests refused or lost

ASSUME ScreenAssumption ==
    /\ NoCampaign \notin Campaign
    /\ Answer \subseteq [Campaign -> {"absent", "inactive", "active"}]
    /\ NoList \notin Answer
    /\ MaxScreens \in Nat
    /\ MaxIdentifies \in Nat
    /\ MaxRepeats \in Nat
    /\ MaxRefusals \in Nat

VARIABLES
    \* NSUserDefaults
    hasEmail,           \* the stored identify object has an e-mail address
    campaignList,
    userURLObject,      \* the campaign of the stored URL object
    \* AmbassadorSDK
    identifyInProgress,
    tempCampID,         \* the campaign an e-mail prompt on screen is for
    \* AMBUtilities: one loading view for everybody
    loadingView,        \* the screen it covers
    \* the screens
    presented,
    screens,
    \* in the network
    asked,              \* identify requests under way: HostIdentify, or the screen that enrolls
    sent,               \* messages being posted, with the campaign they link to
    misCredited,        \* kinds of shares that did not credit the campaign they linked to
    identifies, repeats, refusals

stored == <<hasEmail, campaignList, userURLObject>>
facade == <<identifyInProgress, tempCampID>>
bounds == <<identifies, repeats, refusals>>
vars == <<stored, facade, loadingView, presented, screens, asked, sent, misCredited, bounds>>

NoScreen == 0
HostIdentify == 0
Screen == 1 .. MaxScreens
SomeCampaign == Campaign \cup {NoCampaign}

\* What is on top of a screen: a compose sheet of the system, LinkedIn's, the
\* contact selector.
Compose == {"none", "stock", "LinkedIn", "contacts"}
Alert == {"none", "networkTimeOut", "notAuthorized", "noLongerActive"}

RAF ==
    [life : {"unused", "open", "closed"},
     held : BOOLEAN,                \* a block of its auto-enrollment exists
     campaignID : SomeCampaign,
     urlNetworkObj : SomeCampaign,
     attemptedAutoEnroll : BOOLEAN,
     enrolls : Nat,                 \* how often it asked for an enrollment
     waitViewTimer : BOOLEAN,
     alert : Alert,
     compose : Compose,
     link : SomeCampaign]           \* the link in what is being composed

TypeOK ==
    /\ hasEmail \in BOOLEAN
    /\ campaignList \in Answer \cup {NoList}
    /\ userURLObject \in SomeCampaign
    /\ identifyInProgress \in BOOLEAN
    /\ tempCampID \in SomeCampaign
    /\ loadingView \in Screen \cup {NoScreen}
    /\ presented \in 0 .. MaxScreens
    /\ screens \in [Screen -> RAF]
    /\ asked \subseteq Screen \cup {HostIdentify}
    /\ sent \subseteq Campaign
    /\ misCredited \subseteq {"stock", "posted"}
    /\ identifies \in 0 .. MaxIdentifies
    /\ repeats \in 0 .. MaxRepeats
    /\ refusals \in 0 .. MaxRefusals

Unused ==
    [life |-> "unused", held |-> FALSE, campaignID |-> NoCampaign,
     urlNetworkObj |-> NoCampaign, attemptedAutoEnroll |-> FALSE, enrolls |-> 0,
     waitViewTimer |-> FALSE, alert |-> "none", compose |-> "none", link |-> NoCampaign]

Init ==
    /\ hasEmail = FALSE
    /\ campaignList = NoList
    /\ userURLObject = NoCampaign
    /\ identifyInProgress = FALSE
    /\ tempCampID = NoCampaign
    /\ loadingView = NoScreen
    /\ presented = 0
    /\ screens = [s \in Screen |-> Unused]
    /\ asked = {}
    /\ sent = {}
    /\ misCredited = {}
    /\ identifies = 0
    /\ repeats = 0
    /\ refusals = 0

------------------------------------------------------------------------------
(* Parts of the handlers; r is the record of a screen.  An operator named   *)
(* after another one with a suffix states a slip, it is not in the model.   *)

Open(s) == screens[s].life = "open"

\* The notification center keeps no object alive.
Observers == {s \in Screen : Open(s) \/ screens[s].held}

urlObjForCampaignID(r, list) ==
    IF list # NoList /\ list[r.campaignID] # "absent" THEN r.campaignID ELSE NoCampaign

\* UIKit presents one thing on a screen, and only on one in the window.
raise(r, a) ==
    IF r.life = "open" /\ r.alert = "none" /\ r.compose = "none" THEN a ELSE r.alert

attemptAutoEnroll_Again(r) == [r EXCEPT !.held = TRUE, !.enrolls = @ + 1]

attemptAutoEnroll(r) ==
    [r EXCEPT !.attemptedAutoEnroll = TRUE, !.held = TRUE, !.enrolls = @ + 1]

\* The paths of removeLoadingView once the URL object is looked up.
enrollsNow(r) == r.urlNetworkObj = NoCampaign /\ ~r.attemptedAutoEnroll
notAuthorized(r) == r.urlNetworkObj = NoCampaign /\ r.attemptedAutoEnroll
noLongerActive(r, list) ==
    r.urlNetworkObj # NoCampaign /\ list[r.campaignID] = "inactive"
finishesLoading(r, list) ==
    r.urlNetworkObj # NoCampaign /\ list[r.campaignID] = "active"

lookUp(r, list) == [r EXCEPT !.urlNetworkObj = urlObjForCampaignID(r, list)]

settle_Quiet(r, list) ==
    IF enrollsNow(r) THEN attemptAutoEnroll(r) ELSE [r EXCEPT !.waitViewTimer = FALSE]

settle(r, list) ==
    IF enrollsNow(r) THEN attemptAutoEnroll(r)
    ELSE [r EXCEPT
            !.waitViewTimer = FALSE,
            !.alert = CASE notAuthorized(r) -> raise(r, "notAuthorized")
                        [] noLongerActive(r, list) -> raise(r, "noLongerActive")
                        [] OTHER -> @]

removeLoadingView(r, list) == settle(lookUp(r, list), list)

storeURL_OnlyFirst(ss, list, over) ==
    \/ /\ ss = {} \/ userURLObject # NoCampaign
       /\ UNCHANGED userURLObject
    \/ /\ userURLObject = NoCampaign
       /\ \E s \in ss :
            /\ \A t \in ss : t <= s
            /\ userURLObject' = urlObjForCampaignID(over[s], list)

\* Each observer stores its URL object; that of the last one told stays.
storeURL(ss, list, over) ==
    \/ /\ ss = {}
       /\ UNCHANGED userURLObject
    \/ \E s \in ss :
          /\ \A t \in ss : t <= s
          /\ userURLObject' = urlObjForCampaignID(over[s], list)

\* subscribeToPusherWithSuccess replaces the manager: what was asked before may be
\* lost with the blocks it was to run.
ask(before, new) ==
    asked' \in IF new = {} THEN {before} ELSE {before \cup new, new}

\* The observers ss, whose records are in over, handle the list in their turn.  The
\* fade of the loading view is left out: it goes at once.
settled(ss, list, over, covered, before) ==
    /\ storeURL(ss, list, over)
    /\ loadingView' = IF \E s \in ss : finishesLoading(lookUp(over[s], list), list)
                      THEN NoScreen ELSE covered
    /\ ask(before, {s \in ss : enrollsNow(lookUp(over[s], list))})

handleList(ss, list, over, covered, before) ==
    /\ screens' = [s \in Screen |->
                     IF s \in ss THEN removeLoadingView(over[s], list) ELSE over[s]]
    /\ settled(ss, list, over, covered, before)

\* A new screen for campaign c, with its loading view.
appears(c) ==
    [screens EXCEPT ![presented + 1] = [Unused EXCEPT !.life = "open", !.campaignID = c]]

\* What removeLoadingView makes of a screen that is not in the window yet: UIKit may
\* refuse the alert.
firstLook(r, list) ==
    LET done == removeLoadingView(r, list)
    IN  {done, [done EXCEPT !.alert = "none"]}

waits_Untimed(r) == r

waits(r) == [r EXCEPT !.waitViewTimer = TRUE]

\* viewDidLoad while an identify is under way that should bring the list.
loadAndWait(c) ==
    /\ presented < MaxScreens
    /\ presented' = presented + 1
    /\ screens' = [appears(c) EXCEPT ![presented'] = waits(@)]
    /\ loadingView' = presented'
    /\ UNCHANGED userURLObject

\* viewDidLoad and performIdentityCheck.
viewDidLoad(c) ==
    \/ /\ campaignList # NoList
       /\ presented < MaxScreens
       /\ presented' = presented + 1
       /\ \E r \in firstLook(appears(c)[presented'], campaignList) :
            screens' = [appears(c) EXCEPT ![presented'] = r]
       /\ settled({presented'}, campaignList, appears(c), presented', asked)
    \/ /\ campaignList = NoList
       /\ ~identifyInProgress
       /\ presented < MaxScreens
       /\ presented' = presented + 1
       /\ screens' = [appears(c) EXCEPT ![presented'] = attemptAutoEnroll(@)]
       /\ loadingView' = presented'
       /\ ask(asked, {presented'})
       /\ UNCHANGED userURLObject
    \/ /\ campaignList = NoList
       /\ identifyInProgress
       /\ loadAndWait(c)
       /\ UNCHANGED asked

\* viewWillDisappear, with the screen gone for good.
dismissed(r) ==
    [r EXCEPT !.life = "closed", !.waitViewTimer = FALSE, !.alert = "none"]

localIdentify ==
    /\ identifyInProgress' = TRUE
    /\ campaignList' = NoList
    /\ identifies < MaxIdentifies
    /\ identifies' = identifies + 1

------------------------------------------------------------------------------
(* The host application and its user *)

identify ==
    /\ localIdentify
    /\ hasEmail' \in BOOLEAN
    /\ ask(asked, {HostIdentify})
    /\ UNCHANGED <<userURLObject, tempCampID, loadingView, presented, screens, sent, misCredited,
                   repeats, refusals>>

\* The screens are not told, and go on showing what they have.
unidentify ==
    /\ hasEmail' = FALSE
    /\ campaignList' = NoList
    /\ userURLObject' = NoCampaign
    /\ stored' # stored
    /\ UNCHANGED <<facade, loadingView, presented, screens, asked, sent, misCredited, bounds>>

\* One screen at a time, straight away or after a prompt for the e-mail address.
presentRAFForCampaign(c) ==
    /\ \A s \in Screen : ~Open(s)
    /\ tempCampID = NoCampaign
    /\ \/ hasEmail /\ viewDidLoad(c) /\ UNCHANGED tempCampID
       \/ /\ ~hasEmail
          /\ tempCampID' = c
          /\ UNCHANGED <<userURLObject, loadingView, presented, screens, asked>>
    /\ UNCHANGED <<hasEmail, campaignList, identifyInProgress, sent, misCredited, bounds>>

AMBInputAlertActionButtonTapped ==
    /\ tempCampID # NoCampaign
    /\ hasEmail' = TRUE
    /\ localIdentify
    /\ loadAndWait(tempCampID)
    /\ tempCampID' = NoCampaign
    /\ ask(asked, {HostIdentify})
    /\ UNCHANGED <<sent, misCredited, repeats, refusals>>

EmailPromptCancelled ==
    /\ tempCampID # NoCampaign
    /\ tempCampID' = NoCampaign
    /\ UNCHANGED <<stored, identifyInProgress, loadingView, presented, screens, asked, sent,
                   misCredited, bounds>>

closeButtonPressed(s) ==
    /\ Open(s)
    /\ screens[s].alert = "none"
    /\ screens[s].compose = "none"
    /\ screens' = [screens EXCEPT ![s] = dismissed(@)]
    /\ UNCHANGED <<stored, facade, loadingView, presented, asked, sent, misCredited, bounds>>

\* Okay in one of the alerts above: each dismisses the screen.
okayButton(s) ==
    /\ Open(s)
    /\ screens[s].alert # "none"
    /\ screens' = [screens EXCEPT ![s] = dismissed(@)]
    /\ UNCHANGED <<stored, facade, loadingView, presented, asked, sent, misCredited, bounds>>

------------------------------------------------------------------------------
(* The service and the timer *)

\* The list of request r is stored and "PusherReceived" posted.  The socket may
\* have been closed, and with it the identify process, on the way.
PusherReceived(r, list, before) ==
    /\ r \in asked
    /\ before = asked => repeats < MaxRepeats
    /\ repeats' = IF before = asked THEN repeats + 1 ELSE repeats
    /\ campaignList' = list
    /\ identifyInProgress' \in {identifyInProgress, FALSE}
    /\ handleList(Observers, list, screens, loadingView, before)
    /\ UNCHANGED <<hasEmail, tempCampID, presented, sent, misCredited, identifies, refusals>>

\* The first list for a request, and a list sent again, as after a reconnect.
ListArrives == \E r \in asked, list \in Answer : PusherReceived(r, list, asked \ {r})
ListRepeated == \E r \in asked, list \in Answer : PusherReceived(r, list, asked)

\* No SDK access, another status, a network error: the screen is not told.  (For
\* 401 the alert is meant for the RAF screen, but getTopViewController never
\* returns the navigation controller whose restoration identifier is compared.)
RequestRefused(r) ==
    /\ r \in asked
    /\ refusals < MaxRefusals
    /\ refusals' = refusals + 1
    /\ asked' = asked \ {r}
    /\ UNCHANGED <<stored, facade, loadingView, presented, screens, sent, misCredited, identifies,
                   repeats>>

\* An event without a list closed the socket.
SocketCloses ==
    /\ identifyInProgress
    /\ identifyInProgress' = FALSE
    /\ UNCHANGED <<stored, tempCampID, loadingView, presented, screens, asked, sent, misCredited,
                   bounds>>

alertForNetworkTimeout(s) ==
    /\ screens[s].waitViewTimer
    /\ screens' = [screens EXCEPT ![s].waitViewTimer = FALSE,
                                  ![s].alert = raise(screens[s], "networkTimeOut")]
    /\ UNCHANGED <<stored, facade, loadingView, presented, asked, sent, misCredited, bounds>>

\* The block of a closed screen's enrollment is freed, and with it the screen.
BlockFreed(s) ==
    /\ screens[s].life = "closed"
    /\ screens[s].held
    /\ screens' = [screens EXCEPT ![s].held = FALSE]
    /\ UNCHANGED <<stored, facade, loadingView, presented, asked, sent, misCredited, bounds>>

------------------------------------------------------------------------------
(* Sharing *)

\* A service is tapped.  The contact selector is pushed, which takes the screen
\* off the window.  A stock share without a URL object is left out: NSURL takes no
\* nil string, and the application ends.
didSelectItem(s, kind) ==
    /\ Open(s)
    /\ loadingView # s
    /\ screens[s].alert = "none"
    /\ screens[s].compose = "none"
    /\ kind # "none"
    /\ kind = "stock" => screens[s].urlNetworkObj # NoCampaign
    /\ screens' = [screens EXCEPT ![s].compose = kind,
                                  ![s].link = screens[s].urlNetworkObj,
                                  ![s].waitViewTimer = @ /\ kind # "contacts"]
    /\ UNCHANGED <<stored, facade, loadingView, presented, asked, sent, misCredited, bounds>>

composed(r) == [r EXCEPT !.compose = "none", !.link = NoCampaign]

ComposeCancelled(s) ==
    /\ screens[s].compose # "none"
    /\ screens' = [screens EXCEPT ![s] = composed(@)]
    /\ UNCHANGED <<stored, facade, loadingView, presented, asked, sent, misCredited, bounds>>

\* The stored list has campaign c.
Offered(c) == campaignList # NoList /\ campaignList[c] # "absent"

\* What the share functions would credit for a link is its campaign; or it is none, once
\* unidentify, or a list without the campaign, has emptied what is stored.
Credited(link) ==
    \/ userURLObject = link
    \/ userURLObject = NoCampaign /\ ~Offered(link)

\* The share track names the short code that is stored when it is sent, if there is one.
sendShareTrack(kind, link) ==
    misCredited' = IF Credited(link) THEN misCredited ELSE misCredited \cup {kind}

\* Facebook or Twitter: the sheet reports that the user has posted.
stockShareDone(s) ==
    /\ screens[s].compose = "stock"
    /\ sendShareTrack("stock", screens[s].link)
    /\ screens' = [screens EXCEPT ![s] = composed(@)]
    /\ UNCHANGED <<stored, facade, loadingView, presented, asked, sent, bounds>>

\* LinkedIn posts the stored URL, an e-mail or text message has the one it was
\* composed with.  A message without a stored URL to look for is left out: the search
\* takes no nil string either.
didSelectPost(s) ==
    /\ \/ screens[s].compose = "LinkedIn" /\ sent' = sent \cup ({userURLObject} \ {NoCampaign})
       \/ /\ screens[s].compose = "contacts"
          /\ userURLObject # NoCampaign
          /\ sent' = sent \cup ({screens[s].link} \ {NoCampaign})
    /\ screens' = [screens EXCEPT ![s] = composed(@)]
    /\ UNCHANGED <<stored, facade, loadingView, presented, asked, misCredited, bounds>>

\* The share track follows the answer, by whatever is stored then.
PostSucceeds(link) ==
    /\ link \in sent
    /\ sent' = sent \ {link}
    /\ sendShareTrack("posted", link)
    /\ UNCHANGED <<stored, facade, loadingView, presented, screens, asked, bounds>>

PostFails(link) ==
    /\ link \in sent
    /\ sent' = sent \ {link}
    /\ UNCHANGED <<stored, facade, loadingView, presented, screens, asked, misCredited, bounds>>

Next ==
    \/ identify
    \/ unidentify
    \/ \E c \in Campaign : presentRAFForCampaign(c)
    \/ AMBInputAlertActionButtonTapped
    \/ EmailPromptCancelled
    \/ \E s \in Screen : closeButtonPressed(s)
    \/ \E s \in Screen : okayButton(s)
    \/ ListArrives
    \/ ListRepeated
    \/ \E r \in Screen \cup {HostIdentify} : RequestRefused(r)
    \/ SocketCloses
    \/ \E s \in Screen : alertForNetworkTimeout(s)
    \/ \E s \in Screen : BlockFreed(s)
    \/ \E s \in Screen, kind \in Compose : didSelectItem(s, kind)
    \/ \E s \in Screen : ComposeCancelled(s)
    \/ \E s \in Screen : stockShareDone(s)
    \/ \E s \in Screen : didSelectPost(s)
    \/ \E link \in Campaign : PostSucceeds(link)
    \/ \E link \in Campaign : PostFails(link)

Spec == Init /\ [][Next]_vars

\* Timers fire and the service answers.
HealthySpec ==
    /\ Spec
    /\ WF_vars(\E s \in Screen : alertForNetworkTimeout(s))
    /\ WF_vars(ListArrives)

------------------------------------------------------------------------------
(* Properties *)

\* A screen asks for an enrollment at most once, however often lists without its
\* campaign arrive: each would be another identify request that enrolls.
EnrollsOnce == \A s \in Screen : screens[s].enrolls <= 1

\* What the share functions read from NSUserDefaults is what the screen on display
\* has, although closed screens go on storing theirs; or it is nothing, but only until
\* a list with the campaign is stored again.
StoredIsShown ==
    \A s \in Screen : Open(s) /\ screens[s].urlNetworkObj # NoCampaign
        => Credited(screens[s].urlNetworkObj)

\* A Facebook or Twitter post never credits another campaign than the one whose link
\* was posted, and it goes uncredited only if, while the user wrote, unidentify or a
\* list without the campaign emptied the stored URL object.
StockCreditsItsLink == "stock" \notin misCredited

\* A screen on display that has neither its link nor an alert over it.
Waiting(s) ==
    /\ Open(s)
    /\ screens[s].urlNetworkObj = NoCampaign
    /\ screens[s].alert = "none"
    /\ screens[s].compose = "none"

\* Its enrollment was asked for, no timer runs, and nothing is under way any more.
Forsaken(s) ==
    /\ screens[s].attemptedAutoEnroll
    /\ ~screens[s].waitViewTimer
    /\ asked = {}

\* With requests that are answered or refused, a screen without a link comes to its
\* link, to an alert, to being closed or to a sheet of its user's, whether the loading
\* view covers it, has gone, or was taken away by a closed screen.  What may wait for
\* ever is a screen that enrolls, for which attemptAutoEnroll starts no timer: its
\* request was refused, or its link was withdrawn under a sheet, over which no alert is
\* raised.
LoadingEnds == \A s \in Screen : Waiting(s) ~> ~Waiting(s) \/ Forsaken(s)
==============================================================================
