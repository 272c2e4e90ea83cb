---------------------- MODULE AMBServiceSelector_proofs ----------------------
(***************************************************************************)
(* Proofs about the refer-a-friend screen, for any campaigns, lists,       *)
(* screens, refusals and repeated lists.                                   *)
(*                                                                         *)
(* What a screen shows agrees with what is stored because the screen on    *)
(* display is the last one that was presented, hence the last observer to  *)
(* be told of a list: that order is the strengthening the invariant needs. *)
(***************************************************************************)
EXTENDS AMBServiceSelector, TLAPS

\* A screen counts its enrollments in attemptedAutoEnroll.
Counted(r) == r.enrolls = IF r.attemptedAutoEnroll THEN 1 ELSE 0

\* Only the latest screen is open, and no screen observes before it is presented.
InOrder(s) ==
    /\ Open(s) => s = presented
    /\ s \in Observers => s <= presented

Shown(s) ==
    Open(s) /\ screens[s].urlNetworkObj # NoCampaign
        => Credited(screens[s].urlNetworkObj)

ScreensInv == \A s \in Screen : Counted(screens[s]) /\ InOrder(s) /\ Shown(s)

\* The e-mail prompt comes before a screen, not over one.
PromptAlone == tempCampID # NoCampaign => \A s \in Screen : ~Open(s)

IInv == TypeOK /\ ScreensInv /\ PromptAlone

------------------------------------------------------------------------------
(* The records of screens *)

\* Replacing fields of a screen's record by values of their types gives a record.
LEMMA RecordFields ==
    ASSUME NEW r \in RAF
    PROVE  /\ r.life \in {"unused", "open", "closed"}
           /\ r.held \in BOOLEAN
           /\ r.campaignID \in SomeCampaign
           /\ r.urlNetworkObj \in SomeCampaign
           /\ r.attemptedAutoEnroll \in BOOLEAN
           /\ r.enrolls \in Nat
           /\ r.waitViewTimer \in BOOLEAN
           /\ r.alert \in Alert
           /\ r.compose \in Compose
           /\ r.link \in SomeCampaign
BY DEF RAF

\* The URL object of a campaign is one of that campaign, or none.
LEMMA UrlType ==
    ASSUME NEW r \in RAF, NEW list
    PROVE  urlObjForCampaignID(r, list) \in SomeCampaign
BY RecordFields DEF urlObjForCampaignID, SomeCampaign

\* An alert that is raised leaves an alert on the screen.
LEMMA RaiseType ==
    ASSUME NEW r \in RAF, NEW a \in Alert
    PROVE  raise(r, a) \in Alert
BY RecordFields DEF raise

\* attemptAutoEnroll counts one more enrollment and notes the attempt.
LEMMA EnrollRecord ==
    ASSUME NEW r \in RAF
    PROVE  LET n == attemptAutoEnroll(r)
           IN  /\ n \in RAF
               /\ n.life = r.life
               /\ n.urlNetworkObj = r.urlNetworkObj
               /\ n.attemptedAutoEnroll = TRUE
               /\ n.enrolls = r.enrolls + 1
<1> DEFINE k == r.enrolls + 1
           n == [r EXCEPT !.attemptedAutoEnroll = TRUE, !.held = TRUE, !.enrolls = k]
<1>1. k \in Nat
  BY RecordFields
<1>2. attemptAutoEnroll(r) = n
  BY DEF attemptAutoEnroll
<1> HIDE DEF k
<1>3. /\ n \in RAF
      /\ n.life = r.life
      /\ n.urlNetworkObj = r.urlNetworkObj
      /\ n.attemptedAutoEnroll = TRUE
      /\ n.enrolls = k
  BY <1>1 DEF RAF
<1> QED BY <1>2, <1>3 DEF k

\* Looking the URL object up touches nothing else.
LEMMA LookUpRecord ==
    ASSUME NEW r \in RAF, NEW list
    PROVE  LET n == lookUp(r, list)
           IN  /\ n \in RAF
               /\ n.life = r.life
               /\ n.urlNetworkObj = urlObjForCampaignID(r, list)
               /\ n.attemptedAutoEnroll = r.attemptedAutoEnroll
               /\ n.enrolls = r.enrolls
               /\ n.held = r.held
BY UrlType DEF lookUp, RAF

\* What a path without an enrollment makes of a screen: timer off, an alert perhaps.
settledWith(r, a) == [r EXCEPT !.waitViewTimer = FALSE, !.alert = a]

LEMMA SettledRecord ==
    ASSUME NEW r \in RAF, NEW a \in Alert
    PROVE  LET n == settledWith(r, a)
           IN  /\ n \in RAF
               /\ n.life = r.life
               /\ n.urlNetworkObj = r.urlNetworkObj
               /\ n.attemptedAutoEnroll = r.attemptedAutoEnroll
               /\ n.enrolls = r.enrolls
               /\ n.held = r.held
BY DEF settledWith, RAF

\* removeLoadingView keeps the count, shows what it looks up, and keeps a screen
\* open that is.
LEMMA HandledRecord ==
    ASSUME NEW r \in RAF, NEW list, Counted(r)
    PROVE  LET n == removeLoadingView(r, list)
           IN  /\ n \in RAF
               /\ Counted(n)
               /\ n.life = r.life
               /\ n.urlNetworkObj = urlObjForCampaignID(r, list)
<1> DEFINE l == lookUp(r, list)
<1>1. /\ l \in RAF
      /\ l.life = r.life
      /\ l.urlNetworkObj = urlObjForCampaignID(r, list)
      /\ l.attemptedAutoEnroll = r.attemptedAutoEnroll
      /\ l.enrolls = r.enrolls
  BY LookUpRecord
<1>2. removeLoadingView(r, list) = settle(l, list)
  BY DEF removeLoadingView
<1>3. Counted(l)
  BY <1>1 DEF Counted
<1> HIDE DEF l
<1>4. CASE enrollsNow(l)
  <2>1. settle(l, list) = attemptAutoEnroll(l)
    BY <1>4 DEF settle
  <2>2. l.attemptedAutoEnroll = FALSE
    BY <1>1, <1>4, RecordFields DEF enrollsNow
  <2>3. l.enrolls = 0
    BY <1>3, <2>2 DEF Counted
  <2> DEFINE n == attemptAutoEnroll(l)
  <2>4. /\ n \in RAF
        /\ n.life = l.life
        /\ n.urlNetworkObj = l.urlNetworkObj
        /\ n.attemptedAutoEnroll = TRUE
        /\ n.enrolls = l.enrolls + 1
    BY <1>1, EnrollRecord
  <2> HIDE DEF n
  <2>5. Counted(n)
    BY <2>3, <2>4 DEF Counted
  <2>6. removeLoadingView(r, list) = n
    BY <1>2, <2>1 DEF n
  <2> QED BY <1>1, <2>4, <2>5, <2>6
<1>5. CASE ~enrollsNow(l)
  <2>1. PICK a \in Alert : settle(l, list) = settledWith(l, a)
    <3> DEFINE b == CASE notAuthorized(l) -> raise(l, "notAuthorized")
                      [] noLongerActive(l, list) -> raise(l, "noLongerActive")
                      [] OTHER -> l.alert
    <3>1. settle(l, list) = settledWith(l, b)
      BY <1>5 DEF settle, settledWith
    <3>2. /\ raise(l, "notAuthorized") \in Alert
          /\ raise(l, "noLongerActive") \in Alert
          /\ l.alert \in Alert
      BY <1>1, RaiseType, RecordFields DEF Alert
    <3>3. b \in Alert
      BY <3>2
    <3> QED BY <3>1, <3>3
  <2> QED BY <1>1, <1>2, <1>3, <2>1, SettledRecord DEF Counted
<1> QED BY <1>4, <1>5

\* A first look at the list differs in the alert only.
LEMMA FirstLookRecord ==
    ASSUME NEW r \in RAF, NEW list, Counted(r), NEW n \in firstLook(r, list)
    PROVE  /\ n \in RAF
           /\ Counted(n)
           /\ n.life = r.life
           /\ n.urlNetworkObj = urlObjForCampaignID(r, list)
<1> DEFINE d == removeLoadingView(r, list)
           e == [d EXCEPT !.alert = "none"]
<1>1. /\ d \in RAF
      /\ Counted(d)
      /\ d.life = r.life
      /\ d.urlNetworkObj = urlObjForCampaignID(r, list)
  BY HandledRecord
<1>2. n = d \/ n = e
  BY DEF firstLook
<1> HIDE DEF d
<1>3. /\ e \in RAF
      /\ Counted(e)
      /\ e.life = r.life
      /\ e.urlNetworkObj = urlObjForCampaignID(r, list)
  BY <1>1 DEF RAF, Alert, Counted
<1> QED BY <1>1, <1>2, <1>3

------------------------------------------------------------------------------
(* The set of screens *)

\* What would be credited depends on what is stored.
LEMMA CreditStays ==
    ASSUME UNCHANGED <<userURLObject, campaignList>>
    PROVE  \A link : Credited(link)' <=> Credited(link)
BY DEF Credited, Offered

\* identify takes the list away, unidentify also what is stored of it.
LEMMA CreditGoes ==
    ASSUME campaignList' = NoList, userURLObject' \in {userURLObject, NoCampaign}
    PROVE  \A link : Credited(link) => Credited(link)'
BY DEF Credited, Offered

\* What is stored only leaves together with the list.
Forgets ==
    \/ UNCHANGED <<userURLObject, campaignList>>
    \/ campaignList' = NoList /\ userURLObject' \in {userURLObject, NoCampaign}

LEMMA ForgettingCredits ==
    ASSUME Forgets
    PROVE  \A link : Credited(link) => Credited(link)'
BY CreditStays, CreditGoes DEF Forgets

\* What a handler may do with the record of one screen: anything but opening it,
\* changing its URL object, its count or making it an observer.
MayBecome(r, n) ==
    /\ n \in RAF
    /\ n.life = r.life \/ n.life = "closed"
    /\ n.held => r.held
    /\ n.urlNetworkObj = r.urlNetworkObj
    /\ n.attemptedAutoEnroll = r.attemptedAutoEnroll
    /\ n.enrolls = r.enrolls

\* Handlers of that kind keep the part of the invariant that is about screens.
LEMMA OneScreen ==
    ASSUME IInv, NEW s \in Screen, NEW n, MayBecome(screens[s], n),
           screens' = [screens EXCEPT ![s] = n],
           UNCHANGED <<userURLObject, campaignList, presented, tempCampID>>
    PROVE  screens' \in [Screen -> RAF] /\ ScreensInv' /\ PromptAlone'
<1>1. screens \in [Screen -> RAF] /\ n \in RAF
  BY DEF IInv, TypeOK, MayBecome
<1>2. screens' \in [Screen -> RAF]
  BY <1>1
<1>3. \A t \in Screen : screens'[t] = IF t = s THEN n ELSE screens[t]
  BY <1>1
<1>4. \A t \in Screen : Counted(screens[t]) /\ InOrder(t) /\ Shown(t)
  BY DEF IInv, ScreensInv
<1>5. Counted(screens'[s])
  BY <1>3, <1>4 DEF Counted, MayBecome
<1>6. InOrder(s)' /\ Shown(s)'
  BY <1>3, <1>4, CreditStays DEF InOrder, Shown, MayBecome, Open, Observers
<1>7. \A t \in Screen \ {s} : Counted(screens'[t]) /\ InOrder(t)' /\ Shown(t)'
  BY <1>3, <1>4, CreditStays DEF Counted, InOrder, Shown, Open, Observers
<1>8. PromptAlone'
  BY <1>3 DEF IInv, PromptAlone, Open, MayBecome
<1> QED BY <1>2, <1>5, <1>6, <1>7, <1>8 DEF ScreensInv

\* A screen appears where there is none: it is the latest, and what it shows is
\* stored.
LEMMA NewScreen ==
    ASSUME IInv, \A s \in Screen : ~Open(s), presented < MaxScreens,
           presented' = presented + 1, tempCampID' = NoCampaign,
           NEW n \in RAF, Counted(n), n.life = "open",
           n.urlNetworkObj # NoCampaign => userURLObject' = n.urlNetworkObj,
           screens' = [screens EXCEPT ![presented'] = n]
    PROVE  screens' \in [Screen -> RAF] /\ ScreensInv' /\ PromptAlone'
<1>1. screens \in [Screen -> RAF] /\ presented \in Nat /\ MaxScreens \in Nat
  BY ScreenAssumption DEF IInv, TypeOK
<1>2. PICK p \in Screen : p = presented' /\ p \in Nat
  BY <1>1 DEF Screen
<1>3. screens' \in [Screen -> RAF]
  BY <1>1, <1>2
<1>4. \A t \in Screen : screens'[t] = IF t = p THEN n ELSE screens[t]
  BY <1>1, <1>2
<1>5. \A t \in Screen : Counted(screens[t]) /\ InOrder(t) /\ ~Open(t)
  BY DEF IInv, ScreensInv
<1>6. Counted(screens'[p]) /\ InOrder(p)' /\ Shown(p)'
  BY <1>2, <1>4 DEF InOrder, Shown, Credited
<1>7. ASSUME NEW t \in Screen, t # p
      PROVE  Counted(screens'[t]) /\ InOrder(t)' /\ Shown(t)'
  <2>1. screens'[t] = screens[t] /\ ~Open(t) /\ InOrder(t) /\ Counted(screens[t])
    BY <1>4, <1>5, <1>7
  <2>2. ~Open(t)'
    BY <2>1 DEF Open
  <2>3. t \in Observers' => t <= presented'
    BY <1>1, <1>2, <2>1 DEF Observers, InOrder, Open, Screen
  <2> QED BY <2>1, <2>2, <2>3 DEF InOrder, Shown, Open
<1> QED BY <1>2, <1>3, <1>6, <1>7 DEF ScreensInv, PromptAlone

------------------------------------------------------------------------------
(* A list arrives, a screen appears *)

\* Whatever may be lost, only screens and the host application ask.
LEMMA AskType ==
    ASSUME NEW before, NEW new, ask(before, new),
           before \subseteq Screen \cup {HostIdentify}, new \subseteq Screen
    PROVE  asked' \subseteq Screen \cup {HostIdentify}
BY DEF ask

\* Every observer has handled the list, and the one on display has stored what it
\* shows.
LEMMA ListHandled ==
    ASSUME IInv, NEW list, NEW before, before \subseteq Screen \cup {HostIdentify},
           handleList(Observers, list, screens, loadingView, before),
           UNCHANGED <<presented, tempCampID>>
    PROVE  /\ screens' \in [Screen -> RAF]
           /\ ScreensInv'
           /\ PromptAlone'
           /\ userURLObject' \in SomeCampaign
           /\ loadingView' \in Screen \cup {NoScreen}
           /\ asked' \subseteq Screen \cup {HostIdentify}
<1> DEFINE url(s) == urlObjForCampaignID(screens[s], list)
           rec(s) == IF s \in Observers THEN removeLoadingView(screens[s], list)
                     ELSE screens[s]
<1>1. /\ \A s \in Screen : screens[s] \in RAF
      /\ \A s \in Screen : Counted(screens[s]) /\ InOrder(s) /\ Shown(s)
      /\ presented \in Nat /\ MaxScreens \in Nat
      /\ userURLObject \in SomeCampaign
      /\ loadingView \in Screen \cup {NoScreen}
  BY ScreenAssumption DEF IInv, TypeOK, ScreensInv
<1>2. /\ screens' = [s \in Screen |-> rec(s)]
      /\ storeURL(Observers, list, screens)
      /\ loadingView' \in {NoScreen, loadingView}
      /\ ask(before, {s \in Observers : enrollsNow(lookUp(screens[s], list))})
  BY DEF handleList, settled
<1>3. \A s \in Screen : /\ rec(s) \in RAF
                        /\ Counted(rec(s))
                        /\ rec(s).life = screens[s].life
  BY <1>1, HandledRecord
<1>4. \A s \in Observers : rec(s).urlNetworkObj = url(s) /\ s \in Screen
  BY <1>1, HandledRecord DEF Observers
<1>5. Observers \in SUBSET Screen
  BY DEF Observers
<1> HIDE DEF rec, url
<1>6. \A s \in Screen : screens'[s] = rec(s)
  BY <1>2
<1>7. \A s \in Observers : s <= presented
  BY <1>1, <1>5 DEF InOrder
<1>8. ASSUME NEW s \in Screen, screens'[s].life = "open"
      PROVE  s = presented /\ userURLObject' = screens'[s].urlNetworkObj
  <2>1. Open(s) /\ s \in Observers
    BY <1>3, <1>6, <1>8 DEF Open, Observers
  <2>2. s = presented
    BY <1>1, <2>1 DEF InOrder
  <2>3. PICK o \in Observers : /\ \A t \in Observers : t <= o
                              /\ userURLObject' = url(o)
    BY <1>2, <2>1 DEF storeURL, url
  <2>4. o = s
    BY <1>1, <1>5, <1>7, <2>1, <2>2, <2>3 DEF Screen
  <2> QED BY <1>4, <1>6, <2>1, <2>2, <2>3, <2>4
<1>9. ASSUME NEW s \in Screen
      PROVE  Counted(screens'[s]) /\ InOrder(s)' /\ Shown(s)'
  <2>1. Counted(screens'[s])
    BY <1>3, <1>6
  <2>2. (s \in Observers)' => s \in Observers
    <3>1. screens[s] \in RAF
      BY <1>1
    <3>2. s \notin Observers => screens'[s] = screens[s]
      BY <1>6 DEF rec
    <3> QED BY <3>2 DEF Observers, Open
  <2>3. InOrder(s)'
    BY <1>7, <1>8, <2>2 DEF InOrder, Open
  <2> QED BY <1>8, <2>1, <2>3 DEF Shown, Open, Credited
<1>10. screens' \in [Screen -> RAF]
  BY <1>2, <1>3
<1>11. PromptAlone'
  BY <1>3, <1>6 DEF IInv, PromptAlone, Open
<1>12. userURLObject' \in SomeCampaign
  <2>1. \A s \in Observers : url(s) \in SomeCampaign
    BY <1>1, <1>5, UrlType DEF url
  <2> QED BY <1>1, <1>2, <2>1 DEF storeURL, url
<1>13. asked' \subseteq Screen \cup {HostIdentify}
  BY <1>2, <1>5, AskType
<1> QED BY <1>1, <1>2, <1>9, <1>10, <1>11, <1>12, <1>13 DEF ScreensInv

\* A screen that waits for another's identify shows nothing yet.
LEMMA LoadsAndWaits ==
    ASSUME IInv, \A s \in Screen : ~Open(s), NEW c \in Campaign, loadAndWait(c),
           tempCampID' = NoCampaign
    PROVE  /\ screens' \in [Screen -> RAF]
           /\ ScreensInv'
           /\ PromptAlone'
           /\ presented' \in 0 .. MaxScreens
           /\ userURLObject' \in SomeCampaign
           /\ loadingView' \in Screen \cup {NoScreen}
<1> DEFINE new == [Unused EXCEPT !.life = "open", !.campaignID = c]
           r == [new EXCEPT !.waitViewTimer = TRUE]
<1>1. /\ screens \in [Screen -> RAF]
      /\ presented \in Nat /\ MaxScreens \in Nat
      /\ presented < MaxScreens /\ presented' = presented + 1
      /\ userURLObject' \in SomeCampaign
  BY ScreenAssumption DEF IInv, TypeOK, loadAndWait
<1>2. PICK p \in Screen : p = presented' /\ p = presented + 1
  BY <1>1 DEF Screen
<1>3. /\ r \in RAF
      /\ r.life = "open"
      /\ r.urlNetworkObj = NoCampaign
      /\ r.enrolls = 0
      /\ r.attemptedAutoEnroll = FALSE
  BY DEF Unused, RAF, SomeCampaign, Alert, Compose
<1>4. Counted(r)
  BY <1>3 DEF Counted
<1>5. screens' = [screens EXCEPT ![presented'] = r]
  BY <1>1, <1>2 DEF loadAndWait, appears, waits
<1>6. loadingView' = p /\ presented' \in 0 .. MaxScreens
  BY <1>2 DEF loadAndWait, Screen
<1> HIDE DEF r
<1>7. screens' \in [Screen -> RAF] /\ ScreensInv' /\ PromptAlone'
  BY <1>1, <1>3, <1>4, <1>5, NewScreen
<1> QED BY <1>1, <1>6, <1>7

\* viewDidLoad puts up a screen that is the latest, whichever way it starts.
LEMMA Appears ==
    ASSUME IInv, \A s \in Screen : ~Open(s), NEW c \in Campaign, viewDidLoad(c),
           tempCampID' = NoCampaign
    PROVE  /\ screens' \in [Screen -> RAF]
           /\ ScreensInv'
           /\ PromptAlone'
           /\ presented' \in 0 .. MaxScreens
           /\ userURLObject' \in SomeCampaign
           /\ loadingView' \in Screen \cup {NoScreen}
           /\ asked' \subseteq Screen \cup {HostIdentify}
<1> DEFINE new == [Unused EXCEPT !.life = "open", !.campaignID = c]
<1>1. /\ screens \in [Screen -> RAF]
      /\ presented \in Nat /\ MaxScreens \in Nat
      /\ userURLObject \in SomeCampaign
      /\ asked \subseteq Screen \cup {HostIdentify}
  BY ScreenAssumption DEF IInv, TypeOK
<1>2. presented < MaxScreens /\ presented' = presented + 1
  BY DEF viewDidLoad, loadAndWait
<1>3. PICK p \in Screen : p = presented' /\ p = presented + 1
  BY <1>1, <1>2 DEF Screen
<1>4. /\ new \in RAF
      /\ new.life = "open"
      /\ new.urlNetworkObj = NoCampaign
      /\ new.enrolls = 0
      /\ new.attemptedAutoEnroll = FALSE
  BY DEF Unused, RAF, SomeCampaign, Alert, Compose
<1>5. Counted(new)
  BY <1>4 DEF Counted
<1>6. appears(c) = [screens EXCEPT ![p] = new]
  BY <1>3 DEF appears
<1> HIDE DEF new
<1>7. appears(c)[p] = new
  BY <1>1, <1>6
<1>8. presented' \in 0 .. MaxScreens
  BY <1>3 DEF Screen
<1>9. CASE campaignList # NoList
  <2>1. PICK r \in firstLook(new, campaignList) :
           screens' = [appears(c) EXCEPT ![p] = r]
    BY <1>3, <1>7, <1>9 DEF viewDidLoad
  <2>2. settled({p}, campaignList, appears(c), p, asked)
    BY <1>3, <1>9 DEF viewDidLoad
  <2>3. /\ r \in RAF
        /\ Counted(r)
        /\ r.life = "open"
        /\ r.urlNetworkObj = urlObjForCampaignID(new, campaignList)
    BY <1>4, <1>5, <2>1, FirstLookRecord
  <2>4. screens' = [screens EXCEPT ![presented'] = r]
    BY <1>1, <1>3, <1>6, <2>1
  <2>5. userURLObject' = urlObjForCampaignID(new, campaignList)
    BY <1>7, <2>2 DEF settled, storeURL
  <2>6. loadingView' \in Screen \cup {NoScreen}
    BY <2>2 DEF settled
  <2>7. {p} \in SUBSET Screen
    OBVIOUS
  <2>8. asked' \subseteq Screen \cup {HostIdentify}
    <3>1. PICK ss \in SUBSET Screen : ask(asked, ss)
      BY <2>2, <2>7 DEF settled
    <3> QED BY <1>1, <3>1, AskType
  <2>9. userURLObject' \in SomeCampaign
    BY <1>4, <2>5, UrlType
  <2>10. screens' \in [Screen -> RAF] /\ ScreensInv' /\ PromptAlone'
    BY <1>2, <2>3, <2>4, <2>5, NewScreen
  <2> QED BY <1>8, <2>6, <2>8, <2>9, <2>10
<1>10. CASE campaignList = NoList /\ ~identifyInProgress
  <2> DEFINE r == attemptAutoEnroll(new)
  <2>1. /\ screens' = [appears(c) EXCEPT ![p] = attemptAutoEnroll(new)]
        /\ loadingView' = p
        /\ ask(asked, {p})
        /\ UNCHANGED userURLObject
    BY <1>1, <1>3, <1>6, <1>7, <1>10 DEF viewDidLoad
  <2>2. /\ r \in RAF
        /\ r.life = "open"
        /\ r.urlNetworkObj = NoCampaign
        /\ r.attemptedAutoEnroll = TRUE
        /\ r.enrolls = 0 + 1
    BY <1>4, EnrollRecord
  <2>3. screens' = [screens EXCEPT ![presented'] = r]
    BY <1>1, <1>3, <1>6, <2>1
  <2> HIDE DEF r
  <2>4. Counted(r)
    BY <2>2 DEF Counted
  <2>5. asked' \subseteq Screen \cup {HostIdentify}
    BY <1>1, <2>1, AskType
  <2>6. screens' \in [Screen -> RAF] /\ ScreensInv' /\ PromptAlone'
    BY <1>2, <2>2, <2>3, <2>4, NewScreen
  <2> QED BY <1>1, <1>8, <2>1, <2>5, <2>6
<1>11. CASE campaignList = NoList /\ identifyInProgress
  <2>1. loadAndWait(c) /\ UNCHANGED asked
    BY <1>11 DEF viewDidLoad
  <2> QED BY <1>1, <2>1, LoadsAndWaits
<1> QED BY <1>9, <1>10, <1>11

------------------------------------------------------------------------------
(* The actions *)

\* Actions that leave every screen, and what it shows, alone.
LEMMA NoScreenTouched ==
    ASSUME IInv, UNCHANGED <<screens, presented>>, Forgets,
           tempCampID' = NoCampaign \/ \A s \in Screen : ~Open(s)
    PROVE  ScreensInv' /\ PromptAlone'
<1>1. ScreensInv'
  BY ForgettingCredits DEF IInv, ScreensInv, Counted, InOrder, Shown, Open, Observers
<1>2. PromptAlone'
  BY DEF PromptAlone, Open
<1> QED BY <1>1, <1>2

LEMMA identifyKeeps == ASSUME IInv, identify PROVE IInv'
<1>1. tempCampID = NoCampaign \/ \A s \in Screen : ~Open(s)
  BY DEF IInv, PromptAlone
<1>2. ScreensInv' /\ PromptAlone'
  BY <1>1, NoScreenTouched DEF identify, localIdentify, Forgets
<1>3. asked' \subseteq Screen \cup {HostIdentify}
  BY DEF identify, ask, IInv, TypeOK
<1>4. identifies' \in 0 .. MaxIdentifies
  BY ScreenAssumption DEF identify, localIdentify, IInv, TypeOK
<1>5. TypeOK'
  BY <1>3, <1>4 DEF identify, localIdentify, IInv, TypeOK
<1> QED BY <1>2, <1>5 DEF IInv

LEMMA unidentifyKeeps == ASSUME IInv, unidentify PROVE IInv'
<1>1. tempCampID = NoCampaign \/ \A s \in Screen : ~Open(s)
  BY DEF IInv, PromptAlone
<1>2. ScreensInv' /\ PromptAlone'
  BY <1>1, NoScreenTouched DEF unidentify, facade, Forgets
<1>3. TypeOK'
  BY DEF unidentify, facade, bounds, IInv, TypeOK, SomeCampaign
<1> QED BY <1>2, <1>3 DEF IInv

LEMMA presentRAFKeeps ==
    ASSUME IInv, NEW c \in Campaign, presentRAFForCampaign(c) PROVE IInv'
<1>1. /\ \A s \in Screen : ~Open(s)
      /\ tempCampID = NoCampaign
      /\ UNCHANGED <<hasEmail, campaignList, identifyInProgress, sent, misCredited, bounds>>
  BY DEF presentRAFForCampaign
<1>2. CASE viewDidLoad(c) /\ UNCHANGED tempCampID
  <2>1. /\ screens' \in [Screen -> RAF]
        /\ ScreensInv'
        /\ PromptAlone'
        /\ presented' \in 0 .. MaxScreens
        /\ userURLObject' \in SomeCampaign
        /\ loadingView' \in Screen \cup {NoScreen}
        /\ asked' \subseteq Screen \cup {HostIdentify}
    BY <1>1, <1>2, Appears
  <2>2. TypeOK'
    BY <1>1, <1>2, <2>1 DEF IInv, TypeOK, bounds
  <2> QED BY <2>1, <2>2 DEF IInv
<1>3. CASE /\ tempCampID' = c
           /\ UNCHANGED <<userURLObject, loadingView, presented, screens, asked>>
  <2>1. ScreensInv' /\ PromptAlone'
    BY <1>1, <1>3, NoScreenTouched DEF Forgets
  <2>2. TypeOK'
    BY <1>1, <1>3 DEF IInv, TypeOK, bounds, SomeCampaign
  <2> QED BY <2>1, <2>2 DEF IInv
<1> QED BY <1>2, <1>3 DEF presentRAFForCampaign

LEMMA InputAlertKeeps == ASSUME IInv, AMBInputAlertActionButtonTapped PROVE IInv'
<1>1. tempCampID \in Campaign /\ \A s \in Screen : ~Open(s)
  BY DEF AMBInputAlertActionButtonTapped, IInv, TypeOK, SomeCampaign, PromptAlone
<1>2. loadAndWait(tempCampID) /\ tempCampID' = NoCampaign
  BY DEF AMBInputAlertActionButtonTapped
<1>3. PICK c \in Campaign : loadAndWait(c)
  BY <1>1, <1>2
<1>4. /\ screens' \in [Screen -> RAF]
      /\ ScreensInv'
      /\ PromptAlone'
      /\ presented' \in 0 .. MaxScreens
      /\ userURLObject' \in SomeCampaign
      /\ loadingView' \in Screen \cup {NoScreen}
  BY <1>1, <1>2, <1>3, LoadsAndWaits
<1>5. asked' \subseteq Screen \cup {HostIdentify}
  BY DEF AMBInputAlertActionButtonTapped, ask, IInv, TypeOK
<1>6. identifies' \in 0 .. MaxIdentifies
  BY ScreenAssumption DEF AMBInputAlertActionButtonTapped, localIdentify, IInv, TypeOK
<1>7. TypeOK'
  BY <1>2, <1>4, <1>5, <1>6
     DEF AMBInputAlertActionButtonTapped, localIdentify, IInv, TypeOK, SomeCampaign
<1> QED BY <1>4, <1>7 DEF IInv

LEMMA PromptCancelledKeeps == ASSUME IInv, EmailPromptCancelled PROVE IInv'
<1>1. ScreensInv' /\ PromptAlone'
  BY NoScreenTouched DEF EmailPromptCancelled, stored, Forgets
<1>2. TypeOK'
  BY DEF EmailPromptCancelled, stored, bounds, IInv, TypeOK, SomeCampaign
<1> QED BY <1>1, <1>2 DEF IInv

\* The actions that change one screen.
LEMMA ScreenActionKeeps ==
    ASSUME IInv, NEW s \in Screen, NEW n, MayBecome(screens[s], n),
           screens' = [screens EXCEPT ![s] = n],
           UNCHANGED <<stored, facade, loadingView, presented, asked, bounds>>,
           sent' \subseteq Campaign,
           misCredited' \subseteq {"stock", "posted"}
    PROVE  IInv'
<1>1. screens' \in [Screen -> RAF] /\ ScreensInv' /\ PromptAlone'
  BY OneScreen DEF stored, facade
<1>2. TypeOK'
  BY <1>1 DEF stored, facade, bounds, IInv, TypeOK
<1> QED BY <1>1, <1>2 DEF IInv

LEMMA DismissedRecord ==
    ASSUME NEW r \in RAF
    PROVE  MayBecome(r, dismissed(r)) /\ MayBecome(r, composed(r))
<1>1. MayBecome(r, dismissed(r))
  BY DEF MayBecome, dismissed, RAF, Alert
<1>2. MayBecome(r, composed(r))
  BY DEF MayBecome, composed, RAF, Compose, SomeCampaign
<1> QED BY <1>1, <1>2

LEMMA ScreenTypes ==
    ASSUME IInv, NEW s \in Screen
    PROVE  /\ screens[s] \in RAF
           /\ sent \subseteq Campaign
           /\ misCredited \subseteq {"stock", "posted"}
BY DEF IInv, TypeOK

\* Closing a screen, whether by its button or by an alert's.
LEMMA CloseKeeps ==
    ASSUME IInv, NEW s \in Screen, closeButtonPressed(s) \/ okayButton(s) PROVE IInv'
<1>1. /\ screens' = [screens EXCEPT ![s] = dismissed(screens[s])]
      /\ UNCHANGED <<stored, facade, loadingView, presented, asked, bounds>>
      /\ sent' = sent /\ misCredited' = misCredited
  BY DEF closeButtonPressed, okayButton
<1> QED BY <1>1, DismissedRecord, ScreenTypes, ScreenActionKeeps

LEMMA TimeoutKeeps ==
    ASSUME IInv, NEW s \in Screen, alertForNetworkTimeout(s) PROVE IInv'
<1> DEFINE r == screens[s]
           a == raise(r, "networkTimeOut")
           n == [r EXCEPT !.waitViewTimer = FALSE, !.alert = a]
<1>1. r \in RAF /\ a \in Alert
  BY ScreenTypes, RaiseType DEF Alert
<1> HIDE DEF a
<1>2. MayBecome(r, n)
  BY <1>1 DEF MayBecome, RAF
<1>3. screens' = [screens EXCEPT ![s] = n]
  BY DEF alertForNetworkTimeout, a, IInv, TypeOK
<1>4. /\ UNCHANGED <<stored, facade, loadingView, presented, asked, bounds>>
      /\ sent' = sent /\ misCredited' = misCredited
  BY DEF alertForNetworkTimeout
<1> HIDE DEF n
<1> QED BY <1>2, <1>3, <1>4, ScreenTypes, ScreenActionKeeps

LEMMA BlockFreedKeeps ==
    ASSUME IInv, NEW s \in Screen, BlockFreed(s) PROVE IInv'
<1> DEFINE n == [screens[s] EXCEPT !.held = FALSE]
<1>1. MayBecome(screens[s], n)
  BY ScreenTypes DEF MayBecome, RAF
<1>2. /\ screens' = [screens EXCEPT ![s] = n]
      /\ UNCHANGED <<stored, facade, loadingView, presented, asked, bounds>>
      /\ sent' = sent /\ misCredited' = misCredited
  BY DEF BlockFreed, IInv, TypeOK
<1> HIDE DEF n
<1> QED BY <1>1, <1>2, ScreenTypes, ScreenActionKeeps

LEMMA SelectKeeps ==
    ASSUME IInv, NEW s \in Screen, NEW kind \in Compose, didSelectItem(s, kind)
    PROVE  IInv'
<1> DEFINE r == screens[s]
           w == r.waitViewTimer /\ kind # "contacts"
           n == [r EXCEPT !.compose = kind, !.link = r.urlNetworkObj, !.waitViewTimer = w]
<1>1. r \in RAF /\ r.urlNetworkObj \in SomeCampaign /\ w \in BOOLEAN
  BY ScreenTypes, RecordFields
<1>2. screens' = [screens EXCEPT ![s] = n]
  BY DEF didSelectItem, IInv, TypeOK
<1> HIDE DEF w
<1>3. MayBecome(r, n)
  BY <1>1 DEF MayBecome, RAF
<1>4. /\ UNCHANGED <<stored, facade, loadingView, presented, asked, bounds>>
      /\ sent' = sent /\ misCredited' = misCredited
  BY DEF didSelectItem
<1> HIDE DEF n
<1> QED BY <1>2, <1>3, <1>4, ScreenTypes, ScreenActionKeeps

\* A sheet goes away: cancelled, or with a post.
LEMMA ComposedKeeps ==
    ASSUME IInv, NEW s \in Screen,
           ComposeCancelled(s) \/ stockShareDone(s) \/ didSelectPost(s)
    PROVE  IInv'
<1>1. /\ screens' = [screens EXCEPT ![s] = composed(screens[s])]
      /\ UNCHANGED <<stored, facade, loadingView, presented, asked, bounds>>
  BY DEF ComposeCancelled, stockShareDone, didSelectPost
<1>2. /\ screens[s].link \in SomeCampaign
      /\ userURLObject \in SomeCampaign
      /\ sent \subseteq Campaign
      /\ misCredited \subseteq {"stock", "posted"}
  BY ScreenTypes, RecordFields DEF IInv, TypeOK
<1>3. sent' \subseteq Campaign
  BY <1>2 DEF ComposeCancelled, stockShareDone, didSelectPost, SomeCampaign
<1>4. misCredited' \subseteq {"stock", "posted"}
  BY <1>2 DEF ComposeCancelled, stockShareDone, didSelectPost, sendShareTrack
<1> QED BY <1>1, <1>3, <1>4, DismissedRecord, ScreenTypes, ScreenActionKeeps

\* Messages are posted, requests refused and sockets closed behind the screens' backs.
LEMMA BehindKeeps ==
    ASSUME IInv,
           \/ \E link \in Campaign : PostSucceeds(link) \/ PostFails(link)
           \/ \E r \in Screen \cup {HostIdentify} : RequestRefused(r)
           \/ SocketCloses
    PROVE  IInv'
<1>1. /\ UNCHANGED <<screens, presented, userURLObject, tempCampID, loadingView, hasEmail,
                     campaignList, identifies, repeats>>
      /\ sent' \subseteq sent
      /\ asked' \subseteq asked
      /\ identifyInProgress' \in {identifyInProgress, FALSE}
      /\ refusals' = refusals \/ (refusals < MaxRefusals /\ refusals' = refusals + 1)
  BY DEF PostSucceeds, PostFails, RequestRefused, SocketCloses, stored, facade, bounds
<1>2. misCredited' \subseteq {"stock", "posted"}
  BY DEF PostSucceeds, PostFails, RequestRefused, SocketCloses, sendShareTrack, IInv, TypeOK
<1>3. refusals' \in 0 .. MaxRefusals
  BY <1>1, ScreenAssumption DEF IInv, TypeOK
<1>4. ScreensInv' /\ PromptAlone'
  <2>1. tempCampID' = NoCampaign \/ \A s \in Screen : ~Open(s)
    BY <1>1 DEF IInv, PromptAlone
  <2> QED BY <1>1, <2>1, NoScreenTouched DEF Forgets
<1>5. TypeOK'
  BY <1>1, <1>2, <1>3 DEF IInv, TypeOK
<1> QED BY <1>4, <1>5 DEF IInv

LEMMA PusherReceivedKeeps ==
    ASSUME IInv, NEW r \in asked, NEW list \in Answer,
           NEW before \in SUBSET asked, PusherReceived(r, list, before)
    PROVE  IInv'
<1>1. /\ handleList(Observers, list, screens, loadingView, before)
      /\ before \subseteq Screen \cup {HostIdentify}
      /\ UNCHANGED <<presented, tempCampID>>
  BY DEF PusherReceived, IInv, TypeOK
<1>2. /\ screens' \in [Screen -> RAF]
      /\ ScreensInv'
      /\ PromptAlone'
      /\ userURLObject' \in SomeCampaign
      /\ loadingView' \in Screen \cup {NoScreen}
      /\ asked' \subseteq Screen \cup {HostIdentify}
  BY <1>1, ListHandled
<1>3. repeats' \in 0 .. MaxRepeats
  BY ScreenAssumption DEF PusherReceived, IInv, TypeOK
<1>4. TypeOK'
  BY <1>2, <1>3 DEF PusherReceived, IInv, TypeOK
<1> QED BY <1>2, <1>4 DEF IInv

LEMMA ListKeeps == ASSUME IInv, ListArrives \/ ListRepeated PROVE IInv'
<1>1. PICK r \in asked, list \in Answer, before \in SUBSET asked :
         PusherReceived(r, list, before)
  BY DEF ListArrives, ListRepeated
<1> QED BY <1>1, PusherReceivedKeeps

------------------------------------------------------------------------------

LEMMA InitHolds == ASSUME Init PROVE IInv
<1>1. Unused \in RAF /\ Counted(Unused) /\ Unused.life = "unused" /\ Unused.held = FALSE
  BY DEF Unused, RAF, SomeCampaign, Alert, Compose, Counted
<1>2. TypeOK
  <2>1. 0 \in 0 .. MaxScreens /\ 0 \in 0 .. MaxIdentifies
    BY ScreenAssumption
  <2>2. 0 \in 0 .. MaxRepeats /\ 0 \in 0 .. MaxRefusals
    BY ScreenAssumption
  <2> QED BY <1>1, <2>1, <2>2 DEF Init, TypeOK, SomeCampaign
<1>3. \A s \in Screen : screens[s] = Unused
  BY DEF Init
<1>4. ScreensInv
  BY <1>1, <1>3 DEF ScreensInv, InOrder, Shown, Open, Observers
<1>5. PromptAlone
  BY DEF Init, PromptAlone
<1> QED BY <1>2, <1>4, <1>5 DEF IInv

LEMMA NextKeeps == ASSUME IInv, [Next]_vars PROVE IInv'
<1>1. CASE UNCHANGED vars
  <2>1. tempCampID' = NoCampaign \/ \A s \in Screen : ~Open(s)
    BY <1>1 DEF vars, facade, IInv, PromptAlone
  <2>2. ScreensInv' /\ PromptAlone'
    BY <1>1, <2>1, NoScreenTouched DEF vars, stored, Forgets
  <2>3. TypeOK'
    BY <1>1 DEF vars, stored, facade, bounds, IInv, TypeOK
  <2> QED BY <2>2, <2>3 DEF IInv
<1>2. CASE Next
  <2>1. CASE identify
    BY <2>1, identifyKeeps
  <2>2. CASE unidentify
    BY <2>2, unidentifyKeeps
  <2>3. CASE \E c \in Campaign : presentRAFForCampaign(c)
    BY <2>3, presentRAFKeeps
  <2>4. CASE AMBInputAlertActionButtonTapped
    BY <2>4, InputAlertKeeps
  <2>5. CASE EmailPromptCancelled
    BY <2>5, PromptCancelledKeeps
  <2>6. CASE \E s \in Screen : closeButtonPressed(s) \/ okayButton(s)
    BY <2>6, CloseKeeps
  <2>7. CASE ListArrives \/ ListRepeated
    BY <2>7, ListKeeps
  <2>8. CASE \E s \in Screen : alertForNetworkTimeout(s)
    BY <2>8, TimeoutKeeps
  <2>9. CASE \E s \in Screen : BlockFreed(s)
    BY <2>9, BlockFreedKeeps
  <2>10. CASE \E s \in Screen, kind \in Compose : didSelectItem(s, kind)
    BY <2>10, SelectKeeps
  <2>11. CASE \E s \in Screen : ComposeCancelled(s) \/ stockShareDone(s) \/ didSelectPost(s)
    BY <2>11, ComposedKeeps
  <2>12. CASE \/ \E link \in Campaign : PostSucceeds(link) \/ PostFails(link)
              \/ \E r \in Screen \cup {HostIdentify} : RequestRefused(r)
              \/ SocketCloses
    BY <2>12, BehindKeeps
  <2> QED BY <1>2, <2>1, <2>2, <2>3, <2>4, <2>5, <2>6, <2>7, <2>8, <2>9, <2>10, <2>11,
             <2>12 DEF Next
<1> QED BY <1>1, <1>2

\* Every state of the screens and the service satisfies the invariant.
THEOREM Invariance == Spec => []IInv
<1>1. Init => IInv
  BY InitHolds
<1>2. IInv /\ [Next]_vars => IInv'
  BY NextKeeps
<1> QED BY <1>1, <1>2, PTL DEF Spec

\* The variables of the RAF screens keep their types: what the handlers of
\* AMBServiceSelector.m leave in a screen and in NSUserDefaults is well formed.
THEOREM TypeCorrect == Spec => []TypeOK
<1>1. IInv => TypeOK
  BY DEF IInv
<1> QED BY <1>1, Invariance, PTL

\* removeLoadingView and performIdentityCheck enroll the user at most once per
\* screen, for any sequence of lists, repeated lists and refused requests.
THEOREM EnrollsAtMostOnce == Spec => []EnrollsOnce
<1>1. IInv => EnrollsOnce
  <2> SUFFICES ASSUME IInv, NEW s \in Screen PROVE screens[s].enrolls <= 1
    BY DEF EnrollsOnce
  <2>1. Counted(screens[s])
    BY DEF IInv, ScreensInv
  <2> QED BY <2>1 DEF Counted
<1> QED BY <1>1, Invariance, PTL

\* setUserURLObject in removeLoadingView: the stored URL object is the one the open
\* screen shows, however many closed screens still handle "PusherReceived"; once
\* unidentify has emptied it, nothing is stored until a list with the campaign is.
THEOREM ShownIsStored == Spec => []StoredIsShown
<1>1. IInv => StoredIsShown
  BY DEF IInv, ScreensInv, Shown, StoredIsShown
<1> QED BY <1>1, Invariance, PTL

------------------------------------------------------------------------------
(* What a stock share credits.  The link of a compose sheet was the screen's  *)
(* URL object, which is that of its campaign; while the sheet is up, the      *)
(* screen is the last observer, so what is stored is that, or none as long as *)
(* the stored list does not have the campaign.                                *)

\* A screen's record: its URL object is of its campaign, and so is the link of a stock
\* sheet, which is up on an open screen without an alert.
Fits(r) ==
    /\ r.urlNetworkObj \in {NoCampaign, r.campaignID}
    /\ r.compose = "stock" =>
         r.life = "open" /\ r.alert = "none" /\ r.link = r.campaignID

Stored(s) ==
    screens[s].compose = "stock" => Credited(screens[s].campaignID)

Linked == \A s \in Screen : Fits(screens[s]) /\ Stored(s)

LInv == Linked /\ StockCreditsItsLink

\* Handling a list changes the URL object to the campaign's or to none, and raises no
\* alert over a sheet.
LEMMA HandledFits ==
    ASSUME NEW r \in RAF, NEW list, Fits(r)
    PROVE  LET n == removeLoadingView(r, list)
           IN  Fits(n) /\ n.compose = r.compose /\ n.campaignID = r.campaignID
<1> DEFINE l == lookUp(r, list)
           u == urlObjForCampaignID(r, list)
<1>1. u \in {NoCampaign, r.campaignID} /\ u \in SomeCampaign
  BY UrlType DEF urlObjForCampaignID
<1>2. l = [r EXCEPT !.urlNetworkObj = u]
  BY DEF lookUp
<1>3. removeLoadingView(r, list) = settle(l, list)
  BY DEF removeLoadingView
<1> HIDE DEF u, l
<1>4. /\ l \in RAF /\ l.compose = r.compose /\ l.campaignID = r.campaignID /\ l.life = r.life
      /\ l.alert = r.alert /\ l.link = r.link /\ l.urlNetworkObj = u
  BY <1>1, <1>2 DEF RAF
<1>5. Fits(l)
  BY <1>1, <1>4 DEF Fits
<1>6. CASE enrollsNow(l)
  <2> DEFINE k == l.enrolls + 1
             n == [l EXCEPT !.attemptedAutoEnroll = TRUE, !.held = TRUE, !.enrolls = k]
  <2>1. settle(l, list) = n
    BY <1>6 DEF settle, attemptAutoEnroll
  <2> HIDE DEF k
  <2>2. /\ n.compose = l.compose /\ n.campaignID = l.campaignID /\ n.life = l.life
        /\ n.alert = l.alert /\ n.link = l.link /\ n.urlNetworkObj = l.urlNetworkObj
    BY <1>4 DEF RAF
  <2> QED BY <1>3, <1>4, <1>5, <2>1, <2>2 DEF Fits
<1>7. CASE ~enrollsNow(l)
  <2> DEFINE b == CASE notAuthorized(l) -> raise(l, "notAuthorized")
                    [] noLongerActive(l, list) -> raise(l, "noLongerActive")
                    [] OTHER -> l.alert
             n == [l EXCEPT !.waitViewTimer = FALSE, !.alert = b]
  <2>1. settle(l, list) = n
    BY <1>7 DEF settle
  <2>2. l.compose = "stock" => b = l.alert
    BY DEF raise
  <2> HIDE DEF b
  <2>3. /\ n.compose = l.compose /\ n.campaignID = l.campaignID /\ n.life = l.life
        /\ n.alert = b /\ n.link = l.link /\ n.urlNetworkObj = l.urlNetworkObj
    BY <1>4 DEF RAF
  <2> QED BY <1>3, <1>4, <1>5, <2>1, <2>2, <2>3 DEF Fits
<1> QED BY <1>6, <1>7

\* A screen that is put up has no sheet.
LEMMA NewFits ==
    ASSUME NEW c \in Campaign, NEW list
    PROVE  LET new == [Unused EXCEPT !.life = "open", !.campaignID = c]
           IN  /\ Fits(new) /\ new.compose = "none" /\ new \in RAF
               /\ Fits(waits(new)) /\ waits(new).compose = "none"
               /\ Fits(attemptAutoEnroll(new)) /\ attemptAutoEnroll(new).compose = "none"
               /\ \A n \in firstLook(new, list) : Fits(n) /\ n.compose = "none"
<1> DEFINE new == [Unused EXCEPT !.life = "open", !.campaignID = c]
           k == new.enrolls + 1
<1>1. /\ new \in RAF /\ new.compose = "none" /\ new.urlNetworkObj = NoCampaign
      /\ new.campaignID = c
  BY DEF Unused, RAF, SomeCampaign, Alert, Compose
<1>2. attemptAutoEnroll(new) = [new EXCEPT !.attemptedAutoEnroll = TRUE, !.held = TRUE, !.enrolls = k]
  BY DEF attemptAutoEnroll
<1> HIDE DEF new, k
<1>3. Fits(new)
  BY <1>1 DEF Fits
<1>4. Fits(waits(new)) /\ waits(new).compose = "none"
  BY <1>1 DEF Fits, waits, RAF
<1>5. Fits(attemptAutoEnroll(new)) /\ attemptAutoEnroll(new).compose = "none"
  BY <1>1, <1>2 DEF Fits, RAF
<1>6. ASSUME NEW n \in firstLook(new, list) PROVE Fits(n) /\ n.compose = "none"
  <2> DEFINE d == removeLoadingView(new, list)
  <2>1. Fits(d) /\ d.compose = "none" /\ d.campaignID = c
    BY <1>1, <1>3, HandledFits
  <2>2. d \in RAF
    <3>1. Counted(new)
      BY DEF Counted, new, Unused
    <3> QED BY <1>1, <3>1, HandledRecord
  <2>3. n = d \/ n = [d EXCEPT !.alert = "none"]
    BY DEF firstLook
  <2> HIDE DEF d
  <2> QED BY <2>1, <2>2, <2>3 DEF Fits, RAF
<1> QED BY <1>1, <1>3, <1>4, <1>5, <1>6 DEF new

\* No stock sheet is up unless its screen is open.
LEMMA OnlyOpenShares ==
    ASSUME IInv, Linked, NEW s \in Screen, screens[s].compose = "stock"
    PROVE  Open(s) /\ s = presented
<1>1. Open(s)
  BY DEF Linked, Fits, Open
<1> QED BY <1>1 DEF IInv, ScreensInv, InOrder

\* A new screen comes when none is open, hence when no stock sheet is up.
LEMMA NewLinked ==
    ASSUME IInv, Linked, \A s \in Screen : ~Open(s), NEW p \in Screen, NEW n,
           Fits(n), n.compose = "none", screens' = [screens EXCEPT ![p] = n]
    PROVE  Linked'
<1>1. screens \in [Screen -> RAF]
  BY DEF IInv, TypeOK
<1>2. \A s \in Screen : screens'[s] = IF s = p THEN n ELSE screens[s]
  BY <1>1
<1>3. \A s \in Screen : Fits(screens[s]) /\ screens[s].compose # "stock"
  BY OnlyOpenShares DEF Linked
<1>4. \A s \in Screen : Fits(screens'[s]) /\ screens'[s].compose # "stock"
  BY <1>2, <1>3
<1> QED BY <1>4 DEF Linked, Stored

LEMMA WaitsLinked ==
    ASSUME IInv, Linked, \A s \in Screen : ~Open(s), NEW c \in Campaign, loadAndWait(c)
    PROVE  Linked'
<1> DEFINE new == [Unused EXCEPT !.life = "open", !.campaignID = c]
<1>1. /\ screens \in [Screen -> RAF] /\ presented \in Nat /\ MaxScreens \in Nat
      /\ presented < MaxScreens /\ presented' = presented + 1
  BY ScreenAssumption DEF IInv, TypeOK, loadAndWait
<1>2. PICK p \in Screen : p = presented' /\ p = presented + 1
  BY <1>1 DEF Screen
<1>3. Fits(waits(new)) /\ waits(new).compose = "none"
  BY NewFits
<1> HIDE DEF new
<1>4. screens' = [screens EXCEPT ![p] = waits(new)]
  BY <1>1, <1>2 DEF loadAndWait, appears, waits, new
<1> QED BY <1>3, <1>4, NewLinked

LEMMA AppearsLinked ==
    ASSUME IInv, Linked, \A s \in Screen : ~Open(s), NEW c \in Campaign, viewDidLoad(c)
    PROVE  Linked'
<1> DEFINE new == [Unused EXCEPT !.life = "open", !.campaignID = c]
<1>1. screens \in [Screen -> RAF] /\ presented \in Nat /\ MaxScreens \in Nat
  BY ScreenAssumption DEF IInv, TypeOK
<1>2. presented < MaxScreens /\ presented' = presented + 1
  BY DEF viewDidLoad, loadAndWait
<1>3. PICK p \in Screen : p = presented' /\ p = presented + 1
  BY <1>1, <1>2 DEF Screen
<1>4. /\ Fits(attemptAutoEnroll(new)) /\ attemptAutoEnroll(new).compose = "none"
      /\ \A n \in firstLook(new, campaignList) : Fits(n) /\ n.compose = "none"
  BY NewFits
<1>5. appears(c) = [screens EXCEPT ![p] = new]
  BY <1>3 DEF appears
<1> HIDE DEF new
<1>6. appears(c)[p] = new
  BY <1>1, <1>5
<1>7. CASE campaignList # NoList
  <2>1. PICK n \in firstLook(new, campaignList) : screens' = [appears(c) EXCEPT ![p] = n]
    BY <1>3, <1>6, <1>7 DEF viewDidLoad
  <2>2. screens' = [screens EXCEPT ![p] = n]
    BY <1>1, <1>5, <2>1
  <2> QED BY <1>4, <2>1, <2>2, NewLinked
<1>8. CASE campaignList = NoList /\ ~identifyInProgress
  <2> DEFINE n == attemptAutoEnroll(new)
  <2>1. screens' = [appears(c) EXCEPT ![p] = n]
    BY <1>3, <1>6, <1>5, <1>1, <1>8 DEF viewDidLoad
  <2>2. Fits(n) /\ n.compose = "none"
    BY <1>4
  <2> HIDE DEF n
  <2>3. screens' = [screens EXCEPT ![p] = n]
    BY <1>1, <1>5, <2>1
  <2> QED BY <2>2, <2>3, NewLinked
<1>9. CASE campaignList = NoList /\ identifyInProgress
  <2>1. loadAndWait(c)
    BY <1>9 DEF viewDidLoad
  <2> QED BY <2>1, WaitsLinked
<1> QED BY <1>7, <1>8, <1>9

\* After a list, what is stored is what the screen with the sheet has looked up.
LEMMA ListLinked ==
    ASSUME IInv, IInv', Linked, NEW list, NEW before,
           handleList(Observers, list, screens, loadingView, before), presented' = presented,
           campaignList' = list
    PROVE  Linked'
<1>1. /\ \A s \in Screen : screens[s] \in RAF /\ Fits(screens[s])
      /\ screens' = [s \in Screen |-> IF s \in Observers THEN removeLoadingView(screens[s], list)
                                      ELSE screens[s]]
      /\ storeURL(Observers, list, screens)
  BY DEF IInv, TypeOK, Linked, handleList, settled
<1>2. \A s \in Screen : /\ Fits(screens'[s]) /\ screens'[s].compose = screens[s].compose
                        /\ screens'[s].campaignID = screens[s].campaignID
  BY <1>1, HandledFits
<1>3. ASSUME NEW s \in Screen, screens'[s].compose = "stock"
      PROVE  Credited(screens[s].campaignID)'
  <2>1. Open(s) /\ s = presented
    BY <1>2, <1>3, OnlyOpenShares
  <2>2. s \in Observers /\ Observers \subseteq Screen
    BY <2>1 DEF Observers
  <2>3. PICK o \in Observers : /\ \A t \in Observers : t <= o
                              /\ userURLObject' = urlObjForCampaignID(screens[o], list)
    BY <1>1, <2>2 DEF storeURL
  <2>4. o <= presented
    BY <2>2 DEF IInv, ScreensInv, InOrder
  <2>5. o = s
    BY <2>1, <2>2, <2>3, <2>4, ScreenAssumption DEF Screen
  <2>6. userURLObject' = urlObjForCampaignID(screens[s], list)
        /\ screens'[s].campaignID = screens[s].campaignID
    BY <1>2, <2>3, <2>5
  <2> QED BY <2>6 DEF urlObjForCampaignID, Credited, Offered
<1> QED BY <1>2, <1>3 DEF Linked, Stored

\* A step on one screen that puts no stock sheet up where there was none, and keeps the
\* campaign and what is stored.
LEMMA OneLinked ==
    ASSUME IInv, Linked, NEW s \in Screen, NEW n, Fits(n),
           n.compose = "stock" =>
             \/ screens[s].compose = "stock" /\ n.campaignID = screens[s].campaignID
             \/ Credited(n.campaignID),
           screens' = [screens EXCEPT ![s] = n], UNCHANGED <<userURLObject, campaignList>>
    PROVE  Linked'
<1>1. screens \in [Screen -> RAF]
  BY DEF IInv, TypeOK
<1>2. \A t \in Screen : screens'[t] = IF t = s THEN n ELSE screens[t]
  BY <1>1
<1>3. \A t \in Screen : Fits(screens[t]) /\ Stored(t)
  BY DEF Linked
<1>4. \A t \in Screen : Fits(screens'[t])
  BY <1>2, <1>3
<1>5. \A t \in Screen : Stored(t)'
  BY <1>2, <1>3, CreditStays DEF Stored
<1> QED BY <1>4, <1>5 DEF Linked

LEMMA SelectLinked ==
    ASSUME IInv, Linked, NEW s \in Screen, NEW kind \in Compose, didSelectItem(s, kind)
    PROVE  Linked'
<1> DEFINE r == screens[s]
           w == r.waitViewTimer /\ kind # "contacts"
           n == [r EXCEPT !.compose = kind, !.link = r.urlNetworkObj, !.waitViewTimer = w]
<1>1. r \in RAF /\ Fits(r) /\ Open(s) /\ r.alert = "none"
  BY ScreenTypes DEF Linked, didSelectItem
<1>2. screens' = [screens EXCEPT ![s] = n] /\ UNCHANGED <<userURLObject, campaignList>>
  BY DEF didSelectItem, stored, IInv, TypeOK
<1> HIDE DEF w
<1>3. /\ n.compose = kind /\ n.link = r.urlNetworkObj /\ n.life = r.life /\ n.alert = r.alert
      /\ n.campaignID = r.campaignID /\ n.urlNetworkObj = r.urlNetworkObj
  BY <1>1 DEF RAF
<1> HIDE DEF n
<1>4. kind = "stock" => r.urlNetworkObj = r.campaignID /\ Credited(r.campaignID)
  <2>1. kind = "stock" => r.urlNetworkObj # NoCampaign
    BY DEF didSelectItem
  <2>2. r.urlNetworkObj # NoCampaign => Credited(r.urlNetworkObj)
    BY <1>1 DEF IInv, ScreensInv, Shown
  <2> QED BY <1>1, <2>1, <2>2 DEF Fits
<1>5. Fits(n)
  BY <1>1, <1>3, <1>4 DEF Fits, Open
<1> QED BY <1>2, <1>3, <1>4, <1>5, OneLinked

\* The other actions on one screen: closed, its alert raised, its block freed, its sheet
\* gone.
LEMMA ScreenLinked ==
    ASSUME IInv, Linked, NEW s \in Screen,
           \/ closeButtonPressed(s) \/ okayButton(s)
           \/ alertForNetworkTimeout(s) \/ BlockFreed(s)
           \/ ComposeCancelled(s) \/ stockShareDone(s) \/ didSelectPost(s)
    PROVE  Linked'
<1> DEFINE r == screens[s]
<1>1. r \in RAF /\ Fits(r) /\ screens \in [Screen -> RAF]
  BY ScreenTypes DEF Linked, IInv, TypeOK
<1>2. UNCHANGED <<userURLObject, campaignList>>
  BY DEF closeButtonPressed, okayButton, alertForNetworkTimeout, BlockFreed, ComposeCancelled,
         stockShareDone, didSelectPost, stored
<1>3. CASE closeButtonPressed(s) \/ okayButton(s)
  <2> DEFINE n == [r EXCEPT !.life = "closed", !.waitViewTimer = FALSE, !.alert = "none"]
  <2>1. screens' = [screens EXCEPT ![s] = n]
    BY <1>3 DEF closeButtonPressed, okayButton, dismissed
  <2>2. r.compose # "stock"
    BY <1>1, <1>3 DEF closeButtonPressed, okayButton, Fits
  <2>3. n.compose = r.compose /\ n.campaignID = r.campaignID /\ n.urlNetworkObj = r.urlNetworkObj
    BY <1>1 DEF RAF
  <2> HIDE DEF n
  <2>4. Fits(n)
    BY <1>1, <2>2, <2>3 DEF Fits
  <2> QED BY <1>2, <2>1, <2>2, <2>3, <2>4, OneLinked
<1>4. CASE alertForNetworkTimeout(s)
  <2> DEFINE a == raise(r, "networkTimeOut")
             n == [r EXCEPT !.waitViewTimer = FALSE, !.alert = a]
  <2>1. screens' = [screens EXCEPT ![s] = n]
    BY <1>1, <1>4 DEF alertForNetworkTimeout
  <2>2. r.compose = "stock" => a = r.alert
    BY DEF raise
  <2> HIDE DEF a
  <2>3. /\ n.compose = r.compose /\ n.campaignID = r.campaignID /\ n.alert = a /\ n.life = r.life
        /\ n.link = r.link /\ n.urlNetworkObj = r.urlNetworkObj
    BY <1>1 DEF RAF
  <2> HIDE DEF n
  <2>4. Fits(n)
    BY <1>1, <2>2, <2>3 DEF Fits
  <2> QED BY <1>2, <2>1, <2>3, <2>4, OneLinked
<1>5. CASE BlockFreed(s)
  <2> DEFINE n == [r EXCEPT !.held = FALSE]
  <2>1. screens' = [screens EXCEPT ![s] = n]
    BY <1>1, <1>5 DEF BlockFreed
  <2>2. /\ n.compose = r.compose /\ n.campaignID = r.campaignID /\ n.alert = r.alert
        /\ n.life = r.life /\ n.link = r.link /\ n.urlNetworkObj = r.urlNetworkObj
    BY <1>1 DEF RAF
  <2> HIDE DEF n
  <2>3. Fits(n)
    BY <1>1, <2>2 DEF Fits
  <2> QED BY <1>2, <2>1, <2>2, <2>3, OneLinked
<1>6. CASE ComposeCancelled(s) \/ stockShareDone(s) \/ didSelectPost(s)
  <2> DEFINE n == [r EXCEPT !.compose = "none", !.link = NoCampaign]
  <2>1. screens' = [screens EXCEPT ![s] = n]
    BY <1>6 DEF ComposeCancelled, stockShareDone, didSelectPost, composed
  <2>2. n.compose = "none" /\ n.campaignID = r.campaignID /\ n.urlNetworkObj = r.urlNetworkObj
    BY <1>1 DEF RAF
  <2> HIDE DEF n
  <2>3. Fits(n)
    BY <1>1, <2>2 DEF Fits
  <2> QED BY <1>2, <2>1, <2>2, <2>3, OneLinked
<1> QED BY <1>3, <1>4, <1>5, <1>6

\* A stock share posts the link of its campaign, and what is stored then is of that
\* campaign or nothing; no other action credits a stock share.
LEMMA CreditStep ==
    ASSUME IInv, LInv, [Next]_vars
    PROVE  StockCreditsItsLink'
<1>1. CASE misCredited' = misCredited
  BY <1>1 DEF LInv, StockCreditsItsLink
<1>2. ASSUME NEW s \in Screen, stockShareDone(s) PROVE StockCreditsItsLink'
  <2>1. screens[s].link = screens[s].campaignID /\ Credited(screens[s].campaignID)
    BY <1>2 DEF stockShareDone, LInv, Linked, Fits, Stored
  <2>2. misCredited' = misCredited
    BY <1>2, <2>1 DEF stockShareDone, sendShareTrack
  <2> QED BY <2>2, <1>1
<1>3. ASSUME NEW link \in Campaign, PostSucceeds(link) PROVE StockCreditsItsLink'
  BY <1>3 DEF PostSucceeds, sendShareTrack, LInv, StockCreditsItsLink
<1>4. \/ misCredited' = misCredited
      \/ \E s \in Screen : stockShareDone(s)
      \/ \E link \in Campaign : PostSucceeds(link)
  <2>1. CASE UNCHANGED vars
    BY <2>1 DEF vars
  <2>2. CASE Next
    BY <2>2 DEF Next, identify, unidentify, presentRAFForCampaign, AMBInputAlertActionButtonTapped,
       EmailPromptCancelled, closeButtonPressed, okayButton, ListArrives, ListRepeated,
       PusherReceived, RequestRefused, SocketCloses, alertForNetworkTimeout, BlockFreed,
       didSelectItem, ComposeCancelled, didSelectPost, PostFails
  <2> QED BY <2>1, <2>2
<1> QED BY <1>1, <1>2, <1>3, <1>4

\* Steps that leave the screens and what is stored alone.
LEMMA ScreensLeftAlone ==
    ASSUME Linked, screens' = screens, Forgets
    PROVE  Linked'
BY ForgettingCredits DEF Linked, Stored, Fits

LEMMA LinkedStep ==
    ASSUME IInv, LInv, [Next]_vars
    PROVE  Linked'
<1> USE DEF LInv
<1>1. CASE UNCHANGED vars
  BY <1>1, ScreensLeftAlone DEF vars, stored, Forgets
<1>2. CASE \/ identify \/ unidentify \/ EmailPromptCancelled \/ SocketCloses
           \/ \E r \in Screen \cup {HostIdentify} : RequestRefused(r)
           \/ \E link \in Campaign : PostSucceeds(link) \/ PostFails(link)
  <2>1. screens' = screens /\ Forgets
    BY <1>2 DEF identify, localIdentify, unidentify, EmailPromptCancelled, SocketCloses,
                RequestRefused, PostSucceeds, PostFails, stored, Forgets
  <2> QED BY <2>1, ScreensLeftAlone
<1>3. ASSUME NEW c \in Campaign, presentRAFForCampaign(c) PROVE Linked'
  <2>1. \A s \in Screen : ~Open(s)
    BY <1>3 DEF presentRAFForCampaign
  <2>2. viewDidLoad(c) \/ (screens' = screens /\ Forgets)
    BY <1>3 DEF presentRAFForCampaign, Forgets
  <2> QED BY <2>1, <2>2, AppearsLinked, ScreensLeftAlone
<1>4. CASE AMBInputAlertActionButtonTapped
  <2>1. tempCampID \in Campaign /\ \A s \in Screen : ~Open(s)
    BY <1>4 DEF AMBInputAlertActionButtonTapped, IInv, TypeOK, SomeCampaign, PromptAlone
  <2>2. PICK c \in Campaign : loadAndWait(c)
    BY <1>4, <2>1 DEF AMBInputAlertActionButtonTapped
  <2> QED BY <2>1, <2>2, WaitsLinked
<1>5. CASE ListArrives \/ ListRepeated
  <2>1. PICK r \in asked, list \in Answer, before \in SUBSET asked :
           PusherReceived(r, list, before)
    BY <1>5 DEF ListArrives, ListRepeated
  <2>2. /\ handleList(Observers, list, screens, loadingView, before)
        /\ presented' = presented /\ campaignList' = list
    BY <2>1 DEF PusherReceived
  <2>3. IInv'
    BY NextKeeps
  <2> QED BY <2>2, <2>3, ListLinked
<1>6. ASSUME NEW s \in Screen, NEW kind \in Compose, didSelectItem(s, kind) PROVE Linked'
  BY <1>6, SelectLinked
<1>7. ASSUME NEW s \in Screen,
             \/ closeButtonPressed(s) \/ okayButton(s)
             \/ alertForNetworkTimeout(s) \/ BlockFreed(s)
             \/ ComposeCancelled(s) \/ stockShareDone(s) \/ didSelectPost(s)
      PROVE  Linked'
  BY <1>7, ScreenLinked
<1> QED BY <1>1, <1>2, <1>3, <1>4, <1>5, <1>6, <1>7 DEF Next

LEMMA LinkedInit == ASSUME Init PROVE LInv
<1>1. \A s \in Screen : screens[s] = Unused
  BY DEF Init
<1>2. Fits(Unused) /\ Unused.compose = "none"
  BY DEF Unused, Fits
<1> QED BY <1>1, <1>2 DEF LInv, Linked, Stored, StockCreditsItsLink, Init

\* didSelectItem and the completion of the compose sheet: for any lists that arrive and
\* any closed screens that handle them while the user writes, a Facebook or Twitter post
\* credits the campaign whose link it has, or none while the stored list lacks it.
THEOREM StockCredited == Spec => []StockCreditsItsLink
<1>1. Init => IInv /\ LInv
  BY InitHolds, LinkedInit
<1>2. IInv /\ LInv /\ [Next]_vars => IInv' /\ LInv'
  BY NextKeeps, LinkedStep, CreditStep DEF LInv
<1>3. LInv => StockCreditsItsLink
  BY DEF LInv
<1> QED BY <1>1, <1>2, <1>3, PTL DEF Spec
==============================================================================
