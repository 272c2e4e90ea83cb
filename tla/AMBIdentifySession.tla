------------------------ MODULE AMBIdentifySession -------------------------
(***************************************************************************)
(* An identify call from beginning to end: AmbassadorSDK asks the service  *)
(* for a Pusher session, an AMBPusherManager subscribes to its channel,    *)
(* the identify request is sent, the device is identified (AMBIdentify),   *)
(* and the events on the channel bring fingerprint and campaign list.      *)
(* AMBServiceSelector takes the same way to enroll the user in a campaign. *)
(*                                                                         *)
(* Every call makes a new manager and names it, its session request and    *)
(* the channel the service opens for it.  A replaced manager lives on as   *)
(* long as an event handler or a queued completion holds it; when it is    *)
(* freed its client disconnects, and its record means nothing any more.    *)
(* The callbacks use sdk.pusherManager, that is the manager which is       *)
(* current when they run.                                                  *)
(***************************************************************************)
EXTENDS AMBIdentify, FiniteSets

CONSTANTS
    User,
    NoUser,
    UserOf,           \* whom each identify call identifies
    Enroll,           \* the calls that are AMBServiceSelector's attemptAutoEnroll
    MaxTroubles       \* bound: requests that fail and connections that are lost

ASSUME SessionAssumption ==
    /\ NoUser \notin User
    /\ Enroll \subseteq Silent
    /\ UserOf \in [Call \ Enroll -> User]
    /\ MaxTroubles \in Nat

VARIABLES
    \* NSUserDefaults
    user,               \* the stored identify object
    campaignList,       \* whose campaign list is stored
    pusherChannel,      \* the stored channel object
    \* AmbassadorSDK
    identifyInProgress,
    pusherManager,      \* the current manager
    started,            \* calls that have asked for a session
    managers,           \* all of them
    \* in the network
    requests,           \* session requests without an answer
    identified,         \* identify requests: the user and the channel to answer on
    payloads,           \* campaign lists being fetched from a URL
    losses,             \* how many connections were lost that are made again
    outages             \* how many requests failed or connections ended for good

sdk == <<user, campaignList, pusherChannel, identifyInProgress, pusherManager, managers, started>>
network == <<requests, identified, payloads, losses, outages>>
sessionVars == <<vars, sdk, network>>

Manager ==
    [campaignListRecieved : BOOLEAN,     \* the code's spelling
     completion : Call \cup {NoCall},    \* the call whose block it holds
     channel : Call \cup {NoCall},       \* the last channel it subscribed to
     connected : BOOLEAN,               \* its client is, or is about to be
     reconnect : BOOLEAN,               \* a reconnect is queued, after a delay
     subscribed : SUBSET Call,           \* channels its client wants
     confirmed : SUBSET Call,            \* those the service delivers events on
     bound : SUBSET Call,                \* those with an identify_action handler
     callbacks : Nat,                    \* completions queued on the main queue
     closed : SUBSET Call]               \* history: channels that closeSocket gave up

SessionTypeOK ==
    /\ user \in User \cup {NoUser}
    /\ campaignList \in User \cup {NoUser}
    /\ pusherChannel \in Call \cup {NoCall}
    /\ identifyInProgress \in BOOLEAN
    /\ pusherManager \in Call \cup {NoCall}
    /\ managers \in [Call -> Manager]
    /\ started \subseteq Call
    /\ requests \subseteq Call
    /\ identified \subseteq User \X Call
    /\ payloads \subseteq User
    /\ losses \in Nat
    /\ outages \in Nat
    /\ losses + outages <= MaxTroubles

NewManager ==
    [campaignListRecieved |-> FALSE, completion |-> NoCall, channel |-> NoCall,
     connected |-> FALSE, reconnect |-> FALSE, subscribed |-> {}, confirmed |-> {},
     bound |-> {}, callbacks |-> 0, closed |-> {}]

SessionInit ==
    /\ Init
    /\ user = NoUser
    /\ campaignList = NoUser
    /\ pusherChannel = NoCall
    /\ identifyInProgress = FALSE
    /\ pusherManager = NoCall
    /\ managers = [c \in Call |-> NewManager]
    /\ started = {}
    /\ requests = {}
    /\ identified = {}
    /\ payloads = {}
    /\ losses = 0
    /\ outages = 0

------------------------------------------------------------------------------
(* Parts of the handlers *)

\* The managers of ms whose closeSocket would go through: the answer of the
\* backend is in and the device is identified.
closable_AnyTime(ms, complete) == {m \in Call : ms[m].campaignListRecieved}

closable(ms, complete) == {m \in Call : complete /\ ms[m].campaignListRecieved}

disconnect_StaysSubscribed(m) ==
    [m EXCEPT !.connected = FALSE, !.confirmed = @ \ {m.channel},
              !.closed = @ \cup ({m.channel} \ {NoCall})]

\* The client disconnects and unsubscribes from the last channel it took.  Events
\* of other channels that are under way still arrive, and a reconnect that is
\* already queued is not taken back.
disconnect(m) ==
    [m EXCEPT !.connected = FALSE, !.confirmed = @ \ {m.channel},
              !.subscribed = @ \ {m.channel}, !.bound = @ \ {m.channel},
              !.closed = @ \cup ({m.channel} \ {NoCall})]

\* closeSocket of the managers in closing, with the flags that are AmbassadorSDK's.
\* It ends with a retry of the unsent conversions, which is AMBConversion's.
closeSockets(ms, closing) ==
    /\ managers' = [m \in Call |-> IF m \in closing THEN disconnect(ms[m]) ELSE ms[m]]
    /\ identifyInProgress' = (identifyInProgress /\ closing = {})
    /\ pusherChannel' = IF closing = {} THEN pusherChannel ELSE NoCall

\* The current manager, if the step of AMBIdentify has called its closeSocket.
askedToClose(ms) ==
    IF identify'.closeSocket
    THEN {pusherManager} \cap closable(ms, identify'.identifyProcessComplete)
    ELSE {}

received_Lost(m) == managers

takesList(m) == [m EXCEPT !.campaignListRecieved = TRUE]

received(m) == [managers EXCEPT ![m] = takesList(@)]

\* subscribeToPusherWithSuccess: a new manager and a request for a session.
subscribeToPusher(c) ==
    /\ c \notin started
    /\ started' = started \cup {c}
    /\ pusherManager' = c
    /\ requests' = requests \cup {c}
    /\ UNCHANGED <<pusherChannel, managers, identified, payloads, losses, outages>>

\* The request names the stored user and the stored channel; without either the
\* service has nobody to tell.
sendIdentify ==
    identified' = identified \cup
        ({user} \ {NoUser}) \X ({pusherChannel} \ {NoCall})

binds(m) == [m EXCEPT !.bound = @ \cup {m.channel}]

\* bindToChannelEvent on the current manager's channel, if it has one.
bindCurrent(ms) ==
    IF pusherManager = NoCall \/ ms[pusherManager].channel = NoCall THEN ms
    ELSE [ms EXCEPT ![pusherManager] = binds(@)]

------------------------------------------------------------------------------
(* Calls *)

\* The previous user's campaign list goes before anything is sent.
localIdentify(c) ==
    /\ c \notin Enroll
    /\ identifyInProgress' = TRUE
    /\ user' = UserOf[c]
    /\ campaignList' = NoUser
    /\ subscribeToPusher(c)
    /\ UNCHANGED vars

unidentify ==
    /\ user # NoUser
    /\ user' = NoUser
    /\ campaignList' = NoUser
    /\ UNCHANGED <<vars, pusherChannel, identifyInProgress, pusherManager, managers,
                   started, network>>

\* The RAF screen needs the campaign: there is no list and no identify that
\* could bring one, or the list does not have it.
attemptAutoEnroll(c) ==
    /\ c \in Enroll
    /\ user # NoUser
    /\ campaignList # NoUser \/ ~identifyInProgress
    /\ subscribeToPusher(c)
    /\ UNCHANGED <<vars, user, campaignList, identifyInProgress>>

------------------------------------------------------------------------------
(* The session and the subscription *)

takesChannel(m, c) ==
    [m EXCEPT !.completion = c, !.channel = c, !.connected = TRUE, !.subscribed = @ \cup {c}]

\* Whichever manager is current takes the channel.
SessionGranted(c) ==
    /\ c \in requests
    /\ requests' = requests \ {c}
    /\ pusherChannel' = c
    /\ managers' = [managers EXCEPT ![pusherManager] = takesChannel(@, c)]
    /\ UNCHANGED <<vars, user, campaignList, identifyInProgress, pusherManager, started,
                   identified, payloads, losses, outages>>

\* No access, another status or a network error: nothing is undone.
SessionRefused(c) ==
    /\ c \in requests
    /\ losses + outages < MaxTroubles
    /\ requests' = requests \ {c}
    /\ outages' = outages + 1
    /\ UNCHANGED <<vars, sdk, identified, payloads, losses>>

\* A replaced manager is freed unless a handler bound to a channel, or a queued
\* completion, still holds it.
alive(m) == m = pusherManager \/ managers[m].bound # {} \/ managers[m].callbacks > 0

confirms(m, k) == [m EXCEPT !.confirmed = @ \cup {k}, !.callbacks = @ + 1]

\* The service confirms a subscription, once per connection, and the completion
\* is queued on the main queue.
didSubscribeToChannel(m, k) ==
    /\ alive(m)
    /\ managers[m].connected
    /\ k \in managers[m].subscribed \ managers[m].confirmed
    /\ managers' = [managers EXCEPT ![m] = confirms(@, k)]
    /\ UNCHANGED <<vars, user, campaignList, pusherChannel, identifyInProgress,
                   pusherManager, started, network>>

loses(m, again) ==
    [m EXCEPT !.connected = FALSE, !.confirmed = {}, !.reconnect = @ \/ again]

\* The connection is lost, and AMBPTPusher queues a reconnect.
ConnectionLost(m) ==
    /\ alive(m)
    /\ managers[m].connected
    /\ losses + outages < MaxTroubles
    /\ losses' = losses + 1
    /\ managers' = [managers EXCEPT ![m] = loses(@, TRUE)]
    /\ UNCHANGED <<vars, user, campaignList, pusherChannel, identifyInProgress,
                   pusherManager, started, requests, identified, payloads, outages>>

\* It could not be made, was refused, or was lost too often: nobody is told.
ConnectionEnds(m) ==
    /\ alive(m)
    /\ managers[m].connected
    /\ losses + outages < MaxTroubles
    /\ outages' = outages + 1
    /\ managers' = [managers EXCEPT ![m] = loses(@, FALSE)]
    /\ UNCHANGED <<vars, user, campaignList, pusherChannel, identifyInProgress,
                   pusherManager, started, requests, identified, payloads, losses>>

reconnects(m) == [m EXCEPT !.connected = TRUE, !.reconnect = FALSE]

\* The queued reconnect, also when closeSocket has disconnected in the meantime.
ReconnectFires(m) ==
    /\ alive(m)
    /\ managers[m].reconnect
    /\ managers' = [managers EXCEPT ![m] = reconnects(@)]
    /\ UNCHANGED <<vars, user, campaignList, pusherChannel, identifyInProgress,
                   pusherManager, started, network>>

runsBlock(m) == [m EXCEPT !.callbacks = @ - 1]

\* The queued completion runs: the block the manager holds now.
subscribed(m) ==
    /\ managers[m].callbacks > 0
    /\ sendIdentify
    /\ LET c  == managers[m].completion
           ms == bindCurrent([managers EXCEPT ![m] = runsBlock(@)])
       IN  /\ IF c \in Enroll
              THEN identify' = self /\ UNCHANGED <<asked, observing>>
              ELSE askForDevice(c)
           /\ closeSockets(ms, askedToClose(ms))
    /\ UNCHANGED <<fingerprint, sheetUp, sheets, user, campaignList, pusherManager, started,
                   requests, payloads, losses, outages>>

------------------------------------------------------------------------------
(* Events *)

\* Manager m gets an identify_action event on channel k.
listens(m, k) == k \in managers[m].confirmed \cap managers[m].bound

saveList(u) == campaignList' = u

\* A campaign list, with or without the device's fingerprint.
ListEvent(m, e) ==
    /\ listens(m, e[2])
    /\ saveList(e[1])
    /\ fingerprint' \in {fingerprint, TRUE}
    /\ identify' = self
    /\ LET ms == received(m)
       IN  closeSockets(ms, {m} \cap closable(ms, identify.identifyProcessComplete))
    /\ UNCHANGED <<observing, sheetUp, sheets, asked, user, pusherManager, started, network>>

\* The list is too large for an event: it has to be fetched from a URL.
UrlEvent(m, e) ==
    /\ listens(m, e[2])
    /\ payloads' = payloads \cup {e[1]}
    /\ identify' = self
    /\ LET ms == received(m)
       IN  closeSockets(ms, {m} \cap closable(ms, identify.identifyProcessComplete))
    /\ UNCHANGED <<environment, user, campaignList, pusherManager, started, requests,
                   identified, losses, outages>>

PayloadArrives(u) ==
    /\ u \in payloads
    /\ payloads' = payloads \ {u}
    /\ saveList(u)
    /\ fingerprint' \in {fingerprint, TRUE}
    /\ identify' = self
    /\ UNCHANGED <<observing, sheetUp, sheets, asked, user, pusherChannel, identifyInProgress,
                   pusherManager, managers, started, requests, identified, losses,
                   outages>>

PayloadFails(u) ==
    /\ u \in payloads
    /\ losses + outages < MaxTroubles
    /\ payloads' = payloads \ {u}
    /\ outages' = outages + 1
    /\ UNCHANGED <<vars, sdk, requests, identified, losses>>

\* The page has reported the device, and a cookie code was found for it.
CookieEvent(m, k) ==
    /\ listens(m, k)
    /\ DeviceInfo
    /\ closeSockets(managers, askedToClose(managers))
    /\ UNCHANGED <<user, campaignList, pusherManager, started, network>>

\* The page has reported the device and no cookie code was found.
FingerprintEvent(m, k) ==
    /\ listens(m, k)
    /\ DeviceInfo
    /\ LET ms == received(m)
       IN  closeSockets(ms, askedToClose(ms) \cup
                            ({m} \cap closable(ms, identify.identifyProcessComplete)))
    /\ UNCHANGED <<user, campaignList, pusherManager, started, network>>

\* The entries of AMBIdentify that are not caused by an event.
DeviceStep ==
    /\ \/ TimerFires
       \/ FinishedTimerFires
       \/ PageDismissed
       \/ safariViewControllerDidFinish
       \/ didCompleteInitialLoad
       \/ MinimumTimePasses
    /\ closeSockets(managers, askedToClose(managers))
    /\ UNCHANGED <<user, campaignList, pusherManager, started, network>>

AnyList == \E m \in Call : \E e \in identified : ListEvent(m, e) \/ UrlEvent(m, e)
AnyDevice == \E m, k \in Call : CookieEvent(m, k) \/ FingerprintEvent(m, k)

SessionNext ==
    \/ \E c \in Call : localIdentify(c)
    \/ unidentify
    \/ \E c \in Call : attemptAutoEnroll(c)
    \/ \E c \in Call : SessionGranted(c)
    \/ \E c \in Call : SessionRefused(c)
    \/ \E m, k \in Call : didSubscribeToChannel(m, k)
    \/ \E m \in Call : ConnectionLost(m)
    \/ \E m \in Call : ConnectionEnds(m)
    \/ \E m \in Call : ReconnectFires(m)
    \/ \E m \in Call : subscribed(m)
    \/ \E m \in Call, e \in identified : ListEvent(m, e)
    \/ \E m \in Call, e \in identified : UrlEvent(m, e)
    \/ \E u \in User : PayloadArrives(u)
    \/ \E u \in User : PayloadFails(u)
    \/ \E m, k \in Call : CookieEvent(m, k)
    \/ \E m, k \in Call : FingerprintEvent(m, k)
    \/ DeviceStep

SessionSpec == SessionInit /\ [][SessionNext]_sessionVars

\* A service that answers, and the fairness of AMBIdentify: blocks queued on the
\* main queue run, a queued reconnect included, timers fire, dismissals end.
HealthyService ==
    /\ WF_sessionVars(\E c \in Call : SessionGranted(c))
    /\ WF_sessionVars(\E m, k \in Call : didSubscribeToChannel(m, k))
    /\ WF_sessionVars(\E m \in Call : ReconnectFires(m))
    /\ WF_sessionVars(\E m \in Call : subscribed(m))
    /\ WF_sessionVars(AnyList)
    /\ WF_sessionVars(AnyDevice)
    /\ WF_sessionVars(\E u \in User : PayloadArrives(u))
    /\ WF_sessionVars(DeviceStep /\ identify' # identify)

HealthySpec == SessionSpec /\ HealthyService

------------------------------------------------------------------------------
(* Properties *)

Closes(m) == managers'[m].closed # managers[m].closed

\* A manager closes its socket, and has the unsent conversions sent again, only
\* when the fingerprint they need is stored: AMBPusherManager.m:158.
ClosesKnowingDevice == [][\A m \in Call : Closes(m) => fingerprint']_sessionVars

\* A channel that closeSocket has given up brings its manager no event any more,
\* "in order to avoid duplicate event actions" (AMBPusherManager.m:149): neither
\* by a completion that binds again, nor by a confirmation under way, nor by a
\* reconnect that was queued before and subscribes to all the client's channels.
ClosedChannelStaysQuiet == \A m \in Call : \A k \in managers[m].closed : ~listens(m, k)

\* With a service that answers and a user who stays, identifying ends: the flag
\* that keeps the RAF screen waiting is cleared, also when connections are lost
\* and made again.
IdentifyEnds ==
    identifyInProgress
        ~> ~identifyInProgress \/ user = NoUser \/ outages > 0

\* With a service that answers, a call that is not overtaken by another one has
\* its completion called, whatever the user does with the page, and although
\* connections are lost and made again.
CallAnswered ==
    \A c \in Call \ Silent :
        c \in started
            ~> identify.answered[c] > 0 \/ pusherManager # c \/ outages > 0
==============================================================================
