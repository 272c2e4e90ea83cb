---------------------------- MODULE AMBConversion ----------------------------
(***************************************************************************)
(* Conversion tracking: AmbassadorSDK's registration of a conversion,      *)
(* AMBConversion's send and retry, the Core Data table of unsent           *)
(* conversions, the install flag in NSUserDefaults and the conversion      *)
(* endpoint of the Ambassador service.                                     *)
(*                                                                         *)
(* Every handler below runs on the main queue (AMBNetworkManager creates   *)
(* its session with the main queue as delegate queue), so a handler is one *)
(* step.  Between two steps anything may happen: other registrations, a    *)
(* retry pass, the server's processing, the death of the process.          *)
(***************************************************************************)
EXTENDS Integers

CONSTANTS
    Conversion,   \* calls of trackEvent / registerConversion, one element per call
    Restricted,   \* the calls made with restrictToInstall set to YES
    MaxPasses,    \* bound: first sends plus retry passes over the table
    MaxRows       \* bound: a retry pass starts only while fewer rows were ever saved

ASSUME ConversionAssumption ==
    /\ Restricted \subseteq Conversion
    /\ MaxPasses \in Nat
    /\ MaxRows \in Nat

VARIABLES
    \* survives the process
    identity,     \* which of cookie code and fingerprint NSUserDefaults holds
    hasInstalled, \* the install flag in NSUserDefaults
    store,        \* rows of AMBConversionParametersEntity in Core Data
    nextRow,      \* identity of the next row
    \* dies with the process
    running,      \* self.conversion exists: runWithUniversalToken was called
    tasks,        \* conversion POSTs the URL session has not answered yet
    pass,         \* number of the last send or retry pass
    \* seen from outside
    outcome,      \* what the completion block of each call was told
    accepted,     \* how often the server accepted each conversion
    confirmed     \* conversions a success answer has reached the SDK for

defaults == <<identity, hasInstalled>>
table == <<store, nextRow>>
network == <<tasks, pass>>
vars == <<identity, hasInstalled, store, nextRow, running, tasks, pass,
          outcome, accepted, confirmed>>

NoRow == 0
Row == [id : Nat \ {NoRow}, conv : Conversion]

\* A POST in flight: the pass that created it, the row it re-sends (NoRow for
\* the first attempt), its conversion, and whether the server has taken it.
Task == [pass : Nat, row : Nat, conv : Conversion, accepted : BOOLEAN]

IdentityPart == {"mbsy_short_code", "fp"}

Outcome == {"idle", "waiting", "ConversionSuccessful", "ConversionPending",
            "ConversionError", "dropped", "killed"}

TypeOK ==
    /\ identity \subseteq IdentityPart
    /\ hasInstalled \in BOOLEAN
    /\ store \subseteq Row
    /\ nextRow \in Nat \ {NoRow}
    /\ running \in BOOLEAN
    /\ tasks \subseteq Task
    /\ pass \in Nat
    /\ outcome \in [Conversion -> Outcome]
    /\ accepted \in [Conversion -> Nat]
    /\ confirmed \subseteq Conversion

Init ==
    /\ identity = {}
    /\ hasInstalled = FALSE
    /\ store = {}
    /\ nextRow = 1
    /\ running = FALSE
    /\ tasks = {}
    /\ pass = 0
    /\ outcome = [c \in Conversion |-> "idle"]
    /\ accepted = [c \in Conversion |-> 0]
    /\ confirmed = {}

------------------------------------------------------------------------------
(* The table.  Here and below an operator named after another one with a    *)
(* suffix (saveNewObject_Request) is not part of the model: it states a slip *)
(* in that place which the properties have to notice.                        *)

\* A new row for the conversion of a failed POST, whichever row it came from.
saveNewObject(t) ==
    /\ store' = store \cup {[id |-> nextRow, conv |-> t.conv]}
    /\ nextRow' = nextRow + 1

\* Nothing happens when the row is gone already.
deleteCoreDataObject(id) == store' = {r \in store : r.id # id}

------------------------------------------------------------------------------
(* Sending *)

canSendConversion == identity # {}

\* One POST of each pair of row and conversion in sends, as one pass.
sendConversion(sends) ==
    /\ pass < MaxPasses
    /\ pass' = pass + 1
    /\ tasks' = tasks \cup
         {[pass |-> pass + 1, row |-> s.id, conv |-> s.conv, accepted |-> FALSE] :
            s \in sends}

\* Every stored conversion is posted again, those in flight included.
retryUnsentConversions ==
    \/ /\ canSendConversion
       /\ store # {}
       /\ nextRow <= MaxRows
       /\ sendConversion(store)
    \/ /\ ~canSendConversion \/ store = {}
       /\ UNCHANGED network

Report(c, o) == outcome' = [outcome EXCEPT ![c] = o]

------------------------------------------------------------------------------
(* The calls the application makes *)

localRunWithUniversalToken ==
    /\ running' = TRUE
    /\ retryUnsentConversions
    /\ UNCHANGED <<defaults, table, outcome, accepted, confirmed>>

\* An install-only call after the flag is set is refused before anything else.
RefuseInstalled(c) ==
    /\ c \in Restricted
    /\ hasInstalled
    /\ Report(c, "ConversionError")
    /\ UNCHANGED network

\* Before runWithUniversalToken the call goes to nil: nobody answers.
DropUnstarted(c) ==
    /\ ~running
    /\ Report(c, "dropped")
    /\ UNCHANGED network

\* checkForError found a required property missing.
RefuseMalformed(c) ==
    /\ running
    /\ Report(c, "ConversionError")
    /\ UNCHANGED network

\* Neither cookie code nor fingerprint: reported as pending and not kept.
HoldUnidentified(c) ==
    /\ running
    /\ ~canSendConversion
    /\ Report(c, "ConversionPending")
    /\ UNCHANGED network

SendFirst(c) ==
    /\ running
    /\ canSendConversion
    /\ Report(c, "waiting")
    /\ sendConversion({[id |-> NoRow, conv |-> c]})

localRegisterConversion(c) ==
    /\ outcome[c] = "idle"
    /\ \/ RefuseInstalled(c)
       \/ /\ ~(c \in Restricted /\ hasInstalled)
          /\ \/ DropUnstarted(c)
             \/ RefuseMalformed(c)
             \/ HoldUnidentified(c)
             \/ SendFirst(c)
    /\ UNCHANGED <<defaults, table, running, accepted, confirmed>>

------------------------------------------------------------------------------
(* The rest of the SDK, as far as conversions notice it *)

\* An identify_action event stores the fingerprint, the cookie code or both.
IdentityArrives ==
    /\ \E part \in SUBSET IdentityPart : identity' = identity \cup part
    /\ UNCHANGED <<hasInstalled, table, running, network, outcome, accepted, confirmed>>

\* AMBPusherManager.closeSocket ends with a retry.
RetryAfterIdentify ==
    /\ running
    /\ retryUnsentConversions
    /\ UNCHANGED <<defaults, table, running, outcome, accepted, confirmed>>

------------------------------------------------------------------------------
(* The server and the answers *)

ServerAccepts(t) ==
    /\ ~t.accepted
    /\ tasks' = (tasks \ {t}) \cup {[t EXCEPT !.accepted = TRUE]}
    /\ accepted' = [accepted EXCEPT ![t.conv] = @ + 1]
    /\ UNCHANGED <<defaults, table, running, pass, outcome, confirmed>>

successAnswer_AnyStatus(t) == TRUE

\* An answer with a 2xx status: the server has taken the conversion.
successAnswer(t) == t.accepted

markInstalled_Always(c) == hasInstalled' = TRUE

markInstalled(c) == hasInstalled' = (hasInstalled \/ c \in Restricted)

tellPending_Silent(t) == UNCHANGED outcome

\* Only the first attempt has somebody to tell.
tellPending(t) ==
    \/ t.row = NoRow /\ Report(t.conv, "ConversionPending")
    \/ t.row # NoRow /\ UNCHANGED outcome

\* A 2xx answer: the first attempt reports success and raises the install
\* flag of a restricted call; a retry deletes the row it was read from.
DidSucceed(t) ==
    /\ successAnswer(t)
    /\ tasks' = tasks \ {t}
    /\ confirmed' = confirmed \cup {t.conv}
    /\ \/ /\ t.row = NoRow
          /\ markInstalled(t.conv)
          /\ Report(t.conv, "ConversionSuccessful")
          /\ UNCHANGED store
       \/ /\ t.row # NoRow
          /\ deleteCoreDataObject(t.row)
          /\ UNCHANGED <<hasInstalled, outcome>>
    /\ UNCHANGED <<identity, nextRow, running, pass, accepted>>

\* Any other status, a network error or a timeout, whatever the server did:
\* the conversion is saved as a new row, also when it came from a row.
DidFail(t) ==
    /\ tasks' = tasks \ {t}
    /\ saveNewObject(t)
    /\ tellPending(t)
    /\ UNCHANGED <<defaults, running, pass, accepted, confirmed>>

\* The process dies; the table and NSUserDefaults survive.
Terminate ==
    /\ running' = FALSE
    /\ tasks' = {}
    /\ outcome' = [c \in Conversion |->
                     IF outcome[c] = "waiting" THEN "killed" ELSE outcome[c]]
    /\ UNCHANGED <<defaults, table, pass, accepted, confirmed>>

Answer == \E t \in tasks : DidSucceed(t) \/ DidFail(t)

Next ==
    \/ localRunWithUniversalToken
    \/ \E c \in Conversion : localRegisterConversion(c)
    \/ IdentityArrives
    \/ RetryAfterIdentify
    \/ \E t \in tasks : ServerAccepts(t)
    \/ Answer
    \/ Terminate

\* The URL session calls the completion handler of every task, with an error
\* when the request times out; nothing else is owed to anybody.
Spec == Init /\ [][Next]_vars /\ WF_vars(Answer)

------------------------------------------------------------------------------
(* Properties *)

Stored(c) == \E r \in store : r.conv = c
InFlight(c) == \E t \in tasks : t.conv = c
ServerHas(c) == accepted[c] > 0

\* A call answered with ConversionError (restricted after the install, or
\* malformed) never reaches the table, the network or the server, in this
\* process or a later one.
ErrorNeverSent ==
    \A c \in Conversion :
        outcome[c] \in {"idle", "dropped", "ConversionError"}
            => ~Stored(c) /\ ~InFlight(c) /\ ~ServerHas(c)

\* The install flag is raised by nothing short of a confirmed install: some
\* restricted call was answered ConversionSuccessful and the server has it.
InstallFlagEarned ==
    hasInstalled =>
        \E c \in Restricted : outcome[c] = "ConversionSuccessful" /\ ServerHas(c)

\* A call answered ConversionSuccessful was taken exactly once: no row and no
\* POST of it is left over to deliver it again, whatever retries and restarts
\* ran in between.
SuccessIsExactlyOnce ==
    \A c \in Conversion :
        outcome[c] = "ConversionSuccessful"
            => accepted[c] = 1 /\ ~Stored(c) /\ ~InFlight(c)

\* A call whose first attempt is in flight gets its completion (ConversionSuccessful
\* or ConversionPending) unless the process dies first.
CompletionDelivered ==
    \A c \in Conversion :
        outcome[c] = "waiting"
            ~> outcome[c] \in {"ConversionSuccessful", "ConversionPending", "killed"}

\* The persistent half implements the at-least-once delivery promise.
Delivery == INSTANCE AMBConversionDelivery WITH
    owed <- {r.conv : r \in store} \ {c \in Conversion : ServerHas(c)},
    delivered <- {c \in Conversion : ServerHas(c)}

DeliveryKept == Delivery!DSpec
==============================================================================
