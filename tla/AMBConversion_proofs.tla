------------------------ MODULE AMBConversion_proofs ------------------------
(***************************************************************************)
(* Safety of conversion tracking for any set of calls, any subset of them  *)
(* restricted and any bounds: the type invariant, the invariants of        *)
(* AMBConversion and the implementation of AMBConversionDelivery.          *)
(***************************************************************************)
EXTENDS AMBConversion, TLAPS

\* Calls refused or never started have left no trace.
Untouched(c) == ~Stored(c) /\ ~InFlight(c) /\ accepted[c] = 0

\* The one POST of a call whose first attempt is unanswered.
OnlyAttempt(c) ==
    \E t \in tasks :
        /\ t.conv = c
        /\ t.row = NoRow
        /\ accepted[c] = IF t.accepted THEN 1 ELSE 0
        /\ \A u \in tasks : u.conv = c => u = t

\* What each answer says about the rest of the state.
OutcomeInv ==
    \A c \in Conversion :
        /\ outcome[c] \in {"idle", "dropped", "ConversionError"} => Untouched(c)
        /\ outcome[c] = "waiting" => ~Stored(c) /\ OnlyAttempt(c)
        /\ outcome[c] = "ConversionSuccessful" =>
              accepted[c] = 1 /\ ~Stored(c) /\ ~InFlight(c)
        /\ outcome[c] = "killed" => ~Stored(c) /\ ~InFlight(c)
        /\ outcome[c] = "ConversionPending" =>
              \A t \in tasks : t.conv = c => t.row # NoRow

\* Row identities are spent in order, and a POST re-sends its row's conversion.
RowInv ==
    /\ \A r \in store : r.id < nextRow
    /\ \A t \in tasks : t.row < nextRow
    /\ \A t \in tasks, r \in store : r.id = t.row => r.conv = t.conv
    /\ \A r, s \in store : r.id = s.id => r.conv = s.conv

\* A POST the server has taken is counted.
AcceptedInv == \A t \in tasks : t.accepted => ServerHas(t.conv)

IInv == TypeOK /\ OutcomeInv /\ RowInv /\ AcceptedInv /\ InstallFlagEarned

------------------------------------------------------------------------------

\* A pass only adds POSTs, unanswered ones of what it was given.
LEMMA SendingAddsTasks ==
    ASSUME TypeOK, NEW S \in SUBSET [id : Nat, conv : Conversion], sendConversion(S)
    PROVE  /\ tasks' \subseteq Task
           /\ pass' \in Nat
           /\ tasks \subseteq tasks'
           /\ \A t \in tasks' \ tasks :
                 ~t.accepted /\ \E s \in S : t.row = s.id /\ t.conv = s.conv
<1> DEFINE New == {[pass |-> pass + 1, row |-> s.id, conv |-> s.conv, accepted |-> FALSE] :
                     s \in S}
<1>1. tasks' = tasks \cup New /\ pass' = pass + 1
  BY DEF sendConversion
<1>2. pass \in Nat /\ pass' \in Nat /\ tasks \subseteq Task
  BY <1>1 DEF TypeOK
<1>3. ASSUME NEW t \in New
      PROVE  /\ t \in Task
             /\ ~t.accepted
             /\ \E s \in S : t.row = s.id /\ t.conv = s.conv
  <2>1. PICK s \in S :
          t = [pass |-> pass + 1, row |-> s.id, conv |-> s.conv, accepted |-> FALSE]
    OBVIOUS
  <2>2. pass + 1 \in Nat /\ s.id \in Nat /\ s.conv \in Conversion
    BY <1>2
  <2>3. QED
    BY <2>1, <2>2 DEF Task
<1> HIDE DEF New
<1>4. QED
  BY <1>1, <1>2, <1>3

\* A retry pass keeps the type of the network half of the state and adds POSTs
\* of stored rows only.
LEMMA RetryAddsStored ==
    ASSUME TypeOK, retryUnsentConversions
    PROVE  /\ tasks' \subseteq Task
           /\ pass' \in Nat
           /\ tasks \subseteq tasks'
           /\ \A t \in tasks' \ tasks :
                 ~t.accepted /\ \E r \in store : t.row = r.id /\ t.conv = r.conv
<1>1. CASE sendConversion(store)
  <2>1. store \in SUBSET [id : Nat, conv : Conversion]
    BY DEF TypeOK, Row
  <2>2. QED
    BY <1>1, <2>1, SendingAddsTasks
<1>2. CASE UNCHANGED network
  BY <1>2 DEF network, TypeOK
<1>3. QED
  BY <1>1, <1>2 DEF retryUnsentConversions

------------------------------------------------------------------------------

\* The initial state satisfies the inductive invariant.
LEMMA InitIInv == Init => IInv
<1> SUFFICES ASSUME Init PROVE IInv
  OBVIOUS
<1>1. TypeOK
  <2>1. outcome \in [Conversion -> Outcome] /\ accepted \in [Conversion -> Nat]
    BY DEF Init, Outcome
  <2>2. store \subseteq Row /\ tasks \subseteq Task /\ identity \subseteq IdentityPart
    BY DEF Init
  <2>3. nextRow \in Nat \ {NoRow} /\ pass \in Nat
    BY DEF Init, NoRow
  <2>4. QED
    BY <2>1, <2>2, <2>3 DEF Init, TypeOK
<1>2. \A c \in Conversion : Untouched(c) /\ outcome[c] = "idle"
  BY DEF Init, Untouched, Stored, InFlight
<1>3. OutcomeInv
  BY <1>2 DEF OutcomeInv
<1>4. RowInv /\ AcceptedInv /\ InstallFlagEarned
  BY DEF Init, RowInv, AcceptedInv, InstallFlagEarned
<1>5. QED
  BY <1>1, <1>3, <1>4 DEF IInv

\* Every step keeps the types.
LEMMA TypeStep == TypeOK /\ [Next]_vars => TypeOK'
<1> SUFFICES ASSUME TypeOK, [Next]_vars PROVE TypeOK'
  OBVIOUS
<1> USE DEF TypeOK
<1>1. CASE localRunWithUniversalToken
  BY <1>1, RetryAddsStored DEF localRunWithUniversalToken, defaults, table
<1>2. ASSUME NEW c \in Conversion, localRegisterConversion(c) PROVE TypeOK'
  <2>1. outcome' \in [Conversion -> Outcome]
    BY <1>2 DEF localRegisterConversion, RefuseInstalled, DropUnstarted, RefuseMalformed,
                HoldUnidentified, SendFirst, Report, Outcome
  <2>2. tasks' \subseteq Task /\ pass' \in Nat
    <3>1. CASE UNCHANGED network
      BY <3>1 DEF network
    <3>2. CASE sendConversion({[id |-> NoRow, conv |-> c]})
      <4>1. {[id |-> NoRow, conv |-> c]} \in SUBSET [id : Nat, conv : Conversion]
        BY DEF NoRow
      <4>2. QED
        BY <3>2, <4>1, SendingAddsTasks
    <3>3. QED
      BY <1>2, <3>1, <3>2 DEF localRegisterConversion, RefuseInstalled, DropUnstarted,
                              RefuseMalformed, HoldUnidentified, SendFirst
  <2>3. QED
    BY <1>2, <2>1, <2>2 DEF localRegisterConversion, defaults, table
<1>3. CASE IdentityArrives
  BY <1>3 DEF IdentityArrives, table, network
<1>4. CASE RetryAfterIdentify
  BY <1>4, RetryAddsStored DEF RetryAfterIdentify, defaults, table
<1>5. ASSUME NEW t \in tasks, ServerAccepts(t) PROVE TypeOK'
  <2>1. [t EXCEPT !.accepted = TRUE] \in Task /\ t.conv \in Conversion
    BY DEF Task
  <2>2. accepted' \in [Conversion -> Nat]
    BY <1>5, <2>1 DEF ServerAccepts
  <2>3. QED
    BY <1>5, <2>1, <2>2 DEF ServerAccepts, defaults, table
<1>6. ASSUME NEW t \in tasks, DidSucceed(t) PROVE TypeOK'
  <2>1. t.conv \in Conversion
    BY DEF Task
  <2>2. store' \subseteq Row /\ hasInstalled' \in BOOLEAN /\ outcome' \in [Conversion -> Outcome]
    BY <1>6, <2>1 DEF DidSucceed, successAnswer, markInstalled, deleteCoreDataObject, Report, Outcome
  <2>3. QED
    BY <1>6, <2>1, <2>2 DEF DidSucceed, successAnswer, markInstalled, deleteCoreDataObject
<1>7. ASSUME NEW t \in tasks, DidFail(t) PROVE TypeOK'
  <2>1. t.conv \in Conversion
    BY DEF Task
  <2>2. store' \subseteq Row /\ nextRow' \in Nat \ {NoRow}
    BY <1>7, <2>1 DEF DidFail, saveNewObject, tellPending, Row, NoRow
  <2>3. outcome' \in [Conversion -> Outcome]
    BY <1>7, <2>1 DEF DidFail, saveNewObject, tellPending, Report, Outcome
  <2>4. QED
    BY <1>7, <2>2, <2>3 DEF DidFail, saveNewObject, tellPending, defaults
<1>8. CASE Terminate
  <2>1. outcome' \in [Conversion -> Outcome]
    BY <1>8 DEF Terminate, Outcome
  <2>2. QED
    BY <1>8, <2>1 DEF Terminate, defaults, table
<1>9. CASE UNCHANGED vars
  BY <1>9 DEF vars
<1>10. QED
  BY <1>1, <1>2, <1>3, <1>4, <1>5, <1>6, <1>7, <1>8, <1>9 DEF Next, Answer

------------------------------------------------------------------------------
(* Preservation, action by action *)

\* A pass over S keeps the row invariant when S is the table or the first
\* attempt of a call, and taken POSTs stay counted.
LEMMA PassKeepsRows ==
    ASSUME IInv, tasks \subseteq tasks', UNCHANGED <<store, nextRow, accepted>>,
           \A t \in tasks' \ tasks :
              /\ ~t.accepted
              /\ t.row = NoRow \/ \E r \in store : t.row = r.id /\ t.conv = r.conv
    PROVE  RowInv' /\ AcceptedInv'
<1>1. \A r \in store : r.id \in Nat /\ r.id # NoRow /\ r.id < nextRow
  BY DEF IInv, TypeOK, RowInv, Row
<1>2. nextRow \in Nat /\ NoRow < nextRow
  BY DEF IInv, TypeOK, NoRow
<1>3. \A t \in tasks' : t.row < nextRow
  BY <1>1, <1>2 DEF IInv, RowInv
<1>4. \A t \in tasks', r \in store : r.id = t.row => r.conv = t.conv
  BY <1>1 DEF IInv, RowInv
<1>5. RowInv'
  <2>1. \A r, s \in store : r.id = s.id => r.conv = s.conv
    BY DEF IInv, RowInv
  <2>2. QED
    BY <1>1, <1>3, <1>4, <2>1 DEF RowInv
<1>6. AcceptedInv'
  BY DEF IInv, AcceptedInv, ServerHas
<1>7. QED
  BY <1>5, <1>6

\* A stored conversion was told ConversionPending; it has no first attempt left.
LEMMA StoredIsPending ==
    ASSUME TypeOK, OutcomeInv, NEW c \in Conversion, Stored(c)
    PROVE  outcome[c] = "ConversionPending"
  BY DEF TypeOK, OutcomeInv, Outcome, Untouched

\* A retry pass preserves the invariant.
LEMMA RetryStep ==
    ASSUME IInv, retryUnsentConversions, TypeOK',
           UNCHANGED <<store, nextRow, accepted, outcome, hasInstalled>>
    PROVE  IInv'
<1>1. /\ tasks \subseteq tasks'
      /\ \A t \in tasks' \ tasks :
            ~t.accepted /\ \E r \in store : t.row = r.id /\ t.conv = r.conv
  BY RetryAddsStored DEF IInv
<1>2. RowInv' /\ AcceptedInv'
  BY <1>1, PassKeepsRows
<1>3. \A t \in tasks' \ tasks : /\ t.row # NoRow
                                /\ t.conv \in Conversion
                                /\ outcome[t.conv] = "ConversionPending"
  <2>1. SUFFICES ASSUME NEW t \in tasks' \ tasks
                 PROVE  /\ t.row # NoRow
                        /\ t.conv \in Conversion
                        /\ outcome[t.conv] = "ConversionPending"
    OBVIOUS
  <2>2. PICK r \in store : t.row = r.id /\ t.conv = r.conv
    BY <1>1
  <2>3. r.id # NoRow /\ r.conv \in Conversion
    BY DEF IInv, TypeOK, Row
  <2>4. Stored(t.conv)
    BY <2>2 DEF Stored
  <2>5. QED
    BY <2>2, <2>3, <2>4, StoredIsPending DEF IInv
<1>4. OutcomeInv'
  <2>1. SUFFICES ASSUME NEW c \in Conversion
                 PROVE  /\ outcome[c] \in {"idle", "dropped", "ConversionError"} => Untouched(c)'
                        /\ outcome[c] = "waiting" => ~Stored(c)' /\ OnlyAttempt(c)'
                        /\ outcome[c] = "ConversionSuccessful" =>
                              accepted[c] = 1 /\ ~Stored(c)' /\ ~InFlight(c)'
                        /\ outcome[c] = "killed" => ~Stored(c)' /\ ~InFlight(c)'
                        /\ outcome[c] = "ConversionPending" =>
                              \A t \in tasks' : t.conv = c => t.row # NoRow
    BY DEF OutcomeInv
  <2>2. Stored(c)' <=> Stored(c)
    BY DEF Stored
  <2>3. CASE outcome[c] = "ConversionPending"
    BY <2>3, <1>3 DEF IInv, OutcomeInv
  <2>4. CASE outcome[c] # "ConversionPending"
    <3>1. \A t \in tasks' : t.conv = c => t \in tasks
      BY <2>4, <1>3
    <3>2. InFlight(c)' => InFlight(c)
      BY <3>1 DEF InFlight
    <3>3. OnlyAttempt(c) => OnlyAttempt(c)'
      BY <3>1, <1>1 DEF OnlyAttempt
    <3>4. QED
      BY <2>2, <2>4, <3>2, <3>3 DEF IInv, OutcomeInv, Untouched
  <2>5. QED
    BY <2>3, <2>4
<1>5. InstallFlagEarned'
  BY DEF IInv, InstallFlagEarned, ServerHas
<1>6. QED
  BY <1>2, <1>4, <1>5 DEF IInv

\* Registering a call preserves the invariant.
LEMMA RegisterStep ==
    ASSUME IInv, TypeOK', NEW c \in Conversion, localRegisterConversion(c)
    PROVE  IInv'
<1>1. Untouched(c) /\ outcome[c] = "idle"
  BY DEF localRegisterConversion, IInv, OutcomeInv
<1>2. UNCHANGED <<store, nextRow, accepted, hasInstalled>>
  BY DEF localRegisterConversion, table, defaults
<1>3. PICK o \in {"dropped", "ConversionError", "ConversionPending", "waiting"} :
        outcome' = [outcome EXCEPT ![c] = o]
  BY DEF localRegisterConversion, RefuseInstalled, DropUnstarted, RefuseMalformed,
         HoldUnidentified, SendFirst, Report
<1>4. /\ outcome'[c] = o
      /\ \A d \in Conversion : d # c => outcome'[d] = outcome[d]
  BY <1>3 DEF IInv, TypeOK
<1>5. InstallFlagEarned'
  BY <1>1, <1>2, <1>4, ConversionAssumption
     DEF IInv, InstallFlagEarned, ServerHas, ConversionAssumption
<1>6. CASE UNCHANGED network /\ o # "waiting"
  <2>1. UNCHANGED tasks
    BY <1>6 DEF network
  <2>2. RowInv' /\ AcceptedInv'
    BY <1>2, <2>1 DEF IInv, RowInv, AcceptedInv, ServerHas
  <2>3. \A d \in Conversion : /\ Stored(d)' <=> Stored(d)
                              /\ InFlight(d)' <=> InFlight(d)
                              /\ OnlyAttempt(d)' <=> OnlyAttempt(d)
                              /\ Untouched(d)' <=> Untouched(d)
    BY <1>2, <2>1 DEF Stored, InFlight, OnlyAttempt, Untouched
  <2>4. \A t \in tasks' : t.conv # c
    BY <1>1, <2>1 DEF Untouched, InFlight
  <2>5. OutcomeInv'
    BY <1>1, <1>2, <1>4, <1>6, <2>1, <2>3, <2>4 DEF IInv, OutcomeInv
  <2>6. QED
    BY <1>5, <2>2, <2>5 DEF IInv
<1>7. CASE SendFirst(c)
  <2>0. o = "waiting"
    BY <1>4, <1>7 DEF SendFirst, Report, IInv, TypeOK
  <2> DEFINE new == [pass |-> pass + 1, row |-> NoRow, conv |-> c, accepted |-> FALSE]
  <2>1. tasks' = tasks \cup {new}
    BY <1>7 DEF SendFirst, sendConversion
  <2>2. RowInv' /\ AcceptedInv'
    BY <1>2, <2>1, PassKeepsRows
  <2>3. \A t \in tasks : t.conv # c
    BY <1>1 DEF Untouched, InFlight
  <2>4. \A d \in Conversion : Stored(d)' <=> Stored(d)
    BY <1>2 DEF Stored
  <2>5. OnlyAttempt(c)'
    <3>1. new \in tasks' /\ new.conv = c /\ new.row = NoRow /\ ~new.accepted
      BY <2>1
    <3>2. accepted'[c] = 0
      BY <1>1, <1>2 DEF Untouched
    <3>3. \A u \in tasks' : u.conv = c => u = new
      BY <2>1, <2>3
    <3>4. QED
      BY <3>1, <3>2, <3>3 DEF OnlyAttempt
  <2>6. ASSUME NEW d \in Conversion, d # c
        PROVE  /\ InFlight(d)' <=> InFlight(d)
               /\ OnlyAttempt(d) => OnlyAttempt(d)'
               /\ Untouched(d) => Untouched(d)'
               /\ \A t \in tasks' : t.conv = d => t \in tasks
    <3>1. \A t \in tasks' : t.conv = d => t \in tasks
      BY <2>1, <2>6
    <3>2. tasks \subseteq tasks'
      BY <2>1
    <3>3. QED
      BY <1>2, <2>4, <3>1, <3>2 DEF InFlight, OnlyAttempt, Untouched
  <2>7. OutcomeInv'
    <3>1. SUFFICES ASSUME NEW d \in Conversion
                   PROVE  /\ outcome'[d] \in {"idle", "dropped", "ConversionError"} => Untouched(d)'
                          /\ outcome'[d] = "waiting" => ~Stored(d)' /\ OnlyAttempt(d)'
                          /\ outcome'[d] = "ConversionSuccessful" =>
                                accepted'[d] = 1 /\ ~Stored(d)' /\ ~InFlight(d)'
                          /\ outcome'[d] = "killed" => ~Stored(d)' /\ ~InFlight(d)'
                          /\ outcome'[d] = "ConversionPending" =>
                                \A t \in tasks' : t.conv = d => t.row # NoRow
      BY DEF OutcomeInv
    <3>2. CASE d = c
      BY <1>1, <1>4, <2>0, <2>4, <2>5, <3>2 DEF Untouched
    <3>3. CASE d # c
      BY <1>2, <1>4, <2>4, <2>6, <3>3 DEF IInv, OutcomeInv
    <3>4. QED
      BY <3>2, <3>3
  <2>8. QED
    BY <1>5, <2>2, <2>7 DEF IInv
<1>8. SendFirst(c) \/ (UNCHANGED network /\ o # "waiting")
  BY <1>3, <1>4 DEF localRegisterConversion, RefuseInstalled, DropUnstarted, RefuseMalformed,
         HoldUnidentified, Report, IInv, TypeOK
<1>9. QED
  BY <1>6, <1>7, <1>8

\* The server taking a POST preserves the invariant: no call with an untaken
\* POST has been answered with success.
LEMMA ServerStep ==
    ASSUME IInv, TypeOK', NEW t \in tasks, ServerAccepts(t)
    PROVE  IInv'
<1> DEFINE u == [t EXCEPT !.accepted = TRUE]
<1>1. /\ t \in Task /\ u \in Task /\ u.accepted
      /\ u.conv = t.conv /\ u.row = t.row /\ u.pass = t.pass
      /\ t.conv \in Conversion
  BY DEF IInv, TypeOK, Task
<1>2. /\ tasks' = (tasks \ {t}) \cup {u}
      /\ ~t.accepted
      /\ UNCHANGED <<store, nextRow, outcome, hasInstalled>>
  BY DEF ServerAccepts, table, defaults
<1>3. /\ accepted'[t.conv] = accepted[t.conv] + 1
      /\ \A c \in Conversion : c # t.conv => accepted'[c] = accepted[c]
      /\ \A c \in Conversion : accepted[c] \in Nat
  BY <1>1 DEF ServerAccepts, IInv, TypeOK
<1> HIDE DEF u
<1>4. \A c \in Conversion : /\ ServerHas(c) => ServerHas(c)'
                            /\ Stored(c)' <=> Stored(c)
                            /\ InFlight(c)' <=> InFlight(c)
  <2>1. ASSUME NEW c \in Conversion PROVE ServerHas(c) => ServerHas(c)'
    BY <1>3 DEF ServerHas
  <2>2. ASSUME NEW c \in Conversion PROVE Stored(c)' <=> Stored(c)
    BY <1>2 DEF Stored
  <2>3. ASSUME NEW c \in Conversion PROVE InFlight(c)' <=> InFlight(c)
    BY <1>1, <1>2 DEF InFlight
  <2>4. QED
    BY <2>1, <2>2, <2>3
<1>5. RowInv'
  BY <1>1, <1>2 DEF IInv, RowInv
<1>6. AcceptedInv'
  <2>1. ServerHas(t.conv)'
    BY <1>1, <1>3 DEF ServerHas
  <2>2. \A s \in tasks : s.conv \in Conversion
    BY DEF IInv, TypeOK, Task
  <2>3. QED
    BY <1>1, <1>2, <1>4, <2>1, <2>2 DEF IInv, AcceptedInv
<1>7. InstallFlagEarned'
  BY <1>2, <1>4, ConversionAssumption DEF IInv, InstallFlagEarned, ConversionAssumption
<1>8. OutcomeInv'
  <2>1. InFlight(t.conv)
    BY DEF InFlight
  <2>2. ASSUME NEW c \in Conversion, outcome[c] = "waiting" PROVE OnlyAttempt(c)'
    <3>1. PICK s \in tasks : /\ s.conv = c
                             /\ s.row = NoRow
                             /\ accepted[c] = IF s.accepted THEN 1 ELSE 0
                             /\ \A v \in tasks : v.conv = c => v = s
      BY <2>2 DEF IInv, OutcomeInv, OnlyAttempt
    <3>2. CASE t.conv = c
      <4>1. s = t /\ accepted'[c] = 1
        BY <1>2, <1>3, <3>1, <3>2
      <4>2. \A v \in tasks' : v.conv = c => v = u
        BY <1>2, <3>1, <4>1
      <4>3. u \in tasks' /\ u.conv = c /\ u.row = NoRow
        BY <1>1, <1>2, <3>1, <4>1
      <4>4. QED
        BY <1>1, <4>1, <4>2, <4>3 DEF OnlyAttempt
    <3>3. CASE t.conv # c
      <4>1. s # t /\ u.conv # c /\ accepted'[c] = accepted[c]
        BY <1>1, <1>3, <3>1, <3>3
      <4>2. s \in tasks' /\ \A v \in tasks' : v.conv = c => v = s
        BY <1>2, <3>1, <4>1
      <4>3. QED
        BY <3>1, <4>1, <4>2 DEF OnlyAttempt
    <3>4. QED
      BY <3>2, <3>3
  <2>3. ASSUME NEW c \in Conversion, outcome[c] = "ConversionPending"
        PROVE  \A s \in tasks' : s.conv = c => s.row # NoRow
    BY <1>1, <1>2, <2>3 DEF IInv, OutcomeInv
  <2>4. ASSUME NEW c \in Conversion, ~InFlight(c) PROVE accepted'[c] = accepted[c]
    BY <1>3, <2>1, <2>4
  <2>5. QED
    BY <1>2, <1>4, <2>2, <2>3, <2>4 DEF IInv, OutcomeInv, Untouched
<1>9. QED
  BY <1>5, <1>6, <1>7, <1>8 DEF IInv

\* A success answer preserves the invariant.
LEMMA SucceedStep ==
    ASSUME IInv, TypeOK', NEW t \in tasks, DidSucceed(t)
    PROVE  IInv'
<1>1. /\ t \in Task /\ t.conv \in Conversion /\ t.accepted /\ ServerHas(t.conv)
      /\ tasks' = tasks \ {t}
      /\ store' \subseteq store
      /\ UNCHANGED <<nextRow, accepted>>
  BY DEF DidSucceed, successAnswer, markInstalled, deleteCoreDataObject, IInv, TypeOK, Task, AcceptedInv
<1>2. RowInv' /\ AcceptedInv'
  BY <1>1 DEF IInv, RowInv, AcceptedInv, ServerHas
<1>3. ASSUME NEW c \in Conversion
      PROVE  /\ Stored(c)' => Stored(c)
             /\ InFlight(c)' => InFlight(c)
             /\ Untouched(c) => Untouched(c)'
             /\ c # t.conv => (OnlyAttempt(c) => OnlyAttempt(c)')
  BY <1>1 DEF Stored, InFlight, Untouched, OnlyAttempt
<1>4. CASE t.row = NoRow
  <2>1. /\ outcome' = [outcome EXCEPT ![t.conv] = "ConversionSuccessful"]
        /\ store' = store
        /\ hasInstalled' = (hasInstalled \/ t.conv \in Restricted)
    BY <1>4 DEF DidSucceed, successAnswer, markInstalled, deleteCoreDataObject, Report
  <2>2. /\ outcome'[t.conv] = "ConversionSuccessful"
        /\ \A c \in Conversion : c # t.conv => outcome'[c] = outcome[c]
    BY <1>1, <2>1 DEF IInv, TypeOK
  <2>3. outcome[t.conv] = "waiting"
    BY <1>1, <1>4 DEF IInv, TypeOK, OutcomeInv, Outcome, Untouched, InFlight
  <2>4. accepted'[t.conv] = 1 /\ ~Stored(t.conv)' /\ ~InFlight(t.conv)'
    <3>1. OnlyAttempt(t.conv) /\ ~Stored(t.conv)
      BY <1>1, <2>3 DEF IInv, OutcomeInv
    <3>2. accepted[t.conv] = 1 /\ \A v \in tasks : v.conv = t.conv => v = t
      BY <1>1, <3>1 DEF OnlyAttempt
    <3>3. QED
      BY <1>1, <1>3, <3>1, <3>2 DEF InFlight
  <2>5. OutcomeInv'
    <3>1. ASSUME NEW c \in Conversion, c # t.conv
          PROVE  /\ outcome'[c] \in {"idle", "dropped", "ConversionError"} => Untouched(c)'
                 /\ outcome'[c] = "waiting" => ~Stored(c)' /\ OnlyAttempt(c)'
                 /\ outcome'[c] = "ConversionSuccessful" =>
                       accepted'[c] = 1 /\ ~Stored(c)' /\ ~InFlight(c)'
                 /\ outcome'[c] = "killed" => ~Stored(c)' /\ ~InFlight(c)'
                 /\ outcome'[c] = "ConversionPending" =>
                       \A s \in tasks' : s.conv = c => s.row # NoRow
      BY <1>1, <1>3, <2>2, <3>1 DEF IInv, OutcomeInv
    <3>2. QED
      BY <2>2, <2>4, <3>1 DEF OutcomeInv
  <2>6. InstallFlagEarned'
    <3>1. ASSUME hasInstalled
          PROVE  \E c \in Restricted : outcome'[c] = "ConversionSuccessful" /\ ServerHas(c)'
      BY <1>1, <2>2, <3>1, ConversionAssumption
         DEF IInv, InstallFlagEarned, ServerHas, ConversionAssumption
    <3>2. ASSUME t.conv \in Restricted
          PROVE  \E c \in Restricted : outcome'[c] = "ConversionSuccessful" /\ ServerHas(c)'
      BY <1>1, <2>2, <3>2 DEF ServerHas
    <3>3. QED
      BY <2>1, <3>1, <3>2 DEF InstallFlagEarned
  <2>7. QED
    BY <1>2, <2>5, <2>6 DEF IInv
<1>5. CASE t.row # NoRow
  <2>1. UNCHANGED <<hasInstalled, outcome>>
    BY <1>5 DEF DidSucceed, successAnswer, markInstalled, deleteCoreDataObject
  <2>2. ASSUME NEW c \in Conversion, outcome[c] = "waiting" PROVE c # t.conv
    BY <1>1, <1>5, <2>2 DEF IInv, OutcomeInv, OnlyAttempt
  <2>3. OutcomeInv'
    BY <1>1, <1>3, <2>1, <2>2 DEF IInv, OutcomeInv
  <2>4. InstallFlagEarned'
    BY <1>1, <2>1 DEF IInv, InstallFlagEarned, ServerHas
  <2>5. QED
    BY <1>2, <2>3, <2>4 DEF IInv
<1>6. QED
  BY <1>4, <1>5

\* A failure, which saves the conversion again, preserves the invariant.
LEMMA FailStep ==
    ASSUME IInv, TypeOK', NEW t \in tasks, DidFail(t)
    PROVE  IInv'
<1> DEFINE row == [id |-> nextRow, conv |-> t.conv]
<1>1. /\ t \in Task /\ t.conv \in Conversion
      /\ tasks' = tasks \ {t}
      /\ store' = store \cup {row}
      /\ row.id = nextRow /\ row.conv = t.conv
      /\ nextRow' = nextRow + 1 /\ nextRow \in Nat
      /\ UNCHANGED <<accepted, hasInstalled>>
  BY DEF DidFail, saveNewObject, tellPending, IInv, TypeOK, Task, defaults
<1>2. \A r \in store : r.id \in Nat /\ r.id < nextRow
  BY DEF IInv, TypeOK, Row, RowInv
<1>3. \A s \in tasks : s.row \in Nat /\ s.row < nextRow
  BY DEF IInv, TypeOK, Task, RowInv
<1> HIDE DEF row
<1>4. RowInv'
  <2>1. \A r \in store' : r.id < nextRow'
    BY <1>1, <1>2
  <2>2. \A s \in tasks' : s.row < nextRow'
    BY <1>1, <1>3
  <2>3. \A s \in tasks', r \in store' : r.id = s.row => r.conv = s.conv
    BY <1>1, <1>3 DEF IInv, RowInv
  <2>4. \A r, s \in store' : r.id = s.id => r.conv = s.conv
    BY <1>1, <1>2 DEF IInv, RowInv
  <2>5. QED
    BY <2>1, <2>2, <2>3, <2>4 DEF RowInv
<1>5. AcceptedInv'
  BY <1>1 DEF IInv, AcceptedInv, ServerHas
<1>6. ASSUME NEW c \in Conversion, c # t.conv
      PROVE  /\ Stored(c)' <=> Stored(c)
             /\ InFlight(c)' => InFlight(c)
             /\ Untouched(c) => Untouched(c)'
             /\ OnlyAttempt(c) => OnlyAttempt(c)'
  BY <1>1, <1>6 DEF Stored, InFlight, Untouched, OnlyAttempt
<1>7. /\ outcome'[t.conv] = "ConversionPending"
      /\ \A c \in Conversion : c # t.conv => outcome'[c] = outcome[c]
  <2>1. CASE t.row = NoRow
    BY <1>1, <2>1 DEF DidFail, saveNewObject, tellPending, Report, IInv, TypeOK
  <2>2. CASE t.row # NoRow
    <3>1. outcome' = outcome
      BY <2>2 DEF DidFail, saveNewObject, tellPending
    <3>2. InFlight(t.conv)
      BY DEF InFlight
    <3>3. outcome[t.conv] # "waiting"
      BY <1>1, <2>2 DEF IInv, OutcomeInv, OnlyAttempt
    <3>4. outcome[t.conv] = "ConversionPending"
      BY <1>1, <3>2, <3>3 DEF IInv, TypeOK, OutcomeInv, Outcome, Untouched
    <3>5. QED
      BY <3>1, <3>4
  <2>3. QED
    BY <2>1, <2>2
<1>8. \A s \in tasks' : s.conv = t.conv => s.row # NoRow
  <2>1. CASE outcome[t.conv] = "waiting"
    BY <1>1, <2>1 DEF IInv, OutcomeInv, OnlyAttempt
  <2>2. CASE outcome[t.conv] # "waiting"
    <3>1. InFlight(t.conv)
      BY DEF InFlight
    <3>2. outcome[t.conv] = "ConversionPending"
      BY <1>1, <2>2, <3>1 DEF IInv, TypeOK, OutcomeInv, Outcome, Untouched
    <3>3. QED
      BY <1>1, <3>2 DEF IInv, OutcomeInv
  <2>3. QED
    BY <2>1, <2>2
<1>9. OutcomeInv'
  <2>1. ASSUME NEW c \in Conversion, c # t.conv
        PROVE  /\ outcome'[c] \in {"idle", "dropped", "ConversionError"} => Untouched(c)'
               /\ outcome'[c] = "waiting" => ~Stored(c)' /\ OnlyAttempt(c)'
               /\ outcome'[c] = "ConversionSuccessful" =>
                     accepted'[c] = 1 /\ ~Stored(c)' /\ ~InFlight(c)'
               /\ outcome'[c] = "killed" => ~Stored(c)' /\ ~InFlight(c)'
               /\ outcome'[c] = "ConversionPending" =>
                     \A s \in tasks' : s.conv = c => s.row # NoRow
    BY <1>1, <1>6, <1>7, <2>1 DEF IInv, OutcomeInv
  <2>2. QED
    BY <1>7, <1>8, <2>1 DEF OutcomeInv
<1>10. InstallFlagEarned'
  <2>1. outcome[t.conv] # "ConversionSuccessful"
    BY <1>1 DEF IInv, OutcomeInv, InFlight
  <2>2. QED
    BY <1>1, <1>7, <2>1, ConversionAssumption
       DEF IInv, InstallFlagEarned, ServerHas, ConversionAssumption
<1>11. QED
  BY <1>4, <1>5, <1>9, <1>10 DEF IInv

\* The death of the process preserves the invariant.
LEMMA TerminateStep ==
    ASSUME IInv, TypeOK', Terminate
    PROVE  IInv'
<1>1. /\ tasks' = {}
      /\ UNCHANGED <<store, nextRow, accepted, hasInstalled>>
      /\ \A c \in Conversion :
            outcome'[c] = IF outcome[c] = "waiting" THEN "killed" ELSE outcome[c]
  BY DEF Terminate, defaults, table
<1>2. RowInv' /\ AcceptedInv'
  BY <1>1 DEF IInv, RowInv, AcceptedInv
<1>3. \A c \in Conversion : /\ Stored(c)' <=> Stored(c)
                            /\ ~InFlight(c)'
                            /\ Untouched(c) => Untouched(c)'
  BY <1>1 DEF Stored, InFlight, Untouched
<1>4. OutcomeInv'
  BY <1>1, <1>3 DEF IInv, OutcomeInv
<1>5. InstallFlagEarned'
  BY <1>1, ConversionAssumption DEF IInv, InstallFlagEarned, ServerHas, ConversionAssumption
<1>6. QED
  BY <1>2, <1>4, <1>5 DEF IInv

\* Steps that touch none of the variables the invariant speaks of.
LEMMA QuietStep ==
    ASSUME IInv, TypeOK', UNCHANGED <<store, nextRow, tasks, outcome, accepted, hasInstalled>>
    PROVE  IInv'
<1>1. OutcomeInv'
  BY DEF IInv, OutcomeInv, Untouched, OnlyAttempt, Stored, InFlight
<1>2. RowInv' /\ AcceptedInv' /\ InstallFlagEarned'
  BY DEF IInv, RowInv, AcceptedInv, InstallFlagEarned, ServerHas
<1>3. QED
  BY <1>1, <1>2 DEF IInv

\* Every step preserves the inductive invariant.
LEMMA NextIInv == IInv /\ [Next]_vars => IInv'
<1> SUFFICES ASSUME IInv, [Next]_vars PROVE IInv'
  OBVIOUS
<1>0. TypeOK'
  BY TypeStep DEF IInv
<1>1. CASE localRunWithUniversalToken
  BY <1>0, <1>1, RetryStep DEF localRunWithUniversalToken, defaults, table
<1>2. ASSUME NEW c \in Conversion, localRegisterConversion(c) PROVE IInv'
  BY <1>0, <1>2, RegisterStep
<1>3. CASE IdentityArrives
  BY <1>0, <1>3, QuietStep DEF IdentityArrives, table, network
<1>4. CASE RetryAfterIdentify
  BY <1>0, <1>4, RetryStep DEF RetryAfterIdentify, defaults, table
<1>5. ASSUME NEW t \in tasks, ServerAccepts(t) PROVE IInv'
  BY <1>0, <1>5, ServerStep
<1>6. ASSUME NEW t \in tasks, DidSucceed(t) PROVE IInv'
  BY <1>0, <1>6, SucceedStep
<1>7. ASSUME NEW t \in tasks, DidFail(t) PROVE IInv'
  BY <1>0, <1>7, FailStep
<1>8. CASE Terminate
  BY <1>0, <1>8, TerminateStep
<1>9. CASE UNCHANGED vars
  BY <1>0, <1>9, QuietStep DEF vars
<1>10. QED
  BY <1>1, <1>2, <1>3, <1>4, <1>5, <1>6, <1>7, <1>8, <1>9 DEF Next, Answer

------------------------------------------------------------------------------
(* What every behaviour satisfies *)

\* The inductive invariant holds throughout.
THEOREM Invariance == Spec => []IInv
<1>1. Init => IInv
  BY InitIInv
<1>2. IInv /\ [Next]_vars => IInv'
  BY NextIInv
<1>3. QED
  BY <1>1, <1>2, PTL DEF Spec

\* Every variable keeps its type, for any calls and bounds.
THEOREM TypeCorrect == Spec => []TypeOK
<1>1. IInv => TypeOK
  BY DEF IInv
<1>2. QED
  BY <1>1, Invariance, PTL

\* A call answered with ConversionError is never stored, posted or accepted.
THEOREM ErrorsStayLocal == Spec => []ErrorNeverSent
<1>1. IInv => ErrorNeverSent
  BY DEF IInv, TypeOK, OutcomeInv, Untouched, ErrorNeverSent, ServerHas
<1>2. QED
  BY <1>1, Invariance, PTL

\* A call answered ConversionSuccessful was accepted once and will not be sent again.
THEOREM SuccessIsFinal == Spec => []SuccessIsExactlyOnce
<1>1. IInv => SuccessIsExactlyOnce
  BY DEF IInv, OutcomeInv, SuccessIsExactlyOnce
<1>2. QED
  BY <1>1, Invariance, PTL

\* The install flag is only ever raised by a confirmed restricted call.
THEOREM InstallFlagSound == Spec => []InstallFlagEarned
<1>1. IInv => InstallFlagEarned
  BY DEF IInv
<1>2. QED
  BY <1>1, Invariance, PTL

------------------------------------------------------------------------------
(* The delivery promise *)

Delivered == {c \in Conversion : ServerHas(c)}
Owed == {r.conv : r \in store} \ Delivered

\* A step that only adds rows of one undelivered conversion, or removes rows of
\* delivered ones, is a step of the delivery promise or none of its business.
LEMMA DeliveryStep == IInv /\ [Next]_vars => [Delivery!DNext]_(Delivery!dvars)
<1> SUFFICES ASSUME IInv, [Next]_vars PROVE [Delivery!DNext]_(Delivery!dvars)
  OBVIOUS
<1> USE DEF Delivery!DNext, Delivery!dvars, Delivery!Owe, Delivery!Deliver
<1>1. CASE UNCHANGED <<store, accepted>>
  BY <1>1 DEF ServerHas
<1>2. ASSUME NEW t \in tasks, ServerAccepts(t) PROVE \E c \in Conversion : Delivery!Deliver(c)
  <2>1. t.conv \in Conversion /\ store' = store
    BY <1>2 DEF IInv, TypeOK, Task, ServerAccepts, table
  <2>2. \A c \in Conversion : ServerHas(c)' <=> (ServerHas(c) \/ c = t.conv)
    BY <1>2, <2>1 DEF ServerAccepts, ServerHas, IInv, TypeOK
  <2>3. Delivered' = Delivered \cup {t.conv}
    BY <2>1, <2>2 DEF Delivered
  <2>4. Owed' = Owed \ {t.conv}
    BY <2>1, <2>3 DEF Owed
  <2>5. QED
    BY <2>1, <2>3, <2>4 DEF Owed, Delivered
<1>3. ASSUME NEW t \in tasks, DidSucceed(t) PROVE UNCHANGED Delivery!dvars
  <2>1. t.conv \in Delivered /\ accepted' = accepted
    BY <1>3 DEF DidSucceed, successAnswer, markInstalled, deleteCoreDataObject, IInv, TypeOK, Task, AcceptedInv, Delivered
  <2>2. Delivered' = Delivered
    BY <2>1 DEF Delivered, ServerHas
  <2>3. store' \subseteq store /\ \A r \in store \ store' : r.conv = t.conv
    BY <1>3 DEF DidSucceed, successAnswer, markInstalled, deleteCoreDataObject, IInv, RowInv
  <2>4. Owed' = Owed
    BY <2>1, <2>2, <2>3 DEF Owed
  <2>5. QED
    BY <2>2, <2>4 DEF Owed, Delivered
<1>4. ASSUME NEW t \in tasks, DidFail(t) PROVE [Delivery!DNext]_(Delivery!dvars)
  <2>1. /\ t.conv \in Conversion /\ accepted' = accepted
        /\ store' = store \cup {[id |-> nextRow, conv |-> t.conv]}
    BY <1>4 DEF DidFail, saveNewObject, tellPending, IInv, TypeOK, Task
  <2>2. Delivered' = Delivered
    BY <2>1 DEF Delivered, ServerHas
  <2>3. CASE t.conv \in Delivered
    <3>1. Owed' = Owed
      BY <2>1, <2>2, <2>3 DEF Owed
    <3>2. QED
      BY <2>2, <3>1 DEF Owed, Delivered
  <2>4. CASE t.conv \notin Delivered
    <3>1. {r.conv : r \in store'} = {r.conv : r \in store} \cup {t.conv}
      <4> DEFINE row == [id |-> nextRow, conv |-> t.conv]
      <4>1. store' = store \cup {row} /\ row.conv = t.conv
        BY <2>1
      <4> HIDE DEF row
      <4>2. QED
        BY <4>1
    <3>2. Owed' = Owed \cup {t.conv}
      BY <2>2, <2>4, <3>1 DEF Owed
    <3>3. QED
      BY <2>1, <2>2, <2>4, <3>2 DEF Owed, Delivered
  <2>5. QED
    BY <2>3, <2>4
<1>5. QED
  BY <1>1, <1>2, <1>3, <1>4
     DEF Next, Answer, localRunWithUniversalToken, localRegisterConversion, IdentityArrives,
         RetryAfterIdentify, Terminate, vars, table

\* Conversion tracking implements the at-least-once promise: what was put on
\* disk leaves it only once the server has accepted it.
THEOREM KeepsDelivery == Spec => DeliveryKept
<1>1. Init => Delivery!DInit
  BY DEF Init, Delivery!DInit, ServerHas
<1>2. IInv /\ [Next]_vars => [Delivery!DNext]_(Delivery!dvars)
  BY DeliveryStep
<1>3. QED
  BY <1>1, <1>2, Invariance, PTL DEF Spec, DeliveryKept, Delivery!DSpec
==============================================================================
