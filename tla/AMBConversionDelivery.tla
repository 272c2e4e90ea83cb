------------------------ MODULE AMBConversionDelivery ------------------------
(***************************************************************************)
(* What the persistent half of conversion tracking promises its caller,    *)
(* with no word on rows, tasks or restarts: from the moment the SDK has    *)
(* put a conversion on disk it owes it to the server, and the debt ends in *)
(* one way only, the server accepting that conversion.  Acceptance may     *)
(* repeat (delivery is at least once) and a conversion that was never put  *)
(* on disk may be delivered too.                                           *)
(***************************************************************************)
CONSTANT Conversion

VARIABLES
    owed,       \* conversions kept for a later attempt and not delivered yet
    delivered   \* conversions the server has accepted at least once

dvars == <<owed, delivered>>

DTypeOK ==
    /\ owed \subseteq Conversion
    /\ delivered \subseteq Conversion

DInit ==
    /\ owed = {}
    /\ delivered = {}

\* A failed attempt leaves an undelivered conversion in the SDK's care.
Owe(c) ==
    /\ c \notin delivered
    /\ owed' = owed \cup {c}
    /\ UNCHANGED delivered

\* The server accepts a conversion, owed or sent for the first time.
Deliver(c) ==
    /\ owed' = owed \ {c}
    /\ delivered' = delivered \cup {c}

DNext == \E c \in Conversion : Owe(c) \/ Deliver(c)

DSpec == DInit /\ [][DNext]_dvars
==============================================================================
