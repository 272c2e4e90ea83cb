---------------------------- MODULE MCConversion ----------------------------
(* Instances of AMBConversion for TLC, and what its comments say of it. *)
EXTENDS AMBConversion

CONSTANTS c1, c2

OneCall == {c1}
BothCalls == {c1, c2}

\* AMBConversion.m:34 "Save the conversion to the database for later sending":
\* a call told ConversionPending is on its way, kept or delivered.
PendingIsKept ==
    \A c \in Conversion :
        outcome[c] = "ConversionPending" => Stored(c) \/ InFlight(c) \/ ServerHas(c)

==============================================================================
