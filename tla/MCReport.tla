------------------------------- MODULE MCReport -----------------------------
(***************************************************************************)
(* Small processes, object graphs and lists of classes for KSCrashReport,  *)
(* and small documents for KSJSONCodec, in which a report is written and   *)
(* read back.  A behaviour follows one of three parts, which do not touch  *)
(* each other's state: the cache of names and a report that reads it;      *)
(* what the application sets, and a report that opens memory; or how the   *)
(* calls a report is made of become a file and a copy of it.               *)
(***************************************************************************)
EXTENDS KSCrashReport

CONSTANTS main, worker, late, a, b, c, plain, secret, text

MCThreadLists == {<<main, worker>>, <<late, main, worker>>}
MCRoots == <<NULL, a, b, c>>
MCReferences == {a}

Object(class, kind, refs) ==
  [type |-> "object", class |-> class, kind |-> kind, refs |-> refs, text |-> FALSE]
Bytes(t) == [type |-> "unknown", class |-> text, kind |-> "none", refs |-> <<>>, text |-> t]
Class == [type |-> "class", class |-> plain, kind |-> "none", refs |-> <<>>, text |-> FALSE]

\* A cycle of objects with more ivars than are looked at; an array of restricted
\* objects; values, classes and text.
MCMemories == {
  (a :> Object(plain, "other", <<b, a, c>>) @@ b :> Object(plain, "other", <<c, b, NULL>>)
     @@ c :> Object(secret, "other", <<NULL>>)),
  (a :> Object(plain, "array", <<b>>) @@ b :> Object(secret, "value", <<>>) @@ c :> Bytes(FALSE)),
  (a :> [Object(secret, "array", <<b>>) EXCEPT !.text = TRUE] @@ b :> Bytes(TRUE) @@ c :> Class)}

MCUserInfos == {[kind |-> "object", open |-> 1], [kind |-> "cut off", open |-> 2]}
MCClassLists == {<<>>, <<secret>>, <<plain, secret>>}

-----------------------------------------------------------------------------
(* The document of a report.                                                *)

VARIABLES part, stage, encoder, calls, file, decoder, target, events

documentVars == <<stage, encoder, calls, file, decoder, target, events>>

Document == INSTANCE KSJSONCodec WITH
  Names <- {<<"a">>, <<"x">>},
  Strings <- {<<"\\", "\"">>, <<"a", "a", "x">>},
  Floats <- {<<"1", ".", "1">>, <<"n", "a">>},
  PieceLength <- 2, WindowLength <- 26, NameBuffer <- 3, StringBuffer <- 5,
  Rooms <- {16, 200}, MaxCalls <- 4, MaxDepth <- 3

\* The parts that are not followed stay in one of their initial states.
MCInit ==
  /\ Init /\ Document!Init
  /\ part \in {"names", "memory", "document"}
  /\ part # "memory" => memory = CHOOSE m \in MCMemories : TRUE
  /\ part # "names" => live = CHOOSE list \in MCThreadLists : TRUE
  /\ part # "document" => encoder.room = 16

MCNext ==
  /\ \/ /\ part = "names" /\ Next /\ UNCHANGED <<documentVars, rules, userInfo>>
        /\ context'.reason = {} /\ context'.zombie = {}
     \/ part = "memory" /\ Next /\ UNCHANGED <<documentVars, live, cache, update>>
     \/ part = "document" /\ Document!Next /\ UNCHANGED vars
  /\ UNCHANGED part

MCSpec == MCInit /\ [][MCNext]_<<part, vars, documentVars>>

\* What a complete report decodes to, and what one that was cut off does not; and
\* that a copy of it leaves the document it becomes part of well-formed.
DecodesWhatWasWritten == Document!DecodesWhatWasWritten
CopyStaysWellFormed == Document!CopyStaysWellFormed
=============================================================================
