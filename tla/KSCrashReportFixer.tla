------------------------- MODULE KSCrashReportFixer -------------------------
(***************************************************************************)
(* KSCrashReportFixer.c: a report is decoded and encoded again, with dates  *)
(* written out and symbols demangled at the paths that hold some.  A report *)
(* is the sequence of the decoder's callbacks; a value is what became of    *)
(* it; lengths are those of the text, in bytes.                             *)
(***************************************************************************)
EXTENDS Naturals, Sequences, SequencesExt, FiniteSetsExt

CONSTANTS
  MaxPath,      \* MAX_DEPTH
  Grows         \* by how much a date or a demangled name is longer than what it replaces

\* The name of a container's element is empty, as is that of the outermost container.
datePaths == {<<"", "report", "timestamp">>, <<"", "recrash_report", "report", "timestamp">>}
demanglePaths ==
  {<<"", "crash", "threads", "", "backtrace", "contents", "", "symbol_name">>,
   <<"", "recrash_report", "crash", "threads", "", "backtrace", "contents", "", "symbol_name">>,
   <<"", "crash", "error", "cpp_exception", "name">>,
   <<"", "recrash_report", "crash", "error", "cpp_exception", "name">>}

\* The path of an element is compared as far as it goes, which may be the beginning of the listed
\* one; where it goes on behind the end of the listed one, that is not looked for.
matchesPath(objectPath, path, finalName) ==
  LET whole == Append(objectPath, finalName)
      differs == {i \in DOMAIN whole : i > Len(path) \/ whole[i] # path[i]}
  IN IF differs = {} THEN "yes" ELSE IF Min(differs) > Len(path) THEN "fault" ELSE "no"

\* The paths are tried in order; the set stands for it, as no two of one list share a beginning
\* that is longer than the place where they part.
matchesAPath(objectPath, name, paths) ==
  LET answers == {matchesPath(objectPath, path, name) : path \in paths}
  IN IF "yes" \in answers THEN "yes" ELSE IF "fault" \in answers THEN "fault" ELSE "no"

\* A text: the length of an element, and what pretty printing adds at a depth.
TextLength(event) == CASE event.kind = "end" -> 1 [] event.kind \in {"object", "array"} -> 6 [] OTHER -> 10
Indented(event, depth) == TextLength(event) + 2 + 4 * (IF event.kind = "end" THEN depth - 1 ELSE depth)

Begun(length) == [objectPath |-> <<>>, out |-> <<>>, left |-> (length * 3) \div 2, status |-> "fixed"]

\* The encoder's text goes into the room that is left, or ends the decoding.
addJSONData(c, event, value, length) ==
  IF length > c.left THEN [c EXCEPT !.status = "null"]
  ELSE [c EXCEPT !.left = @ - length, !.out = Append(@, [event EXCEPT !.value = value])]

onValue(c, event, paths, fixed) ==
  LET match == matchesAPath(c.objectPath, event.name, paths)
      length == Indented(event, Len(c.objectPath))
  IN CASE match = "fault" -> [c EXCEPT !.status = "fault"]
       [] match = "yes" -> addJSONData(c, event, fixed, length + Grows)
       [] OTHER -> addJSONData(c, event, event.value, length)

\* What is begun is written before it is known whether its name has a place in the path.
onBegin(c, event) ==
  LET written == addJSONData(c, event, event.value, Indented(event, Len(c.objectPath)))
  IN IF Len(c.objectPath) >= MaxPath THEN [written EXCEPT !.status = "null"]
     ELSE [written EXCEPT !.objectPath = Append(@, event.name)]

\* Mutant: what has ended stays in the path.
onEndContainer_Staying(c, event) ==
  addJSONData(c, event, event.value, Indented(event, Len(c.objectPath)))

onEndContainer(c, event) ==
  LET written == addJSONData(c, event, event.value, Indented(event, Len(c.objectPath)))
  IN IF c.objectPath # <<>> THEN [written EXCEPT !.objectPath = Front(@)] ELSE written

Fix(c, event) ==
  CASE c.status # "fixed" -> c
    [] event.kind \in {"object", "array"} /\ c.status = "fixed" -> onBegin(c, event)
    [] event.kind = "end" /\ c.status = "fixed" -> onEndContainer(c, event)
    [] event.kind = "integer" /\ c.status = "fixed" -> onValue(c, event, datePaths, "date")
    [] OTHER -> onValue(c, event, demanglePaths, "demangled")

\* A report that does not end well is no report; one that fills the room ends behind it.
kscrf_fixupCrashReport(events, length) ==
  LET end == FoldLeft(Fix, Begun(length), events)
  IN [status |-> end.status, out |-> IF end.status = "fixed" THEN end.out ELSE <<>>,
      endsBehind |-> end.status = "fixed" /\ end.left = 0]
=============================================================================
