---------------------------- MODULE KSJSONCodec ----------------------------
(***************************************************************************)
(* The JSON encoder and decoder of Tools/KSJSONCodec.c, as the crash       *)
(* reports use them: a document is written call by call into a sink that   *)
(* may be full, the process may die before the document is complete, and   *)
(* the file is then decoded, either whole or through the sliding window of *)
(* ksjson_addJSONFromFile, into a second document that is already open.    *)
(* A character is a one-letter string; a blank stands for any white space, *)
(* the letter x for a control character that has no escape.                *)
(***************************************************************************)
EXTENDS Naturals, Sequences, SequencesExt, FiniteSetsExt

CONSTANTS
  Names, Strings, Floats,    \* what the callers pass, as sequences of characters
  NoName,                    \* NULL
  PieceLength,               \* KSJSONCODEC_WorkBufferSize / 2
  WindowLength,              \* sizeof(fileBuffer)
  NameBuffer, StringBuffer,  \* nameBufferLength, stringBufferLength
  Rooms,                     \* how many characters the sink takes
  MaxCalls, MaxDepth         \* bounds: elements in a document, containers in it

VARIABLES
  stage,     \* "write", "read", "done"
  encoder,   \* KSJSONEncodeContext of the first document
  calls,     \* the calls made on it, with their results
  file,      \* what is in the file when it is read
  decoder,   \* KSJSONDecodeContext and JSONFromFileContext
  target,    \* KSJSONEncodeContext of the second document
  events     \* the callbacks of the decoder, in order

vars == <<stage, encoder, calls, file, decoder, target, events>>

Quote == <<"\"">>
Digits == {"1"}
FPChars == {"1", ".", "-"}
Escaped == {"\"", "\\"}
Words == [null |-> <<"n", "l">>, true |-> <<"t", "r">>, false |-> <<"f", "s">>]

Event(kind, name, value) == [kind |-> kind, name |-> name, value |-> value]

-----------------------------------------------------------------------------
(* The encoder.  ok is the result of the last call; stack[i] says whether   *)
(* the container at level i is an object (isObject and containerLevel).     *)

ksjson_beginEncode(pretty, room) ==
  [out |-> <<>>, stack |-> <<>>, first |-> TRUE, pretty |-> pretty,
   room |-> room, ok |-> TRUE, full |-> FALSE]

\* The sink takes a piece whole or refuses it.
addJSONData(e, data) ==
  IF Len(e.out) + Len(data) <= e.room
  THEN [e EXCEPT !.out = @ \o data, !.ok = TRUE]
  ELSE [e EXCEPT !.ok = FALSE, !.full = TRUE]

Fail(e) == [e EXCEPT !.ok = FALSE]

\* A later piece is added only when the earlier one was.
AddNext(e, data) == IF e.ok THEN addJSONData(e, data) ELSE e

Escape(piece) ==
  FlattenSeq([i \in DOMAIN piece |->
                IF piece[i] \in Escaped THEN <<"\\", piece[i]>> ELSE <<piece[i]>>])

\* A piece with a character that cannot be written is not written at all.
appendEscapedString(e, piece) ==
  IF "x" \in Range(piece) THEN Fail(e) ELSE addJSONData(e, Escape(piece))

Piece(string, i) ==
  SubSeq(string, PieceLength * i + 1,
         IF PieceLength * (i + 1) < Len(string) THEN PieceLength * (i + 1) ELSE Len(string))

addEscapedString(e, string) ==
  FoldLeft(LAMBDA f, i : IF f.ok THEN appendEscapedString(f, Piece(string, i - 1)) ELSE f,
           [e EXCEPT !.ok = TRUE],
           [i \in 1 .. (Len(string) + PieceLength - 1) \div PieceLength |-> i])

addQuotedEscapedString(e, string) ==
  LET open == addJSONData(e, Quote)
      body == addEscapedString(open, string)
      closed == addJSONData(body, Quote)
  IN IF open.ok THEN [closed EXCEPT !.ok = body.ok /\ closed.ok] ELSE open

InObject(e) == e.stack # <<>> /\ Last(e.stack)

\* Comma, line break, and in an object the name and a colon.  The comma is
\* already written when the name turns out to be NULL.
ksjson_beginElement(e, name) ==
  LET comma == IF e.first THEN [e EXCEPT !.first = FALSE, !.ok = TRUE] ELSE addJSONData(e, <<",">>)
      line == IF e.pretty /\ e.stack # <<>> THEN AddNext(comma, <<" ">>) ELSE comma
  IN IF ~line.ok \/ ~InObject(e) THEN line
     ELSE IF name = NoName THEN Fail(line)
     ELSE AddNext(addQuotedEscapedString(line, name),
                  IF e.pretty THEN <<":", " ">> ELSE <<":">>)

AddPlain(e, name, chars) == AddNext(ksjson_beginElement(e, name), chars)

AddString(e, name, string) ==
  LET begun == ksjson_beginElement(e, name)
  IN IF begun.ok THEN addQuotedEscapedString(begun, string) ELSE begun

\* Two hexadecimal digits for every byte; they need no escape.
AddData(e, name, length) ==
  AddNext(AddNext(AddPlain(e, name, Quote), [i \in 1 .. 2 * length |-> "1"]), Quote)

BeginContainer(e, name, object) ==
  LET begun == ksjson_beginElement(e, name)
  IN IF ~begun.ok THEN begun
     ELSE addJSONData([begun EXCEPT !.stack = Append(@, object), !.first = TRUE],
                      IF object THEN <<"{">> ELSE <<"[">>)

\* The level goes down first, so a full sink leaves a container without its end.
EndContainer(e) ==
  IF e.stack = <<>> THEN [e EXCEPT !.ok = TRUE]
  ELSE LET line == IF e.pretty /\ ~e.first THEN addJSONData(e, <<" ">>) ELSE [e EXCEPT !.ok = TRUE]
           popped == [line EXCEPT !.stack = Front(@)]
       IN IF line.ok
          THEN addJSONData([popped EXCEPT !.first = FALSE], IF Last(e.stack) THEN <<"}">> ELSE <<"]">>)
          ELSE popped

\* Every container above a level is closed; endEncode stops at the first that
\* cannot be written, the copy of a document goes on.
CloseTo(e, level, stops) ==
  FoldLeft(LAMBDA f, i : IF f.ok \/ ~stops THEN EndContainer(f) ELSE f,
           [e EXCEPT !.ok = TRUE], [i \in 1 .. Len(e.stack) - level |-> i])

-----------------------------------------------------------------------------
(* The first document.                                                      *)
NoDecoder == [window |-> <<>>, next |-> 1, offset |-> 0, eof |-> TRUE, streamed |-> FALSE,
              closeLast |-> TRUE, base |-> 0, stack |-> <<>>, fresh |-> FALSE,
              result |-> "none"]

Init ==
  /\ stage = "write"
  /\ \E room \in Rooms :
       encoder = BeginContainer(ksjson_beginEncode(TRUE, room), NoName, TRUE)
  /\ calls = <<[kind |-> "{", name |-> NoName, value |-> <<>>, ok |-> TRUE, named |-> FALSE, from |-> 0]>>
  /\ file = <<>> /\ decoder = NoDecoder /\ events = <<>>
  /\ target = ksjson_beginEncode(FALSE, 0)

Call(e, kind, name, value) ==
  /\ stage = "write" /\ Len(calls) < MaxCalls
  /\ encoder' = e
  /\ calls' = Append(calls, [kind |-> kind, value |-> value, ok |-> e.ok,
                             name |-> name, named |-> InObject(encoder),
                             from |-> Len(encoder.out)])
  /\ UNCHANGED <<stage, file, decoder, target, events>>

\* A bad name fails before the value is looked at: one operation is given one.
CallNames == IF InObject(encoder) THEN Names \cup {NoName} ELSE {NoName}
BadNames == IF InObject(encoder) THEN {name \in CallNames : name = NoName \/ "x" \in Range(name)} ELSE {}

ksjson_beginObject(name) ==
  /\ Len(encoder.stack) < MaxDepth
  /\ Call(BeginContainer(encoder, name, TRUE), "{", name, <<>>)
ksjson_beginArray(name) ==
  /\ Len(encoder.stack) < MaxDepth
  /\ Call(BeginContainer(encoder, name, FALSE), "[", name, <<>>)
ksjson_addIntegerElement(name) ==
  Call(AddPlain(encoder, name, <<"1">>), "integer", name, <<"1">>)
ksjson_addFloatingPointElement(name, value) ==
  Call(AddPlain(encoder, name, value), "float", name, value)
ksjson_addNullElement(name) ==
  Call(AddPlain(encoder, name, Words.null), "null", name, Words.null)
ksjson_addBooleanElement(name) ==
  Call(AddPlain(encoder, name, Words.true), "true", name, Words.true)
ksjson_addStringElement(name, value) ==
  Call(AddString(encoder, name, value), "string", name, value)
ksjson_addDataElement(name) ==
  Call(AddData(encoder, name, 1), "string", name, <<"1", "1">>)
ksjson_endContainer ==
  /\ Len(encoder.stack) > 1
  /\ Call(EndContainer(encoder), "end", NoName, <<>>)

\* The document is complete and reaches the file whole.
ksjson_endEncode ==
  /\ stage = "write"
  /\ stage' = "read"
  /\ encoder' = CloseTo(encoder, 0, TRUE)
  /\ calls' = calls \o [i \in 1 .. Len(encoder.stack) |->
                          [kind |-> "end", name |-> NoName, value |-> <<>>, ok |-> encoder'.ok,
                           named |-> FALSE, from |-> 0]]
  /\ file' = encoder'.out
  /\ UNCHANGED <<decoder, target, events>>

\* The process dies: the file holds a part of what the encoder handed over.  One
\* that ends before the last call's characters is left to a death before that call.
Die(length) ==
  /\ stage = "write" /\ length \in Last(calls).from .. Len(encoder.out) - 1
  /\ stage' = "read"
  /\ file' = SubSeq(encoder.out, 1, length)
  /\ UNCHANGED <<encoder, calls, decoder, target, events>>

-----------------------------------------------------------------------------
(* The decoder.  One step decodes up to the next callback.                  *)
\* The end of a run of characters of a set, or the end of the window.
RunEnd(w, i, chars) ==
  LET end[j \in Nat] == IF j <= Len(w) /\ w[j] \in chars THEN end[j + 1] ELSE j IN end[i]

NextNonBlank(w, i) == RunEnd(w, i, {" "})

\* The quote that ends a string: what follows a backslash does not.
StringEnd(w, i) ==
  LET end[j \in Nat] == IF j > Len(w) \/ w[j] = "\"" THEN j
                        ELSE end[IF w[j] = "\\" THEN j + 2 ELSE j + 1]
  IN end[i + 1]

\* The characters behind a backslash that mean themselves; any other is refused.
Unescape(chars) ==
  FoldLeft(LAMBDA u, c :
             IF u.escape THEN [u EXCEPT !.out = Append(@, c), !.escape = FALSE,
                                        !.bad = u.bad \/ c \notin Escaped]
             ELSE IF c = "\\" THEN [u EXCEPT !.escape = TRUE]
             ELSE [u EXCEPT !.out = Append(@, c)],
           [out |-> <<>>, escape |-> FALSE, bad |-> FALSE], chars)

NoString(result) == [result |-> result, string |-> <<>>, next |-> 0]

decodeString(w, i, limit) ==
  LET end == StringEnd(w, i)
      chars == SubSeq(w, i + 1, end - 1)
      u == Unescape(chars)
  IN IF w[i] # "\"" THEN NoString("invalid")
     ELSE IF end > Len(w) THEN NoString("incomplete")
     ELSE IF Len(chars) >= limit THEN NoString("too long")
     ELSE IF u.bad THEN NoString("invalid")
     ELSE [result |-> "ok", string |-> u.out, next |-> end + 1]

NoEvent == Event("none", NoName, <<>>)
Stop(d, result) == [d |-> [d EXCEPT !.result = result], ev |-> NoEvent]
Go(d, next, ev) == [d |-> [d EXCEPT !.next = next, !.fresh = FALSE], ev |-> ev]

decodeWord(d, i, name, kind) ==
  LET word == Words[kind] IN
  IF Len(d.window) - i + 1 < Len(word) THEN Stop(d, "incomplete")
  ELSE IF SubSeq(d.window, i, i + Len(word) - 1) # word THEN Stop(d, "invalid")
  ELSE Go(d, i + Len(word), Event(kind, name, word))

\* A number needs a character behind it; one that goes on after its digits is a float.
decodeNumber(d, i, name) ==
  LET w == d.window
      start == IF w[i] = "-" THEN i + 1 ELSE i
      digitsEnd == RunEnd(w, start, Digits)
      end == RunEnd(w, digitsEnd, FPChars)
  IN IF start > Len(w) \/ digitsEnd = start THEN Stop(d, "invalid")
     ELSE IF end > Len(w) THEN Stop(d, "incomplete")
     ELSE IF end = digitsEnd THEN Go(d, end, Event("integer", name, SubSeq(w, i, end - 1)))
     ELSE IF end - start >= StringBuffer THEN Stop(d, "too long")
     ELSE Go(d, end, Event("float", name, SubSeq(w, i, end - 1)))

enterContainer(d, i, name, object) ==
  LET entered == Go(d, i + 1, Event(IF object THEN "{" ELSE "[", name, <<>>))
  IN [entered EXCEPT !.d.stack = Append(@, object), !.d.fresh = TRUE]

decodeElement(d, start, name) ==
  LET w == d.window
      i == NextNonBlank(w, start)
      s == decodeString(w, i, StringBuffer)
  IN IF i > Len(w) THEN Stop(d, "incomplete")
     ELSE CASE w[i] \in {"[", "{"} -> enterContainer(d, i, name, w[i] = "{")
            [] w[i] = "\"" -> IF s.result # "ok" THEN Stop(d, s.result)
                              ELSE Go(d, s.next, Event("string", name, s.string))
            [] w[i] = "n" -> decodeWord(d, i, name, "null")
            [] w[i] = "t" -> decodeWord(d, i, name, "true")
            [] w[i] = "f" -> decodeWord(d, i, name, "false")
            [] w[i] \in Digits \cup {"-"} -> decodeNumber(d, i, name)
            [] OTHER -> Stop(d, "invalid")

\* A member of an object: its name, a colon, its value.
decodeMember(d, i) ==
  LET s == decodeString(d.window, i, NameBuffer)
      colon == NextNonBlank(d.window, s.next)
  IN IF s.result # "ok" THEN Stop(d, s.result)
     ELSE IF colon > Len(d.window) THEN Stop(d, "incomplete")
     ELSE IF d.window[colon] # ":" THEN Stop(d, "invalid")
     ELSE decodeElement(d, colon + 1, s.string)

\* One turn of a container's loop.  A comma is skipped, but never asked for.
decodeInContainer(d) ==
  LET w == d.window
      object == Last(d.stack)
      at == NextNonBlank(w, d.next)
      i == IF ~d.fresh /\ at <= Len(w) /\ w[at] = "," THEN NextNonBlank(w, at + 1) ELSE at
  IN IF i > Len(w) THEN Stop(d, "incomplete")
     ELSE IF w[i] = (IF object THEN "}" ELSE "]")
     THEN [Go(d, i + 1, Event("end", NoName, <<>>)) EXCEPT !.d.stack = Front(@)]
     ELSE IF object THEN decodeMember(d, i) ELSE decodeElement(d, i, NoName)

DecodeStep(d) ==
  IF d.stack = <<>> THEN decodeElement(d, d.next, NoName) ELSE decodeInContainer(d)

\* Mutant: bytes the file no longer had are decoded from the window's start.
updateDecoder_readFile_Rereads(d) ==
  LET remaining == WindowLength - d.next + 1
      fill == WindowLength - remaining
      got == SubSeq(file, d.offset + 1, IF d.offset + fill < Len(file) THEN d.offset + fill ELSE Len(file))
  IN IF ~d.streamed \/ d.eof \/ remaining >= WindowLength \div 2 THEN d
     ELSE [d EXCEPT !.window = SubSeq(@, d.next, WindowLength) \o got
                                 \o SubSeq(@, remaining + Len(got) + 1, WindowLength),
                    !.next = 1, !.offset = @ + Len(got) - 1, !.eof = Len(got) < fill]

\* Less than half of the window is left: the rest moves to the front and the file
\* fills what is behind it.  When the file ends, the window is not made shorter:
\* what was behind the new characters stays there.
updateDecoder_readFile(d) ==
  LET remaining == WindowLength - d.next + 1
      fill == WindowLength - remaining
      got == SubSeq(file, d.offset + 1, IF d.offset + fill < Len(file) THEN d.offset + fill ELSE Len(file))
  IN IF ~d.streamed \/ d.eof \/ remaining >= WindowLength \div 2 THEN d
     ELSE [d EXCEPT !.window = SubSeq(@, d.next, WindowLength) \o got
                                 \o SubSeq(@, remaining + Len(got) + 1, WindowLength),
                    !.next = 1, !.offset = @ + Len(got), !.eof = Len(got) < fill]

\* Mutant: the end of the last container is written although it is to stay open.
AddToTarget_ClosesLast(t, ev, closeLast) ==
  CASE ev.kind \in {"{", "["} -> BeginContainer(t, ev.name, ev.kind = "{")
    [] ev.kind = "string" -> AddString(t, ev.name, ev.value)
    [] ev.kind = "end" -> EndContainer(t)
    [] OTHER -> AddPlain(t, ev.name, ev.value)

\* The callbacks write what they are told into the second document; the end of
\* its topmost containers is left out when the last one is to stay open.
AddToTarget(t, ev, closeLast) ==
  CASE ev.kind \in {"{", "["} -> BeginContainer(t, ev.name, ev.kind = "{")
    [] ev.kind = "string" -> AddString(t, ev.name, ev.value)
    [] ev.kind = "end" -> IF closeLast \/ Len(t.stack) > 2 THEN EndContainer(t) ELSE [t EXCEPT !.ok = TRUE]
    [] OTHER -> AddPlain(t, ev.name, ev.value)

-----------------------------------------------------------------------------
(* The second document.                                                     *)
TargetName == <<"a">>     \* the element the copy becomes in the open object

OpenTarget == BeginContainer(ksjson_beginEncode(FALSE, 1000), NoName, TRUE)

StartCopy(d) ==
  /\ stage = "read" /\ decoder.result = "none"
  /\ target' = OpenTarget
  /\ decoder' = [d EXCEPT !.result = "running", !.base = Len(OpenTarget.stack)]
  /\ UNCHANGED <<stage, encoder, calls, file, events>>

\* The user info is complete and its container stays open for the user's section;
\* a stack trace the user passes may be anything.
ksjson_addJSONElement(closeLast) ==
  /\ closeLast \/ file = encoder.out
  /\ StartCopy([NoDecoder EXCEPT !.window = file, !.closeLast = closeLast])

\* The window starts out empty and is filled as if it had just been used up.
ksjson_addJSONFromFile ==
  StartCopy(updateDecoder_readFile(
    [NoDecoder EXCEPT !.window = [i \in 1 .. WindowLength |-> "0"], !.next = WindowLength + 1,
                      !.eof = FALSE, !.streamed = TRUE]))

Decode ==
  /\ stage = "read" /\ decoder.result = "running"
  /\ LET step == DecodeStep(decoder)
         ev == IF decoder.stack = <<>> THEN [step.ev EXCEPT !.name = TargetName] ELSE step.ev
         t == AddToTarget(target, ev, decoder.closeLast)
     IN IF step.ev = NoEvent
        THEN decoder' = step.d /\ UNCHANGED <<target, events>>
        ELSE /\ target' = t
             /\ events' = Append(events, step.ev)
             /\ decoder' = updateDecoder_readFile(
                  [step.d EXCEPT !.result = IF ~t.ok THEN "refused"
                                            ELSE IF step.d.stack = <<>> THEN "ok" ELSE "running"])
  /\ UNCHANGED <<stage, encoder, calls, file>>

Finish ==
  /\ stage = "read" /\ decoder.result \notin {"none", "running"}
  /\ stage' = "done"
  /\ target' = IF decoder.closeLast THEN CloseTo(target, decoder.base, FALSE) ELSE target
  /\ UNCHANGED <<encoder, calls, file, decoder, events>>

Next ==
  \/ \E name \in CallNames : ksjson_beginObject(name)
  \/ \E name \in CallNames \ BadNames :
       \/ ksjson_beginArray(name) \/ ksjson_addIntegerElement(name)
       \/ ksjson_addNullElement(name) \/ ksjson_addBooleanElement(name) \/ ksjson_addDataElement(name)
       \/ \E value \in Floats : ksjson_addFloatingPointElement(name, value)
       \/ \E value \in Strings : ksjson_addStringElement(name, value)
  \/ ksjson_endContainer \/ ksjson_endEncode
  \/ \E length \in 0 .. Len(encoder.out) : Die(length)
  \/ \E closeLast \in BOOLEAN : ksjson_addJSONElement(closeLast)
  \/ ksjson_addJSONFromFile
  \/ Decode \/ Finish

Spec == Init /\ [][Next]_vars

-----------------------------------------------------------------------------
(* What the documents should be.                                            *)

\* The element a call makes: a string that cannot be written is cut at the piece
\* that has the bad character, a float without a point comes back as an integer.
WrittenPart(string) ==
  LET bad == {i \in DOMAIN string : string[i] = "x"}
  IN IF bad = {} THEN string
     ELSE SubSeq(string, 1, PieceLength * ((Min(bad) - 1) \div PieceLength))

Element(c) ==
  CASE c.kind = "string" -> Event("string", c.name, WrittenPart(c.value))
    [] c.kind = "float" /\ "." \notin Range(c.value) -> Event("integer", c.name, c.value)
    [] OTHER -> Event(c.kind, c.name, c.value)

Elements == [i \in DOMAIN calls |-> Element(calls[i])]

\* An element starts with its name, and a number is one.
Sound(c) == c.kind \in {"string", "end"} \/ c.ok
NamesItsElement(c) ==
  c.kind = "end" \/ ~c.named \/ (c.name # NoName /\ "x" \notin Range(c.name))
IsWritten(c) == Sound(c) /\ NamesItsElement(c) /\ c.value # <<"n", "a">>

\* The named calls of the first document could all be written.
Writable ==
  /\ ~encoder.full /\ \A i \in DOMAIN calls : IsWritten(calls[i])
  /\ \A i \in DOMAIN calls : calls[i].kind = "string" => calls[i].ok \/ "x" \in Range(calls[i].value)

NameLength(c) == IF c.name = NoName THEN 0 ELSE Len(Escape(c.name))
FitsBuffers(c) ==
  NameLength(c) < NameBuffer /\ (c.kind = "string" => Len(Escape(c.value)) < StringBuffer)
\* Comma, blank, quotes, colon, blank, quotes, and the character behind a number.
FitsHalfWindow(c) == NameLength(c) + Len(Escape(c.value)) + 9 <= WindowLength \div 2

Complete == file = encoder.out /\ encoder.stack = <<>>

\* A complete document decodes to the elements it was written from, through the
\* window as well as long as no member is longer than half of it; a document cut off
\* anywhere gives a part of its elements and is never taken for a whole one, when it
\* is decoded from memory.
DecodesWhatWasWritten ==
  /\ (/\ stage = "done" /\ Complete /\ Writable /\ \A i \in DOMAIN calls : FitsBuffers(calls[i])
      /\ decoder.streamed => \A i \in DOMAIN calls : FitsHalfWindow(calls[i]))
     => decoder.result = "ok" /\ events = Elements
  /\ stage # "write" /\ ~decoder.streamed /\ Writable
     => IsPrefix(events, Elements) /\ (decoder.result = "ok" => Complete)

\* Decoding a whole document in one go.
DecodeAll(doc) ==
  FoldLeft(LAMBDA d, i : IF d.result # "running" THEN d
                         ELSE LET step == DecodeStep(d)
                              IN IF step.d.result = "running" /\ step.d.stack = <<>>
                                 THEN [step.d EXCEPT !.result = "ok"] ELSE step.d,
           [NoDecoder EXCEPT !.window = doc, !.result = "running"],
           [i \in 1 .. Len(doc) + 1 |-> i])

\* A file that was cut off, or that does not decode, spoils only its own element:
\* the document it is copied into has the level it had before, or one container more
\* when the last one is to stay open, and still decodes to its end.
CopyStaysWellFormed ==
  stage = "done" =>
    /\ decoder.closeLast => Len(target.stack) = decoder.base
    /\ decoder.result = "ok" /\ ~decoder.closeLast => Len(target.stack) = decoder.base + 1
    /\ decoder.closeLast \/ decoder.result = "ok"
         => DecodeAll(CloseTo(target, 0, TRUE).out).result \in {"ok", "too long"}

=============================================================================
