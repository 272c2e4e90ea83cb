------------------------------ MODULE KSObjCText ----------------------------
(***************************************************************************)
(* KSObjC.c: the contents of strings, tagged pointers and arrays, copied    *)
(* into a buffer that may be too small for them.                            *)
(***************************************************************************)
EXTENDS Integers, Sequences, FiniteSets, SequencesExt, FiniteSetsExt

IsLead(unit) == unit \in 55296 .. 56319
IsTail(unit) == unit \in 56320 .. 57343

\* The character a unit begins, how many units it has, or none.
DecodeUTF16(units) ==
  LET first == units[1]
  IN IF ~(IsLead(first) \/ IsTail(first)) THEN [length |-> 1, character |-> first]
     ELSE IF IsTail(first) \/ Len(units) < 2 \/ ~IsTail(units[2]) THEN [length |-> 0, character |-> 0]
     ELSE [length |-> 2, character |-> ((first - 55296) * 1024) + (units[2] - 56320) + 65536]

\* RFC 3629.
EncodeUTF8(c) ==
  CASE c <= 127 -> <<c>>
    [] c \in 128 .. 2047 -> <<192 + c \div 64, 128 + (c % 64)>>
    [] c \in 2048 .. 65535 -> <<224 + c \div 4096, 128 + ((c \div 64) % 64), 128 + (c % 64)>>
    [] OTHER -> <<240 + c \div 262144, 128 + ((c \div 4096) % 64), 128 + ((c \div 64) % 64), 128 + (c % 64)>>

RECURSIVE Convert(_, _, _, _)

\* Mutant: a character is written as long as there is room for a part of it.
Convert_Partly(units, count, room, bytes) ==
  LET next == DecodeUTF16(units)
      encoded == EncodeUTF8(next.character)
  IN IF count <= 0 \/ room <= 0 THEN bytes
     ELSE IF next.length = 0 THEN <<>>
     ELSE Convert(SubSeq(units, next.length + 1, Len(units)), count - next.length, room - Len(encoded),
                  bytes \o encoded)

\* A character is written as a whole or not at all, and a string that is not UTF-16
\* comes to nothing.
Convert(units, count, room, bytes) ==
  LET next == DecodeUTF16(units)
      encoded == EncodeUTF8(next.character)
  IN IF count <= 0 \/ room <= 0 THEN bytes
     ELSE IF next.length = 0 THEN <<>>
     ELSE IF Len(encoded) > room THEN bytes
     ELSE Convert(SubSeq(units, next.length + 1, Len(units)), count - next.length, room - Len(encoded),
                  bytes \o encoded)

\* The units may go on behind those that belong to the string.
copyAndConvertUTF16StringToUTF8(units, charCount, maxByteCount) ==
  Convert(units, charCount, maxByteCount - 1, <<>>)

\* Nothing at all if the memory cannot be copied.
copy8BitString(characters, isReadable, maxByteCount) ==
  IF maxByteCount = 0 \/ ~isReadable THEN <<>>
  ELSE SubSeq(characters, 1, IF Len(characters) >= maxByteCount THEN maxByteCount - 1 ELSE Len(characters))

\* A string's flags say where its length and its bytes are: inline, behind a pointer,
\* with a length of its own or in the first byte.
CFStrHasExplicitLength(string) == string.mutable \/ ~string.lengthByte
CFStrContents(string) == string.bytes
ksobjc_stringLength(string) ==
  IF CFStrHasExplicitLength(string) THEN string.length ELSE CFStrContents(string)[1]
stringStart(string) == IF string.lengthByte THEN Tail(CFStrContents(string)) ELSE CFStrContents(string)

\* Before a string is copied, its structure and one byte have been; an inline string is
\* judged by a length it may not have.
stringIsValid(string) ==
  LET length == IF string.inline THEN string.length ELSE ksobjc_stringLength(string)
  IN string.baseReadable /\ length >= 0 /\ (length > 0 => string.readable)

ksobjc_copyStringContents(string, maxByteCount) ==
  LET characters == stringStart(string)
      length == ksobjc_stringLength(string)
  IN IF string.unicode THEN copyAndConvertUTF16StringToUTF8(characters, length, maxByteCount)
     ELSE copy8BitString(SubSeq(characters, 1, length), string.readable, maxByteCount)

\* A tagged string has its length in four bits, and characters of 8, 6 or 5 bits; the
\* value is given by the bits that are set.  The end is written where the text ends,
\* even if that is behind the buffer.
TaggedWidth(length) == IF length <= 7 THEN 8 ELSE IF length <= 9 THEN 6 ELSE 5
Field(ones, low, width) == MapThenSumSet(LAMBDA bit : IF low + bit \in ones THEN 2 ^ bit ELSE 0, 0 .. width - 1)
extractTaggedNSString(length, ones, bufferLength) ==
  LET copied == IF length + 1 > bufferLength THEN bufferLength - 1 ELSE length
      Character(i) == IF length <= 7 THEN Field(ones, 8 * (i - 1), 7)
                      ELSE Field(ones, TaggedWidth(length) * (length - i), TaggedWidth(length))
  IN IF length > 11 THEN [text |-> <<>>, end |-> length]
     ELSE [text |-> [i \in 1 .. copied |-> Character(i)], end |-> length]

\* The payload is signed, and its lowest four bits are the type.
Signed(n, bits) == LET low == n % (2 ^ bits) IN IF low >= 2 ^ (bits - 1) THEN low - 2 ^ bits ELSE low
extractTaggedNSNumber(payload, bits) == Signed(payload, bits) \div 16

\* A number is as wide as its type says; one of an unknown type is 0.
ksobjc_numberAsInteger(number, widths) ==
  IF number.type \in DOMAIN widths THEN Signed(number.data, widths[number.type]) ELSE 0

\* How many of the objects asked for an array has: none if they cannot be copied, and
\* none of a mutable NSArray, whose layout is not known.
arrayContents(array, count) ==
  LET available == IF Len(array.entries) < count THEN Len(array.entries) ELSE count
  IN IF (array.kind = "NSArray" /\ array.mutable) \/ ~array.readable THEN <<>>
     ELSE SubSeq(array.entries, 1, available)

\* A description is put together in one buffer: what is used of it so far, and what is
\* left for the next part.  A part as long as the room fills it to the last byte.
stringPrintf(length, room) == IF room = 0 THEN 0 ELSE IF length > room THEN room - 1 ELSE length
Put(used, length, bufferLength) == used + stringPrintf(length, bufferLength - used)
CopyText(used, length, bufferLength) ==
  LET room == bufferLength - used
  IN used + (IF room = 0 THEN 0 ELSE IF length >= room THEN room - 1 ELSE length)

objectDescription(object, bufferLength) == Put(0, object.head, bufferLength)
stringDescription(object, bufferLength) ==
  LET begun == Put(objectDescription(object, bufferLength), 3, bufferLength)
  IN Put(CopyText(begun, object.value, bufferLength), 1, bufferLength)
valueDescription(object, bufferLength) ==
  Put(objectDescription(object, bufferLength), 2 + object.value, bufferLength)

RECURSIVE ksobjc_getDescription(_, _)
\* The first object of an array is described without a look at whether it is one.
arrayDescription(object, bufferLength) ==
  LET begun == Put(objectDescription(object, bufferLength), 3, bufferLength)
      first == arrayContents(object, 1)
      used == IF begun < bufferLength - 1 /\ Len(first) = 1
              THEN begun + ksobjc_getDescription(first[1], bufferLength - begun) ELSE begun
  IN Put(used, 1, bufferLength)

\* How many bytes of the buffer the description of an object takes.
ksobjc_getDescription(object, bufferLength) ==
  CASE object.class = "string" -> stringDescription(object, bufferLength)
    [] object.class = "number" -> valueDescription(object, bufferLength)
    [] object.class = "array" -> arrayDescription(object, bufferLength)
    [] OTHER -> objectDescription(object, bufferLength)
=============================================================================
