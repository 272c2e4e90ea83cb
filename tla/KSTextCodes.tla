----------------------------- MODULE KSTextCodes ----------------------------
(***************************************************************************)
(* Texts as bytes: what passes for a text in memory and the addresses that  *)
(* texts mention (KSString.c), the escapes of JSON strings (KSJSONCodec.c)   *)
(* and the spelling of names outside ASCII (swift/Basic/Punycode.cpp).      *)
(* Characters are their numbers, bytes are 0 .. 255.                        *)
(***************************************************************************)
EXTENDS Integers, Sequences, FiniteSets, SequencesExt, FiniteSetsExt

-----------------------------------------------------------------------------
(* KSString.c *)

g_printableControlChars == {9, 10, 13}

\* How many bytes follow the first one of a character; none begins with another byte.
g_continuationByteCount(ch) ==
  CASE ch \in 192 .. 223 -> 1 [] ch \in 224 .. 239 -> 2 [] ch \in 240 .. 247 -> 3
    [] ch \in 248 .. 251 -> 4 [] ch \in 252 .. 253 -> 5 [] OTHER -> 0

ksstring_isNullTerminatedUTF8String(memory, minLength, maxLength) ==
  LET from[i \in Nat] ==
        LET ch == memory[i + 1]
            n == g_continuationByteCount(ch)
        IN CASE i >= maxLength -> FALSE
             [] i < maxLength /\ ch = 0 -> i >= minLength
             [] i < maxLength /\ ch \in 1 .. 127 -> (ch >= 32 \/ ch \in g_printableControlChars) /\ from[i + 1]
             [] OTHER -> /\ n > 0 /\ i + n < maxLength
                         /\ \A k \in 1 .. n : memory[i + k + 1] \in 128 .. 191
                         /\ from[i + n + 1]
  IN from[0]

HexDigits == <<"0", "1", "2", "3", "4", "5", "6", "7", "8", "9", "a", "b", "c", "d", "e", "f">>
INV == 255
g_hexConversion(c) == IF c \in ToSet(HexDigits) THEN (CHOOSE i \in DOMAIN HexDigits : HexDigits[i] = c) - 1 ELSE INV

\* The first "0x" that a digit follows, a digit behind the end of the string included.
ksstring_extractHexValue(string, stringLength) ==
  LET Nybble(i) == IF i \in DOMAIN string THEN g_hexConversion(string[i]) ELSE INV
      marks == {i \in 1 .. stringLength - 1 : string[i] = "0" /\ string[i + 1] = "x" /\ Nybble(i + 2) # INV}
      accum[i \in Nat, sum \in Nat] ==
        IF i > stringLength \/ Nybble(i) = INV THEN sum ELSE accum[i + 1, (16 * sum) + Nybble(i)]
  IN IF marks = {} THEN [found |-> FALSE, value |-> 0] ELSE [found |-> TRUE, value |-> accum[Min(marks) + 2, 0]]

-----------------------------------------------------------------------------
(* KSJSONCodec.c.  A string is its characters, one of which may be an        *)
(* escape: the sixteen bits of \u and four digits, or none if the digits     *)
(* are not hexadecimal.                                                     *)

writeUTF8(character) ==
  CASE character <= 127 -> <<character>>
    [] character \in 128 .. 2047 -> <<192 + character \div 64, 128 + (character % 64)>>
    [] character \in 2048 .. 65535 ->
         <<224 + character \div 4096, 128 + ((character \div 64) % 64), 128 + (character % 64)>>
    [] OTHER -> <<240 + character \div 262144, 128 + ((character \div 4096) % 64),
                  128 + ((character \div 64) % 64), 128 + (character % 64)>>

NotHexadecimal == 69632
Lead == 55296 .. 56319
Trail == 56320 .. 57343

\* What an escape and the two behind it come to; a pair of surrogates is put together without
\* the 65536 that it stands above.
Combined(escapes) ==
  LET accum == escapes[1]
  IN CASE accum = NotHexadecimal \/ accum \in Trail -> [error |-> "invalid character", used |-> 0, bytes |-> <<>>]
       [] accum \in Lead /\ Len(escapes) = 1 -> [error |-> "incomplete", used |-> 0, bytes |-> <<>>]
       [] accum \in Lead /\ Len(escapes) > 1 ->
            IF escapes[2] \notin Trail THEN [error |-> "invalid character", used |-> 0, bytes |-> <<>>]
            ELSE [error |-> "none", used |-> 2, bytes |-> writeUTF8(((accum - 55296) * 1024) + escapes[2] - 56320)]
       [] OTHER -> [error |-> "none", used |-> 1, bytes |-> writeUTF8(accum)]

decodeString(escapes) ==
  LET from[i \in Nat] ==
        LET next == Combined(SubSeq(escapes, i, Len(escapes)))
            rest == from[i + next.used]
        IN IF i > Len(escapes) THEN [error |-> "none", bytes |-> <<>>]
           ELSE IF next.error # "none" THEN [error |-> next.error, bytes |-> <<>>]
           ELSE [rest EXCEPT !.bytes = next.bytes \o @]
  IN from[1]

-----------------------------------------------------------------------------
(* Punycode.cpp, RFC 3492 *)

base == 36
tmin == 1
tmax == 26
skew == 38
damp == 700
initial_bias == 72
initial_n == 128
delimiter == 95

digit_value(digit) == IF digit < 26 THEN 97 + digit ELSE 39 + digit
digit_index(value) ==
  CASE value \in 97 .. 122 -> value - 97 [] value \in 65 .. 74 -> value - 39 [] OTHER -> -1

isValidUnicodeScalar(s) == s \in 0 .. 55295 \/ s \in 57344 .. 2097151

adapt(delta, numpoints, firsttime) ==
  LET halved == IF firsttime THEN delta \div damp ELSE delta \div 2
      k[d \in Nat] == IF d > ((base - tmin) * tmax) \div 2
                      THEN [k[d \div (base - tmin)] EXCEPT !.steps = @ + 1] ELSE [steps |-> 0, delta |-> d]
      end == k[halved + (halved \div numpoints)]
  IN (end.steps * base) + (((base - tmin + 1) * end.delta) \div (end.delta + skew))

Threshold(k, bias) == IF k <= bias THEN tmin ELSE IF k >= bias + tmax THEN tmax ELSE k - bias

\* One number, least significant digit first; it is not ok when the digits end before it does.
RECURSIVE TakeNumber(_, _, _, _, _)
TakeNumber(input, i, w, k, bias) ==
  LET digit == IF input = <<>> THEN -1 ELSE digit_index(input[1])
      t == Threshold(k, bias)
  IN IF digit < 0 THEN [ok |-> FALSE, i |-> i, left |-> <<>>]
     ELSE IF digit < t THEN [ok |-> TRUE, i |-> i + (digit * w), left |-> Tail(input)]
     ELSE TakeNumber(Tail(input), i + (digit * w), w * (base - t), k + base, bias)

RECURSIVE DecodeFrom(_, _, _, _, _)
DecodeFrom(input, n, i, bias, out) ==
  LET number == TakeNumber(input, i, 1, base, bias)
      size == Len(out) + 1
      m == n + number.i \div size
  IN IF input = <<>> \/ ~number.ok THEN out
     ELSE DecodeFrom(number.left, m, (number.i % size) + 1, adapt(number.i - i, size, i = 0),
                     InsertAt(out, (number.i % size) + 1, m))

\* What could be decoded before an error is the result: every return is a success.
decodePunycode(input) ==
  LET delimiters == {j \in DOMAIN input : input[j] = delimiter}
      last == IF delimiters = {} THEN 0 ELSE Max(delimiters)
  IN DecodeFrom(SubSeq(input, last + 1, Len(input)), initial_n, 0, initial_bias, SubSeq(input, 1, last - 1))

RECURSIVE PutNumber(_, _, _)
PutNumber(q, k, bias) ==
  LET t == Threshold(k, bias)
  IN IF q < t THEN <<digit_value(q)>>
     ELSE <<digit_value(t + ((q - t) % (base - t)))>> \o PutNumber((q - t) \div (base - t), k + base, bias)

RECURSIVE EncodeFrom(_, _, _, _, _, _, _)
EncodeFrom(input, n, delta, bias, h, b, out) ==
  LET m == Min({c \in ToSet(input) : c >= n})
      Step(s, c) ==
        IF c < m THEN [s EXCEPT !.delta = @ + 1]
        ELSE IF c > m THEN s
        ELSE [delta |-> 0, bias |-> adapt(s.delta, s.h + 1, s.h = b), h |-> s.h + 1,
              out |-> s.out \o PutNumber(s.delta, base, s.bias)]
      end == FoldLeft(Step, [delta |-> delta + ((m - n) * (h + 1)), bias |-> bias, h |-> h, out |-> out], input)
  IN IF h >= Len(input) THEN out
     ELSE EncodeFrom(input, m + 1, end.delta + 1, end.bias, end.h, b, end.out)

\* The characters of ASCII as they are, and the places and numbers of the others.
encodePunycode(input) ==
  LET basic == SelectSeq(input, LAMBDA c : c < 128)
      start == IF basic = <<>> THEN <<>> ELSE Append(basic, delimiter)
  IN IF \E i \in DOMAIN input : ~isValidUnicodeScalar(input[i]) THEN <<>>
     ELSE EncodeFrom(input, initial_n, 0, initial_bias, Len(basic), Len(basic), start)

encodeToUTF8(scalars) ==
  IF \E i \in DOMAIN scalars : ~isValidUnicodeScalar(scalars[i]) THEN <<>>
  ELSE FlattenSeq([i \in DOMAIN scalars |-> writeUTF8(scalars[i])])
decodePunycodeUTF8(input) == encodeToUTF8(decodePunycode(input))
=============================================================================
