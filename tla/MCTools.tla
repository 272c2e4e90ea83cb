------------------------------- MODULE MCTools ------------------------------
(***************************************************************************)
(* The pure algorithms of the crash reporter, one call of one of them at a  *)
(* time, on every input of a small set.  A behaviour is a single call: what *)
(* was asked and what was answered are compared with a definition that does *)
(* not look at how the code goes about it.                                  *)
(***************************************************************************)
EXTENDS KSMemory, KSStackCursor, KSObjC, KSObjCText, KSTextCodes, KSSystemNames, KSCrashHandlers, KSCrashReportFixer, MCSwift

OneEncodedText == "a" :> "~"

\* Every processor the library is built for has a stack that grows downwards.
Downwards == -1

VARIABLES call

NoCall == [tool |-> "none"]
Init == call = NoCall
Call(tool, in, out) == call' = [tool |-> tool, in |-> in, out |-> out]
Asked(tool) == call.tool = tool

-----------------------------------------------------------------------------
(* Memory *)

CopyMaxPossible ==
  \E readable \in SUBSET (1 .. 7), src \in 1 .. 3, n \in 0 .. 6 :
    Call("copyMaxPossible", [readable |-> readable, src |-> src, n |-> n],
         ksmem_copyMaxPossible(readable, src, n))

\* Memory that has one hole, or none.
ReadableWithHole == {(0 .. 31) \ hole : hole \in {{}} \cup {{a} : a \in 0 .. 31}}

DumpStack ==
  \E readable \in ReadableWithHole, sp \in 0 .. 31 :
    Call("dumpStack", [readable |-> readable, sp |-> sp],
         [contents |-> writeStackContents(readable, sp),
          notable |-> writeNotableStackContents(readable, sp, 1, 2)])

ReadBuffers ==
  \E readable \in ReadableWithHole, address \in 0 .. 3, n \in -1 .. 7 :
    Call("readBuffers", [readable |-> readable, address |-> address, n |-> n],
         [all |-> ksmem_isMemoryReadable(readable, address, n),
          some |-> ksmem_maxReadableBytes(readable, address, n)])

\* What is copied in halves is the longest part of the memory asked for that can be
\* read from its start, and a dump of the stack is all of it, around the stack
\* pointer, or nothing: a length that wraps is never read.  Memory of up to a buffer is
\* readable just when it is said to be; memory that is longer is never said not to be when it
\* is, but the other way round it may (KSMemory.c:107 asks for its beginning again).  The
\* bytes that are counted are the longest readable part of those asked for; what is counted
\* beyond these, as KSMemory.c:131 tries a whole buffer, is left aside.
LongestReadablePart ==
  /\ Asked("readBuffers") =>
       LET n == call.in.n
           Readable(k) == Bytes(call.in.address, k) \subseteq call.in.readable
           counted == IF call.out.some < n THEN call.out.some ELSE n
       IN /\ n <= TestBufferSize => (call.out.all <=> n >= 0 /\ Readable(n))
          /\ n > TestBufferSize => (Readable(n) => call.out.all)
          /\ n >= 0 => Readable(counted) /\ (counted < n => ~Readable(counted + 1))
  /\ Asked("copyMaxPossible") =>
       LET Readable(k) == Bytes(call.in.src, k) \subseteq call.in.readable
       IN /\ call.out \in 0 .. call.in.n /\ Readable(call.out)
          /\ call.out < call.in.n => ~Readable(call.out + 1)
  /\ Asked("dumpStack") =>
       LET contents == ToSet(call.out.contents)
       IN /\ Len(call.out.contents) \in {0, (Pushed + Popped) * WordSize}
          /\ contents \cup call.out.notable \subseteq call.in.readable
          /\ contents # {} => call.in.sp \in contents

-----------------------------------------------------------------------------
(* Stack and symbols *)

StackFrames ==
  UNION {[DOMAIN f -> [previous : 0 .. 3, return_address : {0, 11}]] :
         f \in {[a \in s |-> 0] : s \in SUBSET (1 .. 3)}}

Backtrace ==
  \E frames \in StackFrames, max \in 1 .. 4, pc \in {0, 5}, lr \in {0, 6}, fp \in 0 .. 3 :
    LET registers == [pc |-> pc, lr |-> lr, fp |-> fp]
    IN Call("backtrace", [frames |-> frames, max |-> max, registers |-> registers],
            Walk(frames, kssc_initWithMachineContext(max, registers), <<>>))

RecordedBacktrace ==
  \E backtrace \in SeqOf({0, 1, 7, 8}, 3), skipped \in 0 .. 1 :
    Call("recorded", [backtrace |-> backtrace, skipped |-> skipped],
         [all |-> backtraceEntries(backtrace, skipped), own |-> selfThreadEntries(backtrace, skipped)])

\* The first n addresses of a stack: the registers, then a frame as long as it, and the
\* one it is linked to, are there.
Addresses(frames, registers, n) ==
  LET Linked(f) == f \in DOMAIN frames /\ frames[f].previous # 0 /\ frames[f].return_address # 0
      pointer[i \in Nat] == IF i = 0 THEN registers.fp
                            ELSE IF Linked(pointer[i - 1]) THEN frames[pointer[i - 1]].previous ELSE 0
      begin == IF registers.pc = 0 THEN <<>>
               ELSE <<registers.pc>> \o (IF registers.lr = 0 THEN <<>> ELSE <<registers.lr>>)
      linked == SelectSeq([i \in 1 .. n |-> i], LAMBDA i : Linked(pointer[i - 1]))
      all == begin \o [i \in 1 .. Len(linked) |-> frames[pointer[i - 1]].return_address]
  IN IF registers.pc = 0 THEN <<>> ELSE SubSeq(all, 1, IF Len(all) < n THEN Len(all) ELSE n)

\* A backtrace is the registers and the chain of frames, however corrupt, up to the
\* maximum, and the stack counts as overflown just when the maximum is reached.
BacktraceFollowsFrames ==
  Asked("backtrace") =>
    LET expected == Addresses(call.in.frames, call.in.registers, call.in.max)
    IN /\ call.out.addresses = expected
       /\ call.out.isStackOverflow = (Len(expected) = call.in.max)

Segment(name, vmaddr) == [segname |-> name, vmaddr |-> vmaddr, vmsize |-> 4, fileoff |-> 0]
Symbol == [n_value : 0 .. 4, n_desc : {0, 16}, name : {"f"}]
Image(header, slide, vmaddr, symbols) ==
  [header |-> header, slide |-> slide, segments |-> <<Segment("text", vmaddr), Segment("linkedit", vmaddr + 4)>>,
   symbols |-> symbols, name |-> <<vmaddr, 9>>, uuid |-> vmaddr, version |-> 66051]
Images ==
  {<<Image(header, slide, 1, symbols), Image(50, 0, 12, <<>>)>> :
   header \in {Nil, 40}, slide \in 0 .. 1, symbols \in SeqOf(Symbol, 2)}

Symbolicate ==
  \E images \in Images, address \in 1 .. 12 :
    Call("symbolicate", [images |-> images, address |-> address], kssymbolicator_symbolicate(images, address, 2))

FindImage ==
  \E images \in Images, name \in {<<1, 9>>, <<9>>, <<12>>, <<3>>}, exact \in BOOLEAN :
    Call("findImage", [images |-> images, name |-> name],
         [index |-> ksdl_imageNamed(images, name, exact), uuid |-> ksdl_imageUUID(images, name, exact),
          first |-> ksdl_getBinaryImage(images[1])])

\* An address belongs to the image with a segment around it, and to the last symbol of
\* that image that does not begin behind it.
NearestSymbol ==
  Asked("symbolicate") =>
    LET instruction == CALL_INSTRUCTION_FROM_RETURN_ADDRESS(call.in.address, 2)
        info == call.out
        image == call.in.images[info.image]
        BeginsAt(i) == image.symbols[i].n_value # 0 /\ image.symbols[i].n_value + image.slide <= instruction
        values == {image.symbols[i].n_value + image.slide : i \in {j \in DOMAIN image.symbols : BeginsAt(j)}}
    IN info.found =>
         /\ image.header # Nil
         /\ instruction - image.slide \in image.segments[1].vmaddr .. image.segments[2].vmaddr + 3
         /\ info.symbol = IF values = {} THEN Nil ELSE CHOOSE v \in values : \A w \in values : w <= v

\* What a report says of a stack is what is there: its frames and their symbols.
StackIsTold == BacktraceFollowsFrames /\ NearestSymbol

-----------------------------------------------------------------------------
(* Objects *)

\* An object of class 2, which has two ivars and descends from class 16 and the root class 4;
\* 3 is the class of the class.  1 passes for a class as well, as an object has to.
SoundHeap ==
  (1 :> <<2, 4, 5>>) @@ (2 :> <<3, 16, 5>>) @@ (3 :> <<3, 4, 14>>) @@ (4 :> <<3, 0, 12>>) @@
  (5 :> <<6, 0, 0>>) @@ (6 :> <<0, 7, 8>>) @@ (7 :> <<TextWord, 0, 0>>) @@ (8 :> <<2, 0, 0>>) @@
  (9 :> <<11, 7, 7>>) @@ (10 :> <<11, 7, 7>>) @@ (11 :> <<1, 0, 0>>) @@
  (12 :> <<13, 0, 0>>) @@ (13 :> <<RO_ROOT, 7, 0>>) @@ (14 :> <<15, 0, 0>>) @@ (15 :> <<RO_META, 7, 0>>) @@
  (16 :> <<3, 4, 17>>) @@ (17 :> <<18, 0, 0>>) @@ (18 :> <<0, 7, 0>>)
Addressable == 0 .. 19

\* One word of it is overwritten, or one of its pieces is gone.
Corrupted ==
  {[SoundHeap EXCEPT ![a][w] = v] : a \in DOMAIN SoundHeap, w \in 1 .. 3, v \in Addressable}
  \cup {[b \in DOMAIN SoundHeap \ {a} |-> SoundHeap[b]] : a \in DOMAIN SoundHeap}

TypeOfObject ==
  \E heap \in Corrupted, o \in Addressable :
    Call("objectType", [heap |-> heap, o |-> o], ksobjc_objectType(heap, o))

\* Questions about an object that was found to be one.
ValueOfIvar ==
  \E heap \in Corrupted, o \in {1, 2, TAG_MASK + 2, TAG_MASK + 3}, index \in 0 .. 2 :
    /\ ksobjc_objectType(heap, o).type # "unknown"
    /\ Call("ivarValue", [heap |-> heap, o |-> o], ksobjc_ivarValue(heap, o, index))

\* Questions about a class that was found valid.
AskClass ==
  \E heap \in Corrupted, name \in {0, 7} :
    /\ isValidClass(heap, 2).ok
    /\ LET ivar == ksobjc_ivarNamed(heap, 2, name)
       IN Call("askClass", [heap |-> heap, name |-> name, o |-> 1],
               [kind |-> ksobjc_isKindOfClass(heap, 2, name), named |-> ksobjc_isClassNamed(heap, 2, name),
                ivar |-> ivar.index, room |-> ksobjc_ivarList(heap, 2, 1), touched |-> ivar.touched])

ClassData ==
  \E string \in 0 .. 2, number \in 0 .. 2, c \in 0 .. 2, name \in {"NSString", "NSNumber", "Other"} :
    LET known == ("NSString" :> string) @@ ("NSNumber" :> number)
    IN Call("classData", [known |-> known, c |-> c, name |-> name], getClassData(known, c, name))

\* KSObjC.h:93 has every object judged before anything else is asked of it, so that it is
\* valid and accessible.  Three reads are not covered by that: the name of a class above the
\* object's own, which is compared to judge it (KSObjC.c:872), the first of its ivars, where
\* the loop that checks them does not begin (560), and the count of ivars of a class that has
\* no list of them (802 and 840).
NotJudged(look) ==
  \/ look.what = "base name" /\ ksobjc_baseClass(call.in.heap, getIsaPointer(call.in.heap, call.in.o)).class
                                  # getIsaPointer(call.in.heap, call.in.o)
  \/ look.what \in {"first ivar", "no list"}

\* Whatever one word of an object, its class or its ivars is overwritten with, nothing that
\* cannot be read is read to judge it or, once it is found valid, to find its ivars and their
\* values, but for the three reads that no judgement covers.
ReadsAreChecked ==
  (Asked("objectType") \/ Asked("firstEntry") \/ Asked("ivarValue") \/ Asked("askClass")) =>
    \A look \in call.out.touched : look.address \in DOMAIN call.in.heap \/ NotJudged(look)

\* The tools read what can be read, as much of it as they can, whatever the memory they
\* look at has become.
OnlyReadableIsRead == LongestReadablePart /\ ReadsAreChecked

-----------------------------------------------------------------------------
(* Texts *)

\* Characters of one to three bytes, and the halves of one of four.
Units == {97, 233, 8364, 55357, 56832}

CopyUTF16 ==
  \E units \in SeqOf(Units, 4), count \in 0 .. 4, maxByteCount \in 1 .. 8 :
    /\ count <= Len(units)
    /\ Call("copyUTF16", [units |-> units, count |-> count, max |-> maxByteCount],
            copyAndConvertUTF16StringToUTF8(units, count, maxByteCount))

CopyString ==
  \E lengthByte, mutable, unicode, readable \in BOOLEAN, length \in 0 .. 2, maxByteCount \in 0 .. 3 :
    LET string == [lengthByte |-> lengthByte, mutable |-> mutable, unicode |-> unicode, readable |-> readable,
                   baseReadable |-> TRUE, inline |-> FALSE, length |-> length, bytes |-> <<2, 65, 66>>]
    IN /\ stringIsValid(string)
       /\ Call("copyString", [string |-> string, max |-> maxByteCount],
               ksobjc_copyStringContents(string, maxByteCount))

\* The bits of a tagged string, packed as the system packs it.
Packed(codes) ==
  LET length == Len(codes)
      Low(i) == TaggedWidth(length) * (IF length <= 7 THEN i - 1 ELSE length - i)
  IN UNION {{Low(i) + bit : bit \in {b \in 0 .. 6 : (codes[i] \div 2 ^ b) % 2 = 1}} : i \in 1 .. length}
TaggedString ==
  \E codes \in SeqOf({1, 31}, 3) \cup {[i \in 1 .. n |-> i + k] : n \in 7 .. 12, k \in {1, 19}}, room \in 1 .. 13 :
    Call("taggedString", [codes |-> codes, room |-> room], extractTaggedNSString(Len(codes), Packed(codes), room))

TaggedNumber == \E n \in -8 .. 7 : Call("taggedNumber", n, extractTaggedNSNumber((n * 16 + 3) % 256, 8))

WideNumber ==
  \E type \in {"SInt8", "Int", "Other"}, data \in 0 .. 255 :
    Call("number", [type |-> type, data |-> data],
         ksobjc_numberAsInteger([type |-> type, data |-> data], ("SInt8" :> 4) @@ ("Int" :> 8)))

Described(class, head, value) == [class |-> class, head |-> head, value |-> value]
Array(readable, mutable, entries) ==
  [class |-> "array", head |-> 1, kind |-> "NSArray", mutable |-> mutable, readable |-> readable, entries |-> entries]
Plain == {Described(class, head, value) : class \in {"string", "number", "object"}, head \in 1 .. 2, value \in 0 .. 2}
Arrays == {Array(readable, mutable, entries) : readable, mutable \in BOOLEAN, entries \in {<<>>} \cup {<<p>> : p \in Plain}}

\* Longer than any of them.
MaxDescription == 50
Describe ==
  \E object \in Plain \cup Arrays \cup {Array(TRUE, FALSE, <<a, a>>) : a \in Arrays}, room \in 0 .. 14 :
    Call("describe", [object |-> object, room |-> room], ksobjc_getDescription(object, room))

FirstEntry ==
  \E heap \in Corrupted, dict \in {5, 9, 17} :
    Call("firstEntry", [heap |-> heap, dict |-> dict], ksobjc_dictionaryFirstEntry(heap, dict, 1))

\* Whole characters of a text, the most of them that fit before the end of the buffer,
\* or nothing at all when the text is no text up to there; a tagged string is the
\* beginning of what was packed, and ends within the buffer if it fits (one that does not is
\* ended behind it, KSObjC.c:338); a description that fits is told in full, and one that does
\* not fills the buffer up to the byte that ends it.  What is told of its length is then one
\* too many (KSObjC.c:422 lets a part as long as its room pass), though KSObjC.h:266 leaves
\* that byte out: so much is allowed for here, and no more.
WholeCharacters ==
  /\ Asked("copyUTF16") =>
       LET units == call.in.units
           From(i) == DecodeUTF16(SubSeq(units, i, Len(units)))
           start[i \in Nat] == IF i = 0 THEN 1 ELSE start[i - 1] + From(start[i - 1]).length
           text[i \in Nat] == IF i = 0 THEN <<>> ELSE text[i - 1] \o EncodeUTF8(From(start[i - 1]).character)
           Within(i) == start[i] <= call.in.count /\ Len(text[i]) < call.in.max - 1
       IN \E i \in 0 .. Len(units) :
            /\ \A j \in 0 .. i - 1 : Within(j) /\ From(start[j]).length > 0
            /\ \/ /\ call.out = text[i] /\ Len(text[i]) < call.in.max
                  /\ Within(i) => From(start[i]).length > 0 /\ Len(text[i + 1]) >= call.in.max
               \/ call.out = <<>> /\ Within(i) /\ From(start[i]).length = 0
  /\ Asked("taggedString") =>
       LET length == Len(call.in.codes)
       IN /\ call.out.text = IF length > 11 THEN <<>>
                          ELSE SubSeq(call.in.codes, 1, IF length < call.in.room THEN length ELSE call.in.room - 1)
          /\ length < call.in.room => call.out.end < call.in.room
  /\ Asked("taggedNumber") => call.out = call.in
  /\ Asked("describe") =>
       LET whole == ksobjc_getDescription(call.in.object, MaxDescription)
       IN IF whole < call.in.room THEN call.out = whole
          ELSE call.in.room > 0 => call.out \in {call.in.room - 1, call.in.room}

-----------------------------------------------------------------------------
(* Swift names *)

TreeAndText(p) == [status |-> p.status, shown |-> IF p.status = "ok" THEN print(p.found[1], FALSE) ELSE <<>>]

DemangleText ==
  \E prefix \in Beginnings, text \in ShortTexts :
    Call("demangleText", prefix \o text, TreeAndText(demangleSymbolAsNode(prefix \o text)))

DemangleType ==
  \E type \in MangledTypes, compress \in BOOLEAN :
    Call("demangleType", [type |-> type, name |-> NameOf(type, compress)],
         [tree |-> demangleSymbolAsNode(NameOf(type, compress)).found])

\* Whatever can be demangled can be shown: the printer finds every child it looks for,
\* of the kind it counts on, in every tree the demangler builds.
PrinterKnowsTheTrees == Asked("demangleText") => \A i \in DOMAIN call.out.shown : call.out.shown[i] # Crash

\* The name of a type stands for that type, whether it is spelled out or refers back to
\* the modules and types that were named before.
NamesMeanTheirTypes == Asked("demangleType") => call.out.tree = <<NodeOf(call.in.type)>>

\* A mangled name is shown as what it names.
MangledNamesAreTold == PrinterKnowsTheTrees /\ NamesMeanTheirTypes

-----------------------------------------------------------------------------
(* Texts as bytes *)

Characters == {0, 9, 27, 65, 95, 233, 8364, 65536}
Texts4 == SeqOf(Characters, 4)
Encoded(text) == FlattenSeq([i \in DOMAIN text |-> EncodeUTF8(text[i])])

\* A text in memory, with the zero that ends it and one of its bytes overwritten or not.
TextInMemory ==
  \E text \in SeqOf(Characters \ {95}, 2), minLength \in 0 .. 2, b \in {-1, 65, 128, 195} :
    LET bytes == Encoded(text) \o <<0>>
    IN \E at \in DOMAIN bytes, maxLength \in {0, Len(bytes) - 1, Len(bytes)} :
         LET memory == IF b < 0 THEN bytes ELSE [bytes EXCEPT ![at] = b]
         IN /\ b < 0 => at = 1
            /\ Call("isText", [memory |-> memory, min |-> minLength, max |-> maxLength],
                    ksstring_isNullTerminatedUTF8String(memory \o <<0>>, minLength, maxLength))

MentionedAddress ==
  \E string \in SeqOf({"0", "x", "1", "f", "g"}, 5) :
    Call("hexValue", string, ksstring_extractHexValue(string \o <<"1">>, Len(string)))

EscapedText ==
  \E escapes \in SeqOf({65, 233, 8364, 55357, 56832, NotHexadecimal}, 4) : Call("escapes", escapes, decodeString(escapes))

EncodedName == \E text \in Texts4 : Call("punycode", text, [name |-> encodePunycode(text),
                                                           text |-> decodePunycode(encodePunycode(text)),
                                                           bytes |-> decodePunycodeUTF8(encodePunycode(text))])

\* The bytes of a text are taken for one exactly if they are whole, printable characters
\* that end within the memory given; a string is read just when its escapes are characters,
\* and is the bytes of these, what a pair of units stands for set aside; a name outside ASCII
\* comes back from its spelling; the first address mentioned in a text is found and has the
\* value its digits have, and none is found where there is none, unless the text ends before
\* the first digit.  The two that are set aside go wrong in the code: a pair of units is put
\* together without the 65536 it stands above (KSJSONCodec.c:861; KSObjC.c:1083 adds it), and
\* the byte behind a text counts as its first digit (KSString.c:155).
CodesMeanTheirTexts ==
  /\ Asked("isText") =>
       LET memory == call.in.memory
           ends == {i \in 1 .. call.in.max : memory[i] = 0}
           before == SubSeq(memory, 1, Min(ends) - 1)
           begins == {i \in DOMAIN before : before[i] \notin 128 .. 191}
           BytesOf(b) == CASE b < 128 -> 1 [] b < 224 -> 2 [] b < 240 -> 3 [] OTHER -> 4
       IN call.out <=> /\ ends # {} /\ Len(before) >= call.in.min
                       /\ UNION {i .. i + BytesOf(before[i]) - 1 : i \in begins} = DOMAIN before
                       /\ Len(before) = MapThenSumSet(LAMBDA i : BytesOf(before[i]), begins)
                       /\ \A i \in begins : before[i] # 27
  /\ Asked("hexValue") =>
       LET string == call.in
           places == {i \in 1 .. Len(string) - 2 : SubSeq(string, i, i + 1) = <<"0", "x">> /\ string[i + 2] \notin {"x", "g"}}
           digits == {j \in Min(places) + 2 .. Len(string) : \A k \in Min(places) + 2 .. j : string[k] \notin {"x", "g"}}
           Value(j) == CASE string[j] = "f" -> 15 [] string[j] = "1" -> 1 [] OTHER -> 0
       IN IF places # {}
          THEN call.out = [found |-> TRUE, value |-> MapThenSumSet(LAMBDA j : Value(j) * 16 ^ (Max(digits) - j), digits)]
          ELSE ~IsSuffix(<<"0", "x">>, string) => ~call.out.found
  /\ Asked("escapes") =>
       LET units == call.in
           leads == {i \in DOMAIN units : units[i] \in Lead}
           trails == {i \in DOMAIN units : units[i] \in Trail}
       IN /\ call.out.error = "none" <=> {i + 1 : i \in leads} = trails /\ NotHexadecimal \notin ToSet(units)
          /\ call.out.error = "none" =>
               /\ leads = {} => call.out.bytes = Encoded(units)
               /\ Cardinality({i \in DOMAIN call.out.bytes : call.out.bytes[i] \notin 128 .. 191}) = Len(units) - Cardinality(leads)
  /\ Asked("punycode") => /\ call.out.text = call.in
                          /\ call.out.bytes = Encoded(call.in)

\* A text that is copied, packed, escaped or encoded stays the text it was.
TextsAreTheirs == WholeCharacters /\ CodesMeanTheirTexts

-----------------------------------------------------------------------------
(* Names of the system *)

\* The number a field of a thread state holds; no two fields hold the same.
Held(cpu, more) ==
  LET fields == cpu.fields \o cpu.exceptions
  IN [f \in ToSet(fields) |-> (CHOOSE i \in DOMAIN fields : fields[i] = f) + more]

ShowRegisters ==
  \E cpu \in {arm, arm64, x86_32, x86_64}, self \in {"t1", "t2"}, crashed, signal \in BOOLEAN, more \in {0, 6} :
    LET thread == [name |-> "t1", state |-> Held(cpu, more)]
        context == IF signal THEN ksmc_getContextForSignal(thread) ELSE ksmc_getContextForThread(cpu, thread, self, crashed)
    IN Call("registers", [cpu |-> cpu, thread |-> thread, own |-> self = "t1", crashed |-> crashed \/ signal, signal |-> signal],
            [rows |-> writeRegisters(cpu, context),
             walked |-> [r \in {"fp", "sp", "pc", "lr", "fault"} |-> kscpu(cpu, r, context.state)]])

Faults ==
  [exception : {"EXC_BAD_ACCESS"}, code : {"KERN_INVALID_ADDRESS", "KERN_PROTECTION_FAILURE"}]
  \cup [exception : {"EXC_ARITHMETIC", "EXC_BAD_INSTRUCTION", "EXC_BREAKPOINT", "EXC_EMULATION"}, code : {"0"}]
  \cup [exception : {"EXC_SOFTWARE"}, code : {"EXC_UNIX_BAD_SYSCALL", "EXC_UNIX_BAD_PIPE", "EXC_UNIX_ABORT", "EXC_SOFT_SIGNAL"}]

\* The kernel's own translation.
KernelSignal(fault) ==
  CASE fault.exception = "EXC_BAD_ACCESS" /\ fault.code = "KERN_INVALID_ADDRESS" -> "SIGSEGV"
    [] fault.exception = "EXC_BAD_ACCESS" /\ fault.code # "KERN_INVALID_ADDRESS" -> "SIGBUS"
    [] fault.exception = "EXC_SOFTWARE" ->
         ("EXC_UNIX_BAD_SYSCALL" :> "SIGSYS" @@ "EXC_UNIX_BAD_PIPE" :> "SIGPIPE" @@ "EXC_UNIX_ABORT" :> "SIGABRT"
          @@ "EXC_SOFT_SIGNAL" :> "SIGKILL")[fault.code]
    [] OTHER -> ("EXC_ARITHMETIC" :> "SIGFPE" @@ "EXC_BAD_INSTRUCTION" :> "SIGILL" @@ "EXC_BREAKPOINT" :> "SIGTRAP"
                 @@ "EXC_EMULATION" :> "SIGEMT")[fault.exception]

\* A fault that reaches the Mach monitor, and the same one when the kernel has turned it into a signal.
NameError ==
  \E fault \in Faults, enabled \in SUBSET {"MachException", "Signal"}, sigcode \in {"0", "SEGV_MAPERR", "FPE_INTDIV"} :
    Call("error", fault @@ [enabled |-> enabled],
         [mach |-> writeError(addContextualInfoToEvent(enabled, machEvent(fault.exception, fault.code))),
          signal |-> writeError(addContextualInfoToEvent(enabled,
                       signalEvent(KernelSignal(fault), sigcode))),
          other |-> writeError(addContextualInfoToEvent(enabled, [NoError EXCEPT !.crashType = "CPPException"])),
          back |-> ksmach_machExceptionForSignal(ksmach_signalForMachException(fault.exception, fault.code))])

\* A register is shown under its own name, with the value it had in the thread, and the
\* stack is walked from the registers that are shown; a fault of the processor is told
\* with the same exception and the same signal by whichever monitor it reaches first,
\* and an error that is neither as a crash that ended in an abort.  That holds of a stack
\* overflow too, which is a protection failure to the kernel and stays one, a SIGBUS:
\* KSCrashMonitor_MachException.c:355 means to correct it to an invalid address, but the
\* flag it asks (line 353) is never set.
NamesOfTheSystem ==
  /\ Asked("registers") =>
       LET rows == call.out.rows
           cpu == call.in.cpu
           OwnName(name) == CASE name = "ip" -> "r12" [] name = "x29" -> "fp" [] OTHER -> name
           Listed(r) == \E row \in ToSet(rows.basic \o rows.exception) : row.name = cpu[r] /\ row.value = call.out.walked[r]
       IN /\ rows.basic = <<>> <=> call.in.own /\ ~call.in.signal
          /\ rows.exception # <<>> <=> rows.basic # <<>> /\ call.in.crashed
          /\ \A row \in ToSet(rows.basic \o rows.exception) : row.value = call.in.thread.state[OwnName(row.name)]
          /\ Cardinality({row.name : row \in ToSet(rows.basic)}) = Len(rows.basic)
          /\ rows.exception # <<>> => \A r \in {"fp", "sp", "pc", "lr", "fault"} : cpu[r] = Unnamed \/ Listed(r)
  /\ Asked("error") =>
       LET mach == call.out.mach
           signal == call.out.signal
           other == call.out.other
       IN /\ mach.signal.signal = signal.signal.signal
          /\ call.in.enabled = {"MachException", "Signal"} =>
               /\ call.in.exception # "EXC_SOFTWARE" => /\ signal.mach.exception = mach.mach.exception
                                                        /\ signal.mach.name # Unnamed
               /\ other.mach.name = "EXC_CRASH" /\ other.signal.name = "SIGABRT"
          /\ call.in.exception # "EXC_SOFTWARE" => call.out.back = call.in.exception
          /\ signal.signal.codeName # Unnamed => <<signal.signal.signal, signal.signal.codeName>> \in
                                                   {<<"SIGSEGV", "SEGV_MAPERR">>, <<"SIGFPE", "FPE_INTDIV">>}

-----------------------------------------------------------------------------
(* Handlers *)

SwitchFails == ("Signal" :> 0 .. SignalCount + 1) @@ ("CPP" :> {0})
               @@ ("Mach" :> 1 .. 7)
Switched(monitor, s, step) ==
  CASE monitor = "Signal" -> setSignalEnabled(s, step.on, step.failAt)
    [] monitor = "Mach" -> setMachEnabled(s, step.on, step.failAt)
    [] monitor = "CPP" -> setCPPEnabled(s, step.on)

SwitchMonitor ==
  \E monitor \in {"Signal", "Mach", "CPP"} : \E script \in SeqOf([on : BOOLEAN, failAt : SwitchFails[monitor]], 4) :
    LET begin == ("Signal" :> SignalMonitor("theirs") @@ "Mach" :> MachMonitor("theirs") @@ "CPP" :> CPPMonitor("theirs"))[monitor]
        history[i \in 1 .. Len(script) + 1] == IF i = 1 THEN begin ELSE Switched(monitor, history[i - 1], script[i - 1])
    IN /\ \A i \in DOMAIN script : ~script[i].on => script[i].failAt \in {0, 7}
       /\ Call("switches", [monitor |-> monitor, script |-> script], history)

\* A monitor that could be switched on has taken every place, one whose installation failed
\* none of them, and one that is switched off has given back what it took; the exception ports
\* are those of before even if its installation failed, and no thread that handles exceptions
\* is ever suspended while the list of such threads has room.  Nothing is asked of the
\* signals once the installation of their monitor has failed: it counts as on all the same
\* (KSCrashMonitor_Signal.c:212), so that switching it off restores actions that were never
\* saved (199).
PlacesAreGivenBack ==
  Asked("switches") =>
    LET script == call.in.script
        Taken(s) == CASE call.in.monitor = "Signal" -> s.actions [] call.in.monitor = "Mach" -> s.ports [] OTHER -> <<s.terminate>>
        None == call.out[1]
        Works(i) == call.in.monitor = "CPP" \/ script[i].failAt = IF call.in.monitor = "Mach" THEN 7 ELSE SignalCount + 1
        SwitchedOn(i) == script[i].on /\ ~call.out[i].isEnabled
        HasWorked(i) == \A j \in 1 .. i : SwitchedOn(j) => Works(j)
    IN \A i \in DOMAIN script :
         LET before == call.out[i]
             after == call.out[i + 1]
         IN /\ SwitchedOn(i) => IF Works(i) THEN after.isEnabled /\ ToSet(Taken(after)) = {Ours} ELSE Taken(after) = Taken(before)
            /\ ~script[i].on /\ before.isEnabled /\ (call.in.monitor = "Signal" => HasWorked(i)) =>
                 ~after.isEnabled /\ Taken(after) = Taken(None)
            /\ call.in.monitor = "Mach" /\ 2 * Cardinality({j \in 1 .. i : SwitchedOn(j)}) <= MaxReserved =>
                 after.threads \subseteq after.reserved
            /\ call.in.monitor = "CPP" => after.captureNextStackTrace = after.isEnabled

Corpse(address, class, name) == [address |-> address, class |-> class, isException |-> class = "NSException", name |-> name, reason |-> ""]
\* Two threads that deallocate one object after the other, in every order of their steps.
Dying == <<{<<a, b>> : a, b \in {Corpse(2, "A", ""), Corpse(4, "NSException", "range"), Corpse(10, "B", "")}},
           {<<c>> : c \in {Corpse(3, "C", ""), Corpse(6, "NSException", "")}}>>
Deallocate ==
  \E first \in Dying[1], second \in Dying[2], enabled, memory \in BOOLEAN, turns \in [1 .. 9 -> 1 .. 2] :
    /\ Cardinality({i \in 1 .. 9 : turns[i] = 1}) = 6
    /\ LET Done(i, t) == Cardinality({j \in 1 .. i : turns[j] = t})
           Of(i) == LET n == Done(i, turns[i]) - 1 IN [o |-> <<first, second>>[turns[i]][(n \div 3) + 1], step |-> (n % 3) + 1]
           start == setZombieEnabled(setZombieEnabled(ZombieMonitor, enabled, memory), FALSE, memory)
           end == FoldLeft(LAMBDA s, i : handleDealloc(s, Of(i).o, Of(i).step), start, [i \in 1 .. 9 |-> i])
       IN Call("dealloc", [hooked |-> enabled /\ memory, order |-> [i \in 1 .. 9 |-> Of(i)]],
               [class |-> [a \in {2, 3, 4, 6, 10} |-> kszombie_className(end, a)], last |-> addZombie(end)])

\* The class told of a dead object is that of the last one at its address, or none if its
\* place in the cache went to another one, unless two of that place died at the same time;
\* the last exception is the one whose text was read last.
DeadAreKnown ==
  Asked("dealloc") =>
    LET order == call.in.order
        Sharing(a) == {i \in DOMAIN order : hashIndex(order[i].o.address) = hashIndex(a)}
        Step(a, s) == {i \in Sharing(a) : order[i].step = s}
        Apart(a) == \A i \in Step(a, 1) : \A j \in Sharing(a) : j > i => \E k \in Step(a, 2) : k > i /\ k <= j /\ order[k].o = order[i].o
        final(a) == order[Max(Step(a, 1))].o
    IN IF ~call.in.hooked THEN \A a \in DOMAIN call.out.class : call.out.class[a] = "none"
       ELSE /\ \A a \in DOMAIN call.out.class :
                 Apart(a) => call.out.class[a] = IF Step(a, 1) # {} /\ final(a).address = a THEN final(a).class ELSE "none"
            /\ LET stored == {i \in DOMAIN order : order[i].step = 3 /\ order[i].o.isException}
                   told == {i \in stored : order[i].o.name # ""}
               IN /\ stored # {} => call.out.last.address = order[Max(stored)].o.address
                  /\ told # {} => call.out.last.name = order[Max(told)].o.name

-----------------------------------------------------------------------------
(* Reports that are fixed *)

Event(kind, name) == [kind |-> kind, name |-> name, value |-> "kept"]
\* A value at the end of a path, and another one behind it after some of its containers have ended.
ReportOf(path, kind, ends, name) ==
  LET Container(i) == Event(IF path[i + 1] = "" THEN "array" ELSE "object", path[i])
      depth == Len(path) - 1
      again == IF ends = depth THEN <<>> ELSE <<Event(kind, name)>>
  IN [i \in 1 .. depth |-> Container(i)] \o <<Event(kind, Last(path))>> \o [i \in 1 .. ends |-> Event("end", "")]
     \o again \o [i \in 1 .. depth - ends |-> Event("end", "")]

\* The paths the code lists and those that go wrong at one name, stop early or go on.
NearPaths ==
  LET listed == datePaths \cup demanglePaths
      beginnings == UNION {{SubSeq(p, 1, n) : n \in 2 .. Len(p)} \cup {Append(p, "x")} : p \in listed}
  IN beginnings \cup UNION {{[p EXCEPT ![i] = "x"] : i \in 2 .. Len(p)} : p \in beginnings}

\* Written by the crash reporter, with an indentation, or by someone else, without.
FixReport ==
  \E path \in NearPaths, kind \in {"integer", "string"}, name \in {"timestamp", "symbol_name", "x"}, pretty \in BOOLEAN :
  \E ends \in 0 .. (IF Len(path) > 3 THEN 3 ELSE Len(path) - 1) :
    LET report == ReportOf(path, kind, ends, name)
        depth[i \in 0 .. Len(report)] ==
          IF i = 0 THEN 0 ELSE depth[i - 1] + (CASE report[i].kind \in {"object", "array"} -> 1 [] report[i].kind = "end" -> -1 [] OTHER -> 0)
        length == FoldLeft(LAMBDA sum, i : sum + (IF pretty THEN Indented(report[i], depth[i - 1]) ELSE TextLength(report[i])), 0,
                           [i \in DOMAIN report |-> i])
    IN Call("fix", [path |-> path, kind |-> kind, ends |-> ends, name |-> name, pretty |-> pretty, report |-> report],
            kscrf_fixupCrashReport(report, length))

\* A fixed report is the report with the values at the listed paths, or where one of these
\* begins, replaced and nothing else; a report with the indentation of the crash reporter is
\* fixed, unless something is inside a value that is listed.
FixedAtItsPaths ==
  Asked("fix") =>
    LET in == call.in
        listed == IF in.kind = "integer" THEN datePaths ELSE demanglePaths
        second == Append(SubSeq(in.path, 1, Len(in.path) - 1 - in.ends), in.name)
        Value(path) == IF \E p \in listed : IsPrefix(path, p) THEN IF in.kind = "integer" THEN "date" ELSE "demangled" ELSE "kept"
        Inside(path) == \E p \in listed : IsStrictPrefix(p, path)
        expected == [i \in DOMAIN in.report |->
                       IF in.report[i].kind # in.kind THEN in.report[i]
                       ELSE [in.report[i] EXCEPT !.value = Value(IF i = Len(in.path) THEN in.path ELSE second)]]
    IN /\ call.out.status = "fixed" => call.out.out = expected
       /\ in.pretty => (call.out.status = "fixed" <=> ~Inside(in.path) /\ ~Inside(second))

-----------------------------------------------------------------------------

Next == /\ call = NoCall
        /\ \/ CopyMaxPossible \/ DumpStack \/ ReadBuffers
           \/ Backtrace \/ RecordedBacktrace \/ Symbolicate \/ FindImage
           \/ TypeOfObject \/ ValueOfIvar \/ AskClass \/ ClassData \/ FirstEntry
           \/ DemangleText \/ DemangleType
           \/ TextInMemory \/ MentionedAddress \/ EscapedText \/ EncodedName
           \/ ShowRegisters \/ NameError \/ FixReport \/ SwitchMonitor \/ Deallocate
           \/ CopyUTF16 \/ CopyString \/ TaggedString \/ TaggedNumber \/ WideNumber \/ Describe

Spec == Init /\ [][Next]_call
=============================================================================
