---------------------------- MODULE KSStackCursor ---------------------------
(***************************************************************************)
(* KSStackCursor*.c walks the frames of a thread, one address at a time;    *)
(* KSSymbolicator.c and KSDynamicLinker.c say which image and which symbol  *)
(* an address belongs to.  The frames are memory: a function from the       *)
(* readable frame pointers to what is stored there, in which a corrupt      *)
(* stack may have cycles and ends.                                          *)
(***************************************************************************)
EXTENDS Integers, Sequences, FiniteSets, SequencesExt

CONSTANTS Nil  \* no image, no symbol

NoFrame == [previous |-> 0, return_address |-> 0]
kssc_initCursor == [depth |-> 0, hasGivenUp |-> FALSE, address |-> 0]
kssc_initWithMachineContext(maxStackDepth, registers) ==
  [state |-> kssc_initCursor, max |-> maxStackDepth, registers |-> registers, frame |-> NoFrame,
   instruction |-> 0, link |-> 0, past |-> FALSE]

\* The cursor with the next address, and whether there is one.
Found(cursor, address) ==
  [more |-> TRUE, cursor |-> [cursor EXCEPT !.state.address = address, !.state.depth = @ + 1]]
NoMore(cursor) == [more |-> FALSE, cursor |-> cursor]

\* The frame is read over itself: a frame that cannot be read leaves the cursor where
\* it was.
NextFrame(frames, cursor) ==
  LET begun == IF cursor.frame.previous = 0
               THEN [cursor EXCEPT !.frame.previous = cursor.registers.fp, !.past = TRUE] ELSE cursor
      frame == frames[begun.frame.previous]
      read == [begun EXCEPT !.frame = frame]
  IN IF cursor.frame.previous = 0 /\ cursor.past THEN NoMore(cursor)
     ELSE IF begun.frame.previous \notin DOMAIN frames THEN NoMore(begun)
     ELSE IF frame.previous = 0 \/ frame.return_address = 0 THEN NoMore(read)
     ELSE Found(read, frame.return_address)

\* Mutant: one address more than there is room for.
advanceCursor_OneMore(frames, cursor) ==
  LET registers == cursor.registers IN
  IF cursor.state.depth > cursor.max THEN NoMore([cursor EXCEPT !.state.hasGivenUp = TRUE])
  ELSE IF cursor.instruction = 0 THEN
    IF registers.pc = 0 THEN NoMore(cursor)
    ELSE Found([cursor EXCEPT !.instruction = registers.pc], registers.pc)
  ELSE IF cursor.link = 0 /\ ~cursor.past /\ registers.lr # 0
       THEN Found([cursor EXCEPT !.link = registers.lr], registers.lr)
  ELSE NextFrame(frames, cursor)

\* The instruction, the link register if it has a value, then the frames.
advanceCursor(frames, cursor) ==
  LET registers == cursor.registers IN
  IF cursor.state.depth >= cursor.max THEN NoMore([cursor EXCEPT !.state.hasGivenUp = TRUE])
  ELSE IF cursor.instruction = 0 THEN
    IF registers.pc = 0 THEN NoMore(cursor)
    ELSE Found([cursor EXCEPT !.instruction = registers.pc], registers.pc)
  ELSE IF cursor.link = 0 /\ ~cursor.past /\ registers.lr # 0
       THEN Found([cursor EXCEPT !.link = registers.lr], registers.lr)
  ELSE NextFrame(frames, cursor)

RECURSIVE Walk(_, _, _)
\* writeBacktrace and isStackOverflow: every address until there is none.
Walk(frames, cursor, addresses) ==
  LET step == advanceCursor(frames, cursor)
  IN IF step.more THEN Walk(frames, step.cursor, Append(addresses, step.cursor.state.address))
     ELSE [addresses |-> addresses, isStackOverflow |-> step.cursor.state.hasGivenUp]

\* A backtrace the system made: an entry that is no address ends it.
backtraceEntries(backtrace, skipped) ==
  LET rest == SubSeq(backtrace, skipped + 1, Len(backtrace))
      end[i \in Nat] == IF i > Len(rest) THEN Len(rest) ELSE IF rest[i] <= 1 THEN i - 1 ELSE end[i + 1]
  IN SubSeq(rest, 1, end[1])

\* kssc_initSelfThread: the caller is skipped as well.
selfThreadEntries(backtrace, skipped) == backtraceEntries(backtrace, skipped + 1)

-----------------------------------------------------------------------------
(* An image: its header, its slide, its segments, and its symbols by value; *)
(* a symbol of value 0 is another image's.                                  *)

Unslid(image, address) == address - image.slide

\* 0 when there is none.
imageIndexContainingAddress(images, address) ==
  LET Within(image) == image.header # Nil /\
        \E s \in DOMAIN image.segments :
          /\ Unslid(image, address) >= image.segments[s].vmaddr
          /\ Unslid(image, address) < image.segments[s].vmaddr + image.segments[s].vmsize
  IN SelectInSeq(images, Within)

segmentBaseOfImageIndex(image) ==
  LET s == SelectInSeq(image.segments, LAMBDA segment : segment.segname = "linkedit")
  IN IF s = 0 THEN 0 ELSE image.segments[s].vmaddr - image.segments[s].fileoff

\* Of two symbols at the same address the later one is taken.
Better(address, best, symbol) ==
  symbol.n_value # 0 /\ address >= symbol.n_value /\ (best = Nil \/ symbol.n_value >= best.n_value)

NoInfo == [found |-> FALSE, image |-> 0, symbol |-> Nil, name |-> Nil]

\* A symbol of a stripped image has no name; without a segment for the symbols,
\* nothing is said of the image either.
ksdl_dladdr(images, address) ==
  LET index == imageIndexContainingAddress(images, address)
      image == images[index]
      best == FoldLeft(LAMBDA b, symbol : IF Better(Unslid(image, address), b, symbol) THEN symbol ELSE b,
                       Nil, image.symbols)
  IN IF index = 0 THEN NoInfo
     ELSE IF segmentBaseOfImageIndex(image) + image.slide = 0 THEN NoInfo
     ELSE IF best = Nil THEN [found |-> TRUE, image |-> index, symbol |-> Nil, name |-> Nil]
     ELSE [found |-> TRUE, image |-> index, symbol |-> best.n_value + image.slide,
           name |-> IF best.n_desc = 16 THEN Nil ELSE best.name]

\* The call before a return address: tags of the instruction set are taken off.
CALL_INSTRUCTION_FROM_RETURN_ADDRESS(address, alignment) == (address - (address % alignment)) - 1

kssymbolicator_symbolicate(images, address, alignment) ==
  ksdl_dladdr(images, CALL_INSTRUCTION_FROM_RETURN_ADDRESS(address, alignment))

\* What a report says of an image: the segment with the code, and the version, whose
\* last two parts have eight bits each.
ksdl_getBinaryImage(image) ==
  LET s == SelectLastInSeq(image.segments, LAMBDA segment : segment.segname = "text")
  IN [vmAddress |-> IF s = 0 THEN 0 ELSE image.segments[s].vmaddr,
      size |-> IF s = 0 THEN 0 ELSE image.segments[s].vmsize,
      version |-> <<image.version \div 65536, (image.version \div 256) % 256, image.version % 256>>]

\* The first image of that name, or with that name in its own.
ksdl_imageNamed(images, name, exactMatch) ==
  SelectInSeq(images, LAMBDA image : IF exactMatch THEN image.name = name
                                     ELSE \E i \in 1 .. Len(image.name) - Len(name) + 1 :
                                            SubSeq(image.name, i, i + Len(name) - 1) = name)

ksdl_imageUUID(images, name, exactMatch) ==
  LET i == ksdl_imageNamed(images, name, exactMatch)
  IN IF name = Nil \/ i = 0 \/ images[i].header = Nil THEN Nil ELSE images[i].uuid
=============================================================================
