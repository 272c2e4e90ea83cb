------------------------------- MODULE KSMemory -----------------------------
(***************************************************************************)
(* KSMemory.c, and the parts of KSCrashReport.c that read around the stack  *)
(* pointer.  Memory is the set of readable addresses; the kernel copies all *)
(* of a range or nothing.  Numbers wrap as the code's types do: addresses   *)
(* have AddressBits, an int has IntBits.                                    *)
(***************************************************************************)
EXTENDS Integers, Sequences, FiniteSets, SequencesExt

CONSTANTS
  AddressBits,     \* the width of uintptr_t
  IntBits,         \* the width of int, less than that of uintptr_t
  WordSize,        \* sizeof(uintptr_t)
  TestBufferSize,  \* sizeof(g_memoryTestBuffer)
  Pushed, Popped,  \* kStackContentsPushedDistance, kStackContentsPoppedDistance
  GrowDirection    \* kscpu_stackGrowDirection()

Wrap(n) == n % (2 ^ AddressBits)
AsInt(n) == LET low == n % (2 ^ IntBits) IN IF low < 2 ^ (IntBits - 1) THEN low ELSE low - 2 ^ IntBits

Bytes(address, n) == {Wrap(address + i) : i \in 0 .. n - 1}

\* A negative length is an enormous one to the kernel.
copySafely(readable, src, n) == IF n >= 0 /\ Bytes(src, n) \subseteq readable THEN n ELSE 0

RECURSIVE CopyHalves(_, _, _, _, _)

\* What could be copied moves the start to its end, and half of the rest is tried;
\* what could not is the new end of the search, and half of it is tried.
CopyHalves(readable, src, max, end, copied) ==
  LET length == end - src
  IN IF length <= 0 THEN copied
     ELSE IF copySafely(readable, src, length) = length
          THEN CopyHalves(readable, end, max, end + (max - end) \div 2, copied + length)
          ELSE IF length <= 1 THEN copied
               ELSE CopyHalves(readable, src, end, src + length \div 2, copied)

\* The first byte is tried before anything else.
ksmem_copyMaxPossible(readable, src, n) ==
  IF copySafely(readable, src, 1) # 1 THEN 0
  ELSE IF n <= 1 THEN n
  ELSE CopyHalves(readable, src, src + n, src + n, 0)

\* The address that is tested does not move on from one buffer to the next, and what is
\* left of a negative length never comes to nothing.
ksmem_isMemoryReadable(readable, address, n) ==
  n = 0 \/ copySafely(readable, address, IF n > TestBufferSize THEN TestBufferSize ELSE n) > 0

\* The last buffer is counted in full, however much of it was asked for.
ksmem_maxReadableBytes(readable, address, n) ==
  LET Readable(i) == ksmem_isMemoryReadable(readable, address + i * TestBufferSize, TestBufferSize)
      whole[i \in Nat] == IF n - i * TestBufferSize > TestBufferSize /\ Readable(i) THEN whole[i + 1] ELSE i
      position == address + whole[0] * TestBufferSize
  IN whole[0] * TestBufferSize + ksmem_copyMaxPossible(readable, position, TestBufferSize)

-----------------------------------------------------------------------------

\* The ends of a part of the stack: so many words where it came from, so many where
\* it grows to, and the lower end first.
StackRange(sp, back, forward) ==
  LET a == Wrap(sp - back * WordSize * GrowDirection)
      b == Wrap(sp + forward * WordSize * GrowDirection)
  IN IF b < a THEN [low |-> b, high |-> a] ELSE [low |-> a, high |-> b]

\* The bytes of the dump, or none if the stack cannot be read as a whole.
writeStackContents(readable, sp) ==
  LET range == StackRange(sp, Pushed, Popped)
      length == AsInt(range.high - range.low)
  IN IF sp = 0 THEN <<>>
     ELSE IF copySafely(readable, range.low, length) = length
          THEN [i \in 1 .. length |-> Wrap(range.low + i - 1)] ELSE <<>>

\* The addresses around the stack pointer whose contents are looked at as pointers.
writeNotableStackContents(readable, sp, back, forward) ==
  LET range == StackRange(sp, back, forward)
      words == {address \in range.low .. range.high - 1 : (address - range.low) % WordSize = 0}
  IN IF sp = 0 THEN {} ELSE {address \in words : copySafely(readable, address, WordSize) = WordSize}
=============================================================================
