------------------------ MODULE KSFileUtils_proofs ------------------------
(***************************************************************************)
(* Proofs about the buffered writer and the buffered reader, for a buffer  *)
(* of any length, pieces of any lengths and every choice of the kernel.    *)
(*                                                                         *)
(* What is on its way to the file depends on the call in progress; that    *)
(* nothing else waits anywhere, and that a piece that goes past the buffer *)
(* finds it empty, is what makes the order of the bytes inductive.         *)
(* The reader needs that its window, wherever it was moved, is the piece   *)
(* of the file behind what it gave, and ends in a NUL that no byte is.     *)
(***************************************************************************)
EXTENDS KSFileUtils, SequenceTheorems, WellFoundedInduction, TLAPS

Byte == Nat \ {0}

WriterTypes ==
  /\ writer \in [buffer : Seq(Byte), fd : {"closed", "open", "done"}]
  /\ disk \in Seq(Byte) /\ pending \in Seq(Byte) /\ accepted \in Seq(Byte)
  /\ call \in [op : {"none", "flush", "direct", "copy", "close"}, data : Seq(Byte)]
  /\ failed \in BOOLEAN

\* Where bytes may wait: nowhere but in the buffer between two calls.
WriterStages ==
  /\ writer.fd # "open" => call = NoCall
  /\ call.op \in {"none", "copy"} => pending = <<>>
  /\ writer.fd = "closed" => writer.buffer = <<>> /\ accepted = <<>> /\ disk = <<>>

\* What a call found out about the buffer before it went on.
Roomy ==
  ~failed =>
    /\ Len(writer.buffer) <= BufferLength
    /\ call.op = "direct" => writer.buffer = <<>>
    /\ call.op = "copy" => Len(writer.buffer) + Len(call.data) <= BufferLength

WInv == WriterTypes /\ WriterStages /\ Roomy /\ WriterKeepsOrder

-----------------------------------------------------------------------------
(* Sequences of bytes *)

\* A sequence is a prefix of whatever is appended to it.
LEMMA PrefixOfConcat ==
  ASSUME NEW s \in Seq(Byte), NEW t \in Seq(Byte)
  PROVE  IsPrefix(s, s \o t)
<1>1. /\ Len(s) \in Nat /\ Len(t) \in Nat /\ s \o t \in Seq(Byte)
      /\ Len(s \o t) = Len(s) + Len(t)
  BY LenProperties, ConcatProperties
<1>2. SubSeq(s \o t, 1, Len(s)) = SubSeq(s, 1, Len(s))
  <2>1. CASE Len(s) = 0
    BY <2>1, SubSeqEmpty
  <2>2. CASE Len(s) # 0
    <3>1. 1 \in 1 .. Len(s) /\ Len(s) \in 1 .. Len(s)
      BY <2>2, <1>1
    <3> QED BY <3>1, SubSeqOfConcat1
  <2> QED BY <2>1, <2>2
<1> QED BY <1>1, <1>2 DEF IsPrefix

\* A write takes the first bytes of a sequence and leaves the others.
LEMMA CutInTwo ==
  ASSUME NEW s \in Seq(Byte), NEW k \in 1 .. Len(s)
  PROVE  /\ SubSeq(s, 1, k) \in Seq(Byte) /\ Len(SubSeq(s, 1, k)) = k
         /\ Drop(s, k) \in Seq(Byte)
         /\ SubSeq(s, 1, k) \o Drop(s, k) = s
<1>1. Len(s) \in Nat /\ \A i \in 1 .. Len(s) : s[i] \in Byte
  BY LenProperties, ElementOfSeq
<1>2. SubSeq(s, 1, k) \in Seq(Byte) /\ Len(SubSeq(s, 1, k)) = k
  <2>1. \A i \in 1 .. k : s[i] \in Byte
    BY <1>1
  <2>2. 1 \in Int /\ k \in Int /\ 1 <= k
    BY <1>1
  <2> QED BY <2>1, <2>2, SubSeqProperties
<1>3. Drop(s, k) \in Seq(Byte)
  <2>1. \A i \in k + 1 .. Len(s) : s[i] \in Byte
    BY <1>1
  <2>2. k + 1 \in Int /\ Len(s) \in Int
    BY <1>1
  <2> QED BY <2>1, <2>2, SubSeqProperties DEF Drop
<1>4. SubSeq(s, 1, k) \o SubSeq(s, k + 1, Len(s)) = SubSeq(s, 1, Len(s))
  <2>1. 1 \in 1 .. Len(s) + 1 /\ k \in 1 - 1 .. Len(s) /\ Len(s) \in k .. Len(s)
    BY <1>1
  <2> QED BY <2>1, ConcatAdjacentSubSeq
<1> QED BY <1>2, <1>3, <1>4, SubSeqFull DEF Drop

\* The bytes a caller hands over.
LEMMA BytesType ==
  ASSUME NEW from \in Nat, NEW n \in Nat
  PROVE  Bytes(from, n) \in Seq(Byte) /\ Len(Bytes(from, n)) = n
<1>1. \A i \in 1 .. n : from + i \in Byte
  BY DEF Byte
<1>2. Bytes(from, n) \in [1 .. n -> Byte]
  BY <1>1 DEF Bytes
<1>3. Bytes(from, n) \in Seq(Byte)
  BY <1>2, SeqDef
<1>4. DOMAIN Bytes(from, n) = 1 .. n
  BY DEF Bytes
<1>5. Len(Bytes(from, n)) \in Nat /\ DOMAIN Bytes(from, n) = 1 .. Len(Bytes(from, n))
  BY <1>3, LenProperties
<1>6. 1 .. n = 1 .. Len(Bytes(from, n))
  BY <1>4, <1>5
<1>7. n = Len(Bytes(from, n))
  <2> DEFINE L == Len(Bytes(from, n))
  <2>1. L \in Nat /\ \A i \in Int : i \in 1 .. n <=> i \in 1 .. L
    BY <1>5, <1>6
  <2> HIDE DEF L
  <2>2. (n >= 1 => n <= L) /\ (L >= 1 => L <= n)
    BY <2>1
  <2>3. n = L
    BY <2>1, <2>2
  <2> QED BY <2>3 DEF L
<1> QED BY <1>3, <1>7

-----------------------------------------------------------------------------
(* The writer keeps the order of the bytes *)

LEMMA WriterStart == Init => WInv
<1> SUFFICES ASSUME Init PROVE WInv
  OBVIOUS
<1>1. <<>> \in Seq(Byte) /\ Len(<<>>) = 0 /\ <<>> \o <<>> = <<>>
  BY EmptySeq, ConcatEmptySeq
<1>2. WriterTypes
  BY <1>1 DEF Init, WriterTypes, NoCall
<1>3. WriterStages
  BY DEF Init, WriterStages, NoCall
<1>4. Roomy
  BY <1>1, SizesAssumption DEF Init, Roomy, NoCall
<1>5. WriterKeepsOrder
  BY <1>1 DEF Init, WriterKeepsOrder, Unwritten, NoCall
<1> QED BY <1>2, <1>3, <1>4, <1>5 DEF WInv

LEMMA OpensInOrder ==
  ASSUME WInv, ksfu_openBufferedWriter
  PROVE  WInv'
<1> USE DEF WInv, ksfu_openBufferedWriter
<1>1. call = NoCall /\ pending = <<>> /\ <<>> \in Seq(Byte) /\ Len(<<>>) = 0 /\ <<>> \o <<>> = <<>>
  BY EmptySeq, ConcatEmptySeq DEF WriterStages, NoCall
<1>2. WriterTypes'
  BY <1>1 DEF WriterTypes
<1>3. WriterStages'
  BY <1>1 DEF WriterStages
<1>4. Roomy'
  BY <1>1, SizesAssumption DEF Roomy, NoCall
<1>5. WriterKeepsOrder'
  BY <1>1 DEF WriterKeepsOrder, Unwritten, NoCall
<1> QED BY <1>2, <1>3, <1>4, <1>5

\* A piece is appended to what was accepted, and waits behind everything else.
LEMMA WritesInOrder ==
  ASSUME WInv, NEW n \in Lengths, ksfu_writeBufferedWriter(n)
  PROVE  /\ WInv'
         /\ accepted' # accepted /\ IsPrefix(accepted, accepted')
<1> DEFINE data == Bytes(Len(accepted), n)
<1>1. /\ writer \in [buffer : Seq(Byte), fd : {"closed", "open", "done"}]
      /\ writer.buffer \in Seq(Byte) /\ accepted \in Seq(Byte) /\ disk \in Seq(Byte)
      /\ Len(accepted) \in Nat /\ Len(writer.buffer) \in Nat
  BY LenProperties DEF WInv, WriterTypes
<1>2. n \in Nat \ {0} /\ BufferLength \in Nat \ {0}
  BY SizesAssumption
<1>3. data \in Seq(Byte) /\ Len(data) = n
  BY <1>1, <1>2, BytesType
<1>4. /\ writer.fd = "open" /\ call = NoCall /\ accepted' = accepted \o data
      /\ IF n > BufferLength - Len(writer.buffer) /\ writer.buffer # <<>>
         THEN call' = [op |-> "flush", data |-> data] /\ pending' = writer.buffer
         ELSE AfterFlush(data)
      /\ UNCHANGED <<writer, disk, failed>>
  BY DEF ksfu_writeBufferedWriter, writerVars, readerVars
<1> HIDE DEF data
<1>5. /\ accepted' \in Seq(Byte) /\ Len(accepted') = Len(accepted) + n
      /\ IsPrefix(accepted, accepted')
  BY <1>1, <1>3, <1>4, ConcatProperties, PrefixOfConcat
<1>6. accepted' # accepted
  BY <1>1, <1>2, <1>5
<1>7. ~failed => accepted' = disk \o (writer.buffer \o data)
  <2>1. ~failed => accepted = disk \o writer.buffer
    BY <1>4 DEF WInv, WriterKeepsOrder, Unwritten, NoCall
  <2>2. (disk \o writer.buffer) \o data = disk \o (writer.buffer \o data)
    BY <1>1, <1>3, ConcatAssociative
  <2> QED BY <2>1, <2>2, <1>4
<1>8. <<>> \in Seq(Byte) /\ Len(<<>>) = 0
  BY EmptySeq
<1>9. CASE n > BufferLength - Len(writer.buffer) /\ writer.buffer # <<>>
  <2>1. call' = [op |-> "flush", data |-> data] /\ pending' = writer.buffer
    BY <1>4, <1>9
  <2>2. WriterTypes'
    BY <2>1, <1>1, <1>3, <1>4, <1>5 DEF WInv, WriterTypes
  <2>3. WriterStages'
    BY <2>1, <1>4 DEF WriterStages
  <2>4. Roomy'
    BY <2>1, <1>4 DEF WInv, Roomy
  <2>5. WriterKeepsOrder'
    BY <2>1, <1>4, <1>7 DEF WriterKeepsOrder, Unwritten
  <2> QED BY <2>2, <2>3, <2>4, <2>5, <1>5, <1>6 DEF WInv
<1>10. CASE ~(n > BufferLength - Len(writer.buffer) /\ writer.buffer # <<>>) /\ n > BufferLength
  <2>1. pending' = data /\ call' = [op |-> "direct", data |-> data]
    BY <1>3, <1>4, <1>10 DEF AfterFlush
  <2>2. writer.buffer = <<>>
    BY <1>1, <1>2, <1>10
  <2>3. WriterTypes'
    BY <2>1, <1>1, <1>3, <1>4, <1>5 DEF WInv, WriterTypes
  <2>4. WriterStages'
    BY <2>1, <1>4 DEF WriterStages
  <2>5. Roomy'
    BY <2>1, <2>2, <1>4, <1>8, SizesAssumption DEF WInv, Roomy
  <2>6. WriterKeepsOrder'
    <3>1. writer.buffer \o data = data
      BY <2>2, <1>3, ConcatEmptySeq
    <3> QED BY <3>1, <2>1, <1>4, <1>7 DEF WriterKeepsOrder, Unwritten
  <2> QED BY <2>3, <2>4, <2>5, <2>6, <1>5, <1>6 DEF WInv
<1>11. CASE ~(n > BufferLength - Len(writer.buffer) /\ writer.buffer # <<>>) /\ ~(n > BufferLength)
  <2>1. pending' = <<>> /\ call' = [op |-> "copy", data |-> data]
    BY <1>3, <1>4, <1>11 DEF AfterFlush
  <2>2. WriterTypes'
    BY <2>1, <1>1, <1>3, <1>4, <1>5, <1>8 DEF WInv, WriterTypes
  <2>3. WriterStages'
    BY <2>1, <1>4 DEF WriterStages
  <2>4. Len(writer.buffer) + Len(data) <= BufferLength
    BY <1>1, <1>2, <1>3, <1>8, <1>11
  <2>5. Roomy'
    BY <2>1, <2>4, <1>4 DEF WInv, Roomy
  <2>6. WriterKeepsOrder'
    BY <2>1, <1>4, <1>7 DEF WriterKeepsOrder, Unwritten
  <2> QED BY <2>2, <2>3, <2>5, <2>6, <1>5, <1>6 DEF WInv
<1> QED BY <1>9, <1>10, <1>11

LEMMA CopiesInOrder ==
  ASSUME WInv, CopyPiece
  PROVE  WInv' /\ UNCHANGED <<accepted, disk, failed, writer.fd>>
<1>1. /\ writer \in [buffer : Seq(Byte), fd : {"closed", "open", "done"}]
      /\ writer.buffer \in Seq(Byte) /\ call.data \in Seq(Byte) /\ <<>> \in Seq(Byte)
  BY EmptySeq DEF WInv, WriterTypes
<1>2. /\ call.op = "copy" /\ call' = NoCall /\ pending' = <<>>
      /\ writer' = [writer EXCEPT !.buffer = @ \o call.data]
      /\ UNCHANGED <<disk, accepted, failed>>
  BY DEF CopyPiece, MemCpy
<1>3. /\ writer'.buffer = writer.buffer \o call.data /\ writer'.fd = writer.fd
      /\ writer' \in [buffer : Seq(Byte), fd : {"closed", "open", "done"}]
      /\ Len(writer'.buffer) = Len(writer.buffer) + Len(call.data)
  <2> DEFINE both == writer.buffer \o call.data
  <2>1. both \in Seq(Byte) /\ Len(both) = Len(writer.buffer) + Len(call.data)
    BY <1>1, ConcatProperties
  <2>2. writer' = [writer EXCEPT !.buffer = both]
    BY <1>2
  <2> HIDE DEF both
  <2>3. /\ writer'.buffer = both /\ writer'.fd = writer.fd
        /\ writer' \in [buffer : Seq(Byte), fd : {"closed", "open", "done"}]
    BY <1>1, <2>1, <2>2
  <2> QED BY <2>1, <2>3 DEF both
<1>4. WriterTypes'
  BY <1>1, <1>2, <1>3 DEF WInv, WriterTypes, NoCall
<1>5. WriterStages'
  BY <1>2, <1>3 DEF WInv, WriterStages, NoCall
<1>6. Roomy'
  BY <1>2, <1>3 DEF WInv, Roomy, NoCall
<1>7. WriterKeepsOrder'
  BY <1>2, <1>3 DEF WInv, WriterKeepsOrder, Unwritten, NoCall
<1> QED BY <1>2, <1>3, <1>4, <1>5, <1>6, <1>7 DEF WInv

\* One write stores the next bytes of the log.
LEMMA StoresInOrder ==
  ASSUME WInv, NEW k \in Nat, KernelWrite(k)
  PROVE  /\ WInv' /\ writer.fd = "open" /\ UNCHANGED <<accepted, failed, writer>>
         /\ disk' # disk /\ IsPrefix(disk, disk')
         /\ ~failed => IsPrefix(disk', accepted)
<1> DEFINE head == SubSeq(pending, 1, k)
           tail == Drop(pending, k)
<1>1. /\ k \in 1 .. Len(pending) /\ disk' = disk \o head /\ pending' = tail
      /\ UNCHANGED <<writer, call, accepted, failed>>
  BY DEF KernelWrite
<1>2. /\ pending \in Seq(Byte) /\ disk \in Seq(Byte) /\ call.data \in Seq(Byte)
      /\ <<>> \in Seq(Byte) /\ Len(<<>>) = 0
  BY EmptySeq DEF WInv, WriterTypes
<1>3. /\ head \in Seq(Byte) /\ Len(head) = k /\ tail \in Seq(Byte) /\ head \o tail = pending
  BY <1>1, <1>2, CutInTwo
<1> HIDE DEF head, tail
<1>4. pending # <<>> /\ k \in Nat \ {0}
  BY <1>1, <1>2
<1>5. call.op \in {"flush", "direct", "close"}
  BY <1>4 DEF WInv, WriterTypes, WriterStages
<1>6. writer.fd = "open"
  BY <1>5 DEF WInv, WriterStages, NoCall
<1>7. disk' \in Seq(Byte) /\ Len(disk') = Len(disk) + k /\ IsPrefix(disk, disk')
  BY <1>1, <1>2, <1>3, ConcatProperties, PrefixOfConcat
<1>8. disk' # disk
  BY <1>2, <1>4, <1>7, LenProperties
<1>9. \A rest \in Seq(Byte) : accepted = disk \o (pending \o rest) => accepted = disk' \o (tail \o rest)
  <2> SUFFICES ASSUME NEW rest \in Seq(Byte), accepted = disk \o (pending \o rest)
               PROVE  accepted = disk' \o (tail \o rest)
    OBVIOUS
  <2>1. pending \o rest = head \o (tail \o rest)
    <3>1. head \in Seq(Byte) /\ tail \in Seq(Byte) /\ rest \in Seq(Byte)
      BY <1>3
    <3>2. (head \o tail) \o rest = head \o (tail \o rest)
      BY <3>1, ConcatAssociative, SMTT(30)
    <3> QED BY <3>2, <1>3
  <2>2. tail \o rest \in Seq(Byte)
    BY <1>3, ConcatProperties
  <2>3. (disk \o head) \o (tail \o rest) = disk \o (head \o (tail \o rest))
    <3> DEFINE others == tail \o rest
    <3>1. others \in Seq(Byte) /\ head \in Seq(Byte) /\ disk \in Seq(Byte)
      BY <2>2, <1>2, <1>3
    <3> HIDE DEF others
    <3>2. (disk \o head) \o others = disk \o (head \o others)
      BY <3>1, ConcatAssociative, SMTT(30)
    <3> QED BY <3>2 DEF others
  <2> QED BY <2>1, <2>3, <1>1
<1>10. pending \o <<>> = pending /\ tail \o <<>> = tail
  BY <1>2, <1>3, ConcatEmptySeq
<1>11. ~failed => accepted = disk' \o (tail \o (IF call.op = "flush" THEN call.data ELSE <<>>))
  BY <1>2, <1>5, <1>9, <1>10 DEF WInv, WriterKeepsOrder, Unwritten
<1>12. WriterTypes'
  BY <1>1, <1>3, <1>7 DEF WInv, WriterTypes
<1>13. WriterStages'
  BY <1>1, <1>5, <1>6 DEF WInv, WriterStages
<1>14. Roomy'
  BY <1>1 DEF WInv, Roomy
<1>15. WriterKeepsOrder'
  BY <1>1, <1>5, <1>10, <1>11 DEF WriterKeepsOrder, Unwritten
<1>16. ~failed => IsPrefix(disk', accepted)
  <2>1. tail \o (IF call.op = "flush" THEN call.data ELSE <<>>) \in Seq(Byte)
    BY <1>2, <1>3, ConcatProperties
  <2> QED BY <2>1, <1>7, <1>11, PrefixOfConcat
<1> QED BY <1>1, <1>6, <1>7, <1>8, <1>12, <1>13, <1>14, <1>15, <1>16 DEF WInv

\* A flush that is over makes room; a close that is over has stored everything.
LEMMA EndsInOrder ==
  ASSUME WInv, WriteDone
  PROVE  /\ WInv' /\ writer.fd = "open" /\ UNCHANGED <<accepted, disk, failed>>
         /\ \/ writer'.fd = "open"
            \/ writer'.fd = "done" /\ (~failed => disk = accepted)
<1>1. /\ pending = <<>> /\ call.op \in {"flush", "direct", "close"}
      /\ UNCHANGED <<disk, accepted, failed>>
      /\ CASE call.op = "flush" -> /\ writer' = [writer EXCEPT !.buffer = <<>>]
                                   /\ AfterFlush(call.data)
           [] call.op = "direct" -> call' = NoCall /\ UNCHANGED <<writer, pending>>
           [] OTHER -> /\ writer' = [buffer |-> <<>>, fd |-> "done"]
                       /\ call' = NoCall /\ UNCHANGED pending
  BY DEF WriteDone
<1>2. /\ writer \in [buffer : Seq(Byte), fd : {"closed", "open", "done"}]
      /\ writer.buffer \in Seq(Byte) /\ call.data \in Seq(Byte) /\ disk \in Seq(Byte)
      /\ accepted \in Seq(Byte) /\ <<>> \in Seq(Byte) /\ Len(<<>>) = 0
      /\ Len(call.data) \in Nat /\ BufferLength \in Nat \ {0}
  BY EmptySeq, LenProperties, SizesAssumption DEF WInv, WriterTypes
<1>3. writer.fd = "open"
  BY <1>1 DEF WInv, WriterStages, NoCall
<1>4. disk \o <<>> = disk /\ <<>> \o call.data = call.data
  BY <1>2, ConcatEmptySeq
<1>5. CASE call.op = "flush"
  <2>1. /\ writer'.buffer = <<>> /\ writer'.fd = "open"
        /\ writer' \in [buffer : Seq(Byte), fd : {"closed", "open", "done"}]
    BY <1>1, <1>2, <1>3, <1>5
  <2>2. AfterFlush(call.data)
    BY <1>1, <1>5
  <2>3. ~failed => accepted = disk \o call.data
    BY <1>1, <1>4, <1>5 DEF WInv, WriterKeepsOrder, Unwritten
  <2>4. CASE Len(call.data) > BufferLength
    <3>1. pending' = call.data /\ call' = [op |-> "direct", data |-> call.data]
      BY <2>2, <2>4 DEF AfterFlush
    <3>2. WriterTypes'
      BY <3>1, <2>1, <1>1, <1>2 DEF WInv, WriterTypes
    <3>3. WriterStages' /\ Roomy'
      BY <3>1, <2>1, <1>2 DEF WriterStages, Roomy
    <3>4. WriterKeepsOrder'
      BY <3>1, <2>3, <1>1 DEF WriterKeepsOrder, Unwritten
    <3> QED BY <3>2, <3>3, <3>4, <2>1, <1>1, <1>3 DEF WInv
  <2>5. CASE ~(Len(call.data) > BufferLength)
    <3>1. pending' = <<>> /\ call' = [op |-> "copy", data |-> call.data]
      BY <2>2, <2>5 DEF AfterFlush
    <3>2. WriterTypes'
      BY <3>1, <2>1, <1>1, <1>2 DEF WInv, WriterTypes
    <3>3. WriterStages' /\ Roomy'
      BY <3>1, <2>1, <2>5, <1>2 DEF WriterStages, Roomy
    <3>4. WriterKeepsOrder'
      BY <3>1, <2>1, <2>3, <1>1, <1>4 DEF WriterKeepsOrder, Unwritten
    <3> QED BY <3>2, <3>3, <3>4, <2>1, <1>1, <1>3 DEF WInv
  <2> QED BY <2>4, <2>5
<1>6. CASE call.op = "direct"
  <2>1. call' = NoCall /\ UNCHANGED <<writer, pending>>
    BY <1>1, <1>6
  <2>2. WriterTypes'
    BY <2>1, <1>1, <1>2 DEF WInv, WriterTypes, NoCall
  <2>3. WriterStages' /\ Roomy'
    BY <2>1, <1>1, <1>3 DEF WInv, WriterStages, Roomy, NoCall
  <2>4. WriterKeepsOrder'
    <3>1. ~failed => writer.buffer = <<>> /\ accepted = disk \o <<>>
      BY <1>1, <1>6 DEF WInv, Roomy, WriterKeepsOrder, Unwritten
    <3> QED BY <3>1, <2>1, <1>1 DEF WriterKeepsOrder, Unwritten, NoCall
  <2> QED BY <2>1, <2>2, <2>3, <2>4, <1>1, <1>3 DEF WInv
<1>7. CASE call.op = "close"
  <2>1. writer' = [buffer |-> <<>>, fd |-> "done"] /\ call' = NoCall /\ UNCHANGED pending
    BY <1>1, <1>7
  <2>2. ~failed => accepted = disk
    BY <1>1, <1>4, <1>7 DEF WInv, WriterKeepsOrder, Unwritten
  <2>3. WriterTypes'
    BY <2>1, <1>1, <1>2 DEF WInv, WriterTypes, NoCall
  <2>4. WriterStages' /\ Roomy'
    BY <2>1, <1>1, <1>2 DEF WriterStages, Roomy, NoCall
  <2>5. WriterKeepsOrder'
    BY <2>1, <2>2, <1>1, <1>4 DEF WriterKeepsOrder, Unwritten, NoCall
  <2> QED BY <2>1, <2>2, <2>3, <2>4, <2>5, <1>1, <1>3 DEF WInv
<1> QED BY <1>1, <1>5, <1>6, <1>7

LEMMA FailureIsKnown ==
  ASSUME WInv, KernelFail
  PROVE  WInv' /\ failed'
<1>1. /\ pending # <<>> /\ failed' = TRUE /\ pending' = <<>> /\ UNCHANGED <<disk, accepted>>
      /\ CASE call.op = "flush" -> /\ call' = [op |-> IF Len(call.data) > BufferLength
                                                    THEN "direct" ELSE "copy",
                                               data |-> call.data]
                                   /\ UNCHANGED writer
           [] call.op = "direct" -> call' = NoCall /\ UNCHANGED writer
           [] OTHER -> call' = NoCall /\ writer' = [writer EXCEPT !.fd = "done"]
  BY DEF KernelFail
<1>2. /\ writer \in [buffer : Seq(Byte), fd : {"closed", "open", "done"}]
      /\ call.data \in Seq(Byte) /\ <<>> \in Seq(Byte)
  BY EmptySeq DEF WInv, WriterTypes
<1>3. call.op \in {"flush", "direct", "close"}
  BY <1>1 DEF WInv, WriterTypes, WriterStages
<1>4. writer.fd = "open"
  BY <1>3 DEF WInv, WriterStages, NoCall
<1>5. CASE call.op = "flush"
  <2>1. UNCHANGED writer /\ call'.op \in {"direct", "copy"} /\ call'.data = call.data
        /\ call' \in [op : {"none", "flush", "direct", "copy", "close"}, data : Seq(Byte)]
    BY <1>1, <1>2, <1>5
  <2>2. WriterTypes'
    BY <2>1, <1>1, <1>2 DEF WInv, WriterTypes
  <2>3. WriterStages'
    BY <2>1, <1>1, <1>4 DEF WInv, WriterStages
  <2> QED BY <2>2, <2>3, <1>1 DEF WInv, Roomy, WriterKeepsOrder
<1>6. CASE call.op # "flush"
  <2>1. call' = NoCall /\ writer'.fd \in {"open", "done"} /\ writer'.buffer = writer.buffer
        /\ writer' \in [buffer : Seq(Byte), fd : {"closed", "open", "done"}]
    BY <1>1, <1>2, <1>3, <1>4, <1>6
  <2>2. WriterTypes'
    BY <2>1, <1>1, <1>2 DEF WInv, WriterTypes, NoCall
  <2>3. WriterStages'
    BY <2>1, <1>1 DEF WInv, WriterStages, NoCall
  <2> QED BY <2>2, <2>3, <1>1 DEF WInv, Roomy, WriterKeepsOrder
<1> QED BY <1>1, <1>5, <1>6

LEMMA ClosesInOrder ==
  ASSUME WInv, ksfu_closeBufferedWriter
  PROVE  WInv' /\ UNCHANGED <<accepted, disk, failed, writer>>
<1>1. /\ writer.fd = "open" /\ call = NoCall /\ call' = [op |-> "close", data |-> <<>>]
      /\ pending' = writer.buffer /\ UNCHANGED <<writer, disk, accepted, failed>>
  BY DEF ksfu_closeBufferedWriter
<1>2. writer.buffer \in Seq(Byte) /\ <<>> \in Seq(Byte)
  BY EmptySeq DEF WInv, WriterTypes
<1>3. WriterTypes'
  BY <1>1, <1>2 DEF WInv, WriterTypes
<1>4. WriterStages' /\ Roomy'
  BY <1>1 DEF WInv, WriterStages, Roomy
<1>5. WriterKeepsOrder'
  BY <1>1 DEF WInv, WriterKeepsOrder, Unwritten, NoCall
<1> QED BY <1>1, <1>3, <1>4, <1>5 DEF WInv

LEMMA DiesWithTheBuffer ==
  ASSUME WInv, Die
  PROVE  /\ WInv' /\ writer.fd = "open" /\ writer'.fd = "done"
         /\ accepted' = disk /\ UNCHANGED <<disk, failed>>
<1>1. /\ writer.fd = "open" /\ writer' = [buffer |-> <<>>, fd |-> "done"]
      /\ pending' = <<>> /\ call' = NoCall /\ accepted' = disk /\ UNCHANGED <<disk, failed>>
  BY DEF Die
<1>2. disk \in Seq(Byte) /\ <<>> \in Seq(Byte) /\ Len(<<>>) = 0 /\ disk \o <<>> = disk
  BY EmptySeq, ConcatEmptySeq DEF WInv, WriterTypes
<1>3. WriterTypes'
  BY <1>1, <1>2 DEF WInv, WriterTypes, NoCall
<1>4. WriterStages' /\ Roomy'
  BY <1>1, <1>2, SizesAssumption DEF WriterStages, Roomy, NoCall
<1>5. WriterKeepsOrder'
  BY <1>1, <1>2 DEF WriterKeepsOrder, Unwritten, NoCall
<1> QED BY <1>1, <1>3, <1>4, <1>5 DEF WInv

\* The reader changes nothing of the writer's.
LEMMA NothingWritten ==
  ASSUME WInv, UNCHANGED <<writerVars, disk>>
  PROVE  WInv'
BY DEF WInv, WriterTypes, WriterStages, Roomy, WriterKeepsOrder, Unwritten, writerVars

-----------------------------------------------------------------------------
(* The writer is an append-only log *)

\* Every step of the writer keeps its order and is a step of the log, or none.
LEMMA LogStep ==
  ASSUME WInv, [Next]_vars
  PROVE  WInv' /\ [Log!LogNext]_(Log!logVars)
<1> USE DEF Log!LogNext, Log!logVars
<1>1. ASSUME ksfu_openBufferedWriter
      PROVE  WInv' /\ UNCHANGED Log!logVars
  <2>1. writer.fd # "done" /\ writer'.fd # "done" /\ UNCHANGED <<disk, accepted, failed>>
    BY <1>1 DEF ksfu_openBufferedWriter
  <2> QED BY <2>1, <1>1, OpensInOrder
<1>2. ASSUME NEW n \in Lengths, ksfu_writeBufferedWriter(n)
      PROVE  WInv' /\ Log!LogNext
  <2>1. writer.fd = "open" /\ UNCHANGED <<writer, disk, failed>> /\ failed \in BOOLEAN
    BY <1>2 DEF ksfu_writeBufferedWriter, WInv, WriterTypes
  <2>2. WInv' /\ accepted' # accepted /\ IsPrefix(accepted, accepted')
    BY <1>2, WritesInOrder
  <2>3. Log!IsPrefix(accepted, accepted')
    BY <2>2 DEF IsPrefix, Log!IsPrefix
  <2>4. Log!Accept
    BY <2>1, <2>2, <2>3 DEF Log!Accept
  <2> QED BY <2>1, <2>2, <2>4
<1>3. ASSUME CopyPiece PROVE WInv' /\ UNCHANGED Log!logVars
  BY <1>3, CopiesInOrder
<1>4. ASSUME NEW k \in 1 .. MaxBytes, KernelWrite(k)
      PROVE  WInv' /\ Log!LogNext
  <2>1. k \in Nat
    BY SizesAssumption
  <2>2. /\ WInv' /\ writer.fd = "open" /\ UNCHANGED <<accepted, failed, writer>>
        /\ disk' # disk /\ IsPrefix(disk, disk') /\ (~failed => IsPrefix(disk', accepted))
    BY <2>1, <1>4, StoresInOrder
  <2>3. Log!IsPrefix(disk, disk') /\ (~failed => Log!IsPrefix(disk', accepted))
    BY <2>2 DEF IsPrefix, Log!IsPrefix
  <2>4. ~failed => Log!Store
    BY <2>2, <2>3 DEF Log!Store
  <2>5. failed' <=> failed
    BY <2>2
  <2> QED BY <2>2, <2>4, <2>5
<1>5. ASSUME WriteDone PROVE WInv' /\ [Log!LogNext]_(Log!logVars)
  BY <1>5, EndsInOrder DEF Log!CloseLog
<1>6. ASSUME KernelFail PROVE WInv' /\ Log!LogNext
  BY <1>6, FailureIsKnown
<1>7. ASSUME ksfu_closeBufferedWriter PROVE WInv' /\ UNCHANGED Log!logVars
  BY <1>7, ClosesInOrder
<1>8. ASSUME Die PROVE WInv' /\ Log!LogNext
  BY <1>8, DiesWithTheBuffer DEF Log!Die
<1>9. ASSUME UNCHANGED <<writerVars, disk>> PROVE WInv' /\ UNCHANGED Log!logVars
  BY <1>9, NothingWritten DEF writerVars
<1>10. ASSUME NEW k \in 0 .. BufferLength, ksfu_openBufferedReader(k) \/ Refill(k)
       PROVE  UNCHANGED <<writerVars, disk>>
  BY <1>10 DEF ksfu_openBufferedReader, Refill
<1>11. ASSUME NEW n \in Lengths, ksfu_readBufferedReader(n) \/ ksfu_readBufferedReaderUntilChar(n)
       PROVE  UNCHANGED <<writerVars, disk>>
  BY <1>11 DEF ksfu_readBufferedReader, ksfu_readBufferedReaderUntilChar, StartRead
<1>12. ASSUME ReadStep \/ UntilStep \/ ksfu_closeBufferedReader \/ UNCHANGED vars
       PROVE  UNCHANGED <<writerVars, disk>>
  BY <1>12 DEF ReadStep, UntilStep, Consume, ksfu_closeBufferedReader, vars, writerVars
<1> QED
  BY <1>1, <1>2, <1>3, <1>4, <1>5, <1>6, <1>7, <1>8, <1>9, <1>10, <1>11, <1>12 DEF Next

THEOREM WriterInvariant == Spec => []WInv
<1>1. Init => WInv
  BY WriterStart
<1>2. WInv /\ [Next]_vars => WInv'
  BY LogStep
<1> QED BY <1>1, <1>2, PTL DEF Spec

\* As long as no write failed, the file and what is still in memory are what the
\* writer was given, whatever the lengths of the buffer and of the pieces, and
\* however few bytes the kernel takes at a time.
THEOREM KeepsTheOrder == Spec => []WriterKeepsOrder
<1>1. WInv => WriterKeepsOrder
  BY DEF WInv
<1> QED BY <1>1, WriterInvariant, PTL

\* As long as no write failed, no memcpy goes past the end of the buffer.
THEOREM StaysInTheBuffer == Spec => []BufferInBounds
<1>1. WInv => BufferInBounds
  BY DEF WInv, Roomy, BufferInBounds
<1> QED BY <1>1, WriterInvariant, PTL

\* The buffered writer implements the append-only log: the file is always the
\* first of the bytes handed over, and a close leaves all of them there.
THEOREM IsALog == Spec => ImplementsLog
<1>1. Init => Log!LogInit
  BY DEF Init, Log!LogInit
<1>2. WInv /\ [Next]_vars => [Log!LogNext]_(Log!logVars)
  BY LogStep
<1> QED BY <1>1, <1>2, WriterInvariant, PTL DEF Spec, ImplementsLog, Log!LogSpec

-----------------------------------------------------------------------------
(* The reader *)

Readers == [buffer : [1 .. BufferLength + 1 -> Nat], start : Nat, end : Nat, offset : Nat,
            fd : {"closed", "open", "done"}]

ReaderTypes ==
  /\ reader \in Readers
  /\ request \in [op : {"none", "read", "until"}, remaining : Nat, got : Seq(Byte), started : BOOLEAN]
  /\ delivered \in Seq(Byte)
  /\ found \in [result : {"none", "read", "found", "absent"}, bytes : Seq(Byte), full : BOOLEAN]

\* A buffer holds, between start and end, what is in the file behind its first n bytes, and
\* a NUL behind it.
Holds(buffer, start, end, offset, n) ==
  /\ buffer \in [1 .. BufferLength + 1 -> Nat]
  /\ start \in Nat /\ end \in Nat /\ offset \in Nat
  /\ start <= end /\ end <= BufferLength /\ offset <= Len(disk)
  /\ offset + start = n + end
  /\ \A i \in start + 1 .. end : buffer[i] = disk[n + i - start]
  /\ buffer[end + 1] = Zero
Window(r, n) == Holds(r.buffer, r.start, r.end, r.offset, n)

\* Nothing is read before the writer is done.
ReaderStages ==
  /\ reader.fd # "closed" => writer.fd = "done"
  /\ reader.fd = "closed" => /\ request = NoRequest /\ delivered = <<>>
                             /\ reader.start = 0 /\ reader.end = 0 /\ reader.offset = 0

DeliversTheFile == \A i \in 1 .. Len(delivered) : delivered[i] = disk[i]

\* A search goes on only as long as it gave nothing it was looking for.
SearchGoesOn == request.op = "until" => \A i \in 1 .. Len(request.got) : request.got[i] \notin Ends

RInv ==
  /\ ReaderTypes /\ Window(reader, Len(delivered)) /\ ReaderStages
  /\ DeliversTheFile /\ SearchGoesOn /\ StopsAtCharacter

\* Every set of numbers that has a member has a least one.
LEMMA LeastOf ==
  ASSUME NEW T \in SUBSET Nat, T # {}
  PROVE  \E x \in T : \A y \in T : x <= y
<1>1. IsWellFoundedOn(OpToRel(<, Nat), Nat)
  BY NatLessThanWellFounded
<1>2. \E x \in T : \A y \in T : ~(<<y, x>> \in OpToRel(<, Nat))
  BY <1>1, WFMin
<1>3. \A x, y \in Nat : <<y, x>> \in OpToRel(<, Nat) <=> y < x
  BY DEF OpToRel
<1>4. \E x \in T : \A y \in T : ~(y < x)
  BY <1>2, <1>3, Zenon
<1> QED BY <1>4

\* What read() makes of a buffer.
FilledBuffer(buffer, end, offset, k) ==
  [i \in DOMAIN buffer |->
     IF i \in end + 1 .. end + k THEN disk[offset + i - end]
     ELSE IF i = end + k + 1 THEN Zero ELSE buffer[i]]

\* Behind the bytes of the file that are there come the next ones, and a NUL.
LEMMA FillsBuffer ==
  ASSUME disk \in Seq(Byte), NEW buffer, NEW start, NEW end, NEW offset, NEW n \in Nat, NEW k \in Nat,
         Holds(buffer, start, end, offset, n), end + k <= BufferLength, offset + k <= Len(disk)
  PROVE  Holds(FilledBuffer(buffer, end, offset, k), start, end + k, offset + k, n)
<1> DEFINE b == FilledBuffer(buffer, end, offset, k)
<1>1. /\ BufferLength \in Nat \ {0} /\ Len(disk) \in Nat /\ \A i \in 1 .. Len(disk) : disk[i] \in Nat
  BY SizesAssumption, LenProperties, ElementOfSeq DEF Byte
<1>2. /\ buffer \in [1 .. BufferLength + 1 -> Nat] /\ start \in Nat /\ end \in Nat /\ offset \in Nat
      /\ start <= end /\ offset + start = n + end
      /\ \A i \in start + 1 .. end : buffer[i] = disk[n + i - start]
  BY DEF Holds
<1>3. \A i \in end + 1 .. end + k : disk[offset + i - end] \in Nat
  BY <1>1, <1>2
<1>4. DOMAIN b = 1 .. BufferLength + 1 /\ b = [i \in 1 .. BufferLength + 1 |-> b[i]]
  BY <1>2 DEF FilledBuffer
<1>5. \A i \in 1 .. BufferLength + 1 :
        b[i] = IF i \in end + 1 .. end + k THEN disk[offset + i - end]
               ELSE IF i = end + k + 1 THEN Zero ELSE buffer[i]
  BY <1>2 DEF FilledBuffer
<1> HIDE DEF b
<1>6. \A i \in 1 .. BufferLength + 1 : b[i] \in Nat
  BY <1>2, <1>3, <1>5, SMTT(30) DEF Zero
<1>7. b \in [1 .. BufferLength + 1 -> Nat]
  BY <1>4, <1>6
<1>8. b[end + k + 1] = Zero
  <2>1. end + k + 1 \in 1 .. BufferLength + 1 /\ end + k + 1 \notin end + 1 .. end + k
    BY <1>1, <1>2
  <2> QED BY <2>1, <1>5
<1>9. ASSUME NEW i \in start + 1 .. end + k PROVE b[i] = disk[n + i - start]
  <2>1. i \in 1 .. BufferLength + 1 /\ offset + i - end = n + i - start /\ i # end + k + 1
    BY <1>1, <1>2
  <2>2. CASE i \in end + 1 .. end + k
    BY <2>1, <2>2, <1>5
  <2>3. CASE i \in start + 1 .. end
    <3>1. i \notin end + 1 .. end + k
      BY <2>3, <1>2
    <3> QED BY <3>1, <2>1, <2>3, <1>2, <1>5
  <2> QED BY <2>2, <2>3, <1>2
<1>10. /\ end + k \in Nat /\ offset + k \in Nat /\ start <= end + k
       /\ (offset + k) + start = n + (end + k)
  BY <1>2
<1> QED BY <1>2, <1>7, <1>8, <1>9, <1>10 DEF b, Holds

\* read() puts the file's next bytes behind the window.
LEMMA FillsWindow ==
  ASSUME NEW r \in Readers, NEW n \in Nat, disk \in Seq(Byte), Window(r, n),
         NEW k \in Nat, KernelRead(r, k)
  PROVE  /\ Filled(r, k) \in Readers /\ Window(Filled(r, k), n)
         /\ Filled(r, k).fd = r.fd
<1> DEFINE b == FilledBuffer(r.buffer, r.end, r.offset, k)
           end == r.end + k
           offset == r.offset + k
<1>1. r.end \in Nat /\ r.offset \in Nat /\ r.end <= BufferLength /\ r.offset <= Len(disk)
  BY DEF Window, Holds
<1>2. Filled(r, k) = [r EXCEPT !.buffer = b, !.end = end, !.offset = offset]
  BY DEF Filled, FilledBuffer
<1>3. BufferLength \in Nat /\ Len(disk) \in Nat
  BY SizesAssumption, LenProperties
<1>4. end <= BufferLength /\ offset <= Len(disk)
  BY <1>1, <1>3 DEF KernelRead, Least
<1>5. Holds(b, r.start, end, offset, n)
  BY <1>4, FillsBuffer DEF Window
<1> HIDE DEF b, end, offset
<1>6. b \in [1 .. BufferLength + 1 -> Nat] /\ end \in Nat /\ offset \in Nat
  BY <1>5 DEF Holds
<1>7. /\ Filled(r, k).buffer = b /\ Filled(r, k).start = r.start /\ Filled(r, k).end = end
      /\ Filled(r, k).offset = offset /\ Filled(r, k).fd = r.fd /\ Filled(r, k) \in Readers
  BY <1>2, <1>6 DEF Readers
<1> QED BY <1>5, <1>7 DEF Window

\* An empty window is moved to the front of the buffer, with whatever is behind it.
LEMMA MovesWindow ==
  ASSUME NEW r \in Readers, NEW n \in Nat, Window(r, n), isReadBufferEmpty(r)
  PROVE  /\ Moved(r) \in Readers /\ Window(Moved(r), n) /\ Moved(r).fd = r.fd
<1>1. CASE r.start = 0
  BY <1>1 DEF Moved
<1>2. CASE r.start # 0
  <2>1. /\ BufferLength \in Nat \ {0} /\ r.buffer \in [1 .. BufferLength + 1 -> Nat]
        /\ r.start \in Nat /\ r.end = r.start /\ r.offset \in Nat /\ r.offset <= Len(disk)
        /\ r.offset = n
    BY SizesAssumption DEF Readers, Window, Holds, isReadBufferEmpty
  <2> DEFINE b == [i \in DOMAIN r.buffer |->
                     IF i = r.end - r.start + 1 THEN Zero
                     ELSE IF i <= r.start /\ i + r.start \in DOMAIN r.buffer
                     THEN r.buffer[i + r.start] ELSE r.buffer[i]]
  <2>2. r.end - r.start = 0
    BY <2>1
  <2>3. b \in [1 .. BufferLength + 1 -> Nat] /\ b[1] = Zero
    BY <2>1, <2>2, SMTT(30) DEF Zero
  <2>4. Moved(r) = [r EXCEPT !.buffer = b, !.end = 0, !.start = 0]
    BY <1>2, <2>2 DEF Moved
  <2>5. r = [buffer |-> r.buffer, start |-> r.start, end |-> r.end, offset |-> r.offset, fd |-> r.fd]
        /\ r.fd \in {"closed", "open", "done"}
    BY DEF Readers
  <2> HIDE DEF b
  <2>6. Moved(r) = [buffer |-> b, start |-> 0, end |-> 0, offset |-> r.offset, fd |-> r.fd]
    BY <2>4, <2>5
  <2>7. \A i \in 0 + 1 .. 0 : b[i] = disk[n + i - 0]
    OBVIOUS
  <2> QED BY <2>1, <2>3, <2>5, <2>6, <2>7, SMTT(30) DEF Readers, Window, Holds
<1> QED BY <1>1, <1>2

\* What is in the window are the bytes of the file that come next.
LEMMA WindowBytes ==
  ASSUME WInv, RInv
  PROVE  /\ InReader \in Seq(Byte) /\ Len(InReader) = reader.end - reader.start
         /\ \A i \in 1 .. Len(InReader) : /\ InReader[i] = reader.buffer[reader.start + i]
                                          /\ InReader[i] = disk[Len(delivered) + i]
         /\ Len(delivered) + Len(InReader) <= Len(disk)
<1>1. /\ disk \in Seq(Byte) /\ Len(disk) \in Nat /\ Len(delivered) \in Nat
      /\ \A i \in 1 .. Len(disk) : disk[i] \in Byte
  BY LenProperties, ElementOfSeq DEF WInv, WriterTypes, RInv, ReaderTypes
<1>2. /\ reader.start \in Nat /\ reader.end \in Nat /\ reader.offset \in Nat
      /\ reader.start <= reader.end /\ reader.offset <= Len(disk)
      /\ reader.offset + reader.start = Len(delivered) + reader.end
      /\ \A i \in reader.start + 1 .. reader.end : reader.buffer[i] = disk[Len(delivered) + i - reader.start]
  BY DEF RInv, ReaderTypes, Readers, Window, Holds
<1>3. \A i \in reader.start + 1 .. reader.end : reader.buffer[i] \in Byte
  <2> SUFFICES ASSUME NEW i \in reader.start + 1 .. reader.end PROVE reader.buffer[i] \in Byte
    OBVIOUS
  <2>1. Len(delivered) + i - reader.start \in 1 .. Len(disk)
    BY <1>1, <1>2, SMTT(30)
  <2> QED BY <2>1, <1>1, <1>2
<1>4. /\ InReader \in Seq(Byte)
      /\ Len(InReader) = IF reader.start + 1 <= reader.end THEN reader.end - (reader.start + 1) + 1 ELSE 0
      /\ \A i \in 1 .. reader.end - (reader.start + 1) + 1 : InReader[i] = reader.buffer[reader.start + 1 + i - 1]
  <2>1. reader.start + 1 \in Int /\ reader.end \in Int
    BY <1>2
  <2> QED BY <2>1, <1>3, SubSeqProperties DEF InReader
<1>5. Len(InReader) = reader.end - reader.start
  BY <1>2, <1>4
<1>6. ASSUME NEW i \in 1 .. Len(InReader)
      PROVE  InReader[i] = reader.buffer[reader.start + i] /\ InReader[i] = disk[Len(delivered) + i]
  <2>1. i \in 1 .. reader.end - (reader.start + 1) + 1 /\ reader.start + 1 + i - 1 = reader.start + i
        /\ reader.start + i \in reader.start + 1 .. reader.end
        /\ Len(delivered) + (reader.start + i) - reader.start = Len(delivered) + i
    <3>1. /\ reader.start \in Nat /\ reader.end \in Nat /\ Len(delivered) \in Nat
          /\ i \in Nat /\ 1 <= i /\ i <= reader.end - reader.start
      BY <1>1, <1>2, <1>5
    <3>2. i \in 1 .. reader.end - (reader.start + 1) + 1
      BY <3>1
    <3>3. reader.start + 1 + i - 1 = reader.start + i
      BY <3>1
    <3>4. reader.start + i \in reader.start + 1 .. reader.end
      BY <3>1
    <3>5. Len(delivered) + (reader.start + i) - reader.start = Len(delivered) + i
      BY <3>1
    <3> QED BY <3>2, <3>3, <3>4, <3>5
  <2> QED BY <2>1, <1>2, <1>4
<1>7. Len(delivered) + Len(InReader) <= Len(disk)
  <2>1. /\ reader.start \in Nat /\ reader.end \in Nat /\ reader.offset \in Nat /\ Len(delivered) \in Nat
        /\ Len(disk) \in Nat /\ reader.offset <= Len(disk)
        /\ reader.offset + reader.start = Len(delivered) + reader.end
    BY <1>1, <1>2
  <2> QED BY <2>1, <1>5
<1> QED BY <1>4, <1>5, <1>6, <1>7

\* What a read and a search know of the n bytes they take from the window.
Takes(n, result) ==
  /\ request.op # "none" /\ n <= Len(InReader) /\ n <= request.remaining
  /\ result \in {"found", "absent"} => request.op = "until"
  /\ request.op = "until" /\ result \in {"more", "absent"} =>
       \A i \in 1 .. n : InReader[i] \notin Ends
  /\ result = "found" => /\ \A i \in 1 .. n : i < n => InReader[i] \notin Ends
                         /\ n = request.remaining \/ (n > 0 /\ InReader[n] \in Ends)

\* What is appended comes behind what was there.
LEMMA Appended ==
  ASSUME NEW s \in Seq(Byte), NEW t \in Seq(Byte)
  PROVE  /\ s \o t \in Seq(Byte) /\ Len(s \o t) = Len(s) + Len(t)
         /\ \A i \in 1 .. Len(s) + Len(t) : (s \o t)[i] = IF i <= Len(s) THEN s[i] ELSE t[i - Len(s)]
BY ConcatProperties

\* Bytes given from the front of the window are the next of the file.
LEMMA ConsumesInOrder ==
  ASSUME WInv, RInv, NEW n \in Nat, NEW result \in {"read", "found", "absent", "more"},
         Takes(n, result), Consume(n, result)
  PROVE  RInv'
<1> DEFINE bytes == SubSeq(InReader, 1, n)
           before == request.got
           room == request.remaining
           got == before \o bytes
<1>1. /\ delivered' = delivered \o bytes
      /\ reader' = [reader EXCEPT !.start = @ + n]
      /\ IF result # "more" THEN Return(result, got, n = request.remaining)
         ELSE /\ request' = [request EXCEPT !.remaining = @ - n, !.got = got, !.started = TRUE]
              /\ UNCHANGED found
      /\ UNCHANGED <<writer, disk>>
  BY DEF Consume, writerVars
<1>2. /\ InReader \in Seq(Byte) /\ Len(InReader) = reader.end - reader.start
      /\ \A i \in 1 .. Len(InReader) : InReader[i] = disk[Len(delivered) + i]
      /\ Len(delivered) + Len(InReader) <= Len(disk)
  BY WindowBytes
<1>3. n \in Nat /\ n <= Len(InReader) /\ n <= request.remaining
  BY DEF Takes
<1>4. /\ bytes \in Seq(Byte) /\ Len(bytes) = n /\ \A i \in 1 .. n : bytes[i] = InReader[i]
  <2>1. /\ 1 \in Int /\ n \in Int /\ \A i \in 1 .. n : InReader[i] \in Byte
        /\ n - 1 + 1 = n /\ \A i \in 1 .. n : 1 + i - 1 = i
    BY <1>2, <1>3, ElementOfSeq, LenProperties
  <2>2. /\ bytes \in Seq(Byte) /\ Len(bytes) = IF 1 <= n THEN n - 1 + 1 ELSE 0
        /\ \A i \in 1 .. n - 1 + 1 : bytes[i] = InReader[1 + i - 1]
    BY <2>1, SubSeqProperties
  <2> QED BY <2>1, <2>2
<1> HIDE DEF bytes
<1>5. /\ delivered \in Seq(Byte) /\ reader \in Readers
      /\ request \in [op : {"none", "read", "until"}, remaining : Nat, got : Seq(Byte), started : BOOLEAN]
      /\ found \in [result : {"none", "read", "found", "absent"}, bytes : Seq(Byte), full : BOOLEAN]
  BY DEF RInv, ReaderTypes
<1>6. before \in Seq(Byte) /\ room \in Nat /\ n \in Nat /\ n <= room
  BY <1>5, <1>3
<1>7. Len(delivered) \in Nat /\ Len(before) \in Nat /\ n \in Nat
  BY <1>5, <1>6, LenProperties
<1>8. request.op = "until" => \A i \in 1 .. Len(before) : before[i] \notin Ends
  BY DEF RInv, SearchGoesOn
<1>9. Len(InReader) \in Nat /\ n <= Len(InReader)
  BY <1>2, <1>3, LenProperties
<1>10. /\ delivered' \in Seq(Byte) /\ Len(delivered') = Len(delivered) + n
      /\ \A i \in 1 .. Len(delivered) + n : delivered'[i] = IF i <= Len(delivered) THEN delivered[i]
                                                           ELSE bytes[i - Len(delivered)]
  <2>1. /\ delivered \o bytes \in Seq(Byte) /\ Len(delivered \o bytes) = Len(delivered) + Len(bytes)
        /\ \A i \in 1 .. Len(delivered) + Len(bytes) :
             (delivered \o bytes)[i] = IF i <= Len(delivered) THEN delivered[i] ELSE bytes[i - Len(delivered)]
    BY <1>4, <1>5, Appended
  <2> QED BY <2>1, <1>1, <1>4
<1> HIDE DEF before, room
<1>11. /\ got \in Seq(Byte) /\ Len(got) = Len(before) + n
      /\ \A i \in 1 .. Len(before) + n : got[i] = IF i <= Len(before) THEN before[i]
                                                      ELSE bytes[i - Len(before)]
  BY <1>4, <1>6, <1>7, Appended
<1> HIDE DEF got
<1>12. Window(reader, Len(delivered))' /\ reader' \in Readers /\ reader'.fd = reader.fd
  <2> DEFINE start == reader.start + n
  <2>1. /\ reader.buffer \in [1 .. BufferLength + 1 -> Nat]
        /\ reader.start \in Nat /\ reader.end \in Nat /\ reader.offset \in Nat
        /\ reader.start <= reader.end /\ reader.end <= BufferLength /\ reader.offset <= Len(disk)
        /\ reader.offset + reader.start = Len(delivered) + reader.end
        /\ reader.buffer[reader.end + 1] = Zero
    BY DEF RInv, Window, Holds
  <2>2. \A i \in reader.start + 1 .. reader.end : reader.buffer[i] = disk[Len(delivered) + i - reader.start]
    BY DEF RInv, Window, Holds
  <2>3. /\ start \in Nat /\ start <= reader.end
        /\ reader.offset + start = (Len(delivered) + n) + reader.end
    <3>1. n \in Nat /\ n <= reader.end - reader.start
      BY <1>2, <1>9
    <3>2. reader.start \in Nat /\ reader.end \in Nat /\ reader.offset \in Nat
          /\ reader.offset + reader.start = Len(delivered) + reader.end /\ Len(delivered) \in Nat
      BY <2>1, <1>7
    <3>3. start \in Nat
      BY <3>1, <3>2
    <3>4. start <= reader.end
      BY <3>1, <3>2
    <3>5. reader.offset + start = (Len(delivered) + n) + reader.end
      BY <3>1, <3>2, SMTT(30)
    <3> QED BY <3>3, <3>4, <3>5
  <2>4. ASSUME NEW i \in start + 1 .. reader.end
        PROVE  reader.buffer[i] = disk[(Len(delivered) + n) + i - start]
    <3>1. i \in reader.start + 1 .. reader.end
          /\ (Len(delivered) + n) + i - start = Len(delivered) + i - reader.start
      BY <2>1, <1>7
    <3> QED BY <3>1, <2>2
  <2>5. reader' = [reader EXCEPT !.start = start]
    BY <1>1
  <2> HIDE DEF start
  <2>6. Holds(reader.buffer, start, reader.end, reader.offset, Len(delivered) + n)
    BY <2>1, <2>3, <2>4 DEF Holds
  <2>7. /\ reader'.buffer = reader.buffer /\ reader'.start = start /\ reader'.end = reader.end
        /\ reader'.offset = reader.offset /\ reader'.fd = reader.fd /\ reader' \in Readers
    BY <2>3, <2>5, <1>5 DEF Readers
  <2> QED BY <2>6, <2>7, <1>1, <1>10 DEF Window, Holds
<1>13. DeliversTheFile'
  <2> SUFFICES ASSUME NEW i \in 1 .. Len(delivered) + n PROVE delivered'[i] = disk[i]
    BY <1>1, <1>10 DEF DeliversTheFile
  <2>1. CASE i <= Len(delivered)
    BY <2>1, <1>7, <1>10 DEF RInv, DeliversTheFile
  <2>2. CASE i > Len(delivered)
    <3>1. i - Len(delivered) \in 1 .. n /\ i - Len(delivered) \in 1 .. Len(InReader)
          /\ Len(delivered) + (i - Len(delivered)) = i
      BY <2>2, <1>7, <1>9
    <3> QED BY <3>1, <2>2, <1>2, <1>4, <1>10
  <2> QED BY <2>1, <2>2, <1>7
<1>14. reader.fd # "closed" /\ writer.fd = "done"
  BY DEF RInv, ReaderStages, NoRequest, Takes
<1>15. ReaderStages'
  BY <1>1, <1>12, <1>14 DEF ReaderStages
<1>16. request.op = "until" =>
         /\ \A i \in 1 .. Len(got) - 1 : result \in {"found", "absent"} => got[i] \notin Ends
         /\ \A i \in 1 .. Len(got) : result \in {"more", "absent"} => got[i] \notin Ends
  <2> SUFFICES ASSUME request.op = "until", NEW i \in 1 .. Len(before) + n
               PROVE  /\ i <= Len(before) + n - 1 /\ result \in {"found", "absent"} => got[i] \notin Ends
                      /\ result \in {"more", "absent"} => got[i] \notin Ends
    BY <1>7, <1>11
  <2>1. CASE i <= Len(before)
    BY <2>1, <1>7, <1>8, <1>11
  <2>2. CASE i > Len(before)
    <3>1. i - Len(before) \in 1 .. n
      BY <2>2, <1>7
    <3>2. got[i] = InReader[i - Len(before)]
      BY <3>1, <2>2, <1>4, <1>7, <1>11
    <3>3. i <= Len(before) + n - 1 => i - Len(before) < n
      BY <1>7
    <3> QED BY <3>1, <3>2, <3>3 DEF Takes
  <2> QED BY <2>1, <2>2, <1>7
<1>17. CASE result = "more"
  <2>1. request' = [request EXCEPT !.remaining = room - n, !.got = got, !.started = TRUE] /\ UNCHANGED found
    BY <1>1, <1>17 DEF room
  <2>2. room - n \in Nat
    BY <1>6
  <2>3. /\ request' \in [op : {"none", "read", "until"}, remaining : Nat, got : Seq(Byte), started : BOOLEAN]
        /\ request'.op = request.op /\ request'.got = got
    BY <2>1, <2>2, <1>5, <1>11
  <2>4. SearchGoesOn'
    BY <2>3, <1>16, <1>17 DEF SearchGoesOn
  <2>5. StopsAtCharacter'
    BY <2>1 DEF RInv, StopsAtCharacter
  <2> QED BY <2>1, <2>3, <2>4, <2>5, <1>5, <1>10, <1>12, <1>13, <1>15 DEF RInv, ReaderTypes
<1>18. CASE result # "more"
  <2> DEFINE full == n = request.remaining
  <2> HIDE DEF full
  <2>1. request' = NoRequest /\ found' = [result |-> result, bytes |-> got, full |-> full]
    BY <1>1, <1>18 DEF Return, full
  <2>5. full \in BOOLEAN
    BY DEF full
  <2>2. /\ request' \in [op : {"none", "read", "until"}, remaining : Nat, got : Seq(Byte), started : BOOLEAN]
        /\ found' \in [result : {"none", "read", "found", "absent"}, bytes : Seq(Byte), full : BOOLEAN]
    BY <2>1, <2>5, <1>11, <1>18, EmptySeq DEF NoRequest
  <2>3. SearchGoesOn'
    BY <2>1 DEF SearchGoesOn, NoRequest
  <2>4. StopsAtCharacter'
    <3>1. result \in {"found", "absent"} => \A i \in 1 .. Len(got) - 1 : got[i] \notin Ends
      BY <1>16 DEF Takes
    <3>2. result = "absent" => Range(got) \cap Ends = {}
      <4>1. Range(got) = {got[i] : i \in 1 .. Len(got)}
        BY <1>11, LenProperties DEF Range
      <4>2. result = "absent" => \A i \in 1 .. Len(got) : got[i] \notin Ends
        BY <1>16 DEF Takes
      <4> QED BY <4>1, <4>2
    <3>3. ASSUME result = "found", ~full
          PROVE  got # <<>> /\ got[Len(got)] \in Ends
      <4>1. n > 0 /\ InReader[n] \in Ends
        BY <3>3 DEF Takes, full
      <4>2. /\ Len(got) \in 1 .. Len(before) + n /\ ~(Len(got) <= Len(before))
            /\ Len(got) - Len(before) = n /\ Len(got) # 0
        BY <4>1, <1>7, <1>11
      <4>3. got[Len(got)] = InReader[n]
        BY <4>1, <4>2, <1>4, <1>11
      <4>4. got # <<>>
        BY <4>2, EmptySeq
      <4> QED BY <4>1, <4>3, <4>4
    <3>4. /\ found'.result = result /\ found'.bytes = got /\ found'.full = full
      BY <2>1
    <3> QED BY <3>1, <3>2, <3>3, <3>4, <2>5 DEF StopsAtCharacter
  <2> QED BY <2>2, <2>3, <2>4, <1>10, <1>12, <1>13, <1>15 DEF RInv, ReaderTypes
<1> QED BY <1>17, <1>18

\* Before the reader is opened there is nothing that the writer could disturb.
LEMMA WriterLeavesReader ==
  ASSUME WInv', RInv, reader.fd = "closed", UNCHANGED readerVars
  PROVE  RInv'
<1>1. /\ request = NoRequest /\ delivered = <<>>
      /\ reader.start = 0 /\ reader.end = 0 /\ reader.offset = 0
  BY DEF RInv, ReaderStages
<1>2. /\ UNCHANGED <<reader, request, delivered, found>> /\ disk' \in Seq(Byte)
  BY DEF readerVars, WInv, WriterTypes
<1>3. Len(disk') \in Nat /\ Len(delivered) = 0 /\ Len(delivered') = 0
  BY <1>1, <1>2, LenProperties, EmptySeq
<1>4. Window(reader, Len(delivered))'
  <2>1. /\ reader.buffer \in [1 .. BufferLength + 1 -> Nat] /\ 0 <= BufferLength
        /\ reader.buffer[0 + 1] = Zero
    BY <1>1, <1>3 DEF RInv, Window, Holds
  <2>2. \A i \in 0 + 1 .. 0 : reader.buffer[i] = disk'[0 + i - 0]
    OBVIOUS
  <2> QED BY <2>1, <2>2, <1>1, <1>2, <1>3 DEF Window, Holds
<1>5. ReaderTypes'
  BY <1>2 DEF RInv, ReaderTypes
<1>6. ReaderStages'
  BY <1>1, <1>2 DEF ReaderStages
<1>7. DeliversTheFile' /\ SearchGoesOn'
  BY <1>1, <1>2, <1>3 DEF DeliversTheFile, SearchGoesOn, NoRequest
<1>8. StopsAtCharacter'
  BY <1>2 DEF RInv, StopsAtCharacter
<1> QED BY <1>4, <1>5, <1>6, <1>7, <1>8 DEF RInv

\* What the reader does that leaves the bytes it gave alone keeps the rest.
LEMMA ReaderGoesOn ==
  ASSUME RInv, UNCHANGED <<writer, disk, delivered>>,
         reader' \in Readers, Window(reader', Len(delivered)), reader'.fd # "closed", writer.fd = "done",
         request' \in [op : {"none", "read", "until"}, remaining : Nat, got : Seq(Byte), started : BOOLEAN],
         SearchGoesOn',
         found' \in [result : {"none", "read", "found", "absent"}, bytes : Seq(Byte), full : BOOLEAN],
         StopsAtCharacter'
  PROVE  RInv'
<1>1. ReaderTypes'
  BY DEF RInv, ReaderTypes
<1>2. Window(reader, Len(delivered))'
  BY DEF Window, Holds
<1>3. ReaderStages'
  BY DEF ReaderStages
<1>4. DeliversTheFile'
  BY DEF RInv, DeliversTheFile
<1> QED BY <1>1, <1>2, <1>3, <1>4 DEF RInv

LEMMA OpensReader ==
  ASSUME WInv, RInv, NEW k \in Nat, ksfu_openBufferedReader(k)
  PROVE  RInv'
<1>1. /\ reader \in Readers /\ disk \in Seq(Byte) /\ Window(reader, Len(delivered)) /\ Len(delivered) \in Nat
  BY LenProperties DEF RInv, ReaderTypes, WInv, WriterTypes
<1>2. KernelRead(reader, k)
  BY DEF ksfu_openBufferedReader
<1> DEFINE r == Filled(reader, k)
<1>3. r \in Readers /\ Window(r, Len(delivered))
  BY <1>1, <1>2, FillsWindow
<1>4. /\ reader' = [r EXCEPT !.fd = "open"] /\ writer.fd = "done"
      /\ UNCHANGED <<writer, disk, delivered, request, found>>
  BY DEF ksfu_openBufferedReader, writerVars
<1> HIDE DEF r
<1>5. reader' \in Readers /\ reader'.fd = "open" /\ Window(reader', Len(delivered))
  BY <1>3, <1>4 DEF Readers, Window
<1>6. ReaderTypes /\ SearchGoesOn' /\ StopsAtCharacter'
  BY <1>4 DEF RInv, SearchGoesOn, StopsAtCharacter
<1> QED BY <1>4, <1>5, <1>6, ReaderGoesOn DEF ReaderTypes

LEMMA StartsReading ==
  ASSUME WInv, RInv, NEW op \in {"read", "until"}, NEW n \in Lengths, StartRead(op, n)
  PROVE  RInv'
<1>1. /\ reader.fd = "open" /\ UNCHANGED <<writer, disk, delivered, reader, found>>
      /\ request' = [op |-> op, remaining |-> n, got |-> <<>>, started |-> FALSE]
  BY DEF StartRead, writerVars
<1>2. /\ reader' \in Readers /\ Window(reader', Len(delivered)) /\ writer.fd = "done" /\ reader'.fd # "closed"
  BY <1>1 DEF RInv, ReaderTypes, ReaderStages
<1>3. n \in Nat /\ <<>> \in Seq(Byte) /\ Len(<<>>) = 0
  BY SizesAssumption, EmptySeq
<1>4. /\ request' \in [op : {"none", "read", "until"}, remaining : Nat, got : Seq(Byte), started : BOOLEAN]
      /\ request'.got = <<>>
  BY <1>1, <1>3
<1>5. SearchGoesOn'
  BY <1>3, <1>4 DEF SearchGoesOn
<1>6. found' \in [result : {"none", "read", "found", "absent"}, bytes : Seq(Byte), full : BOOLEAN] /\ StopsAtCharacter'
  BY <1>1 DEF RInv, ReaderTypes, StopsAtCharacter
<1> QED BY <1>1, <1>2, <1>4, <1>5, <1>6, ReaderGoesOn

LEMMA ClosesReader ==
  ASSUME WInv, RInv, ksfu_closeBufferedReader
  PROVE  RInv'
<1>1. /\ reader.fd = "open" /\ UNCHANGED <<writer, disk, delivered, request, found>>
      /\ reader' = [reader EXCEPT !.fd = "done"]
  BY DEF ksfu_closeBufferedReader, writerVars
<1>2. /\ reader' \in Readers /\ Window(reader', Len(delivered)) /\ writer.fd = "done" /\ reader'.fd # "closed"
  BY <1>1 DEF RInv, ReaderTypes, ReaderStages, Readers, Window
<1>3. ReaderTypes /\ SearchGoesOn' /\ StopsAtCharacter'
  BY <1>1 DEF RInv, SearchGoesOn, StopsAtCharacter
<1> QED BY <1>1, <1>2, <1>3, ReaderGoesOn DEF ReaderTypes

LEMMA ReadsOn ==
  ASSUME WInv, RInv, ReadStep
  PROVE  RInv'
<1> DEFINE n == Least(Len(InReader), request.remaining)
           result == IF n = request.remaining THEN "read" ELSE "more"
<1>1. Len(InReader) \in Nat /\ request.remaining \in Nat
  BY WindowBytes, LenProperties DEF RInv, ReaderTypes
<1>2. n \in Nat /\ n <= Len(InReader) /\ n <= request.remaining
  BY <1>1 DEF Least
<1>3. request.op = "read" /\ Consume(n, result)
  BY DEF ReadStep
<1>4. result \in {"read", "more"}
  OBVIOUS
<1> HIDE DEF n, result
<1>5. Takes(n, result)
  BY <1>2, <1>3, <1>4 DEF Takes
<1> QED BY <1>2, <1>3, <1>4, <1>5, ConsumesInOrder

\* When strchr finds nothing, there is nothing in the window.
LEMMA NothingMissed ==
  ASSUME WInv, RInv, CharAt = {}
  PROVE  \A i \in 1 .. Len(InReader) : InReader[i] \notin Ends
<1> DEFINE T == {i \in 1 .. Len(InReader) : InReader[i] \in Ends}
<1> SUFFICES ASSUME T # {} PROVE FALSE
  OBVIOUS
<1>1. /\ InReader \in Seq(Byte) /\ Len(InReader) = reader.end - reader.start /\ Len(InReader) \in Nat
      /\ \A i \in 1 .. Len(InReader) : InReader[i] = reader.buffer[reader.start + i]
      /\ \A i \in 1 .. Len(InReader) : InReader[i] \in Byte
  BY WindowBytes, LenProperties, ElementOfSeq
<1>2. PICK x \in T : \A y \in T : x <= y
  <2>1. T \in SUBSET Nat
    OBVIOUS
  <2> HIDE DEF T
  <2> QED BY <2>1, LeastOf
<1>3. x \in 1 .. Len(InReader) /\ InReader[x] \in Ends
  OBVIOUS
<1>4. \A y \in 1 .. Len(InReader) : y < x => InReader[y] \notin Ends
  BY <1>1, <1>2, <1>3
<1> HIDE DEF T
<1>5. /\ reader.start \in Nat /\ reader.end \in Nat /\ reader.end <= BufferLength
      /\ reader.buffer \in [1 .. BufferLength + 1 -> Nat] /\ BufferLength \in Nat
  BY SizesAssumption DEF RInv, Window, Holds
<1>6. Len(reader.buffer) = BufferLength + 1
  <2>1. reader.buffer \in Seq(Nat)
    BY <1>5, SeqDef
  <2>2. DOMAIN reader.buffer = 1 .. Len(reader.buffer) /\ Len(reader.buffer) \in Nat
    BY <2>1, LenProperties
  <2>3. DOMAIN reader.buffer = 1 .. BufferLength + 1
    BY <1>5
  <2> QED BY <2>2, <2>3, <1>5
<1>7. reader.start + x \in reader.start + 1 .. Len(reader.buffer) /\ reader.buffer[reader.start + x] \in Ends
  <2>1. reader.buffer[reader.start + x] \in Ends
    BY <1>1, <1>3
  <2>2. /\ x \in Nat /\ 1 <= x /\ x <= reader.end - reader.start
    BY <1>1, <1>3
  <2>3. /\ reader.start \in Nat /\ reader.end \in Nat /\ BufferLength \in Nat /\ reader.end <= BufferLength
        /\ Len(reader.buffer) = BufferLength + 1
    BY <1>5, <1>6
  <2>4. reader.start + x \in reader.start + 1 .. Len(reader.buffer)
    BY <2>2, <2>3
  <2> QED BY <2>1, <2>4
<1>8. ASSUME NEW j \in reader.start + 1 .. (reader.start + x) - 1
      PROVE  reader.buffer[j] \notin Ends \cup {Zero}
  <2>1. j - reader.start \in 1 .. Len(InReader) /\ j - reader.start < x /\ reader.start + (j - reader.start) = j
    <3>1. x \in Nat /\ x <= Len(InReader) /\ j \in Nat /\ reader.start + 1 <= j /\ j <= (reader.start + x) - 1
      BY <1>3, <1>5
    <3>2. reader.start \in Nat /\ reader.end \in Nat /\ Len(InReader) \in Nat
      BY <1>1, <1>5
    <3>3. j - reader.start \in 1 .. Len(InReader)
      BY <3>1, <3>2
    <3>4. j - reader.start < x
      BY <3>1, <3>2
    <3>5. reader.start + (j - reader.start) = j
      BY <3>1, <3>2
    <3> QED BY <3>3, <3>4, <3>5
  <2>2. InReader[j - reader.start] = reader.buffer[j] /\ InReader[j - reader.start] \in Byte
    BY <2>1, <1>1
  <2> QED BY <2>1, <2>2, <1>4 DEF Byte, Zero
<1>9. reader.start + x \in CharAt
  BY <1>7, <1>8 DEF CharAt
<1> QED BY <1>9

LEMMA SearchesOn ==
  ASSUME WInv, RInv, UntilStep
  PROVE  RInv'
<1> DEFINE fits == Least(Len(InReader), request.remaining)
           toChar == {i - reader.start : i \in CharAt}
           at == CHOOSE i \in toChar : TRUE
           n == IF toChar = {} THEN fits ELSE Least(fits, at)
           result == IF toChar # {} THEN "found" ELSE IF n = request.remaining THEN "absent" ELSE "more"
<1>1. Len(InReader) \in Nat /\ request.remaining \in Nat
  BY WindowBytes, LenProperties DEF RInv, ReaderTypes
<1>2. fits \in Nat /\ fits <= Len(InReader) /\ fits <= request.remaining
  BY <1>1 DEF Least
<1>3. request.op = "until" /\ Consume(n, result)
  BY DEF UntilStep
<1>4. CASE CharAt = {}
  <2>1. n = fits /\ result \in {"absent", "more"}
    BY <1>4
  <2>2. \A i \in 1 .. n : InReader[i] \notin Ends
    BY <2>1, <1>1, <1>2, <1>4, NothingMissed
  <2> HIDE DEF n, result, fits
  <2>3. Takes(n, result)
    BY <2>1, <2>2, <1>2, <1>3 DEF Takes
  <2> QED BY <2>1, <2>3, <1>2, <1>3, ConsumesInOrder
<1>5. CASE CharAt # {}
  <2>1. toChar # {} /\ at \in toChar
    BY <1>5
  <2>2. n = Least(fits, at) /\ result = "found"
    BY <2>1
  <2>3. PICK c \in CharAt : at = c - reader.start
    BY <2>1
  <2> HIDE DEF n, result, fits, at, toChar
  <2>4. reader.start \in Nat /\ reader.end \in Nat
    BY DEF RInv, Window, Holds
  <2>5. c \in Nat /\ c >= reader.start + 1 /\ \A j \in reader.start + 1 .. c - 1 : reader.buffer[j] \notin Ends
    BY <2>4 DEF CharAt
  <2>6. /\ at \in Nat /\ reader.start + at = c
    BY <2>3, <2>4, <2>5
  <2>7. n \in Nat /\ n <= fits /\ n <= at
    BY <2>2, <2>6, <1>2 DEF Least
  <2>8. n <= Len(InReader) /\ n <= request.remaining
    BY <2>7, <1>1, <1>2
  <2>9. ASSUME NEW i \in 1 .. n, i < n PROVE InReader[i] \notin Ends
    <3>1. i \in 1 .. Len(InReader) /\ reader.start + i \in reader.start + 1 .. c - 1
      BY <2>4, <2>5, <2>6, <2>7, <2>8, <2>9, <1>1, SMTT(30)
    <3>2. InReader[i] = reader.buffer[reader.start + i]
      BY <3>1, WindowBytes
    <3> QED BY <3>1, <3>2, <2>5
  <2>11. n = request.remaining \/ (n > 0 /\ InReader[n] \in Ends)
    <3>1. CASE at <= fits
      <4>1. n = at /\ at > 0 /\ at \in 1 .. Len(InReader)
        BY <3>1, <2>2, <2>5, <2>6, <2>4, <1>1, <1>2 DEF Least
      <4>2. InReader[at] = reader.buffer[reader.start + at]
        BY <4>1, WindowBytes
      <4> QED BY <4>1, <4>2, <2>6 DEF CharAt
    <3>2. CASE at > fits
      <4>1. n = fits
        BY <3>2, <2>2, <2>6, <1>2 DEF Least
      <4>2. fits = request.remaining \/ fits = Len(InReader)
        BY <1>1 DEF Least, fits
      <4>3. ASSUME fits = Len(InReader) PROVE FALSE
        <5>1. Len(InReader) = reader.end - reader.start /\ reader.buffer[reader.end + 1] = Zero
          BY WindowBytes DEF RInv, Window, Holds
        <5>2. reader.end + 1 \in reader.start + 1 .. c
          BY <5>1, <4>3, <3>2, <2>4, <2>5, <2>6, <1>1
        <5>3. reader.end + 1 # c
          BY <5>1, SizesAssumption DEF CharAt, Byte, Zero
        <5>4. reader.buffer[reader.end + 1] \notin Ends \cup {Zero}
          BY <5>2, <5>3, <2>4, <2>5 DEF CharAt
        <5> QED BY <5>1, <5>4
      <4> QED BY <4>1, <4>2, <4>3
    <3> QED BY <3>1, <3>2, <2>6, <1>2
  <2>10. Takes(n, result)
    BY <2>2, <2>8, <2>9, <2>11, <1>3 DEF Takes
  <2> QED BY <2>2, <2>7, <2>10, <1>3, ConsumesInOrder
<1> QED BY <1>4, <1>5

LEMMA RefillsReader ==
  ASSUME WInv, RInv, NEW k \in Nat, Refill(k)
  PROVE  RInv'
<1> DEFINE r == Moved(reader)
           result == IF request.op = "read" THEN "read" ELSE "absent"
<1>1. /\ reader \in Readers /\ disk \in Seq(Byte) /\ Window(reader, Len(delivered)) /\ Len(delivered) \in Nat
      /\ request \in [op : {"none", "read", "until"}, remaining : Nat, got : Seq(Byte), started : BOOLEAN]
      /\ found \in [result : {"none", "read", "found", "absent"}, bytes : Seq(Byte), full : BOOLEAN]
  BY LenProperties DEF RInv, ReaderTypes, WInv, WriterTypes
<1>2. /\ request.op \in {"read", "until"} /\ isReadBufferEmpty(reader) /\ KernelRead(r, k)
      /\ reader' = Filled(r, k) /\ UNCHANGED <<writer, disk, delivered>>
      /\ IF k = 0 THEN Return(result, request.got, FALSE) ELSE UNCHANGED <<request, found>>
  BY DEF Refill, writerVars
<1>3. r \in Readers /\ Window(r, Len(delivered)) /\ r.fd = reader.fd
  BY <1>1, <1>2, MovesWindow
<1> HIDE DEF r
<1>4. reader' \in Readers /\ Window(reader', Len(delivered)) /\ reader'.fd = reader.fd
  BY <1>1, <1>2, <1>3, FillsWindow
<1>5. reader.fd # "closed" /\ writer.fd = "done"
  BY <1>2 DEF RInv, ReaderStages, NoRequest
<1>6. CASE k = 0
  <2>1. request' = NoRequest /\ found' = [result |-> result, bytes |-> request.got, full |-> FALSE]
    BY <1>2, <1>6 DEF Return
  <2>2. result \in {"read", "absent"} /\ request.got \in Seq(Byte)
        /\ (result = "absent" => \A i \in 1 .. Len(request.got) : request.got[i] \notin Ends)
    BY <1>1, <1>2 DEF RInv, SearchGoesOn
  <2> HIDE DEF result
  <2>3. /\ request' \in [op : {"none", "read", "until"}, remaining : Nat, got : Seq(Byte), started : BOOLEAN]
        /\ found' \in [result : {"none", "read", "found", "absent"}, bytes : Seq(Byte), full : BOOLEAN]
        /\ found'.result = result /\ found'.bytes = request.got
    BY <2>1, <2>2, EmptySeq DEF NoRequest
  <2>4. SearchGoesOn'
    BY <2>1 DEF SearchGoesOn, NoRequest
  <2>5. StopsAtCharacter'
    <3>1. Len(request.got) \in Nat /\ Range(request.got) = {request.got[i] : i \in 1 .. Len(request.got)}
      BY <2>2, LenProperties DEF Range
    <3>2. result = "absent" => \A i \in 1 .. Len(request.got) - 1 : request.got[i] \notin Ends
      BY <3>1, <2>2
    <3>3. result = "absent" => Range(request.got) \cap Ends = {}
      BY <3>1, <2>2
    <3> QED BY <3>2, <3>3, <2>2, <2>3 DEF StopsAtCharacter
  <2> QED BY <2>3, <2>4, <2>5, <1>2, <1>4, <1>5, ReaderGoesOn
<1>7. CASE k # 0
  <2>1. SearchGoesOn' /\ StopsAtCharacter' /\ UNCHANGED <<request, found>>
    BY <1>2, <1>7 DEF RInv, SearchGoesOn, StopsAtCharacter
  <2> QED BY <2>1, <1>1, <1>2, <1>4, <1>5, ReaderGoesOn
<1> QED BY <1>6, <1>7

-----------------------------------------------------------------------------
LEMMA ReaderStart == Init => RInv
<1> SUFFICES ASSUME Init PROVE RInv
  OBVIOUS
<1>1. BufferLength \in Nat \ {0} /\ <<>> \in Seq(Byte) /\ Len(<<>>) = 0
  BY SizesAssumption, EmptySeq
<1>2. /\ disk = <<>> /\ request = NoRequest /\ delivered = <<>> /\ found = NoResult
      /\ reader = [buffer |-> [i \in 1 .. BufferLength + 1 |-> Zero],
                   start |-> 0, end |-> 0, offset |-> 0, fd |-> "closed"]
  BY DEF Init
<1>3. [i \in 1 .. BufferLength + 1 |-> Zero] \in [1 .. BufferLength + 1 -> Nat]
  BY DEF Zero
<1>4. ReaderTypes
  BY <1>1, <1>2, <1>3 DEF ReaderTypes, Readers, NoRequest, NoResult
<1>5. Window(reader, Len(delivered))
  <2>1. [i \in 1 .. BufferLength + 1 |-> Zero][0 + 1] = Zero /\ 0 <= BufferLength
    BY <1>1
  <2>2. \A i \in 0 + 1 .. 0 : reader.buffer[i] = disk[0 + i - 0]
    OBVIOUS
  <2> QED BY <2>1, <2>2, <1>1, <1>2, <1>3 DEF Window, Holds
<1>6. ReaderStages /\ DeliversTheFile /\ SearchGoesOn /\ StopsAtCharacter
  BY <1>1, <1>2 DEF ReaderStages, DeliversTheFile, SearchGoesOn, StopsAtCharacter, NoRequest, NoResult
<1> QED BY <1>4, <1>5, <1>6 DEF RInv

\* A writer that is not done has a reader that is closed.
LEMMA WriterFirst ==
  ASSUME RInv, writer.fd # "done"
  PROVE  reader.fd = "closed"
BY DEF RInv, ReaderTypes, ReaderStages

LEMMA ReaderStep ==
  ASSUME WInv, WInv', RInv, [Next]_vars
  PROVE  RInv'
<1>1. CASE ksfu_openBufferedWriter
  BY <1>1, WriterFirst, WriterLeavesReader DEF ksfu_openBufferedWriter
<1>2. CASE \E n \in Lengths : ksfu_writeBufferedWriter(n)
  BY <1>2, WriterFirst, WriterLeavesReader DEF ksfu_writeBufferedWriter
<1>3. writer.fd = "done" => call.op = "none" /\ pending = <<>>
  BY DEF WInv, WriterStages, NoCall
<1>4. CASE CopyPiece
  BY <1>3, <1>4, WriterFirst, WriterLeavesReader DEF CopyPiece
<1>5. CASE WriteDone
  BY <1>3, <1>5, WriterFirst, WriterLeavesReader DEF WriteDone
<1>6. CASE KernelFail
  BY <1>3, <1>6, WriterFirst, WriterLeavesReader DEF KernelFail
<1>7. CASE \E k \in 1 .. MaxBytes : KernelWrite(k)
  <2>1. pending # <<>> /\ UNCHANGED readerVars
    BY <1>7, EmptySeq DEF KernelWrite
  <2> QED BY <2>1, <1>3, WriterFirst, WriterLeavesReader
<1>8. CASE ksfu_closeBufferedWriter
  BY <1>8, WriterFirst, WriterLeavesReader DEF ksfu_closeBufferedWriter
<1>9. CASE Die
  BY <1>9, WriterFirst, WriterLeavesReader DEF Die
<1>10. CASE \E k \in 0 .. BufferLength : ksfu_openBufferedReader(k)
  BY <1>10, OpensReader
<1>11. CASE \E n \in Lengths : ksfu_readBufferedReader(n)
  BY <1>11, StartsReading DEF ksfu_readBufferedReader
<1>12. CASE \E n \in Lengths : ksfu_readBufferedReaderUntilChar(n)
  BY <1>12, StartsReading DEF ksfu_readBufferedReaderUntilChar
<1>13. CASE ReadStep
  BY <1>13, ReadsOn
<1>14. CASE UntilStep
  BY <1>14, SearchesOn
<1>15. CASE \E k \in 0 .. BufferLength : Refill(k)
  BY <1>15, RefillsReader
<1>16. CASE ksfu_closeBufferedReader
  BY <1>16, ClosesReader
<1>17. CASE UNCHANGED vars
  <2>1. UNCHANGED <<writer, disk, reader, request, delivered, found>>
    BY <1>17 DEF vars
  <2> QED BY <2>1 DEF RInv, ReaderTypes, Window, Holds, ReaderStages, DeliversTheFile, SearchGoesOn, StopsAtCharacter
<1> QED BY <1>1, <1>2, <1>4, <1>5, <1>6, <1>7, <1>8, <1>9, <1>10, <1>11, <1>12, <1>13, <1>14, <1>15,
           <1>16, <1>17 DEF Next

\* The reader's window, and everything else about the reader, is inductive
\* once the writer's invariant holds.
THEOREM ReaderInvariant == Spec => []RInv
<1>1. Init => RInv
  BY ReaderStart
<1>2. WInv /\ WInv' /\ RInv /\ [Next]_vars => RInv'
  BY ReaderStep
<1> QED BY <1>1, <1>2, WriterInvariant, PTL DEF Spec

\* What the reader gives its callers, in whatever mixture of reads and searches
\* and however few bytes the kernel gives at a time, is the beginning of the file.
THEOREM ReadsInOrder == Spec => []ReadsFileInOrder
<1>1. WInv /\ RInv => ReadsFileInOrder
  <2> SUFFICES ASSUME WInv, RInv PROVE ReadsFileInOrder
    OBVIOUS
  <2>1. /\ delivered \in Seq(Byte) /\ disk \in Seq(Byte) /\ Len(delivered) \in Nat /\ Len(disk) \in Nat
        /\ \A i \in 1 .. Len(disk) : disk[i] \in Byte
        /\ \A i \in 1 .. Len(delivered) : delivered[i] = disk[i]
    BY LenProperties, ElementOfSeq DEF RInv, ReaderTypes, DeliversTheFile, WInv, WriterTypes
  <2>2. Len(delivered) <= Len(disk)
    BY <2>1, WindowBytes, LenProperties
  <2> DEFINE front == SubSeq(disk, 1, Len(delivered))
  <2>3. /\ front \in Seq(Byte) /\ Len(front) = Len(delivered)
        /\ \A i \in 1 .. Len(delivered) : front[i] = disk[i]
    <3>1. /\ 1 \in Int /\ Len(delivered) \in Int /\ \A i \in 1 .. Len(delivered) : disk[i] \in Byte
          /\ Len(delivered) - 1 + 1 = Len(delivered) /\ \A i \in 1 .. Len(delivered) : 1 + i - 1 = i
      BY <2>1, <2>2
    <3>2. /\ front \in Seq(Byte) /\ Len(front) = IF 1 <= Len(delivered) THEN Len(delivered) - 1 + 1 ELSE 0
          /\ \A i \in 1 .. Len(delivered) - 1 + 1 : front[i] = disk[1 + i - 1]
      BY <3>1, SubSeqProperties
    <3> QED BY <3>1, <3>2, <2>1
  <2> HIDE DEF front
  <2>4. delivered = front
    <3>1. \A i \in 1 .. Len(delivered) : delivered[i] = front[i]
      BY <2>1, <2>3
    <3> QED BY <3>1, <2>1, <2>3, SeqEqual
  <2> QED BY <2>2, <2>4 DEF ReadsFileInOrder, front
<1> QED BY <1>1, WriterInvariant, ReaderInvariant, PTL

\* A search ends with the character or without having met it, also when the
\* window was refilled under way.
THEOREM SearchesStop == Spec => []StopsAtCharacter
<1>1. RInv => StopsAtCharacter
  BY DEF RInv
<1> QED BY <1>1, ReaderInvariant, PTL

=============================================================================
