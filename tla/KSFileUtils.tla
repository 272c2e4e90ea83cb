---------------------------- MODULE KSFileUtils ----------------------------
(***************************************************************************)
(* The buffered writer and the buffered reader of Tools/KSFileUtils.c.     *)
(* One kernel call is one step: it may take or give fewer bytes than were  *)
(* asked for, a write may fail, and the process may die between two of     *)
(* them.  A byte is its number, so that a lost, repeated or moved byte     *)
(* shows; the bytes in Ends are the character a line is read up to.        *)
(***************************************************************************)
EXTENDS Naturals, Sequences, SequencesExt, FiniteSets

CONSTANTS BufferLength,  \* writeBufferLength, and readBufferLength - 1
          Lengths,       \* the lengths of the pieces callers write and read
          MaxBytes,      \* bound: bytes written in all
          Ends           \* the bytes that are the searched character

ASSUME SizesAssumption ==
  /\ BufferLength \in Nat \ {0}
  /\ Lengths \subseteq Nat \ {0} /\ Lengths # {}
  /\ MaxBytes \in Nat /\ Ends \subseteq 1 .. MaxBytes

VARIABLES
  writer,    \* KSBufferedWriter: buffer contents, and whether the descriptor is open
  disk,      \* the file
  pending,   \* what the running ksfu_writeBytesToFD still has to write
  call,      \* the call in progress and the bytes it was given
  accepted,  \* every byte handed to the writer so far
  failed,    \* a write has failed
  reader,    \* KSBufferedReader: buffer, dataStartPos, dataEndPos, file offset
  request,   \* the read in progress
  delivered, \* the bytes given to the reader's caller, in order
  found      \* how the last search for the character ended

writerVars == <<writer, pending, call, accepted, failed>>
readerVars == <<reader, request, delivered, found>>
vars == <<writer, disk, pending, call, accepted, failed,
          reader, request, delivered, found>>

NoCall == [op |-> "none", data |-> <<>>]
NoRequest == [op |-> "none", remaining |-> 0, got |-> <<>>, started |-> FALSE]
NoResult == [result |-> "none", bytes |-> <<>>, full |-> FALSE]
Zero == 0     \* the NUL that ends the data in the read buffer

Bytes(from, n) == [i \in 1 .. n |-> from + i]
Drop(s, n) == SubSeq(s, n + 1, Len(s))
Least(a, b) == IF a <= b THEN a ELSE b

-----------------------------------------------------------------------------
Init ==
  /\ writer = [buffer |-> <<>>, fd |-> "closed"]
  /\ disk = <<>> /\ pending = <<>> /\ call = NoCall
  /\ accepted = <<>> /\ failed = FALSE
  /\ reader = [buffer |-> [i \in 1 .. BufferLength + 1 |-> Zero],
               start |-> 0, end |-> 0, offset |-> 0, fd |-> "closed"]
  /\ request = NoRequest /\ delivered = <<>> /\ found = NoResult

\* O_EXCL: only a file that is not there yet is opened.
ksfu_openBufferedWriter ==
  /\ writer.fd = "closed" /\ disk = <<>> /\ accepted = <<>>
  /\ writer' = [buffer |-> <<>>, fd |-> "open"]
  /\ UNCHANGED <<disk, pending, call, accepted, failed, readerVars>>

\* The piece goes into the buffer when it fits there at all.
MemCpy(data) ==
  /\ writer' = [writer EXCEPT !.buffer = @ \o data]
  /\ call' = NoCall /\ pending' = <<>>

\* After the flush, whether or not it worked: a piece longer than the buffer is
\* written straight to the file, any other is copied behind the buffer's contents.
AfterFlush(data) ==
  IF Len(data) > BufferLength
  THEN pending' = data /\ call' = [op |-> "direct", data |-> data]
  ELSE call' = [op |-> "copy", data |-> data] /\ pending' = <<>>

ksfu_writeBufferedWriter(n) ==
  /\ writer.fd = "open" /\ call = NoCall
  /\ Len(accepted) + n <= MaxBytes
  /\ LET data == Bytes(Len(accepted), n)
     IN /\ accepted' = accepted \o data
        /\ IF n > BufferLength - Len(writer.buffer) /\ writer.buffer # <<>>
           THEN call' = [op |-> "flush", data |-> data] /\ pending' = writer.buffer
           ELSE AfterFlush(data)
  /\ UNCHANGED <<writer, disk, failed, readerVars>>

\* The memcpy overruns the buffer when a failed flush has left it full.
CopyPiece ==
  /\ call.op = "copy" /\ Len(writer.buffer) <= BufferLength
  /\ MemCpy(call.data)
  /\ UNCHANGED <<disk, accepted, failed, readerVars>>

\* One write() of ksfu_writeBytesToFD takes k bytes.
KernelWrite(k) ==
  /\ k \in 1 .. Len(pending)
  /\ disk' = disk \o SubSeq(pending, 1, k)
  /\ pending' = Drop(pending, k)
  /\ UNCHANGED <<writer, call, accepted, failed, readerVars>>

WriteDone ==
  /\ pending = <<>> /\ call.op \in {"flush", "direct", "close"}
  /\ CASE call.op = "flush" -> /\ writer' = [writer EXCEPT !.buffer = <<>>]
                               /\ AfterFlush(call.data)
       [] call.op = "direct" -> /\ call' = NoCall
                                /\ UNCHANGED <<writer, pending>>
       [] OTHER -> /\ writer' = [buffer |-> <<>>, fd |-> "done"]
                   /\ call' = NoCall /\ UNCHANGED pending
  /\ UNCHANGED <<disk, accepted, failed, readerVars>>

\* write() returns -1: the buffer keeps its contents, although some of them may
\* already be in the file; a flush's failure is not passed on, a direct write's is.
KernelFail ==
  /\ pending # <<>>
  /\ failed' = TRUE /\ pending' = <<>>
  /\ CASE call.op = "flush" -> /\ call' = [op |-> IF Len(call.data) > BufferLength
                                                THEN "direct" ELSE "copy",
                                           data |-> call.data]
                               /\ UNCHANGED writer
       [] call.op = "direct" -> call' = NoCall /\ UNCHANGED writer
       [] OTHER -> call' = NoCall /\ writer' = [writer EXCEPT !.fd = "done"]
  /\ UNCHANGED <<disk, accepted, readerVars>>

\* Mutant: the file is closed without a flush.
ksfu_closeBufferedWriter_Unflushed ==
  /\ writer.fd = "open" /\ call = NoCall
  /\ writer' = [writer EXCEPT !.fd = "done"]
  /\ UNCHANGED <<call, pending, disk, accepted, failed, readerVars>>

ksfu_closeBufferedWriter ==
  /\ writer.fd = "open" /\ call = NoCall
  /\ call' = [op |-> "close", data |-> <<>>]
  /\ pending' = writer.buffer
  /\ UNCHANGED <<writer, disk, accepted, failed, readerVars>>

\* The process dies: the buffer is lost with it.
Die ==
  /\ writer.fd = "open"
  /\ writer' = [buffer |-> <<>>, fd |-> "done"]
  /\ pending' = <<>> /\ call' = NoCall /\ accepted' = disk
  /\ UNCHANGED <<disk, failed, readerVars>>

-----------------------------------------------------------------------------
isReadBufferEmpty(r) == r.end = r.start

\* Mutant: the old data stays in the buffer.
Moved_Keeps(r) == [r EXCEPT !.start = 0]

\* fillReadBuffer moves dataStartPos bytes to the front, which is not what is
\* left in the buffer unless nothing is; then it reads behind the data.
Moved(r) ==
  IF r.start = 0 THEN r
  ELSE [r EXCEPT !.buffer = [i \in DOMAIN r.buffer |->
                               IF i = r.end - r.start + 1 THEN Zero
                               ELSE IF i <= r.start /\ i + r.start \in DOMAIN r.buffer
                               THEN r.buffer[i + r.start] ELSE r.buffer[i]],
                 !.end = r.end - r.start, !.start = 0]

Filled(r, k) ==
  [r EXCEPT !.buffer = [i \in DOMAIN r.buffer |->
                          IF i \in r.end + 1 .. r.end + k THEN disk[r.offset + i - r.end]
                          ELSE IF i = r.end + k + 1 THEN Zero ELSE r.buffer[i]],
            !.end = r.end + k, !.offset = r.offset + k]

\* read() gives k bytes: none at the end of the file, or when it fails.
KernelRead(r, k) == k \in 0 .. Least(BufferLength - r.end, Len(disk) - r.offset)

ksfu_openBufferedReader(k) ==
  /\ writer.fd = "done" /\ reader.fd = "closed"
  /\ KernelRead(reader, k)
  /\ reader' = [Filled(reader, k) EXCEPT !.fd = "open"]
  /\ UNCHANGED <<writerVars, disk, request, delivered, found>>

StartRead(op, n) ==
  /\ reader.fd = "open" /\ request = NoRequest
  /\ request' = [op |-> op, remaining |-> n, got |-> <<>>, started |-> FALSE]
  /\ UNCHANGED <<writerVars, disk, reader, delivered, found>>

ksfu_readBufferedReader(n) == StartRead("read", n)
ksfu_readBufferedReaderUntilChar(n) == StartRead("until", n)

InReader == SubSeq(reader.buffer, reader.start + 1, reader.end)

\* strchr looks through the whole buffer, up to the NUL, not only through the
\* part that still fits the caller's length.
CharAt ==
  {i \in reader.start + 1 .. Len(reader.buffer) :
     /\ reader.buffer[i] \in Ends
     /\ \A j \in reader.start + 1 .. i - 1 : reader.buffer[j] \notin Ends \cup {Zero}}

\* full: the caller has as many bytes as it has room for.
Return(result, bytes, full) ==
  /\ request' = NoRequest
  /\ found' = [result |-> result, bytes |-> bytes, full |-> full]

\* n bytes of the buffer are copied to the caller; the call ends with result, if
\* there is one, and else goes on.
Consume(n, result) ==
  LET bytes == SubSeq(InReader, 1, n)
      got   == request.got \o bytes
  IN /\ delivered' = delivered \o bytes
     /\ reader' = [reader EXCEPT !.start = @ + n]
     /\ IF result # "more" THEN Return(result, got, n = request.remaining)
        ELSE /\ request' = [request EXCEPT !.remaining = @ - n, !.got = got,
                                           !.started = TRUE]
             /\ UNCHANGED found
     /\ UNCHANGED <<writerVars, disk>>

ReadStep ==
  /\ request.op = "read" /\ ~isReadBufferEmpty(reader)
  /\ LET n == Least(Len(InReader), request.remaining)
     IN Consume(n, IF n = request.remaining THEN "read" ELSE "more")

\* Mutant: the whole buffer is taken, whatever is in it.
UntilStep_TakesAll ==
  /\ request.op = "until"
  /\ ~isReadBufferEmpty(reader) \/ ~request.started
  /\ LET n == Least(Len(InReader), request.remaining)
     IN Consume(n, IF CharAt # {} THEN "found"
                   ELSE IF n = request.remaining THEN "absent" ELSE "more")

UntilStep ==
  /\ request.op = "until"
  /\ ~isReadBufferEmpty(reader) \/ ~request.started
  /\ LET fits == Least(Len(InReader), request.remaining)
         toChar == {i - reader.start : i \in CharAt}
         n == IF toChar = {} THEN fits ELSE Least(fits, CHOOSE i \in toChar : TRUE)
     IN Consume(n, IF toChar # {} THEN "found"
                   ELSE IF n = request.remaining THEN "absent" ELSE "more")

\* The buffer is empty and more is wanted: fill it, and give up when nothing
\* came, at the end of the file or because the read failed.
Refill(k) ==
  /\ request.op = "read" \/ (request.op = "until" /\ request.started)
  /\ isReadBufferEmpty(reader)
  /\ KernelRead(Moved(reader), k)
  /\ reader' = Filled(Moved(reader), k)
  /\ IF k = 0 THEN Return(IF request.op = "read" THEN "read" ELSE "absent", request.got, FALSE)
              ELSE UNCHANGED <<request, found>>
  /\ UNCHANGED <<writerVars, disk, delivered>>

ksfu_closeBufferedReader ==
  /\ reader.fd = "open" /\ request = NoRequest
  /\ reader' = [reader EXCEPT !.fd = "done"]
  /\ UNCHANGED <<writerVars, disk, request, delivered, found>>

-----------------------------------------------------------------------------
Next ==
  \/ ksfu_openBufferedWriter
  \/ \E n \in Lengths : ksfu_writeBufferedWriter(n)
  \/ CopyPiece \/ WriteDone \/ KernelFail
  \/ \E k \in 1 .. MaxBytes : KernelWrite(k)
  \/ ksfu_closeBufferedWriter
  \/ Die
  \/ \E k \in 0 .. BufferLength : ksfu_openBufferedReader(k)
  \/ \E n \in Lengths : ksfu_readBufferedReader(n)
  \/ \E n \in Lengths : ksfu_readBufferedReaderUntilChar(n)
  \/ ReadStep \/ UntilStep
  \/ \E k \in 0 .. BufferLength : Refill(k)
  \/ ksfu_closeBufferedReader

Spec == Init /\ [][Next]_vars

-----------------------------------------------------------------------------
\* Types: buffers no longer than their memory allows the model to go on, and
\* a reader's positions inside its buffer.
TypeOK ==
  /\ writer.fd \in {"closed", "open", "done"} /\ reader.fd \in {"closed", "open", "done"}
  /\ call.op \in {"none", "flush", "direct", "copy", "close"}
  /\ request.op \in {"none", "read", "until"}
  /\ reader.start \in 0 .. reader.end /\ reader.end \in 0 .. BufferLength
  /\ reader.offset \in 0 .. Len(disk)
  /\ failed \in BOOLEAN

\* The bytes on their way to the file, in the order they will get there.
Unwritten ==
  CASE call.op = "flush" -> pending \o call.data
    [] call.op \in {"direct", "close"} -> pending
    [] call.op = "copy" -> writer.buffer \o call.data
    [] OTHER -> writer.buffer

\* As long as no write failed, the file and what is still in memory are what
\* the writer was given: nothing is lost, repeated or overtaken, also when a
\* long piece goes past a buffer that holds earlier ones.
WriterKeepsOrder == ~failed => accepted = disk \o Unwritten

\* As long as no write failed, the buffer is never filled past its memory.
BufferInBounds == ~failed => Len(writer.buffer) <= BufferLength

\* Reading gives the file's bytes one after the other, whatever mixture of
\* calls and of short kernel reads it took, and none from outside the file.
ReadsFileInOrder ==
  Len(delivered) <= Len(disk) /\ delivered = SubSeq(disk, 1, Len(delivered))

\* A search for the character never reads past it.  When it says that the character
\* is not there, none of the bytes it gave is the character; when it says that it is,
\* the last byte it gave is the character, or the caller has no room left: then the
\* character only has to stand in the window, behind what was given, although
\* KSFileUtils.h:267 says "True if the character was found before giving up".
StopsAtCharacter ==
  /\ found.result \in {"found", "absent"} =>
       \A i \in 1 .. Len(found.bytes) - 1 : found.bytes[i] \notin Ends
  /\ found.result = "absent" => Range(found.bytes) \cap Ends = {}
  /\ found.result = "found" =>
       found.full \/ (found.bytes # <<>> /\ found.bytes[Len(found.bytes)] \in Ends)

\* The writer keeps the promise of an append-only log, and dies as one.
Log == INSTANCE KSFileLog WITH open <- writer.fd # "done", broken <- failed
ImplementsLog == Log!LogSpec

=============================================================================
