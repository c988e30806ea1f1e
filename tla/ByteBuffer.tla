----------------------------- MODULE ByteBuffer -----------------------------
(***************************************************************************)
(* ByteBuffer (libraries/AP_HAL/utility/RingBuffer): a ring of Size bytes  *)
(* between one writer thread and one reader thread that share no lock.     *)
(* One action is one access to a field the other thread may change at the  *)
(* same time: tail belongs to the writer, head to the reader.              *)
(***************************************************************************)
EXTENDS Integers, Sequences

CONSTANTS Size,    \* size, not zero: allocation succeeded
          Byte     \* byte values

ASSUME SizeAssumption == Size \in Nat \ {0}
ASSUME ByteAssumption == 0 \in Byte

VARIABLES buf, head, tail,
          writer,  \* write()/reserve() in progress: requested bytes, reserved and copied counts
          reader,  \* read()/peekiovec() in progress: length, first vector's length, copied bytes
          taken    \* history: the bytes removed by the last advance()

vars == <<buf, head, tail, writer, reader, taken>>

Index == 0 .. Size - 1
Smaller(a, b) == IF a < b THEN a ELSE b

available == IF head > tail THEN Size - head + tail ELSE tail - head
\* Mutant: the test of head <= tail is forgotten.
space_Untested == Size + head - tail - 1
space == (IF head <= tail THEN Size ELSE 0) + head - tail - 1

WriterAt(pc, data, len, done) == [pc |-> pc, data |-> data, len |-> len, done |-> done]
ReaderAt(pc, len, first, data) == [pc |-> pc, len |-> len, first |-> first, data |-> data]
IdleWriter == WriterAt("idle", <<>>, 0, 0)
IdleReader == ReaderAt("idle", 0, 0, <<>>)

Init == /\ buf = [i \in Index |-> 0]   \* calloc
        /\ head = 0 /\ tail = 0
        /\ writer = IdleWriter
        /\ reader = IdleReader
        /\ taken = <<>>

-----------------------------------------------------------------------------
(* The writer thread.                                                      *)

\* reserve(vec, len): one or two vectors from tail on, of at most space() bytes.
Reserve(data) ==
    /\ writer.pc = "idle"
    /\ LET n == Smaller(Len(data), space)
       IN  /\ n > 0
           /\ writer' = WriterAt("copy", data, n, 0)
    /\ UNCHANGED <<buf, head, tail, reader, taken>>

\* The i-th byte of the vectors of reserve().
ReservedCell(i) == IF i < Size - tail THEN tail + i ELSE i - (Size - tail)

WriteCopy ==
    /\ writer.pc = "copy" /\ writer.done < writer.len
    /\ buf' = [buf EXCEPT ![ReservedCell(writer.done)] = writer.data[writer.done + 1]]
    /\ writer' = WriterAt("copy", writer.data, writer.len, writer.done + 1)
    /\ UNCHANGED <<head, tail, reader, taken>>

\* Mutant: the bytes are published before they are copied.
Commit_Early(n) ==
    /\ writer.pc = "copy" /\ n <= writer.len
    /\ tail' = IF n > space THEN tail ELSE (tail + n) % Size
    /\ writer' = IdleWriter
    /\ UNCHANGED <<buf, head, reader, taken>>

\* commit(n): write() commits all it copied, a driver that fills the vectors
\* itself commits what it got.  "Someone broke the agreement": nothing changes.
Commit(n) ==
    /\ writer.pc = "copy" /\ n <= writer.done
    /\ tail' = IF n > space THEN tail ELSE (tail + n) % Size
    /\ writer' = IdleWriter
    /\ UNCHANGED <<buf, head, reader, taken>>

-----------------------------------------------------------------------------
(* The reader thread.                                                      *)

\* peekiovec(vec, len) reads tail twice: in available() and in readptr().
PeekAvailable(len) ==
    /\ reader.pc = "idle"
    /\ available > 0 /\ len > 0
    /\ reader' = ReaderAt("readptr", Smaller(len, available), 0, <<>>)
    /\ UNCHANGED <<buf, head, tail, writer, taken>>

\* Mutant: the end of the buffer is forgotten.
PeekReadptr_OneVector ==
    /\ reader.pc = "readptr"
    /\ reader' = ReaderAt("copy", reader.len, reader.len, <<>>)
    /\ UNCHANGED <<buf, head, tail, writer, taken>>

PeekReadptr ==
    /\ reader.pc = "readptr"
    /\ LET n == IF head > tail THEN Size - head ELSE tail - head
       IN  reader' = ReaderAt("copy", reader.len, Smaller(n, reader.len), <<>>)
    /\ UNCHANGED <<buf, head, tail, writer, taken>>

\* The i-th byte of the vectors of peekiovec().
PeekedCell(i) == IF i < reader.first THEN head + i ELSE i - reader.first

ReadCopy ==
    /\ reader.pc = "copy" /\ Len(reader.data) < reader.len
    /\ reader' = ReaderAt("copy", reader.len, reader.first,
                          Append(reader.data, buf[PeekedCell(Len(reader.data))]))
    /\ UNCHANGED <<buf, head, tail, writer, taken>>

\* advance(n): read() drops all it copied, a driver what it could send.
Advance(n) ==
    /\ reader.pc = "copy" /\ n <= Len(reader.data)
    /\ IF n > available
       THEN UNCHANGED <<head, taken>>
       ELSE /\ head' = (head + n) % Size
            /\ taken' = SubSeq(reader.data, 1, n)
    /\ reader' = IdleReader
    /\ UNCHANGED <<buf, tail, writer>>

\* read_byte(): peek(0), then advance(1).
PeekByte ==
    /\ reader.pc = "idle"
    /\ available > 0
    /\ reader' = ReaderAt("copy", 1, 1, <<buf[head]>>)
    /\ UNCHANGED <<buf, head, tail, writer, taken>>

\* update(data, len): as two memcpy calls, from head and from the start.
UpdateFront(data) ==
    /\ reader.pc = "idle"
    /\ Len(data) <= available
    /\ buf' = [c \in Index |->
                 IF head <= c /\ c - head < Len(data) THEN data[c - head + 1]
                 ELSE IF c + (Size - head) < Len(data) THEN data[c + (Size - head) + 1]
                 ELSE buf[c]]
    /\ UNCHANGED <<head, tail, writer, reader, taken>>

\* clear(), or set_size() with the size it has: "caller is responsible for locking".
Clear ==
    /\ writer.pc = "idle" /\ reader.pc = "idle"
    /\ head' = 0 /\ tail' = 0
    /\ taken' = <<>>
    /\ UNCHANGED <<buf, writer, reader>>

Requests == UNION {[1 .. n -> Byte] : n \in 1 .. Size}

Writer == (\E d \in Requests : Reserve(d)) \/ WriteCopy \/ (\E n \in 0 .. Size : Commit(n))
Reader == \/ \E n \in 1 .. Size : PeekAvailable(n)
          \/ PeekReadptr \/ ReadCopy \/ PeekByte
          \/ \E n \in 0 .. Size : Advance(n)
          \/ \E d \in Requests : UpdateFront(d)

Next == Writer \/ Reader \/ Clear

Spec == Init /\ [][Next]_vars

-----------------------------------------------------------------------------
(* Properties.                                                             *)

\* Every variable stays in its domain: head and tail never leave the buffer.
TypeOK ==
    /\ buf \in [Index -> Byte]
    /\ head \in Index /\ tail \in Index
    /\ writer \in [pc : {"idle", "copy"}, data : Seq(Byte), len : 0 .. Size - 1, done : 0 .. Size - 1]
    /\ reader \in [pc : {"idle", "readptr", "copy"}, len : 0 .. Size - 1,
                   first : 0 .. Size - 1, data : Seq(Byte)]
    /\ taken \in Seq(Byte)

\* Cells holding written bytes that were not taken.
Live == IF head > tail THEN {c \in Index : c >= head \/ c < tail}
                       ELSE {c \in Index : head <= c /\ c < tail}

\* The vectors reserve() handed out stay in the buffer and off every byte that
\* was committed and not taken, however far the reader has moved meanwhile.
WriterStaysOff == writer.pc = "copy" =>
    \A i \in 0 .. writer.len - 1 : ReservedCell(i) \in Index \ Live

\* The vectors peekiovec() made from two readings of tail cover committed bytes
\* only, however far the writer has moved meanwhile.
ReaderStaysIn == reader.pc = "copy" =>
    \A i \in 0 .. reader.len - 1 : PeekedCell(i) \in Live

\* "Someone broke the agreement": a commit or an advance of no more than was
\* reserved or peeked is never refused.
AgreementKept ==
    /\ writer.pc = "copy" => writer.len <= space
    /\ reader.pc # "idle" => reader.len <= available

\* The bytes between head and tail, oldest first.
Contents == [i \in 1 .. available |-> buf[(head + i - 1) % Size]]

Fifo == INSTANCE ByteFifo WITH Capacity <- Size - 1, offered <- writer.data, queue <- Contents

\* The buffer is a FIFO queue: bytes come out once, in order and as written.
IsFifo == Fifo!Spec
=============================================================================
