-------------------------- MODULE ByteBufferProofs --------------------------
(***************************************************************************)
(* Proofs about ByteBuffer for every buffer size and every byte set.       *)
(***************************************************************************)
EXTENDS ByteBuffer, SequenceTheorems, TLAPS

-----------------------------------------------------------------------------
(* Ring arithmetic.                                                        *)

\* A position less than one turn ahead wraps at most once.
LEMMA Wrap ==
    ASSUME NEW a \in Nat, a < 2 * Size
    PROVE  a % Size = IF a < Size THEN a ELSE a - Size
<1>1. CASE a < Size
  BY <1>1, SizeAssumption
<1>2. CASE ~(a < Size)
  <2>1. a = 1 * Size + (a - Size)
    BY <1>2, SizeAssumption
  <2> QED
    BY <1>2, <2>1, SizeAssumption
<1> QED
  BY <1>1, <1>2

\* space() and available() add up to the capacity, one less than the size.
LEMMA SpaceAvailable ==
    ASSUME head \in Index, tail \in Index
    PROVE  available \in 0 .. Size - 1 /\ space = Size - 1 - available
BY SizeAssumption DEF Index, available, space

\* advance(n) takes n bytes off what is available.
LEMMA AdvanceMoves ==
    ASSUME head \in Index, tail \in Index, NEW n \in Nat, n <= available,
           head' = (head + n) % Size, tail' = tail
    PROVE  head' \in Index /\ available' = available - n
<1>1. head + n \in Nat /\ head + n < 2 * Size
  BY SpaceAvailable, SizeAssumption DEF Index
<1>2. head' = IF head + n < Size THEN head + n ELSE head + n - Size
  BY <1>1, Wrap, SizeAssumption DEF Index
<1> QED
  BY <1>2, SizeAssumption DEF Index, available

\* commit(n) adds n bytes to what is available.
LEMMA CommitMoves ==
    ASSUME head \in Index, tail \in Index, NEW n \in Nat, n <= space,
           tail' = (tail + n) % Size, head' = head
    PROVE  tail' \in Index /\ available' = available + n
<1>1. tail + n \in Nat /\ tail + n < 2 * Size
  BY SpaceAvailable, SizeAssumption DEF Index
<1>2. tail' = IF tail + n < Size THEN tail + n ELSE tail + n - Size
  BY <1>1, Wrap, SizeAssumption DEF Index
<1> QED
  BY <1>2, SizeAssumption DEF Index, available, space

-----------------------------------------------------------------------------
(* The inductive invariant.                                                *)

\* What the writer reserved still fits, and what it copied is there.
WriterInv ==
    /\ writer.pc = "idle" => writer = IdleWriter
    /\ writer.pc = "copy" => /\ writer.len <= space
                             /\ writer.len <= Len(writer.data)
                             /\ writer.done <= writer.len
                             /\ \A i \in 1 .. writer.done :
                                    buf[ReservedCell(i - 1)] = writer.data[i]

\* What the reader peeked is still there, its first vector ends at the end of
\* the buffer if there is a second one, and what it copied is what is there.
ReaderInv ==
    /\ reader.pc = "idle" => reader = IdleReader
    /\ reader.pc = "readptr" => /\ 0 < reader.len /\ reader.len <= available
                                /\ reader.data = <<>>
    /\ reader.pc = "copy" => /\ reader.len <= available
                             /\ reader.first <= Size - head
                             /\ reader.first < reader.len => reader.first = Size - head
                             /\ Len(reader.data) <= reader.len
                             /\ \A i \in 1 .. Len(reader.data) :
                                    reader.data[i] = buf[PeekedCell(i - 1)]

RingInv == TypeOK /\ WriterInv /\ ReaderInv

\* A step of one thread that leaves the shared fields alone keeps the other's part.
LEMMA WriterUntouched ==
    ASSUME WriterInv, UNCHANGED <<buf, head, tail, writer>>
    PROVE  WriterInv'
BY DEF WriterInv, space, ReservedCell

\* The ring invariant holds when the buffer is created.
LEMMA InitRing == Init => RingInv
BY SizeAssumption, ByteAssumption
   DEF Init, RingInv, TypeOK, WriterInv, ReaderInv, Index, IdleWriter, WriterAt, IdleReader, ReaderAt, available

\* A call's bytes.
LEMMA RequestsAreBytes ==
    ASSUME NEW d \in Requests
    PROVE  d \in Seq(Byte) /\ Len(d) \in 1 .. Size
BY SizeAssumption DEF Requests

\* reserve() hands out free cells only.
LEMMA ReserveRing ==
    ASSUME RingInv, NEW d \in Requests, Reserve(d)
    PROVE  RingInv'
<1>1. d \in Seq(Byte) /\ Len(d) \in 1 .. Size
  BY RequestsAreBytes
<1>2. space \in 0 .. Size - 1
  BY SpaceAvailable, SizeAssumption DEF RingInv, TypeOK
<1> QED
  BY <1>1, <1>2, SizeAssumption
     DEF RingInv, TypeOK, WriterInv, ReaderInv, Reserve, Smaller, IdleWriter, WriterAt,
         available, space, PeekedCell

\* No cell of the writer's vectors is a cell of the reader's.
LEMMA VectorsDisjoint ==
    ASSUME RingInv, writer.pc = "copy", reader.pc = "copy",
           NEW i \in 0 .. writer.len - 1, NEW j \in 0 .. reader.len - 1
    PROVE  ReservedCell(i) # PeekedCell(j)
<1>1. /\ head \in 0 .. Size - 1 /\ tail \in 0 .. Size - 1 /\ Size \in Nat
      /\ writer.len \in Nat /\ reader.len \in Nat /\ reader.first \in Nat
  BY SizeAssumption DEF RingInv, TypeOK, Index
<1>2. writer.pc = "copy" => writer.len <= space
  BY DEF RingInv, WriterInv
<1>3. reader.pc = "copy" => /\ reader.len <= available
                            /\ reader.first <= Size - head
                            /\ reader.first < reader.len => reader.first = Size - head
  BY DEF RingInv, ReaderInv
<1> QED
  BY <1>1, <1>2, <1>3 DEF Index, available, space, ReservedCell, PeekedCell

\* The vectors lie in the buffer.
LEMMA VectorsInside ==
    ASSUME RingInv
    PROVE  /\ writer.pc = "copy" => \A i \in 0 .. writer.len - 1 : ReservedCell(i) \in Index
           /\ reader.pc = "copy" => \A i \in 0 .. reader.len - 1 : PeekedCell(i) \in Index
<1>1. /\ head \in 0 .. Size - 1 /\ tail \in 0 .. Size - 1 /\ Size \in Nat
      /\ writer.len \in Nat /\ reader.len \in Nat /\ reader.first \in Nat
  BY SizeAssumption DEF RingInv, TypeOK, Index
<1>2. writer.pc = "copy" => writer.len <= space
  BY DEF RingInv, WriterInv
<1>3. reader.pc = "copy" => /\ reader.len <= available
                            /\ reader.first <= Size - head
                            /\ reader.first < reader.len => reader.first = Size - head
  BY DEF RingInv, ReaderInv
<1> QED
  BY <1>1, <1>2, <1>3 DEF Index, available, space, ReservedCell, PeekedCell

\* A byte copied into a reserved cell disturbs no byte the reader has copied.
LEMMA WriteCopyRing ==
    ASSUME RingInv, WriteCopy
    PROVE  RingInv'
<1> DEFINE c == ReservedCell(writer.done)
<1>1. /\ writer.done \in 0 .. writer.len - 1
      /\ writer.data[writer.done + 1] \in Byte
  BY DEF RingInv, TypeOK, WriterInv, WriteCopy
<1>2. c \in Index
  BY <1>1, VectorsInside DEF WriteCopy
<1>3. /\ writer' = WriterAt("copy", writer.data, writer.len, writer.done + 1)
      /\ writer.len \in 0 .. Size - 1 /\ writer.len <= space /\ writer.len <= Len(writer.data)
  BY DEF RingInv, TypeOK, WriterInv, WriteCopy
<1>4. TypeOK'
  BY <1>1, <1>2, <1>3, SizeAssumption DEF RingInv, TypeOK, WriteCopy, WriterAt
<1>5. WriterInv'
  <2>1. ASSUME NEW i \in 1 .. writer.done + 1
        PROVE  buf'[ReservedCell(i - 1)] = writer.data[i]
    <3>1. /\ buf' = [buf EXCEPT ![c] = writer.data[writer.done + 1]]
          /\ writer.done \in Nat /\ tail \in Index
      BY DEF RingInv, TypeOK, WriteCopy
    <3>2. CASE i = writer.done + 1
      BY <1>2, <3>1, <3>2 DEF RingInv, TypeOK
    <3>3. CASE i \in 1 .. writer.done
      <4>1. buf[ReservedCell(i - 1)] = writer.data[i]
        BY <3>3 DEF RingInv, WriterInv, WriteCopy
      <4>2. ReservedCell(i - 1) # c /\ ReservedCell(i - 1) \in Index
        BY <1>1, <1>3, <3>1, <3>3, VectorsInside, SizeAssumption
           DEF ReservedCell, Index, space, WriteCopy, RingInv, TypeOK
      <4> QED
        BY <1>2, <3>1, <4>1, <4>2 DEF RingInv, TypeOK
    <3> QED
      BY <3>1, <3>2, <3>3
  <2>2. /\ writer'.pc = "copy" /\ writer'.data = writer.data /\ writer'.len = writer.len
        /\ writer'.done = writer.done + 1 /\ head' = head /\ tail' = tail
    BY <1>3 DEF WriterAt, WriteCopy
  <2>3. writer'.done <= writer'.len
    BY <1>1, <1>3, <2>2
  <2> QED
    BY <1>3, <2>1, <2>2, <2>3 DEF WriterInv, space, ReservedCell
<1>6. ASSUME reader.pc = "copy", NEW i \in 1 .. Len(reader.data)
      PROVE  buf'[PeekedCell(i - 1)] = buf[PeekedCell(i - 1)]
  <2>1. i - 1 \in 0 .. reader.len - 1
    BY <1>6 DEF RingInv, TypeOK, ReaderInv
  <2>2. c # PeekedCell(i - 1)
    BY <1>1, <1>6, <2>1, VectorsDisjoint DEF WriteCopy
  <2> QED
    BY <2>2, <1>2 DEF RingInv, TypeOK, WriteCopy
<1>7. ReaderInv'
  BY <1>6 DEF RingInv, ReaderInv, WriteCopy, available, PeekedCell
<1> QED
  BY <1>4, <1>5, <1>7 DEF RingInv

\* commit() leaves the reader's vectors inside what was committed.
LEMMA CommitRing ==
    ASSUME RingInv, NEW n \in 0 .. Size, Commit(n)
    PROVE  RingInv'
<1>1. n \in Nat /\ n <= space /\ tail' = (tail + n) % Size
  <2>1. space \in 0 .. Size - 1
    BY SpaceAvailable, SizeAssumption DEF RingInv, TypeOK
  <2>2. writer.len <= space /\ writer.done <= writer.len /\ n <= writer.done
    BY DEF RingInv, WriterInv, Commit
  <2>3. n \in Nat /\ writer.len \in Nat /\ writer.done \in Nat
    BY SizeAssumption DEF RingInv, TypeOK
  <2> QED
    BY <2>1, <2>2, <2>3 DEF Commit
<1>2. tail' \in Index /\ available' = available + n
  BY <1>1, CommitMoves DEF RingInv, TypeOK, Commit
<1>3. available \in 0 .. Size - 1
  BY SpaceAvailable DEF RingInv, TypeOK
<1>4. TypeOK' /\ WriterInv'
  BY <1>2, SizeAssumption DEF RingInv, TypeOK, WriterInv, Commit, IdleWriter, WriterAt
<1>5. ReaderInv'
  BY <1>1, <1>2, <1>3 DEF RingInv, TypeOK, ReaderInv, Commit, PeekedCell
<1> QED
  BY <1>4, <1>5 DEF RingInv

\* The length peekiovec() keeps is one that is available.
LEMMA PeekAvailableRing ==
    ASSUME RingInv, NEW n \in 1 .. Size, PeekAvailable(n)
    PROVE  RingInv'
<1>1. available \in 0 .. Size - 1
  BY SpaceAvailable DEF RingInv, TypeOK
<1> QED
  BY <1>1, WriterUntouched, SizeAssumption
     DEF RingInv, TypeOK, ReaderInv, PeekAvailable, IdleReader, ReaderAt, Smaller, available

\* The split made from the second reading of tail is a split of that length.
LEMMA PeekReadptrRing ==
    ASSUME RingInv, PeekReadptr
    PROVE  RingInv'
BY WriterUntouched, SizeAssumption
   DEF RingInv, TypeOK, ReaderInv, PeekReadptr, ReaderAt, Index, Smaller, available, PeekedCell

\* A byte copied from a vector is the byte at its place in the queue.
LEMMA ReadCopyRing ==
    ASSUME RingInv, ReadCopy
    PROVE  RingInv'
<1> DEFINE b == buf[PeekedCell(Len(reader.data))]
           d == Append(reader.data, b)
<1>1. reader.data \in Seq(Byte) /\ Len(reader.data) \in 0 .. reader.len - 1
  BY DEF RingInv, TypeOK, ReadCopy
<1>2. b \in Byte
  BY <1>1, VectorsInside DEF RingInv, TypeOK, ReadCopy
<1>3. /\ d \in Seq(Byte) /\ Len(d) = Len(reader.data) + 1
      /\ \A i \in 1 .. Len(reader.data) : d[i] = reader.data[i]
      /\ d[Len(reader.data) + 1] = b
  BY <1>1, <1>2, AppendProperties
<1>4. reader' = ReaderAt("copy", reader.len, reader.first, d)
  BY DEF ReadCopy
<1>5. TypeOK'
  BY <1>3, <1>4 DEF RingInv, TypeOK, ReadCopy, ReaderAt
<1>6. WriterInv'
  BY WriterUntouched DEF RingInv, ReadCopy
<1>7. \A i \in 1 .. Len(d) : d[i] = buf[PeekedCell(i - 1)]
  <2> SUFFICES ASSUME NEW i \in 1 .. Len(d) PROVE d[i] = buf[PeekedCell(i - 1)]
    OBVIOUS
  <2>1. CASE i = Len(reader.data) + 1
    BY <1>1, <1>3, <2>1
  <2>2. CASE i \in 1 .. Len(reader.data)
    BY <1>3, <2>2 DEF RingInv, ReaderInv, ReadCopy
  <2> QED
    BY <1>1, <1>3, <2>1, <2>2
<1>8. ReaderInv'
  <2>1. /\ reader'.pc = "copy" /\ reader'.len = reader.len /\ reader'.first = reader.first
        /\ reader'.data = d /\ buf' = buf /\ head' = head /\ tail' = tail
    BY <1>4 DEF ReaderAt, ReadCopy
  <2>2. /\ reader.len <= available /\ reader.first <= Size - head
        /\ reader.first < reader.len => reader.first = Size - head
    BY DEF RingInv, ReaderInv, ReadCopy
  <2>3. Len(d) <= reader.len
    BY <1>1, <1>3 DEF RingInv, TypeOK
  <2> HIDE DEF d
  <2> QED
    BY <1>7, <2>1, <2>2, <2>3 DEF ReaderInv, available, PeekedCell
<1> QED
  BY <1>5, <1>6, <1>8 DEF RingInv

\* advance() leaves the writer's vectors outside what is still to be read.
LEMMA AdvanceRing ==
    ASSUME RingInv, NEW n \in 0 .. Size, Advance(n)
    PROVE  RingInv'
<1>1. available \in 0 .. Size - 1 /\ space = Size - 1 - available
  BY SpaceAvailable DEF RingInv, TypeOK
<1>2. n \in Nat /\ n <= available
  BY <1>1 DEF RingInv, TypeOK, ReaderInv, Advance
<1>3. head' = (head + n) % Size /\ taken' = SubSeq(reader.data, 1, n) /\ n <= Len(reader.data)
  BY <1>1, <1>2 DEF Advance
<1>4. head' \in Index /\ available' = available - n
  BY <1>2, <1>3, AdvanceMoves DEF RingInv, TypeOK, Advance
<1>5. space' = Size - 1 - available'
  BY <1>4, SizeAssumption DEF RingInv, TypeOK, Advance, Index, available, space
<1>6. taken' \in Seq(Byte)
  <2>1. \A i \in 1 .. n : reader.data[i] \in Byte
    BY <1>2, <1>3 DEF RingInv, TypeOK
  <2> QED
    BY <1>2, <1>3, <2>1, SubSeqProperties
<1>7. TypeOK' /\ ReaderInv'
  BY <1>4, <1>6, SizeAssumption DEF RingInv, TypeOK, ReaderInv, Advance, IdleReader, ReaderAt
<1>8. WriterInv'
  <2>1. space <= space' /\ space \in Int /\ space' \in Int
    BY <1>1, <1>2, <1>4, <1>5, SizeAssumption
  <2>2. writer' = writer /\ (writer.pc = "copy" => writer.len <= space /\ writer.len \in Nat)
    BY DEF RingInv, TypeOK, WriterInv, Advance
  <2>3. writer.pc = "copy" => writer.len <= space'
    BY <2>1, <2>2
  <2>4. buf' = buf /\ tail' = tail
    BY DEF Advance
  <2> QED
    BY <2>2, <2>3, <2>4 DEF RingInv, WriterInv, ReservedCell
<1> QED
  BY <1>7, <1>8 DEF RingInv

\* peek(0) reads the oldest byte.
LEMMA PeekByteRing ==
    ASSUME RingInv, PeekByte
    PROVE  RingInv'
BY WriterUntouched, SizeAssumption
   DEF RingInv, TypeOK, ReaderInv, PeekByte, IdleReader, ReaderAt, Index, available, PeekedCell

\* update() stays off the writer's vectors.
LEMMA UpdateFrontRing ==
    ASSUME RingInv, NEW d \in Requests, UpdateFront(d)
    PROVE  RingInv'
<1>1. d \in Seq(Byte)
  BY RequestsAreBytes
<1>2. ASSUME NEW c \in Index
      PROVE  buf'[c] \in Byte
  BY <1>1, SizeAssumption DEF RingInv, TypeOK, UpdateFront, Index
<1>3. buf' \in [Index -> Byte]
  BY <1>2 DEF UpdateFront
<1>4. TypeOK' /\ ReaderInv'
  BY <1>3 DEF RingInv, TypeOK, ReaderInv, UpdateFront, IdleReader, ReaderAt
<1>5. ASSUME writer.pc = "copy", NEW i \in 0 .. writer.len - 1
      PROVE  buf'[ReservedCell(i)] = buf[ReservedCell(i)]
  <2>1. /\ head \in 0 .. Size - 1 /\ tail \in 0 .. Size - 1 /\ Size \in Nat
        /\ writer.len \in Nat /\ writer.len <= space /\ Len(d) \in Nat /\ Len(d) <= available
    BY <1>1, <1>5, SizeAssumption DEF RingInv, TypeOK, WriterInv, Index, UpdateFront
  <2>2. ReservedCell(i) \in Index
    BY <1>5, VectorsInside
  <2>3. /\ ~(head <= ReservedCell(i) /\ ReservedCell(i) - head < Len(d))
        /\ ~(ReservedCell(i) + (Size - head) < Len(d))
    BY <2>1 DEF ReservedCell, space, available
  <2> QED
    BY <2>2, <2>3 DEF UpdateFront
<1>6. WriterInv'
  <2>1. /\ writer' = writer /\ head' = head /\ tail' = tail
        /\ writer.pc = "copy" => writer.done \in Nat /\ writer.len \in Nat /\ writer.done <= writer.len
    BY DEF RingInv, TypeOK, WriterInv, UpdateFront
  <2>2. ASSUME writer.pc = "copy", NEW i \in 1 .. writer.done
        PROVE  buf'[ReservedCell(i - 1)] = writer.data[i]
    <3>1. i - 1 \in 0 .. writer.len - 1
      BY <2>1, <2>2
    <3> QED
      BY <1>5, <2>2, <3>1 DEF RingInv, WriterInv
  <2> QED
    BY <2>1, <2>2 DEF RingInv, WriterInv, space, ReservedCell
<1> QED
  BY <1>4, <1>6 DEF RingInv

\* clear() by a caller that locks both threads out keeps the invariant.
LEMMA ClearRing ==
    ASSUME RingInv, Clear
    PROVE  RingInv'
BY SizeAssumption DEF RingInv, TypeOK, WriterInv, ReaderInv, Clear, Index

\* Every step keeps the ring invariant.
LEMMA NextRing == RingInv /\ [Next]_vars => RingInv'
<1> SUFFICES ASSUME RingInv, [Next]_vars PROVE RingInv'
  OBVIOUS
<1>1. CASE Writer
  BY <1>1, ReserveRing, WriteCopyRing, CommitRing DEF Writer
<1>2. CASE Reader
  BY <1>2, PeekAvailableRing, PeekReadptrRing, ReadCopyRing, PeekByteRing, AdvanceRing,
     UpdateFrontRing DEF Reader
<1>3. CASE Clear
  BY <1>3, ClearRing
<1>4. CASE UNCHANGED vars
  BY <1>4, WriterUntouched DEF vars, RingInv, TypeOK, ReaderInv, available, PeekedCell
<1> QED
  BY <1>1, <1>2, <1>3, <1>4 DEF Next

\* The ring invariant holds in every reachable state.
THEOREM RingInvariant == Spec => []RingInv
BY InitRing, NextRing, PTL DEF Spec

\* head and tail stay in the buffer and every variable in its domain.
THEOREM TypeCorrect == Spec => []TypeOK
<1>1. RingInv => TypeOK
  BY DEF RingInv
<1> QED
  BY <1>1, RingInvariant, PTL

\* A writer and a reader that keep to what they reserved and peeked are never
\* refused by commit() and advance(), for every size of the buffer.
THEOREM AgreementHolds == Spec => []AgreementKept
<1>1. RingInv => AgreementKept
  BY DEF RingInv, TypeOK, WriterInv, ReaderInv, AgreementKept
<1> QED
  BY <1>1, RingInvariant, PTL

\* The vectors of reserve() never cover a byte that was committed and not taken.
THEOREM WriterNeverOverwrites == Spec => []WriterStaysOff
<1>1. RingInv => WriterStaysOff
  BY SizeAssumption DEF RingInv, TypeOK, WriterInv, WriterStaysOff, Index, Live, space, ReservedCell
<1> QED
  BY <1>1, RingInvariant, PTL

\* The vectors of peekiovec() never cover a byte that was not committed, although
\* it reads tail twice.
THEOREM ReaderNeverOverreads == Spec => []ReaderStaysIn
<1>1. RingInv => ReaderStaysIn
  <2> SUFFICES ASSUME RingInv, reader.pc = "copy", NEW i \in 0 .. reader.len - 1
               PROVE  PeekedCell(i) \in Live
    BY DEF ReaderStaysIn
  <2>1. /\ head \in Index /\ tail \in Index
        /\ reader.len \in Nat /\ reader.first \in Nat
    BY DEF RingInv, TypeOK
  <2>2. /\ reader.len <= available /\ reader.first <= Size - head
        /\ reader.first < reader.len => reader.first = Size - head
    BY DEF RingInv, ReaderInv
  <2> QED
    BY <2>1, <2>2, SizeAssumption DEF Index, Live, available, PeekedCell
<1> QED
  BY <1>1, RingInvariant, PTL

-----------------------------------------------------------------------------
(* The buffer implements a FIFO queue.                                     *)

\* The cell of the i-th byte available.
ContentCell(i) == IF i - 1 < Size - head THEN head + i - 1 ELSE i - 1 - (Size - head)

ContentsOK ==
    /\ Contents \in Seq(Byte) /\ Len(Contents) = available
    /\ available \in 0 .. Size - 1
    /\ \A i \in 1 .. available : ContentCell(i) \in Index /\ Contents[i] = buf[ContentCell(i)]

\* What Contents is: its length and its bytes.
LEMMA ContentsIs == TypeOK => ContentsOK
<1> SUFFICES ASSUME TypeOK PROVE ContentsOK
  OBVIOUS
<1>1. available \in 0 .. Size - 1 /\ head \in 0 .. Size - 1 /\ Size \in Nat \ {0}
  BY SpaceAvailable, SizeAssumption DEF TypeOK, Index
<1>2. ASSUME NEW i \in 1 .. available
      PROVE  /\ (head + i - 1) % Size = ContentCell(i)
             /\ ContentCell(i) \in Index
  <2>1. head + i - 1 \in Nat /\ head + i - 1 < 2 * Size
    BY <1>1
  <2>2. (head + i - 1) % Size = IF head + i - 1 < Size THEN head + i - 1 ELSE head + i - 1 - Size
    BY <1>1, <2>1, Wrap
  <2> QED
    BY <1>1, <2>1, <2>2 DEF ContentCell, Index
<1>3. \A i \in 1 .. available : buf[(head + i - 1) % Size] \in Byte
  BY <1>2 DEF TypeOK
<1>4. Contents \in [1 .. available -> Byte]
  BY <1>3 DEF Contents
<1>5. Contents \in Seq(Byte) /\ Len(Contents) = available
  BY <1>1, <1>4
<1> QED
  BY <1>1, <1>2, <1>5 DEF Contents, ContentsOK

\* The same of the next state.
LEMMA ContentsIsNext == TypeOK' => ContentsOK'
BY ContentsIs, PTL

\* A step that keeps head, the number of bytes available and their cells keeps
\* the contents.
LEMMA ContentsKept ==
    ASSUME TypeOK, TypeOK', head' = head, available' = available,
           \A i \in 1 .. available : buf'[ContentCell(i)] = buf[ContentCell(i)]
    PROVE  Contents' = Contents
<1>1. \A i \in 1 .. available : ContentCell(i)' = ContentCell(i)
  BY DEF ContentCell
<1>2. /\ Contents' \in Seq(Byte) /\ Len(Contents') = available
      /\ \A i \in 1 .. available : Contents'[i] = buf'[ContentCell(i)]
  BY <1>1, ContentsIsNext DEF ContentsOK
<1>3. /\ Contents \in Seq(Byte) /\ Len(Contents) = available
      /\ \A i \in 1 .. available : Contents[i] = buf[ContentCell(i)]
  BY ContentsIs DEF ContentsOK
<1> QED
  BY <1>2, <1>3, SeqEqual

\* A commit appends to the queue the first bytes that were offered.
LEMMA CommitPuts ==
    ASSUME RingInv, TypeOK', NEW n \in 0 .. Size, Commit(n)
    PROVE  Fifo!Put
<1> DEFINE part == SubSeq(writer.data, 1, n)
<1>1. /\ head \in 0 .. Size - 1 /\ tail \in 0 .. Size - 1 /\ Size \in Nat \ {0}
      /\ writer.done \in Nat /\ writer.len \in Nat /\ writer.data \in Seq(Byte)
      /\ n \in Nat /\ n <= writer.done
      /\ writer.done <= writer.len /\ writer.len <= space /\ writer.len <= Len(writer.data)
      /\ head' = head /\ buf' = buf
  BY SizeAssumption DEF RingInv, TypeOK, WriterInv, Commit, Index
<1>2. space = Size - 1 - available /\ available \in 0 .. Size - 1
  BY SpaceAvailable DEF RingInv, TypeOK
<1>3. n <= space /\ tail' = (tail + n) % Size
  BY <1>1, <1>2 DEF Commit
<1>4. available' = available + n
  BY <1>1, <1>3, CommitMoves DEF Index
<1>5. part \in Seq(Byte) /\ Len(part) = n /\ \A i \in 1 .. n : part[i] = writer.data[i]
  <2>1. \A i \in 1 .. n : writer.data[i] \in Byte
    BY <1>1
  <2> QED
    BY <1>1, <2>1, SubSeqProperties
<1>6. ContentsOK /\ ContentsOK'
  BY ContentsIs, ContentsIsNext DEF RingInv
<1> HIDE DEF part
<1>7. /\ Contents \o part \in Seq(Byte)
      /\ Len(Contents \o part) = available + n
      /\ \A i \in 1 .. available + n :
            (Contents \o part)[i] = IF i <= available THEN Contents[i] ELSE part[i - available]
  BY <1>5, <1>6, ConcatProperties DEF ContentsOK
<1>8. ASSUME NEW i \in 1 .. available + n
      PROVE  Contents'[i] = (Contents \o part)[i]
  <2>1. Contents'[i] = buf[ContentCell(i)]
    BY <1>1, <1>4, <1>6, <1>8 DEF ContentsOK, ContentCell
  <2>2. CASE i <= available
    BY <1>1, <1>2, <1>6, <1>7, <2>1, <2>2 DEF ContentsOK
  <2>3. CASE ~(i <= available)
    <3>1. i - available \in 1 .. n
      BY <1>1, <1>2, <2>3
    <3>2. ContentCell(i) = ReservedCell(i - available - 1)
      BY <1>1, <1>2, <1>3, <2>3 DEF ContentCell, ReservedCell, available
    <3>3. buf[ReservedCell(i - available - 1)] = writer.data[i - available]
      BY <1>1, <3>1 DEF RingInv, WriterInv, Commit
    <3> QED
      BY <1>1, <1>5, <1>7, <2>1, <2>3, <3>1, <3>2, <3>3
  <2> QED
    BY <2>2, <2>3
<1>9. Contents' = Contents \o part
  BY <1>4, <1>6, <1>7, <1>8, SeqEqual DEF ContentsOK
<1>10. writer'.data = <<>> /\ taken' = taken
  BY DEF Commit, IdleWriter, WriterAt
<1>11. Len(Contents') <= Size - 1
  BY <1>6, SizeAssumption DEF ContentsOK
<1>12. n \in 0 .. Len(writer.data)
  BY <1>1
<1> QED
  BY <1>9, <1>10, <1>11, <1>12 DEF Fifo!Put, part

\* An advance removes from the queue its first bytes, the ones copied.
LEMMA AdvanceTakes ==
    ASSUME RingInv, TypeOK', NEW n \in 0 .. Size, Advance(n)
    PROVE  Fifo!Take
<1>1. /\ head \in 0 .. Size - 1 /\ tail \in 0 .. Size - 1 /\ Size \in Nat \ {0}
      /\ reader.len \in Nat /\ reader.first \in Nat /\ reader.data \in Seq(Byte)
      /\ n \in Nat /\ n <= Len(reader.data) /\ Len(reader.data) <= reader.len
      /\ reader.len <= available /\ reader.first <= Size - head
      /\ reader.first < reader.len => reader.first = Size - head
      /\ tail' = tail /\ buf' = buf /\ writer' = writer
  BY SizeAssumption DEF RingInv, TypeOK, ReaderInv, Advance, Index
<1>2. ContentsOK /\ ContentsOK'
  BY ContentsIs, ContentsIsNext DEF RingInv
<1>3. n <= available /\ available \in 0 .. Size - 1
  BY <1>1, <1>2 DEF ContentsOK
<1>4. head' = (head + n) % Size /\ taken' = SubSeq(reader.data, 1, n)
  BY <1>3, <1>1 DEF Advance
<1>5. available' = available - n
  BY <1>1, <1>3, <1>4, AdvanceMoves DEF Index
<1>6. head' = IF head + n < Size THEN head + n ELSE head + n - Size
  <2>1. head \in 0 .. Size - 1 /\ n \in 0 .. Size /\ Size \in Nat \ {0} /\ head + n < 2 * Size
    BY <1>1, <1>3
  <2>2. (head + n) % Size = IF head + n < Size THEN head + n ELSE head + n - Size
    BY <2>1, Wrap
  <2> QED
    BY <1>4, <2>2
<1>7. taken' = SubSeq(Contents, 1, n)
  <2>1. ASSUME NEW i \in 1 .. n PROVE reader.data[i] = Contents[i] /\ Contents[i] \in Byte
    <3>1. PeekedCell(i - 1) = ContentCell(i) /\ i \in 1 .. available /\ i \in 1 .. Len(reader.data)
      BY <1>1, <1>3 DEF PeekedCell, ContentCell
    <3>2. reader.data[i] = buf[PeekedCell(i - 1)]
      BY <3>1 DEF RingInv, ReaderInv, Advance
    <3> QED
      BY <1>1, <1>2, <3>1, <3>2 DEF ContentsOK
  <2> DEFINE s == SubSeq(reader.data, 1, n)
             t == SubSeq(Contents, 1, n)
  <2>2. s \in Seq(Byte) /\ Len(s) = n /\ \A i \in 1 .. n : s[i] = reader.data[i]
    BY <1>1, <2>1, SubSeqProperties
  <2>3. t \in Seq(Byte) /\ Len(t) = n /\ \A i \in 1 .. n : t[i] = Contents[i]
    BY <1>1, <2>1, SubSeqProperties
  <2> HIDE DEF s, t
  <2>4. s = t
    BY <2>1, <2>2, <2>3, SeqEqual
  <2> QED
    BY <1>4, <2>4 DEF s, t
<1>8. Contents' = SubSeq(Contents, n + 1, Len(Contents))
  <2> DEFINE t == SubSeq(Contents, n + 1, Len(Contents))
  <2>1. \A i \in n + 1 .. Len(Contents) : Contents[i] \in Byte
    BY <1>1, <1>2 DEF ContentsOK
  <2>2. t \in Seq(Byte) /\ Len(t) = available - n /\ \A i \in 1 .. available - n : t[i] = Contents[n + i]
    BY <1>1, <1>2, <1>3, <2>1, SubSeqProperties DEF ContentsOK
  <2> HIDE DEF t
  <2>3. ASSUME NEW i \in 1 .. available - n PROVE Contents'[i] = Contents[n + i]
    <3>1. ContentCell(i)' = ContentCell(n + i) /\ n + i \in 1 .. available
      BY <1>1, <1>3, <1>6 DEF ContentCell
    <3> QED
      BY <1>1, <1>2, <1>5, <3>1 DEF ContentsOK
  <2>4. Contents' = t
    BY <1>2, <1>5, <2>2, <2>3, SeqEqual DEF ContentsOK
  <2> QED
    BY <2>4 DEF t
<1>9. n \in 0 .. Len(Contents)
  BY <1>1, <1>2, <1>3 DEF ContentsOK
<1> QED
  BY <1>1, <1>7, <1>8, <1>9 DEF Fifo!Take

\* Every step of the buffer is a step of the queue or leaves it alone.
LEMMA StepImplementsFifo ==
    RingInv /\ RingInv' /\ [Next]_vars => [Fifo!Next]_(Fifo!vars)
<1> SUFFICES ASSUME RingInv, RingInv', [Next]_vars
             PROVE  [Fifo!Next]_(Fifo!vars)
  OBVIOUS
<1>0. TypeOK /\ TypeOK' /\ ContentsOK /\ ContentsOK'
  BY ContentsIs, ContentsIsNext DEF RingInv
<1>a. ASSUME UNCHANGED <<buf, head, tail>> PROVE Contents' = Contents
  BY <1>a DEF Contents, available
<1>1. ASSUME NEW d \in Requests, Reserve(d) PROVE Fifo!Offer
  <2>1. writer.data = <<>> /\ writer'.data \in Seq(Byte)
    BY <1>1, RequestsAreBytes DEF RingInv, WriterInv, Reserve, IdleWriter, WriterAt
  <2> QED
    BY <1>1, <1>a, <2>1 DEF Reserve, Fifo!Offer
<1>2. ASSUME WriteCopy PROVE UNCHANGED Fifo!vars
  <2>1. writer'.data = writer.data /\ taken' = taken /\ head' = head /\ tail' = tail
    BY <1>2 DEF WriteCopy, WriterAt
  <2>2. ASSUME NEW i \in 1 .. available PROVE buf'[ContentCell(i)] = buf[ContentCell(i)]
    <3>1. /\ writer.done \in 0 .. writer.len - 1 /\ writer.len <= space
          /\ head \in 0 .. Size - 1 /\ tail \in 0 .. Size - 1 /\ writer.len \in Nat
          /\ Size \in Nat
      BY <1>2, SizeAssumption DEF RingInv, TypeOK, WriterInv, WriteCopy, Index
    <3>2. ReservedCell(writer.done) # ContentCell(i)
      BY <3>1 DEF ReservedCell, ContentCell, available, space
    <3> QED
      BY <1>0, <1>2, <3>2 DEF ContentsOK, TypeOK, WriteCopy
  <2>3. available' = available
    BY <2>1 DEF available
  <2> QED
    BY <1>0, <2>1, <2>2, <2>3, ContentsKept DEF Fifo!vars
<1>3. ASSUME NEW n \in 0 .. Size, Commit(n) PROVE Fifo!Put
  BY <1>0, <1>3, CommitPuts
<1>4. ASSUME NEW n \in 1 .. Size, PeekAvailable(n) PROVE UNCHANGED Fifo!vars
  BY <1>4, <1>a DEF PeekAvailable, Fifo!vars
<1>5. ASSUME PeekReadptr \/ ReadCopy \/ PeekByte PROVE UNCHANGED Fifo!vars
  BY <1>5, <1>a DEF PeekReadptr, ReadCopy, PeekByte, Fifo!vars
<1>6. ASSUME NEW n \in 0 .. Size, Advance(n) PROVE Fifo!Take
  BY <1>0, <1>6, AdvanceTakes
<1>7. ASSUME NEW d \in Requests, UpdateFront(d) PROVE Fifo!Update
  <2>1. available' = available /\ writer' = writer /\ taken' = taken
    BY <1>7 DEF UpdateFront, available
  <2> QED
    BY <1>0, <2>1 DEF ContentsOK, Fifo!Update
<1>8. ASSUME Clear PROVE Fifo!Clear
  <2>1. available' = 0 /\ taken' = <<>> /\ writer' = writer
    BY <1>8 DEF Clear, available
  <2>2. Contents' = <<>>
    BY <1>0, <2>1, EmptySeq DEF ContentsOK
  <2> QED
    BY <2>1, <2>2 DEF Fifo!Clear
<1>9. CASE UNCHANGED vars
  BY <1>9, <1>a DEF vars, Fifo!vars
<1> QED
  BY <1>1, <1>2, <1>3, <1>4, <1>5, <1>6, <1>7, <1>8, <1>9
     DEF Next, Writer, Reader, Fifo!Next

\* For every size, the lock-free buffer is a bounded FIFO queue: what the reader
\* takes is what the writer put in, each byte once and in order.
THEOREM ImplementsFifo == Spec => IsFifo
<1>1. Init => Fifo!Init
  <2> SUFFICES ASSUME Init PROVE Fifo!Init
    OBVIOUS
  <2>1. TypeOK /\ available = 0
    BY InitRing DEF Init, RingInv, available
  <2>2. Contents = <<>>
    BY <2>1, ContentsIs, EmptySeq DEF ContentsOK
  <2> QED
    BY <2>2 DEF Init, IdleWriter, WriterAt, Fifo!Init
<1> QED
  BY <1>1, StepImplementsFifo, RingInvariant, PTL DEF Spec, IsFifo, Fifo!Spec
=============================================================================
