--------------------------- MODULE UrusUartProofs ---------------------------
(***************************************************************************)
(* Proofs about UrusUart for every ring size and every number of bytes.    *)
(***************************************************************************)
EXTENDS UrusUart, TLAPS

-----------------------------------------------------------------------------
(* Ring arithmetic.                                                        *)

\* A position up to one turn ahead of an index wraps at most once.
LEMMA Ahead ==
    ASSUME NEW i \in Index, NEW k \in 0 .. Size
    PROVE  /\ (i + k) % Size = IF i + k < Size THEN i + k ELSE i + k - Size
           /\ (i + k) % Size \in Index
<1>1. CASE i + k < Size
  BY <1>1, SizeAssumption DEF Index
<1>2. CASE ~(i + k < Size)
  <2>1. i + k = 1 * Size + (i + k - Size)
    BY <1>2, SizeAssumption DEF Index
  <2>2. i + k - Size \in 0 .. Size - 1
    BY <1>2, SizeAssumption DEF Index
  <2> QED
    BY <1>2, <2>1, <2>2, SizeAssumption DEF Index
<1> QED
  BY <1>1, <1>2

\* The distance from one index to another, once round the ring.
LEMMA Behind ==
    ASSUME NEW i \in Index, NEW j \in Index
    PROVE  /\ (i - j) % Size = IF j <= i THEN i - j ELSE i - j + Size
           /\ (i - j) % Size \in Index
<1>1. CASE j <= i
  BY <1>1, SizeAssumption DEF Index
<1>2. CASE ~(j <= i)
  <2>1. i - j = (-1) * Size + (i - j + Size)
    BY <1>2, SizeAssumption DEF Index
  <2>2. i - j + Size \in 0 .. Size - 1
    BY <1>2, SizeAssumption DEF Index
  <2> QED
    BY <1>2, <2>1, <2>2, SizeAssumption DEF Index
<1> QED
  BY <1>1, <1>2

\* The index after another one.
LEMMA AfterNext ==
    ASSUME NEW i \in Index
    PROVE  /\ After(i) = IF i = Size - 1 THEN 0 ELSE i + 1
           /\ After(i) \in Index
<1>1. 1 \in 0 .. Size
  BY SizeAssumption
<1>2. /\ (i + 1) % Size = IF i + 1 < Size THEN i + 1 ELSE i + 1 - Size
      /\ (i + 1) % Size \in Index
  BY <1>1, Ahead
<1> QED
  BY <1>2, SizeAssumption DEF Index, After

Rings == [bytes : [Index -> 0 .. MaxBytes], head : Index, tail : Index]

\* What a ring holds, as its fields; its k-th byte is where no wrap hides it.
LEMMA UsedOf ==
    ASSUME NEW b, NEW h \in Index, NEW t \in Index
    PROVE  /\ Used(Ring(b, h, t)) = IF t <= h THEN h - t ELSE h - t + Size
           /\ Used(Ring(b, h, t)) \in Index
BY Behind DEF Used, Ring

-----------------------------------------------------------------------------
(* What the steps do to a ring whose bytes are in order.                   *)

\* An empty ring is in order, wherever its head and tail are.
LEMMA EmptyInOrder ==
    ASSUME NEW b, NEW i \in Index, NEW n \in Nat
    PROVE  InOrder(Ring(b, i, i), n, n) /\ Used(Ring(b, i, i)) = 0
<1>1. Used(Ring(b, i, i)) = 0
  BY UsedOf, SizeAssumption DEF Index
<1> QED
  BY <1>1 DEF InOrder

\* Taking the byte at the tail leaves the others in order.
LEMMA TakeByte ==
    ASSUME NEW r \in Rings, NEW in \in Nat, NEW out \in Nat,
           InOrder(r, in, out), r.head # r.tail
    PROVE  InOrder(Ring(r.bytes, r.head, After(r.tail)), in, out + 1)
<1> DEFINE s == Ring(r.bytes, r.head, After(r.tail))
<1>1. r = Ring(r.bytes, r.head, r.tail) /\ r.head \in Index /\ r.tail \in Index
  BY DEF Rings, Ring
<1>2. After(r.tail) \in Index /\ After(r.tail) = IF r.tail = Size - 1 THEN 0 ELSE r.tail + 1
  BY <1>1, AfterNext
<1>3. Used(r) \in Index /\ Used(r) = IF r.tail <= r.head THEN r.head - r.tail ELSE r.head - r.tail + Size
  BY <1>1, UsedOf
<1>4. Used(s) \in Index /\ Used(s) = IF After(r.tail) <= r.head THEN r.head - After(r.tail)
                                                      ELSE r.head - After(r.tail) + Size
  BY <1>1, <1>2, UsedOf
<1>5. Used(s) = Used(r) - 1
  BY <1>1, <1>2, <1>3, <1>4, SizeAssumption DEF Index
<1>6. ASSUME NEW k \in 1 .. Used(s)
      PROVE  s.bytes[(s.tail + k - 1) % Size] = out + 1 + k
  <2>1. k + 1 \in 1 .. Used(r) /\ k - 1 \in 0 .. Size /\ k \in 0 .. Size
    BY <1>3, <1>4, <1>5, SizeAssumption DEF Index
  <2>2. (After(r.tail) + (k - 1)) % Size = (r.tail + k) % Size
    <3>1. (r.tail + k) % Size = IF r.tail + k < Size THEN r.tail + k ELSE r.tail + k - Size
      BY <1>1, <2>1, Ahead
    <3>2. (After(r.tail) + (k - 1)) % Size = IF After(r.tail) + (k - 1) < Size
              THEN After(r.tail) + (k - 1) ELSE After(r.tail) + (k - 1) - Size
      BY <1>2, <2>1, Ahead
    <3>3. k \in 1 .. Size - 1
      BY <1>3, <2>1, SizeAssumption DEF Index
    <3> QED
      BY <1>1, <1>2, <3>1, <3>2, <3>3, SizeAssumption DEF Index
  <2>3. r.tail + (k + 1) - 1 = r.tail + k /\ After(r.tail) + k - 1 = After(r.tail) + (k - 1)
    BY <1>1, <1>2, <2>1, SizeAssumption DEF Index
  <2>4. r.bytes[(r.tail + k) % Size] = out + (k + 1)
    BY <2>1, <2>3 DEF InOrder
  <2>5. s.bytes = r.bytes /\ s.tail = After(r.tail)
    BY DEF Ring
  <2> QED
    BY <2>1, <2>2, <2>3, <2>4, <2>5
<1>7. Used(s) = in - (out + 1)
  BY <1>3, <1>5, SizeAssumption DEF InOrder, Index
<1> QED
  BY <1>6, <1>7 DEF InOrder

\* Putting a byte at the head of a ring that is not full keeps the order.
LEMMA PutByte ==
    ASSUME NEW r \in Rings, NEW in \in Nat, NEW out \in Nat,
           InOrder(r, in, out), After(r.head) # r.tail
    PROVE  InOrder(Ring([r.bytes EXCEPT ![r.head] = in + 1], After(r.head), r.tail), in + 1, out)
<1> DEFINE b == [r.bytes EXCEPT ![r.head] = in + 1]
           s == Ring(b, After(r.head), r.tail)
<1>1. r = Ring(r.bytes, r.head, r.tail) /\ r.head \in Index /\ r.tail \in Index
  BY DEF Rings, Ring
<1>2. After(r.head) \in Index /\ After(r.head) = IF r.head = Size - 1 THEN 0 ELSE r.head + 1
  BY <1>1, AfterNext
<1>3. Used(r) \in Index /\ Used(r) = IF r.tail <= r.head THEN r.head - r.tail ELSE r.head - r.tail + Size
  BY <1>1, UsedOf
<1>4. Used(s) \in Index /\ Used(s) = IF r.tail <= After(r.head) THEN After(r.head) - r.tail
                                                      ELSE After(r.head) - r.tail + Size
  BY <1>1, <1>2, UsedOf
<1>5. Used(s) = Used(r) + 1
  BY <1>1, <1>2, <1>3, <1>4, SizeAssumption DEF Index
<1>6. ASSUME NEW k \in 1 .. Used(s)
      PROVE  s.bytes[(s.tail + k - 1) % Size] = out + k
  <2>1. k - 1 \in 0 .. Size /\ r.tail + k - 1 = r.tail + (k - 1)
    BY <1>1, <1>4, SizeAssumption DEF Index
  <2> DEFINE p == (r.tail + k - 1) % Size
  <2>2. p \in Index /\ p = IF r.tail + k - 1 < Size THEN r.tail + k - 1 ELSE r.tail + k - 1 - Size
    BY <1>1, <2>1, Ahead
  <2> HIDE DEF p
  <2>3. p = r.head <=> k = Used(r) + 1
    BY <1>1, <1>3, <1>4, <1>5, <2>2, SizeAssumption DEF Index
  <2>4. s.bytes = b /\ s.tail = r.tail /\ b[p] = IF p = r.head THEN in + 1 ELSE r.bytes[p]
    BY <1>1, <2>2 DEF Ring, Rings
  <2>5. CASE p = r.head
    <3>1. in + 1 = out + k
      BY <1>3, <2>3, <2>5, SizeAssumption DEF InOrder, Index
    <3> QED
      BY <2>4, <2>5, <3>1 DEF p
  <2>6. CASE p # r.head
    <3>1. k \in 1 .. Used(r)
      BY <1>3, <1>5, <2>3, <2>6, SizeAssumption DEF Index
    <3>2. r.bytes[p] = out + k
      BY <3>1 DEF InOrder, p
    <3> QED
      BY <2>4, <2>6, <3>2 DEF p
  <2> QED
    BY <2>5, <2>6
<1>7. Used(s) = in + 1 - out
  BY <1>3, <1>5, SizeAssumption DEF InOrder, Index
<1> QED
  BY <1>6, <1>7 DEF InOrder

\* What the memcpy of n bytes leaves in the ring.
Filled(r, in, n) ==
    Ring([i \in Index |-> IF (i - r.head) % Size < n THEN in + 1 + ((i - r.head) % Size)
                          ELSE r.bytes[i]], r.head, r.tail)

\* A memcpy into the free room does not touch the bytes that wait to be sent, and
\* its bytes lie behind the head in their order.
LEMMA FillFree ==
    ASSUME NEW r \in Rings, NEW in \in Nat, NEW out \in Nat, NEW n \in Nat,
           InOrder(r, in, out), Used(r) + n <= Size - 1
    PROVE  /\ InOrder(Filled(r, in, n), in, out)
           /\ \A k \in 0 .. n - 1 : Filled(r, in, n).bytes[(r.head + k) % Size] = in + 1 + k
<1> DEFINE s == Filled(r, in, n)
<1>1. r = Ring(r.bytes, r.head, r.tail) /\ r.head \in Index /\ r.tail \in Index
  BY DEF Rings, Ring
<1>2. Used(r) \in Index /\ Used(r) = IF r.tail <= r.head THEN r.head - r.tail ELSE r.head - r.tail + Size
  BY <1>1, UsedOf
<1>3. s.head = r.head /\ s.tail = r.tail /\ Used(s) = Used(r)
  BY DEF Filled, Ring, Used
<1>4. ASSUME NEW p \in Index
      PROVE  s.bytes[p] = IF (p - r.head) % Size < n THEN in + 1 + ((p - r.head) % Size) ELSE r.bytes[p]
  BY DEF Filled, Ring
<1>5. ASSUME NEW k \in 1 .. Used(r)
      PROVE  s.bytes[(r.tail + k - 1) % Size] = out + k
  <2> DEFINE p == (r.tail + k - 1) % Size
  <2>1. k - 1 \in 0 .. Size /\ r.tail + k - 1 = r.tail + (k - 1)
    BY <1>1, <1>2, SizeAssumption DEF Index
  <2>2. p \in Index /\ p = IF r.tail + k - 1 < Size THEN r.tail + k - 1 ELSE r.tail + k - 1 - Size
    BY <1>1, <2>1, Ahead
  <2> HIDE DEF p
  <2>3. (p - r.head) % Size = IF r.head <= p THEN p - r.head ELSE p - r.head + Size
    BY <1>1, <2>2, Behind
  <2> DEFINE d == (p - r.head) % Size
  <2>4. d = IF r.head <= p THEN p - r.head ELSE p - r.head + Size
    BY <2>3
  <2> HIDE DEF d
  <2>5. ~(d < n)
    BY <1>1, <1>2, <2>2, <2>4, SizeAssumption DEF Index
  <2>6. s.bytes[p] = r.bytes[p]
    BY <1>4, <2>2, <2>5 DEF d
  <2>7. r.bytes[p] = out + k
    BY DEF InOrder, p
  <2> QED
    BY <2>6, <2>7 DEF p
<1>6. ASSUME NEW k \in 0 .. n - 1
      PROVE  s.bytes[(r.head + k) % Size] = in + 1 + k
  <2> DEFINE p == (r.head + k) % Size
  <2>1. k \in 0 .. Size /\ k < Size
    BY <1>2, SizeAssumption DEF Index
  <2>2. p \in Index /\ p = IF r.head + k < Size THEN r.head + k ELSE r.head + k - Size
    BY <1>1, <2>1, Ahead
  <2> HIDE DEF p
  <2> DEFINE d == (p - r.head) % Size
  <2>3. d = IF r.head <= p THEN p - r.head ELSE p - r.head + Size
    BY <1>1, <2>2, Behind
  <2> HIDE DEF d
  <2>4. d = k
    BY <1>1, <2>1, <2>2, <2>3, SizeAssumption DEF Index
  <2>5. s.bytes[p] = in + 1 + d
    BY <1>4, <2>2, <2>4 DEF d
  <2> QED
    BY <2>4, <2>5 DEF p
<1> HIDE DEF s
<1>7. InOrder(s, in, out)
  BY <1>3, <1>5 DEF InOrder
<1> QED
  BY <1>6, <1>7 DEF s

\* Moving the head by up to one turn holds at most that much more.
LEMMA MoveAtMost ==
    ASSUME NEW b, NEW h \in Index, NEW t \in Index, NEW n \in 0 .. Size
    PROVE  /\ Used(Ring(b, (h + n) % Size, t)) <= Used(Ring(b, h, t)) + n
           /\ Used(Ring(b, h, t)) + n <= Size - 1
                => Used(Ring(b, (h + n) % Size, t)) = Used(Ring(b, h, t)) + n
<1> DEFINE g == (h + n) % Size
<1>1. g \in Index /\ g = IF h + n < Size THEN h + n ELSE h + n - Size
  BY Ahead
<1> HIDE DEF g
<1>2. /\ Used(Ring(b, g, t)) \in Index
      /\ Used(Ring(b, g, t)) = IF t <= g THEN g - t ELSE g - t + Size
  BY <1>1, UsedOf
<1>3. /\ Used(Ring(b, h, t)) \in Index
      /\ Used(Ring(b, h, t)) = IF t <= h THEN h - t ELSE h - t + Size
  BY UsedOf
<1>4. Used(Ring(b, g, t)) <= Used(Ring(b, h, t)) + n
  BY <1>1, <1>2, <1>3, SizeAssumption DEF Index
<1>5. Used(Ring(b, h, t)) + n <= Size - 1 => Used(Ring(b, g, t)) = Used(Ring(b, h, t)) + n
  BY <1>1, <1>2, <1>3, SizeAssumption DEF Index
<1> QED
  BY <1>4, <1>5 DEF g

\* Moving the head over n bytes that are in place hands them to the handler in order.
LEMMA MoveOver ==
    ASSUME NEW r \in Rings, NEW in \in Nat, NEW out \in Nat, NEW n \in Nat,
           InOrder(r, in, out), Used(r) + n <= Size - 1,
           \A k \in 0 .. n - 1 : r.bytes[(r.head + k) % Size] = in + 1 + k
    PROVE  InOrder(Ring(r.bytes, (r.head + n) % Size, r.tail), in + n, out)
<1> DEFINE s == Ring(r.bytes, (r.head + n) % Size, r.tail)
<1>1. r = Ring(r.bytes, r.head, r.tail) /\ r.head \in Index /\ r.tail \in Index
  BY DEF Rings, Ring
<1>2. Used(r) \in Index /\ Used(r) = IF r.tail <= r.head THEN r.head - r.tail ELSE r.head - r.tail + Size
  BY <1>1, UsedOf
<1>3. n \in 0 .. Size
  BY <1>2, SizeAssumption DEF Index
<1>4. Used(s) = Used(r) + n
  BY <1>1, <1>3, MoveAtMost
<1>5. s.bytes = r.bytes /\ s.tail = r.tail
  BY DEF Ring
<1> HIDE DEF s
<1>6. ASSUME NEW k \in 1 .. Used(s)
      PROVE  s.bytes[(s.tail + k - 1) % Size] = out + k
  <2>1. CASE k <= Used(r)
    <3>1. k \in 1 .. Used(r)
      BY <1>2, <1>4, <2>1, SizeAssumption DEF Index
    <3> QED
      BY <1>5, <3>1 DEF InOrder
  <2>2. CASE ~(k <= Used(r))
    <3> DEFINE j == k - 1 - Used(r)
    <3>1. j \in 0 .. n - 1 /\ j \in 0 .. Size /\ k - 1 \in 0 .. Size /\ j < Size /\ k - 1 < Size
      BY <1>2, <1>4, <2>2, SizeAssumption DEF Index
    <3>2. r.bytes[(r.head + j) % Size] = in + 1 + j
      BY <3>1
    <3>3. in + 1 + j = out + k
      BY <1>2, <1>4, SizeAssumption DEF InOrder, Index
    <3>4. (r.tail + (k - 1)) % Size = IF r.tail + (k - 1) < Size THEN r.tail + (k - 1) ELSE r.tail + (k - 1) - Size
      BY <1>1, <3>1, Ahead
    <3>5. (r.head + j) % Size = IF r.head + j < Size THEN r.head + j ELSE r.head + j - Size
      <4> HIDE DEF j
      <4> QED BY <1>1, <3>1, Ahead
    <3>6. (r.head + j) % Size = (r.tail + (k - 1)) % Size
      BY <1>1, <1>2, <1>4, <3>1, <3>4, <3>5, SizeAssumption DEF Index
    <3>7. r.tail + (k - 1) = r.tail + k - 1
      BY <1>1, <1>2, <1>4, SizeAssumption DEF Index
    <3> HIDE DEF j
    <3> QED
      BY <1>5, <3>2, <3>3, <3>6, <3>7
  <2> QED
    BY <2>1, <2>2
<1>7. Used(s) = in + n - out
  BY <1>2, <1>4, SizeAssumption DEF InOrder, Index
<1> QED
  BY <1>6, <1>7 DEF InOrder, s

-----------------------------------------------------------------------------
(* The inductive invariants.                                               *)

PCs == {"none", "flush", "wait", "branch", "copy", "head", "enable"}
Calls == [pc : PCs, size : 0 .. Size, done : 0 .. Size]
Writing == call.pc \in {"branch", "copy", "head"}

\* The bytes a call still has to copy exist and fit in the bound on the bytes.
CallInv ==
    /\ call.done <= call.size
    /\ Writing => tx_in + call.size <= MaxBytes
    /\ call.pc = "wait" => call = CallAt("wait", 1, 0) /\ tx_in < MaxBytes
    /\ call.pc = "branch" => call.done = 0

\* The ring never claims more than was put in and not taken out.  (It may claim less:
\* a write that fills it leaves head = tail.)
NotMore == Used(tx) <= tx_in - tx_out

\* No memcpy runs past the end of the ring's memory, and the first of two ends there.
CopyInRing ==
    call.pc \in {"copy", "head"} =>
        /\ tx.head + Part <= Size
        /\ call.done > 0 => tx.head + Part = Size

\* What write() was given fits in the room it measured: the handler only frees more.
Measured == call.pc = "branch" => Used(tx) + call.size <= Size

PortInv == TypeOK /\ RxInOrder /\ NotMore /\ CallInv /\ Measured /\ CopyInRing

\* A caller that leaves room: the write ends short of the tail, and in front of the
\* step that moves the head the bytes of the memcpy are in place.
Room == Writing => Used(tx) + call.size <= Size - 1
Copied == call.pc = "head" =>
              \A k \in 0 .. Part - 1 : tx.bytes[(tx.head + k) % Size] = tx_in + 1 + k

SendInv == LeaveRoom => TxInOrder /\ Room /\ Copied

Inv == PortInv /\ SendInv

\* The type invariant, field by field.
LEMMA Types ==
    TypeOK <=> /\ tx \in Rings /\ rx \in Rings
               /\ tx_in \in 0 .. MaxBytes /\ tx_out \in 0 .. MaxBytes
               /\ rx_in \in 0 .. MaxBytes /\ rx_out \in 0 .. MaxBytes
               /\ udrie \in BOOLEAN /\ open \in BOOLEAN /\ nonblocking \in BOOLEAN
               /\ call \in Calls
BY DEF TypeOK, Rings, Calls, PCs

\* The same of the next state.
LEMMA TypesPrime ==
    TypeOK' <=> /\ tx' \in Rings /\ rx' \in Rings
                /\ tx_in' \in 0 .. MaxBytes /\ tx_out' \in 0 .. MaxBytes
                /\ rx_in' \in 0 .. MaxBytes /\ rx_out' \in 0 .. MaxBytes
                /\ udrie' \in BOOLEAN /\ open' \in BOOLEAN /\ nonblocking' \in BOOLEAN
                /\ call' \in Calls
BY DEF TypeOK, Rings, Calls, PCs

\* Building a ring from fields of the right type.
LEMMA RingType ==
    ASSUME NEW b \in [Index -> 0 .. MaxBytes], NEW h \in Index, NEW t \in Index
    PROVE  Ring(b, h, t) \in Rings
BY DEF Ring, Rings

\* The fields of a ring and what it holds.
LEMMA RingFields ==
    ASSUME NEW r \in Rings
    PROVE  /\ r.bytes \in [Index -> 0 .. MaxBytes] /\ r.head \in Index /\ r.tail \in Index
           /\ r = Ring(r.bytes, r.head, r.tail)
           /\ Used(r) \in Index
           /\ Used(r) = IF r.tail <= r.head THEN r.head - r.tail ELSE r.head - r.tail + Size
<1>1. /\ r.bytes \in [Index -> 0 .. MaxBytes] /\ r.head \in Index /\ r.tail \in Index
      /\ r = Ring(r.bytes, r.head, r.tail)
  BY DEF Rings, Ring
<1> QED
  BY <1>1, UsedOf

\* begin() and end() leave an empty ring.
LEMMA NewRingType ==
    /\ 0 \in Index /\ NewRing \in Rings /\ Used(NewRing) = 0
    /\ \A n \in Nat : InOrder(NewRing, n, n)
<1>1. 0 \in Index /\ 0 \in 0 .. MaxBytes
  BY SizeAssumption, CallerAssumption DEF Index
<1>2. [i \in Index |-> 0] \in [Index -> 0 .. MaxBytes]
  BY <1>1
<1> QED
  BY <1>1, <1>2, RingType, EmptyInOrder DEF NewRing

-----------------------------------------------------------------------------
(* The receive ring.                                                       *)

\* Whatever the main loop and the handlers do, the receive ring stays in order.
LEMMA RxStep ==
    ASSUME TypeOK, RxInOrder, [Next]_vars
    PROVE  /\ rx' \in Rings /\ rx_in' \in 0 .. MaxBytes /\ rx_out' \in 0 .. MaxBytes
           /\ RxInOrder'
<1>1. rx \in Rings /\ rx_in \in 0 .. MaxBytes /\ rx_out \in 0 .. MaxBytes /\ open \in BOOLEAN
  BY Types
<1>2. rx_in \in Nat /\ rx_out \in Nat
  BY <1>1, CallerAssumption
<1>3. /\ rx.bytes \in [Index -> 0 .. MaxBytes] /\ rx.head \in Index /\ rx.tail \in Index
      /\ Used(rx) \in Index
      /\ Used(rx) = IF rx.tail <= rx.head THEN rx.head - rx.tail ELSE rx.head - rx.tail + Size
  BY <1>1, RingFields
<1>4. InOrder(rx, rx_in, rx_out)
  BY DEF RxInOrder
<1>5. CASE UNCHANGED rxvars
  BY <1>1, <1>5 DEF rxvars, RxInOrder, InOrder, Used
<1>6. CASE rx' = NewRing /\ rx_out' = rx_in /\ rx_in' = rx_in
  BY <1>1, <1>2, <1>6, NewRingType DEF RxInOrder
<1>7. CASE Read
  <2>1. rx' = Ring(rx.bytes, rx.head, After(rx.tail)) /\ rx_out' = rx_out + 1 /\ rx_in' = rx_in /\ rx.head # rx.tail
    BY <1>7 DEF Read
  <2>2. rx' \in Rings
    BY <1>3, <2>1, AfterNext, RingType
  <2>3. rx_out < rx_in
    BY <1>2, <1>3, <1>4, <2>1, SizeAssumption DEF InOrder, Index
  <2>4. InOrder(rx', rx_in', rx_out')
    BY <1>1, <1>2, <1>4, <2>1, TakeByte
  <2>5. rx_out' \in 0 .. MaxBytes
    BY <1>1, <2>1, <2>3, CallerAssumption
  <2> QED
    BY <1>1, <2>1, <2>2, <2>4, <2>5 DEF RxInOrder
<1>8. CASE Flush_Rx
  <2>1. rx' = Ring(rx.bytes, rx.tail, rx.tail) /\ rx_out' = rx_in /\ rx_in' = rx_in
    BY <1>8 DEF Flush_Rx
  <2> QED
    BY <1>1, <1>2, <1>3, <2>1, RingType, EmptyInOrder DEF RxInOrder
<1>9. CASE RxIsr
  <2>1. /\ rx_in < MaxBytes /\ After(rx.head) # rx.tail
        /\ rx' = Ring([rx.bytes EXCEPT ![rx.head] = rx_in + 1], After(rx.head), rx.tail)
        /\ rx_in' = rx_in + 1 /\ rx_out' = rx_out
    BY <1>9 DEF RxIsr
  <2>2. rx_in + 1 \in 0 .. MaxBytes
    BY <1>1, <2>1, CallerAssumption
  <2>3. [rx.bytes EXCEPT ![rx.head] = rx_in + 1] \in [Index -> 0 .. MaxBytes]
    BY <1>3, <2>2
  <2>4. rx' \in Rings
    BY <1>3, <2>1, <2>3, AfterNext, RingType
  <2>5. InOrder(rx', rx_in', rx_out')
    BY <1>1, <1>2, <1>4, <2>1, PutByte
  <2> QED
    BY <1>1, <2>1, <2>2, <2>4, <2>5 DEF RxInOrder
<1> QED
  BY <1>5, <1>6, <1>7, <1>8, <1>9
  DEF Next, vars, Begin, End, SetBlocking, WriteByte, Write, Wait, Branch, Copy, MoveHead,
      Enable, Flush_Tx, WriteBuffer, TxIsr, rxvars

-----------------------------------------------------------------------------
(* The send ring and the call.                                             *)

\* What TxStep proves of the next state.
SendState ==
    /\ tx \in Rings /\ tx_in \in 0 .. MaxBytes /\ tx_out \in 0 .. MaxBytes
    /\ udrie \in BOOLEAN /\ open \in BOOLEAN /\ nonblocking \in BOOLEAN /\ call \in Calls
    /\ NotMore /\ CallInv /\ Measured /\ CopyInRing /\ SendInv

\* The invariant holds what the send side needs.
LEMMA SendStateOfInv == Inv => SendState
BY Types DEF Inv, PortInv, SendState

\* A call that is not writing asks nothing of the ring.
LEMMA IdleCall ==
    ASSUME SendState, tx' \in Rings, tx_in' \in 0 .. MaxBytes, tx_out' \in 0 .. MaxBytes,
           udrie' \in BOOLEAN, open' \in BOOLEAN, nonblocking' \in BOOLEAN,
           NotMore', LeaveRoom => TxInOrder',
           \E pc \in {"none", "flush", "enable"} : call' = CallAt(pc, 0, 0)
    PROVE  SendState'
<1>1. call' \in Calls /\ call'.pc \in {"none", "flush", "enable"} /\ call'.done = 0 /\ call'.size = 0
  BY SizeAssumption DEF CallAt, Calls, PCs
<1> QED
  BY <1>1 DEF SendState, CallInv, Measured, CopyInRing, SendInv, Room, Copied, Writing

\* What a state of the send side gives its steps.
LEMMA SendFacts ==
    ASSUME SendState
    PROVE  /\ tx.bytes \in [Index -> 0 .. MaxBytes] /\ tx.head \in Index /\ tx.tail \in Index
           /\ tx = Ring(tx.bytes, tx.head, tx.tail)
           /\ Used(tx) \in Index
           /\ Used(tx) = IF tx.tail <= tx.head THEN tx.head - tx.tail ELSE tx.head - tx.tail + Size
           /\ tx_in \in Nat /\ tx_out \in Nat /\ tx_in <= MaxBytes /\ tx_out <= tx_in
           /\ call.pc \in PCs /\ call.size \in 0 .. Size /\ call.done \in 0 .. Size
           /\ call.done <= call.size /\ Part \in 0 .. Size /\ Part <= call.size
           /\ call = CallAt(call.pc, call.size, call.done)
<1>1. tx \in Rings /\ call \in Calls /\ call.done <= call.size /\ NotMore
  BY DEF SendState, CallInv
<1>2. /\ tx.bytes \in [Index -> 0 .. MaxBytes] /\ tx.head \in Index /\ tx.tail \in Index
      /\ tx = Ring(tx.bytes, tx.head, tx.tail)
      /\ Used(tx) \in Index
      /\ Used(tx) = IF tx.tail <= tx.head THEN tx.head - tx.tail ELSE tx.head - tx.tail + Size
  BY <1>1, RingFields
<1>3. tx_in \in Nat /\ tx_out \in Nat /\ tx_in <= MaxBytes
  BY CallerAssumption DEF SendState
<1>4. tx_out <= tx_in
  BY <1>1, <1>2, <1>3, SizeAssumption DEF NotMore, Index
<1>5. /\ call.pc \in PCs /\ call.size \in 0 .. Size /\ call.done \in 0 .. Size
      /\ call = CallAt(call.pc, call.size, call.done)
  BY <1>1 DEF Calls, CallAt
<1>6. Part \in 0 .. Size /\ Part <= call.size
  BY <1>1, <1>5, SizeAssumption DEF Part
<1> QED
  BY <1>1, <1>2, <1>3, <1>4, <1>5, <1>6

\* begin() and end() empty the ring between two calls.
LEMMA SendReset ==
    ASSUME SendState, call = NoCall, tx' = NewRing, udrie' = FALSE, open' \in BOOLEAN,
           tx_out' = tx_in, UNCHANGED <<tx_in, nonblocking, call>>
    PROVE  SendState'
<1>1. tx' \in Rings /\ Used(tx') = 0 /\ InOrder(tx', tx_in', tx_out')
  BY SendFacts, NewRingType
<1>2. NotMore' /\ TxInOrder'
  BY <1>1, SendFacts DEF NotMore, TxInOrder
<1>3. \E pc \in {"none", "flush", "enable"} : call' = CallAt(pc, 0, 0)
  BY DEF NoCall
<1> QED
  BY <1>1, <1>2, <1>3, IdleCall DEF SendState

\* Steps that leave the ring and the call alone.
LEMMA SendKept ==
    ASSUME SendState, UNCHANGED <<tx, tx_in, tx_out, call>>,
           udrie' \in BOOLEAN, open' \in BOOLEAN, nonblocking' \in BOOLEAN
    PROVE  SendState'
<1>1. Used(tx') = Used(tx) /\ Part' = Part /\ (Writing' <=> Writing)
  BY DEF Used, Part, Writing
<1>2. NotMore' /\ CallInv' /\ Measured' /\ CopyInRing'
  BY <1>1 DEF SendState, NotMore, CallInv, Measured, CopyInRing
<1>3. SendInv'
  BY <1>1 DEF SendState, SendInv, TxInOrder, InOrder, Room, Copied
<1> QED
  BY <1>2, <1>3 DEF SendState

\* flush() forgets what waits to be sent.
LEMMA SendFlush ==
    ASSUME SendState, Flush_Tx
    PROVE  SendState'
<1>1. /\ tx' = Ring(tx.bytes, tx.head, tx.head) /\ tx_out' = tx_in /\ call' = NoCall
      /\ UNCHANGED <<tx_in, udrie, open, nonblocking>>
  BY DEF Flush_Tx
<1>2. tx' \in Rings /\ Used(tx') = 0 /\ InOrder(tx', tx_in', tx_out')
  BY <1>1, SendFacts, RingType, EmptyInOrder
<1>3. NotMore' /\ TxInOrder'
  BY <1>1, <1>2, SendFacts DEF NotMore, TxInOrder
<1>4. \E pc \in {"none", "flush", "enable"} : call' = CallAt(pc, 0, 0)
  BY <1>1 DEF NoCall
<1> QED
  BY <1>1, <1>2, <1>3, <1>4, IdleCall DEF SendState

\* Steps that end a call, or are not a write, and leave the ring alone.
LEMMA SendIdle ==
    ASSUME SendState, UNCHANGED <<tx, tx_in, tx_out>>,
           udrie' \in BOOLEAN, open' \in BOOLEAN, nonblocking' \in BOOLEAN,
           \E pc \in {"none", "flush", "enable"} : call' = CallAt(pc, 0, 0)
    PROVE  SendState'
<1>1. Used(tx') = Used(tx)
  BY DEF Used
<1>2. NotMore' /\ (LeaveRoom => TxInOrder')
  BY <1>1 DEF SendState, SendInv, NotMore, TxInOrder, InOrder
<1> QED
  BY <1>2, IdleCall DEF SendState

\* A call begins, measures or branches; the ring is left alone.
LEMMA SendCall ==
    ASSUME SendState, UNCHANGED <<tx, tx_in, tx_out, udrie, open, nonblocking>>,
           NEW pc \in {"wait", "branch", "copy"}, NEW size \in 0 .. Size, NEW done \in 0 .. Size,
           call' = CallAt(pc, size, done), done <= size,
           pc = "wait" => size = 1 /\ done = 0 /\ tx_in < MaxBytes,
           pc # "wait" => tx_in + size <= MaxBytes,
           pc = "branch" => done = 0 /\ Used(tx) + size <= Size,
           pc = "copy" => /\ tx.head + (size - done) <= Size
                          /\ done > 0 => tx.head + (size - done) = Size,
           LeaveRoom /\ pc # "wait" => Used(tx) + size <= Size - 1
    PROVE  SendState'
<1>1. Used(tx') = Used(tx)
  BY DEF Used
<1>2. call' \in Calls /\ call'.pc = pc /\ call'.size = size /\ call'.done = done /\ Part' = size - done
  BY DEF CallAt, Calls, PCs, Part
<1>3. NotMore' /\ (LeaveRoom => TxInOrder')
  BY <1>1 DEF SendState, SendInv, NotMore, TxInOrder, InOrder
<1>4. CallInv'
  BY <1>2 DEF CallInv, Writing
<1>5. Measured' /\ CopyInRing'
  BY <1>1, <1>2 DEF Measured, CopyInRing
<1>6. LeaveRoom => Room' /\ Copied'
  BY <1>1, <1>2 DEF Room, Copied, Writing
<1> QED
  BY <1>2, <1>3, <1>4, <1>5, <1>6 DEF SendState, SendInv

\* write(c) with room, and its first look at the ring.
LEMMA SendByte ==
    ASSUME SendState, WriteByte \/ Wait
    PROVE  SendState'
<1>0. 1 \in 0 .. Size /\ 0 \in 0 .. Size
  BY SizeAssumption
<1>1. CASE WriteByte
  <2>1. call' = CallAt("wait", 1, 0) /\ tx_in < MaxBytes /\ UNCHANGED <<tx, tx_in, tx_out, udrie, open, nonblocking>>
    BY <1>1 DEF WriteByte, Goto, txvars
  <2> QED
    BY <1>0, <2>1, SendCall
<1>2. CASE Wait
  <2>1. /\ call' = CallAt("copy", 1, 0) /\ After(tx.head) # tx.tail /\ call.pc = "wait"
        /\ UNCHANGED <<tx, tx_in, tx_out, udrie, open, nonblocking>>
    BY <1>2 DEF Wait, Goto, txvars
  <2>2. tx_in < MaxBytes
    BY <2>1 DEF SendState, CallInv
  <2>3. tx_in + 1 <= MaxBytes
    BY <2>2, SendFacts, CallerAssumption
  <2>4. tx.head + (1 - 0) <= Size
    BY SendFacts, SizeAssumption DEF Index
  <2>5. Used(tx) + 1 <= Size - 1
    <3>1. tx.head \in Index /\ tx.tail \in Index
          /\ Used(tx) = IF tx.tail <= tx.head THEN tx.head - tx.tail ELSE tx.head - tx.tail + Size
      BY SendFacts
    <3>2. tx.tail # IF tx.head = Size - 1 THEN 0 ELSE tx.head + 1
      BY <2>1, <3>1, AfterNext
    <3> QED
      BY <3>1, <3>2, SizeAssumption DEF Index
  <2> QED
    BY <1>0, <2>1, <2>3, <2>4, <2>5, SendCall
<1> QED
  BY <1>1, <1>2

\* write(buffer, size): the size is cut to the room measured.
LEMMA SendBuffer ==
    ASSUME SendState, NEW size \in 1 .. Size, WriteBuffer(size)
    PROVE  SendState'
<1> DEFINE n == IF size > txspace THEN txspace ELSE size
<1>1. /\ tx_in + size <= MaxBytes /\ (LeaveRoom => size < txspace)
      /\ call' = CallAt("branch", n, 0) /\ UNCHANGED <<tx, tx_in, tx_out, udrie, open, nonblocking>>
  BY DEF WriteBuffer, Goto, txvars
<1>2. n \in 0 .. Size /\ 0 \in 0 .. Size /\ 0 <= n /\ n <= size /\ Used(tx) + n <= Size
  <2> DEFINE u == Used(tx)
  <2>1. u \in Nat /\ u < Size /\ Size \in Nat /\ size \in Nat /\ size <= Size
    BY SendFacts, SizeAssumption DEF Index
  <2>2. txspace = Size - u
    BY DEF txspace
  <2> HIDE DEF u
  <2>3. n \in 0 .. Size /\ 0 <= n /\ n <= size /\ u + n <= Size
    BY <2>1, <2>2
  <2> QED
    BY <2>1, <2>3 DEF u
<1>3. tx_in + n <= MaxBytes
  BY <1>1, <1>2, SendFacts, SizeAssumption, CallerAssumption
<1>4. LeaveRoom => Used(tx) + n <= Size - 1
  BY <1>1, SendFacts, SizeAssumption DEF txspace, Index
<1> HIDE DEF n
<1> QED
  BY <1>1, <1>2, <1>3, <1>4, SendCall

\* One memcpy or two: the first of two reaches the end of the ring.
LEMMA SendBranch ==
    ASSUME SendState, Branch
    PROVE  SendState'
<1> DEFINE d == IF tx.tail > tx.head \/ Size - tx.head > call.size THEN 0 ELSE call.size - (Size - tx.head)
<1>1. /\ call.pc = "branch" /\ call' = CallAt("copy", call.size, d)
      /\ UNCHANGED <<tx, tx_in, tx_out, udrie, open, nonblocking>>
  BY DEF Branch, Goto, txvars
<1>2. tx_in + call.size <= MaxBytes /\ Used(tx) + call.size <= Size
      /\ (LeaveRoom => Used(tx) + call.size <= Size - 1)
  BY <1>1 DEF SendState, CallInv, Measured, SendInv, Room, Writing
<1>3. d \in 0 .. Size /\ d <= call.size
  <2> DEFINE h == tx.head
             z == call.size
  <2>1. h \in Nat /\ h < Size /\ z \in Nat /\ z <= Size /\ Size \in Nat
    BY SendFacts, SizeAssumption DEF Index
  <2>2. d = 0 \/ (d = z - (Size - h) /\ ~(Size - h > z))
    OBVIOUS
  <2> HIDE DEF h, z, d
  <2>3. d \in 0 .. Size /\ d <= z
    BY <2>1, <2>2
  <2> QED
    BY <2>3 DEF z
<1>4. tx.head + (call.size - d) <= Size
  <2>1. /\ tx.head \in Index /\ tx.tail \in Index /\ call.size \in 0 .. Size
        /\ Used(tx) = IF tx.tail <= tx.head THEN tx.head - tx.tail ELSE tx.head - tx.tail + Size
    BY SendFacts
  <2>2. CASE tx.tail > tx.head
    BY <1>2, <2>1, <2>2, SizeAssumption DEF Index
  <2>3. CASE ~(tx.tail > tx.head)
    BY <2>1, <2>3, SizeAssumption DEF Index
  <2> QED
    BY <2>2, <2>3
<1>5. d > 0 => tx.head + (call.size - d) = Size
  BY SendFacts, SizeAssumption DEF Index
<1> HIDE DEF d
<1>6. call.size \in 0 .. Size
  BY SendFacts
<1> QED
  BY <1>1, <1>2, <1>3, <1>4, <1>5, <1>6, SendCall

\* The memcpy: bytes in the free room, none past the end of the ring.
LEMMA SendCopy ==
    ASSUME SendState, Copy
    PROVE  SendState'
<1>1. /\ call.pc = "copy" /\ tx' = Filled(tx, tx_in, Part) /\ call' = CallAt("head", call.size, call.done)
      /\ UNCHANGED <<tx_in, tx_out, udrie, open, nonblocking>>
  BY DEF Copy, Filled, Goto
<1>2. /\ tx \in Rings /\ tx_in \in Nat /\ tx_out \in Nat /\ Part \in Nat /\ Part <= call.size
      /\ call.size \in 0 .. Size /\ call.done \in 0 .. Size
      /\ call.done <= call.size /\ Used(tx) \in Index
      /\ tx.bytes \in [Index -> 0 .. MaxBytes] /\ tx.head \in Index /\ tx.tail \in Index
  BY SendFacts, SizeAssumption DEF SendState
<1>3. tx_in + call.size <= MaxBytes
  BY <1>1 DEF SendState, CallInv, Writing
<1>4. tx' \in Rings
  <2>1. ASSUME NEW i \in Index
        PROVE  (IF (i - tx.head) % Size < Part THEN tx_in + 1 + ((i - tx.head) % Size)
                ELSE tx.bytes[i]) \in 0 .. MaxBytes
    <3>1. (i - tx.head) % Size \in Nat
      BY <1>2, Behind, SizeAssumption DEF Index
    <3> DEFINE e == (i - tx.head) % Size
    <3>2. e \in Nat
      BY <3>1
    <3>3. tx.bytes[i] \in 0 .. MaxBytes
      BY <1>2
    <3> HIDE DEF e
    <3>4. e < Part => tx_in + 1 + e \in 0 .. MaxBytes
      BY <1>2, <1>3, <3>2, CallerAssumption, SizeAssumption
    <3> QED
      BY <3>3, <3>4 DEF e
  <2>2. [i \in Index |-> IF (i - tx.head) % Size < Part THEN tx_in + 1 + ((i - tx.head) % Size)
                         ELSE tx.bytes[i]] \in [Index -> 0 .. MaxBytes]
    BY <2>1
  <2> QED
    BY <1>1, <1>2, <2>2, RingType DEF Filled
<1>5. tx'.head = tx.head /\ tx'.tail = tx.tail /\ Used(tx') = Used(tx)
  BY <1>1 DEF Filled, Ring, Used
<1>6. /\ call' \in Calls /\ call'.pc = "head" /\ call'.size = call.size /\ call'.done = call.done
      /\ Part' = Part
  BY <1>1, <1>2 DEF CallAt, Calls, PCs, Part
<1>7. NotMore' /\ CallInv' /\ Measured'
  BY <1>1, <1>2, <1>3, <1>5, <1>6 DEF SendState, NotMore, CallInv, Measured, Writing
<1>8. CopyInRing'
  BY <1>1, <1>5, <1>6 DEF SendState, CopyInRing
<1>9. ASSUME LeaveRoom PROVE TxInOrder' /\ Room' /\ Copied'
  <2>1. InOrder(tx, tx_in, tx_out) /\ Used(tx) + call.size <= Size - 1
    BY <1>1, <1>9 DEF SendState, SendInv, TxInOrder, Room, Writing
  <2>2. Used(tx) + Part <= Size - 1
    <3> DEFINE u == Used(tx)
               d == call.done
               z == call.size
    <3>1. u \in Int /\ d \in Int /\ z \in Int /\ d >= 0 /\ u + z <= Size - 1 /\ Size \in Int /\ Part = z - d
      BY <1>2, <2>1, SizeAssumption DEF Index, Part
    <3> HIDE DEF u, d, z
    <3> QED
      BY <3>1 DEF u
  <2>3. /\ InOrder(tx', tx_in, tx_out)
        /\ \A k \in 0 .. Part - 1 : tx'.bytes[(tx.head + k) % Size] = tx_in + 1 + k
    BY <1>1, <1>2, <2>1, <2>2, FillFree
  <2>4. TxInOrder'
    BY <1>1, <2>3 DEF TxInOrder
  <2>5. Room'
    BY <1>5, <1>6, <2>1 DEF Room
  <2>6. Copied'
    BY <1>1, <1>5, <1>6, <2>3 DEF Copied
  <2> QED
    BY <2>4, <2>5, <2>6
<1> QED
  BY <1>1, <1>4, <1>6, <1>7, <1>8, <1>9 DEF SendState, SendInv

\* Moving the head hands the copied bytes to the handler.
LEMMA SendMove ==
    ASSUME SendState, MoveHead
    PROVE  SendState'
<1> DEFINE g == (tx.head + Part) % Size
<1>1. /\ call.pc = "head" /\ tx' = Ring(tx.bytes, g, tx.tail) /\ tx_in' = tx_in + Part
      /\ IF call.done > 0 THEN call' = CallAt("copy", call.done, 0) ELSE call' = CallAt("enable", 0, 0)
      /\ UNCHANGED <<tx_out, udrie, open, nonblocking>>
  BY DEF MoveHead, Goto
<1>2. /\ tx \in Rings /\ tx_in \in Nat /\ tx_out \in Nat /\ Part \in 0 .. Size /\ Part \in Nat
      /\ call.size \in 0 .. Size /\ call.done \in 0 .. Size /\ call.done <= call.size
      /\ Used(tx) \in Index /\ Part = call.size - call.done
      /\ tx.bytes \in [Index -> 0 .. MaxBytes] /\ tx.head \in Index /\ tx.tail \in Index
      /\ tx = Ring(tx.bytes, tx.head, tx.tail)
  BY SendFacts, SizeAssumption DEF SendState, Part
<1>3. tx_in + call.size <= MaxBytes /\ Used(tx) <= tx_in - tx_out
  BY <1>1 DEF SendState, CallInv, Writing, NotMore
<1>4. g \in Index /\ g = IF tx.head + Part < Size THEN tx.head + Part ELSE tx.head + Part - Size
  BY <1>2, Ahead
<1>5. Used(tx') <= Used(tx) + Part /\ (Used(tx) + Part <= Size - 1 => Used(tx') = Used(tx) + Part)
  BY <1>1, <1>2, MoveAtMost
<1>6. tx' \in Rings /\ tx'.head = g /\ tx'.tail = tx.tail
  <2> HIDE DEF g
  <2> QED
    BY <1>1, <1>2, <1>4, RingType DEF Ring
<1>7. tx_in' \in 0 .. MaxBytes
  BY <1>1, <1>2, <1>3, CallerAssumption, SizeAssumption
<1>8. NotMore'
  <2>1. Used(tx') \in Index
    BY <1>6, RingFields
  <2> QED
    BY <1>1, <1>2, <1>3, <1>5, <2>1, SizeAssumption DEF NotMore, Index
<1>9. ASSUME LeaveRoom PROVE TxInOrder' /\ Used(tx') + call.done <= Size - 1
  <2>1. InOrder(tx, tx_in, tx_out) /\ Used(tx) + call.size <= Size - 1
    BY <1>1, <1>9 DEF SendState, SendInv, TxInOrder, Room, Writing
  <2>2. Used(tx) + Part <= Size - 1
    <3> DEFINE u == Used(tx)
               d == call.done
               z == call.size
    <3>1. u \in Int /\ d \in Int /\ z \in Int /\ d >= 0 /\ u + z <= Size - 1 /\ Size \in Int /\ Part = z - d
      BY <1>2, <2>1, SizeAssumption DEF Index
    <3> HIDE DEF u, d, z, g
    <3> QED
      BY <3>1 DEF u
  <2>3. \A k \in 0 .. Part - 1 : tx.bytes[(tx.head + k) % Size] = tx_in + 1 + k
    BY <1>1, <1>9 DEF SendState, SendInv, Copied
  <2>4. InOrder(tx', tx_in', tx_out')
    BY <1>1, <1>2, <2>1, <2>2, <2>3, MoveOver
  <2>5. Used(tx') + call.done <= Size - 1
    <3> DEFINE u == Used(tx)
               d == call.done
               z == call.size
    <3>1. Used(tx') = u + Part /\ Part = z - d
      BY <1>2, <1>5, <2>2
    <3>2. u \in Int /\ d \in Int /\ z \in Int /\ u + z <= Size - 1 /\ Size \in Int
      BY <1>2, <2>1, SizeAssumption DEF Index
    <3> HIDE DEF u, d, z, g
    <3>3. u + (z - d) + d <= Size - 1
      BY <3>2
    <3> QED
      BY <3>1, <3>3 DEF d
  <2> QED
    BY <2>4, <2>5 DEF TxInOrder
<1>10. CASE call.done > 0
  <2>1. call' = CallAt("copy", call.done, 0)
    BY <1>1, <1>10
  <2>2. tx.head + Part = Size
    BY <1>1, <1>10 DEF SendState, CopyInRing
  <2>3. tx'.head = 0
    BY <1>2, <1>4, <1>6, <2>2, SizeAssumption DEF Index
  <2>4. /\ call' \in Calls /\ call'.pc = "copy" /\ call'.size = call.done /\ call'.done = 0
        /\ Part' = call.done
    <3>1. 0 \in 0 .. Size /\ call.done - 0 = call.done
      BY <1>2, SizeAssumption
    <3> QED
      BY <1>2, <2>1, <3>1 DEF CallAt, Calls, PCs, Part
  <2>5. tx_in' + call.done <= MaxBytes /\ 0 <= call.done /\ 0 + call.done <= Size
    BY <1>1, <1>2, <1>3, SizeAssumption, CallerAssumption
  <2>6. CallInv' /\ Measured'
    BY <2>4, <2>5 DEF CallInv, Measured, Writing
  <2>7. CopyInRing'
    BY <2>3, <2>4, <2>5 DEF CopyInRing
  <2>8. LeaveRoom => TxInOrder' /\ Room' /\ Copied'
    BY <1>9, <2>4 DEF Room, Copied
  <2> QED
    BY <1>1, <1>6, <1>7, <1>8, <2>4, <2>6, <2>7, <2>8 DEF SendState, SendInv
<1>11. CASE ~(call.done > 0)
  <2>1. \E pc \in {"none", "flush", "enable"} : call' = CallAt(pc, 0, 0)
    BY <1>1, <1>11
  <2> QED
    BY <1>1, <1>6, <1>7, <1>8, <1>9, <2>1, IdleCall DEF SendState
<1> QED
  BY <1>10, <1>11

\* The handler takes one byte, or disables itself: the room only grows.
LEMMA SendIsr ==
    ASSUME SendState, TxIsr
    PROVE  SendState'
<1>1. CASE tx.tail = tx.head
  BY <1>1, SendKept DEF TxIsr, SendState
<1>2. CASE tx.tail # tx.head
  <2>1. /\ tx' = Ring(tx.bytes, tx.head, After(tx.tail)) /\ tx_out' = tx_out + 1
        /\ UNCHANGED <<tx_in, udrie, open, nonblocking, call>>
    BY <1>2 DEF TxIsr
  <2>2. /\ tx \in Rings /\ tx_in \in Nat /\ tx_out \in Nat /\ tx_in <= MaxBytes
        /\ tx.bytes \in [Index -> 0 .. MaxBytes] /\ tx.head \in Index /\ tx.tail \in Index
        /\ Used(tx) \in Index
        /\ Used(tx) = IF tx.tail <= tx.head THEN tx.head - tx.tail ELSE tx.head - tx.tail + Size
        /\ call.size \in 0 .. Size
    BY SendFacts DEF SendState
  <2>3. After(tx.tail) \in Index /\ After(tx.tail) = IF tx.tail = Size - 1 THEN 0 ELSE tx.tail + 1
    BY <2>2, AfterNext
  <2>4. /\ tx' \in Rings /\ tx'.head = tx.head /\ tx'.bytes = tx.bytes
        /\ Used(tx') = IF After(tx.tail) <= tx.head THEN tx.head - After(tx.tail)
                                                    ELSE tx.head - After(tx.tail) + Size
    BY <2>1, <2>2, <2>3, RingType, UsedOf DEF Ring
  <2>5. Used(tx') = Used(tx) - 1
    <3> DEFINE a == After(tx.tail)
               u == Used(tx)
               v == Used(tx')
    <3>0. tx.head \in Index /\ tx.tail \in Index
      BY <2>2
    <3>1. a = IF tx.tail = Size - 1 THEN 0 ELSE tx.tail + 1
      BY <2>3
    <3>2. u = IF tx.tail <= tx.head THEN tx.head - tx.tail ELSE tx.head - tx.tail + Size
      BY <2>2
    <3>3. v = IF a <= tx.head THEN tx.head - a ELSE tx.head - a + Size
      BY <2>4
    <3> HIDE DEF a, u, v
    <3>4. v = u - 1
      BY <1>2, <3>0, <3>1, <3>2, <3>3, SizeAssumption DEF Index
    <3> QED
      BY <3>4 DEF u, v
  <2>6. NotMore' /\ tx_out' \in 0 .. MaxBytes
    <3>1. Used(tx) <= tx_in - tx_out
      BY DEF SendState, NotMore
    <3>2. Used(tx) > 0
      BY <1>2, <2>2, SizeAssumption DEF Index
    <3>3. Used(tx') <= tx_in - (tx_out + 1)
      BY <2>2, <2>5, <3>1, SizeAssumption DEF Index
    <3>4. tx_out + 1 \in 0 .. MaxBytes
      BY <2>2, <3>1, <3>2, CallerAssumption, SizeAssumption DEF Index
    <3> QED
      BY <2>1, <3>3, <3>4 DEF NotMore
  <2>7. Part' = Part /\ (Writing' <=> Writing)
    BY <2>1 DEF Part, Writing
  <2>8. CallInv' /\ CopyInRing'
    BY <2>1, <2>4, <2>7 DEF SendState, CallInv, CopyInRing
  <2>9. Measured'
    BY <2>1, <2>2, <2>5, SizeAssumption DEF SendState, Measured, Index
  <2>10. ASSUME LeaveRoom PROVE TxInOrder' /\ Room' /\ Copied'
    <3>1. InOrder(tx, tx_in, tx_out)
      BY <2>10 DEF SendState, SendInv, TxInOrder
    <3>2. InOrder(tx', tx_in', tx_out')
      BY <1>2, <2>1, <2>2, <3>1, TakeByte
    <3>3. Room'
      BY <2>1, <2>2, <2>5, <2>7, <2>10, SizeAssumption DEF SendState, SendInv, Room, Index
    <3>4. Copied'
      BY <2>1, <2>4, <2>7, <2>10 DEF SendState, SendInv, Copied
    <3> QED
      BY <3>2, <3>3, <3>4 DEF TxInOrder
  <2> QED
    BY <2>1, <2>4, <2>6, <2>8, <2>9, <2>10 DEF SendState, SendInv
<1> QED
  BY <1>1, <1>2

-----------------------------------------------------------------------------
(* The theorems.                                                           *)

\* The invariant holds of the port that was never opened.
LEMMA InitInv == Init => Inv
<1> SUFFICES ASSUME Init PROVE Inv
  OBVIOUS
<1>1. 0 \in 0 .. MaxBytes /\ 0 \in Nat /\ 0 \in 0 .. Size
  BY SizeAssumption, CallerAssumption
<1>2. /\ call \in Calls /\ call.pc = "none" /\ call.size = 0 /\ call.done = 0
  BY <1>1 DEF Init, NoCall, CallAt, Calls, PCs
<1>3. /\ tx \in Rings /\ rx \in Rings /\ Used(tx) = 0
      /\ InOrder(tx, tx_in, tx_out) /\ InOrder(rx, rx_in, rx_out)
  BY <1>1, NewRingType DEF Init
<1>4. TypeOK
  BY <1>1, <1>2, <1>3, Types DEF Init
<1>5. NotMore /\ CallInv /\ Measured /\ CopyInRing
  BY <1>2, <1>3 DEF Init, NotMore, CallInv, Measured, CopyInRing, Writing
<1> QED
  BY <1>2, <1>3, <1>4, <1>5 DEF Inv, PortInv, SendInv, RxInOrder, TxInOrder, Room, Copied, Writing

\* Every step of the main loop and of the handlers keeps the send side's part.
LEMMA TxStep ==
    ASSUME SendState, [Next]_vars
    PROVE  SendState'
<1>1. ASSUME Begin \/ End PROVE SendState'
  BY <1>1, SendReset DEF Begin, End
<1>2. ASSUME SetBlocking \/ Read \/ RxIsr \/ UNCHANGED vars PROVE SendState'
  BY <1>2, SendKept DEF SetBlocking, Read, RxIsr, vars, txvars, SendState
<1>3. ASSUME Flush_Rx \/ Enable PROVE SendState'
  BY <1>3, SendIdle DEF Flush_Rx, Enable, Goto, NoCall, txvars, SendState
<1> QED
  BY <1>1, <1>2, <1>3, SendFlush, SendByte, SendBuffer, SendBranch, SendCopy, SendMove, SendIsr
  DEF Next, Write

\* Every step keeps the whole invariant.
LEMMA StepInv == Inv /\ [Next]_vars => Inv'
<1> SUFFICES ASSUME Inv, [Next]_vars PROVE Inv'
  OBVIOUS
<1>1. SendState'
  BY SendStateOfInv, TxStep
<1>2. rx' \in Rings /\ rx_in' \in 0 .. MaxBytes /\ rx_out' \in 0 .. MaxBytes /\ RxInOrder'
  BY RxStep DEF Inv, PortInv
<1>3. TypeOK'
  BY <1>1, <1>2, TypesPrime DEF SendState
<1> QED
  BY <1>1, <1>2, <1>3 DEF Inv, PortInv, SendState

\* The port's invariant, for every size of the rings and both kinds of caller.
THEOREM UartInv == Spec => []Inv
BY InitInv, StepInv, PTL DEF Spec

\* No index leaves its ring and no count its range, whatever the callers write.
THEOREM UartTypeCorrect == Spec => []TypeOK
<1>1. Inv => TypeOK
  BY DEF Inv, PortInv
<1> QED
  BY <1>1, UartInv, PTL

\* The receive ring holds the bytes received and not yet read, in order: the handler
\* that fills it and the main loop that empties it need no lock.
THEOREM UartRxInOrder == Spec => []RxInOrder
<1>1. Inv => RxInOrder
  BY DEF Inv, PortInv
<1> QED
  BY <1>1, UartInv, PTL

\* With callers that leave room, every byte the driver accepted is in the send ring,
\* in its place, until the handler takes it.
THEOREM UartTxInOrder ==
    ASSUME LeaveRoom
    PROVE  Spec => []TxInOrder
<1>1. Inv => TxInOrder
  BY DEF Inv, SendInv
<1> QED
  BY <1>1, UartInv, PTL

\* Neither memcpy of a write runs past the end of the send ring, although the handler
\* moves the tail between the look at the room and the copy.
THEOREM UartCopyInRing == Spec => []CopyInRing
<1>1. Inv => CopyInRing
  BY DEF Inv, PortInv
<1> QED
  BY <1>1, UartInv, PTL
=============================================================================
