------------------------ MODULE StorageDriverProofs ------------------------
(***************************************************************************)
(* For every size of the storage, of a line and of a word of the mask: a   *)
(* line that is not saved is marked dirty, or was written in one of the    *)
(* two windows in which an update of _dirty_mask is lost.                  *)
(***************************************************************************)
EXTENDS StorageDriver, SequenceTheorems, WellFoundedInduction, TLAPS

-----------------------------------------------------------------------------
(* Arithmetic of lines.                                                    *)

\* Lines grow with their numbers.
LEMMA Monotone ==
    ASSUME NEW m \in Nat, NEW n \in Nat, m <= n
    PROVE  m * LineSize <= n * LineSize
BY SizeAssumption, Z3

\* Division finds the line of a byte.
LEMMA Quotient ==
    ASSUME NEW a \in Nat
    PROVE  /\ a \div LineSize \in Nat
           /\ (a \div LineSize) * LineSize <= a
           /\ a < (a \div LineSize) * LineSize + LineSize
BY SizeAssumption, Z3

\* The bytes of a line are bytes of the storage.
LEMMA LineInside ==
    ASSUME NEW l \in Line
    PROVE  /\ l * LineSize \in Nat
           /\ (l + 1) * LineSize = l * LineSize + LineSize
           /\ LineBytes(l) \subseteq Addr
<1>1. l \in Nat /\ l + 1 \in Nat /\ l + 1 <= NumLines /\ NumLines \in Nat /\ LineSize \in Nat
  BY SizeAssumption DEF Line
<1>2. l * LineSize \in Nat /\ (l + 1) * LineSize = l * LineSize + LineSize
  BY <1>1, Z3
<1>3. (l + 1) * LineSize <= NumLines * LineSize
  BY <1>1, Monotone
<1>4. NumLines * LineSize = LineSize * NumLines
  BY <1>1, Z3
<1> QED
  BY <1>1, <1>2, <1>3, <1>4 DEF LineBytes, Addr, Size

\* _mark_dirty marks every line that holds a byte of the block.
LEMMA MarksAll ==
    ASSUME NEW loc \in Nat, NEW n \in Nat, NEW l \in Line, NEW a \in LineBytes(l),
           loc <= a, a < loc + n
    PROVE  l \in _mark_dirty(loc, n)
<1> DEFINE p == loc \div LineSize
           q == (loc + n) \div LineSize
<1>1. /\ l \in Nat /\ a \in Nat /\ LineSize \in Nat
      /\ l * LineSize \in Nat
      /\ l * LineSize <= a /\ a < l * LineSize + LineSize
  BY LineInside, SizeAssumption DEF LineBytes, Line, Addr
<1>2. p \in Nat /\ p * LineSize <= loc
  BY Quotient
<1>3. q \in Nat /\ loc + n < q * LineSize + LineSize
  BY Quotient
<1>4. (l + 1) * LineSize = l * LineSize + LineSize /\ (q + 1) * LineSize = q * LineSize + LineSize
  BY <1>1, <1>3, Z3
<1>5. p <= l
  <2> SUFFICES ASSUME l + 1 <= p PROVE FALSE
    BY <1>1, <1>2
  <2>1. (l + 1) * LineSize <= p * LineSize
    BY <1>1, <1>2, Monotone
  <2> QED
    BY <2>1, <1>1, <1>2, <1>4
<1>6. l <= q
  <2> SUFFICES ASSUME q + 1 <= l PROVE FALSE
    BY <1>1, <1>3
  <2>1. (q + 1) * LineSize <= l * LineSize
    BY <1>1, <1>3, Monotone
  <2>2. q * LineSize \in Nat
    BY <1>1, <1>3, Z3
  <2> QED
    BY <2>1, <2>2, <1>1, <1>3, <1>4
<1> QED
  BY <1>1, <1>2, <1>3, <1>5, <1>6 DEF _mark_dirty

\* A byte belongs to one line.
LEMMA LinesDisjoint ==
    ASSUME NEW l \in Line, NEW k \in Line, NEW a \in LineBytes(l), a \in LineBytes(k)
    PROVE  l = k
<1>1. /\ l \in Nat /\ k \in Nat /\ a \in Nat /\ LineSize \in Nat
      /\ l * LineSize \in Nat /\ k * LineSize \in Nat
      /\ l * LineSize <= a /\ a < (l + 1) * LineSize
      /\ k * LineSize <= a /\ a < (k + 1) * LineSize
      /\ (l + 1) * LineSize \in Nat /\ (k + 1) * LineSize \in Nat
  BY LineInside, SizeAssumption DEF LineBytes, Line, Addr
<1>2. ~(l + 1 <= k)
  <2> SUFFICES ASSUME l + 1 <= k PROVE FALSE
    OBVIOUS
  <2>1. (l + 1) * LineSize <= k * LineSize
    BY <1>1, Monotone
  <2> QED
    BY <2>1, <1>1
<1>3. ~(k + 1 <= l)
  <2> SUFFICES ASSUME k + 1 <= l PROVE FALSE
    OBVIOUS
  <2>1. (k + 1) * LineSize <= l * LineSize
    BY <1>1, Monotone
  <2> QED
    BY <2>1, <1>1
<1> QED
  BY <1>1, <1>2, <1>3

\* A nonempty set of lines has a first one.
LEMMA FirstLine ==
    ASSUME NEW S \in SUBSET Line, S # {}
    PROVE  (CHOOSE l \in S : \A k \in S : l <= k) \in S
<1>1. IsWellFoundedOn(OpToRel(<, Nat), Nat)
  BY NatLessThanWellFounded
<1>2. S \subseteq Nat
  BY SizeAssumption DEF Line
<1>3. PICK l \in S : \A k \in S : ~(<<k, l>> \in OpToRel(<, Nat))
  BY <1>1, <1>2, WFMin
<1>4. ASSUME NEW k \in S PROVE l <= k
  <2>1. ~(<<k, l>> \in OpToRel(<, Nat))
    BY <1>3
  <2>2. ~(k < l)
    BY <2>1, <1>2 DEF OpToRel
  <2> QED
    BY <2>2, <1>2
<1> QED
  BY <1>4

-----------------------------------------------------------------------------
(* The inductive invariant.                                                *)

\* What the storage thread has copied of its line is what is there.
CopyInv ==
    thread.pc \in {"copy", "program"} =>
        /\ thread.pc = "copy" => Len(thread.blk) < LineSize
        /\ thread.pc = "program" => Len(thread.blk) = LineSize
        /\ thread.line \notin raced =>
               \A i \in 1 .. Len(thread.blk) :
                   thread.blk[i] = buffer[thread.line * LineSize + i - 1]

\* The line it has written is saved, and the word it holds lacks raced lines only.
ClearInv ==
    /\ thread.pc \in {"load", "store"} /\ thread.line \notin raced => ~Unsaved(thread.line)
    /\ thread.pc = "store" => dirty \cap Word(thread.line) \subseteq thread.word \cup raced

BusyInv == thread.pc # "sleep" => initialised /\ thread.line \in dirty

DriverInv == TypeOK /\ BusyInv /\ CopyInv /\ ClearInv /\ OnlyRacesLose

\* The record of the sleeping thread.
LEMMA SleepingType ==
    /\ Sleeping \in [pc : {"sleep", "copy", "program", "load", "store"}, line : Line,
                    blk : Seq(Value), word : SUBSET Line]
    /\ Sleeping.pc = "sleep"
<1>1. 0 \in Line
  BY SizeAssumption DEF Line
<1>2. <<>> \in Seq(Value) /\ {} \in SUBSET Line
  BY EmptySeq
<1> QED
  BY <1>1, <1>2 DEF Sleeping, ThreadAt

\* The driver invariant holds at power-up.
LEMMA InitDriver == Init => DriverInv
<1> SUFFICES ASSUME Init PROVE DriverInv
  OBVIOUS
<1>1. Zeros \in [Addr -> Value] /\ 0 \in 0 .. MaxWrites /\ DOMAIN <<>> \subseteq Addr
  BY CallerAssumption DEF Zeros
<1>2. TypeOK
  BY <1>1, SleepingType DEF Init, TypeOK
<1> QED
  BY <1>2, SleepingType DEF Init, DriverInv, BusyInv, CopyInv, ClearInv, OnlyRacesLose

\* Writing what is copied of the line leaves bytes in the backend.
LEMMA OverwrittenType ==
    ASSUME DriverInv, thread.pc \in {"copy", "program"}, NEW image \in [Addr -> Value],
           NEW n \in Nat, n <= Len(thread.blk),
           NEW bytes, \A a \in bytes : a \in thread.line * LineSize .. thread.line * LineSize + n - 1
    PROVE  Overwritten(image, bytes) \in [Addr -> Value]
<1>1. thread.line \in Line /\ thread.blk \in Seq(Value)
  BY DEF DriverInv, TypeOK
<1>2. thread.line * LineSize \in Nat /\ Len(thread.blk) \in Nat
  BY <1>1, LineInside, LenProperties
<1>3. ASSUME NEW a \in bytes PROVE thread.blk[a - thread.line * LineSize + 1] \in Value
  <2>1. a - thread.line * LineSize + 1 \in 1 .. Len(thread.blk)
    BY <1>1, <1>2
  <2> QED
    BY <2>1, <1>1, ElementOfSeq
<1> QED
  BY <1>1, <1>3 DEF Overwritten

\* A power failure leaves nothing to save.
LEMMA PowerFailDriver == DriverInv /\ PowerFail => DriverInv'
<1> SUFFICES ASSUME DriverInv, PowerFail PROVE DriverInv'
  OBVIOUS
<1>1. Zeros \in [Addr -> Value] /\ 0 \in 0 .. MaxWrites /\ DOMAIN <<>> \subseteq Addr
  BY CallerAssumption DEF Zeros
<1>2. stored' \in [Addr -> Value]
  <2>1. CASE UNCHANGED stored
    BY <2>1 DEF DriverInv, TypeOK
  <2>2. ASSUME thread.pc \in {"copy", "program"}, NEW n \in 1 .. Len(thread.blk)
        PROVE  Overwritten(stored, {thread.line * LineSize + i - 1 : i \in 1 .. n}) \in [Addr -> Value]
    <3> DEFINE bytes == {thread.line * LineSize + i - 1 : i \in 1 .. n}
    <3>1. /\ thread.line \in Line /\ thread.blk \in Seq(Value) /\ stored \in [Addr -> Value]
      BY DEF DriverInv, TypeOK
    <3>2. thread.line * LineSize \in Nat /\ Len(thread.blk) \in Nat /\ n \in Nat /\ n <= Len(thread.blk)
      BY <3>1, LineInside, LenProperties
    <3>3. \A a \in bytes : a \in thread.line * LineSize .. thread.line * LineSize + n - 1
      BY <3>2
    <3> HIDE DEF bytes
    <3>4. Overwritten(stored, bytes) \in [Addr -> Value]
      BY <2>2, <3>1, <3>2, <3>3, OverwrittenType
    <3> QED
      BY <3>4 DEF bytes
  <2> QED
    BY <2>1, <2>2 DEF PowerFail
<1>3. TypeOK'
  BY <1>1, <1>2, SleepingType DEF PowerFail, DriverInv, TypeOK
<1> QED
  BY <1>3, SleepingType DEF PowerFail, DriverInv, BusyInv, CopyInv, ClearInv, OnlyRacesLose


-----------------------------------------------------------------------------
(* The storage thread.                                                     *)

\* The thread picks a dirty line.
LEMMA TimerTickDriver == DriverInv /\ TimerTick => DriverInv'
<1> SUFFICES ASSUME DriverInv, TimerTick PROVE DriverInv'
  OBVIOUS
<1> DEFINE l == CHOOSE l \in dirty : \A k \in dirty : l <= k
<1>1. l \in dirty /\ l \in Line
  BY FirstLine DEF DriverInv, TypeOK, TimerTick
<1>2. thread' = ThreadAt("copy", l, <<>>, {})
  BY DEF TimerTick
<1> HIDE DEF l
<1>3. /\ thread' \in [pc : {"sleep", "copy", "program", "load", "store"}, line : Line,
                     blk : Seq(Value), word : SUBSET Line]
      /\ thread'.pc = "copy" /\ thread'.line = l /\ thread'.blk = <<>>
  BY <1>1, <1>2, EmptySeq DEF ThreadAt
<1>4. TypeOK'
  BY <1>3 DEF TimerTick, DriverInv, TypeOK
<1>5. CopyInv'
  <2>1. Len(<<>>) = 0 /\ LineSize \in Nat \ {0}
    BY SizeAssumption
  <2> QED
    BY <1>3, <2>1 DEF CopyInv
<1>6. BusyInv' /\ ClearInv' /\ OnlyRacesLose'
  BY <1>1, <1>3 DEF TimerTick, DriverInv, BusyInv, ClearInv, OnlyRacesLose, Unsaved
<1> QED
  BY <1>4, <1>5, <1>6 DEF DriverInv

\* One more byte of the line is copied.
LEMMA CopyDriver == DriverInv /\ Copy => DriverInv'
<1> SUFFICES ASSUME DriverInv, Copy PROVE DriverInv'
  OBVIOUS
<1> DEFINE n == Len(thread.blk)
           byte == buffer[thread.line * LineSize + n]
           blk == Append(thread.blk, byte)
           pc == IF Len(blk) = LineSize THEN "program" ELSE "copy"
<1>1. /\ thread.pc = "copy" /\ thread.line \in Line /\ thread.blk \in Seq(Value)
      /\ buffer \in [Addr -> Value] /\ n < LineSize
  BY DEF Copy, DriverInv, TypeOK, CopyInv
<1>2. n \in Nat /\ LineSize \in Nat
  BY <1>1, LenProperties, SizeAssumption
<1>3. thread.line * LineSize + n \in Addr
  <2>1. thread.line * LineSize + n \in LineBytes(thread.line)
    BY <1>1, <1>2, LineInside DEF LineBytes
  <2> QED
    BY <2>1, <1>1, LineInside
<1>4. byte \in Value
  BY <1>1, <1>3
<1>5. /\ blk \in Seq(Value) /\ Len(blk) = n + 1
      /\ \A i \in 1 .. n : blk[i] = thread.blk[i]
      /\ blk[n + 1] = byte
  BY <1>1, <1>4, AppendProperties
<1>6. thread' = ThreadAt(pc, thread.line, blk, {})
  BY DEF Copy
<1> HIDE DEF blk, byte
<1>7. pc \in {"copy", "program"}
  OBVIOUS
<1>8. /\ thread' \in [pc : {"sleep", "copy", "program", "load", "store"}, line : Line,
                     blk : Seq(Value), word : SUBSET Line]
      /\ thread'.pc = pc /\ thread'.line = thread.line /\ thread'.blk = blk
  BY <1>1, <1>5, <1>6, <1>7 DEF ThreadAt
<1>9. TypeOK'
  BY <1>8 DEF Copy, DriverInv, TypeOK
<1>10. CopyInv'
  <2>1. /\ pc = "copy" => Len(blk) < LineSize
        /\ pc = "program" => Len(blk) = LineSize
    BY <1>1, <1>2, <1>5
  <2>2. ASSUME thread.line \notin raced, NEW i \in 1 .. Len(blk)
        PROVE  blk[i] = buffer[thread.line * LineSize + i - 1]
    <3>1. CASE i \in 1 .. n
      BY <1>1, <1>5, <2>2, <3>1 DEF DriverInv, CopyInv
    <3>2. CASE i = n + 1
      <4>1. thread.line * LineSize + (n + 1) - 1 = thread.line * LineSize + n
        BY <1>1, <1>2, LineInside
      <4> QED
        BY <1>5, <3>2, <4>1 DEF byte
    <3> QED
      BY <1>2, <1>5, <3>1, <3>2
  <2>3. raced' = raced /\ buffer' = buffer
    BY DEF Copy
  <2> HIDE DEF pc
  <2> QED
    BY <1>8, <2>1, <2>2, <2>3 DEF CopyInv
<1>11. BusyInv' /\ ClearInv' /\ OnlyRacesLose'
  BY <1>1, <1>7, <1>8 DEF Copy, DriverInv, BusyInv, ClearInv, OnlyRacesLose, Unsaved
<1> QED
  BY <1>9, <1>10, <1>11 DEF DriverInv

\* The line is in the backend as it was copied.
LEMMA WriteOkDriver == DriverInv /\ Write_Ok => DriverInv'
<1> SUFFICES ASSUME DriverInv, Write_Ok PROVE DriverInv'
  OBVIOUS
<1>1. /\ thread.pc = "program" /\ thread.line \in Line /\ Len(thread.blk) = LineSize
      /\ initialised /\ thread.line \in dirty
  BY DEF Write_Ok, DriverInv, TypeOK, CopyInv, BusyInv
<1>2. /\ thread' \in [pc : {"sleep", "copy", "program", "load", "store"}, line : Line,
                     blk : Seq(Value), word : SUBSET Line]
      /\ thread'.pc = "load" /\ thread'.line = thread.line
  BY <1>1, EmptySeq DEF Write_Ok, ThreadAt
<1>3. stored' \in [Addr -> Value]
  <2>1. thread.line * LineSize \in Nat /\ (thread.line + 1) * LineSize = thread.line * LineSize + LineSize
    BY <1>1, LineInside
  <2>2. /\ LineSize \in Nat /\ LineSize <= Len(thread.blk)
        /\ \A a \in LineBytes(thread.line) :
               a \in thread.line * LineSize .. thread.line * LineSize + LineSize - 1
    BY <1>1, <2>1, SizeAssumption DEF LineBytes
  <2>3. /\ Overwritten(stored, LineBytes(thread.line)) \in [Addr -> Value]
        /\ Overwritten(buffer, LineBytes(thread.line)) \in [Addr -> Value]
    BY <1>1, <2>2, OverwrittenType DEF DriverInv, TypeOK
  <2> QED
    BY <2>3 DEF Write_Ok
<1>4. TypeOK'
  BY <1>2, <1>3 DEF Write_Ok, DriverInv, TypeOK
<1>5. ASSUME thread.line \notin raced, NEW a \in LineBytes(thread.line)
      PROVE  stored'[a] = buffer[a]
  <2> DEFINE i == a - thread.line * LineSize + 1
  <2>1. a \in Addr /\ i \in 1 .. LineSize /\ thread.line * LineSize + i - 1 = a
    BY <1>1, <1>5, LineInside, SizeAssumption DEF LineBytes, Addr
  <2>2. stored'[a] = thread.blk[i]
    BY <1>5, <2>1 DEF Write_Ok, Overwritten
  <2> HIDE DEF i
  <2>3. thread.blk[i] = buffer[thread.line * LineSize + i - 1]
    BY <1>1, <1>5, <2>1 DEF DriverInv, CopyInv
  <2> QED
    BY <2>1, <2>2, <2>3
<1>6. ASSUME NEW l \in Line, l # thread.line, NEW a \in LineBytes(l)
      PROVE  stored'[a] \in {stored[a], buffer[a]}
  <2>1. a \in Addr /\ a \notin LineBytes(thread.line)
    BY <1>1, <1>6, LineInside, LinesDisjoint
  <2> QED
    BY <2>1 DEF Write_Ok, Overwritten
<1>7. UNCHANGED <<initialised, buffer, dirty, raced>>
  BY DEF Write_Ok
<1>8. ASSUME NEW l \in Line, Unsaved(l)' PROVE l \in dirty \cup raced
  <2>1. CASE l = thread.line
    BY <1>1, <2>1
  <2>2. CASE l # thread.line
    <3>1. Unsaved(l)
      BY <1>6, <1>7, <1>8, <2>2 DEF Unsaved
    <3> QED
      BY <1>1, <3>1 DEF DriverInv, OnlyRacesLose
  <2> QED
    BY <2>1, <2>2
<1>9. OnlyRacesLose'
  BY <1>7, <1>8 DEF OnlyRacesLose
<1>10. BusyInv' /\ CopyInv' /\ ClearInv'
  <2>1. thread.line \notin raced => ~Unsaved(thread.line)'
    BY <1>2, <1>5, <1>7 DEF Unsaved
  <2> QED
    BY <1>1, <1>2, <1>7, <2>1 DEF BusyInv, CopyInv, ClearInv
<1> QED
  BY <1>4, <1>9, <1>10 DEF DriverInv

\* A line whose write failed is still dirty.
LEMMA WriteFailedDriver == DriverInv /\ Write_Failed => DriverInv'
<1> SUFFICES ASSUME DriverInv, Write_Failed PROVE DriverInv'
  OBVIOUS
<1>1. thread' = Sleeping /\ raced' = raced \ {thread.line}
  BY DEF Write_Failed
<1>2. TypeOK'
  BY <1>1, SleepingType DEF Write_Failed, DriverInv, TypeOK
<1>3. BusyInv' /\ CopyInv' /\ ClearInv'
  BY <1>1, SleepingType DEF BusyInv, CopyInv, ClearInv
<1>4. OnlyRacesLose'
  <2>1. initialised /\ thread.line \in dirty
    BY DEF Write_Failed, DriverInv, BusyInv
  <2>2. CASE UNCHANGED stored
    BY <1>1, <2>1, <2>2 DEF Write_Failed, DriverInv, OnlyRacesLose, Unsaved
  <2>3. CASE stored' = buffer
    BY <2>3 DEF Write_Failed, OnlyRacesLose, Unsaved
  <2> QED
    BY <2>2, <2>3 DEF Write_Failed
<1> QED
  BY <1>2, <1>3, <1>4 DEF DriverInv

\* The word of the mask is loaded.
LEMMA ClearLoadDriver == DriverInv /\ Clear_Load => DriverInv'
<1> SUFFICES ASSUME DriverInv, Clear_Load PROVE DriverInv'
  OBVIOUS
<1>1. thread.line \in Line /\ dirty \in SUBSET Line
  BY DEF DriverInv, TypeOK
<1>2. /\ thread' \in [pc : {"sleep", "copy", "program", "load", "store"}, line : Line,
                     blk : Seq(Value), word : SUBSET Line]
      /\ thread'.pc = "store" /\ thread'.line = thread.line
      /\ thread'.word = dirty \cap Word(thread.line)
  BY <1>1, EmptySeq DEF Clear_Load, ThreadAt
<1>3. TypeOK'
  BY <1>2 DEF Clear_Load, DriverInv, TypeOK
<1>4. ClearInv'
  <2>1. thread.line \notin raced => ~Unsaved(thread.line)
    BY DEF Clear_Load, DriverInv, ClearInv
  <2>2. UNCHANGED <<buffer, stored, dirty, raced>>
    BY DEF Clear_Load
  <2> QED
    BY <1>2, <2>1, <2>2 DEF ClearInv, Unsaved
<1>5. BusyInv' /\ CopyInv' /\ OnlyRacesLose'
  BY <1>2 DEF Clear_Load, DriverInv, BusyInv, CopyInv, OnlyRacesLose, Unsaved
<1> QED
  BY <1>3, <1>4, <1>5 DEF DriverInv

\* Storing the word loses the bits of raced lines and of the saved line only.
LEMMA ClearStoreDriver == DriverInv /\ Clear_Store => DriverInv'
<1> SUFFICES ASSUME DriverInv, Clear_Store PROVE DriverInv'
  OBVIOUS
<1>1. thread' = Sleeping
  BY DEF Clear_Store
<1>2. TypeOK'
  BY <1>1, SleepingType DEF Clear_Store, DriverInv, TypeOK
<1>3. BusyInv' /\ CopyInv' /\ ClearInv'
  BY <1>1, SleepingType DEF BusyInv, CopyInv, ClearInv
<1>4. OnlyRacesLose'
  BY DEF Clear_Store, DriverInv, ClearInv, OnlyRacesLose, Unsaved
<1> QED
  BY <1>2, <1>3, <1>4 DEF DriverInv

-----------------------------------------------------------------------------
(* The main thread.                                                        *)

\* _storage_open leaves an open image alone, and loads it from the backend else.
LEMMA OpenEffect ==
    ASSUME TypeOK
    PROVE  /\ Open.buffer \in [Addr -> Value] /\ Open.dirty \in SUBSET Line
           /\ initialised => Open.buffer = buffer /\ Open.dirty = dirty
           /\ ~initialised => Open.buffer = stored
BY DEF Open, TypeOK

\* A read opens the image or leaves it alone.
LEMMA ReadBlockDriver ==
    ASSUME NEW b \in Blocks, DriverInv, ReadBlock(b)
    PROVE  DriverInv'
<1>1. /\ buffer' \in [Addr -> Value] /\ dirty' \in SUBSET Line
      /\ initialised => buffer' = buffer /\ dirty' = dirty
      /\ ~initialised => buffer' = stored
  BY OpenEffect DEF DriverInv, ReadBlock
<1>2. UNCHANGED <<using_fram, stored, thread, writes, wrote, raced>> /\ initialised' = TRUE
  BY DEF ReadBlock
<1>3. TypeOK'
  BY <1>1, <1>2 DEF DriverInv, TypeOK
<1>4. CASE initialised
  <2>1. UNCHANGED <<buffer, dirty>> /\ initialised'
    BY <1>1, <1>2, <1>4
  <2>2. BusyInv' /\ CopyInv' /\ ClearInv' /\ OnlyRacesLose'
    BY <1>2, <1>4, <2>1 DEF DriverInv, BusyInv, CopyInv, ClearInv, OnlyRacesLose, Unsaved
  <2> QED
    BY <1>3, <2>2 DEF DriverInv
<1>5. CASE ~initialised
  <2>1. thread.pc = "sleep"
    BY <1>5 DEF DriverInv, BusyInv
  <2>2. BusyInv' /\ CopyInv' /\ ClearInv'
    BY <1>2, <2>1 DEF BusyInv, CopyInv, ClearInv
  <2>3. OnlyRacesLose'
    BY <1>1, <1>2, <1>5 DEF OnlyRacesLose, Unsaved
  <2> QED
    BY <1>3, <2>2, <2>3 DEF DriverInv
<1> QED
  BY <1>4, <1>5

\* A block in bounds lies in the storage.
LEMMA BlockInside ==
    ASSUME NEW b \in Blocks, InBounds(b)
    PROVE  b[1] \in Nat /\ b[2] \in Nat \ {0} /\ BytesOf(b) \subseteq Addr
<1>1. b[1] \in Nat /\ b[2] \in Nat \ {0}
  BY CallerAssumption
<1>2. Size \in Int
  BY SizeAssumption, Z3 DEF Size
<1> QED
  BY <1>1, <1>2 DEF InBounds, BytesOf, Addr

\* Put changes the bytes of the block, and no other.
LEMMA PutEffect ==
    ASSUME NEW b \in Blocks, InBounds(b), NEW f \in [Addr -> Value],
           NEW data \in [1 .. b[2] -> Value]
    PROVE  /\ Put(f, b, data) \in [Addr -> Value]
           /\ \A a \in Addr : a \notin BytesOf(b) => Put(f, b, data)[a] = f[a]
<1>1. b[1] \in Nat /\ b[2] \in Nat \ {0} /\ BytesOf(b) \subseteq Addr
  BY BlockInside
<1>2. DOMAIN f \cup BytesOf(b) = Addr
  BY <1>1
<1>3. ASSUME NEW a \in BytesOf(b) PROVE data[a - b[1] + 1] \in Value
  <2>1. a - b[1] + 1 \in 1 .. b[2]
    BY <1>1 DEF BytesOf
  <2> QED
    BY <2>1
<1>4. Put(f, b, data) =
         [a \in Addr |-> IF a \in BytesOf(b) THEN data[a - b[1] + 1] ELSE f[a]]
  BY <1>2 DEF Put
<1> QED
  BY <1>3, <1>4

\* What is written to the image is recorded inside the storage.
LEMMA WroteInside ==
    ASSUME NEW b \in Blocks, InBounds(b), NEW data, DOMAIN wrote \subseteq Addr
    PROVE  DOMAIN Put(wrote, b, data) \subseteq Addr
BY BlockInside DEF Put

\* Writing the same bytes again changes nothing that matters.
LEMMA WriteSameDriver ==
    ASSUME NEW b \in Blocks, NEW data \in [1 .. b[2] -> Value], DriverInv, WriteSame(b, data)
    PROVE  DriverInv'
<1>1. DOMAIN wrote' \subseteq Addr
  BY WroteInside DEF WriteSame, DriverInv, TypeOK
<1>2. UNCHANGED <<using_fram, initialised, buffer, dirty, stored, thread, writes, raced>>
  BY DEF WriteSame
<1>3. TypeOK'
  BY <1>1, <1>2 DEF DriverInv, TypeOK
<1>4. BusyInv' /\ CopyInv' /\ ClearInv' /\ OnlyRacesLose'
  BY <1>2 DEF DriverInv, BusyInv, CopyInv, ClearInv, OnlyRacesLose, Unsaved
<1> QED
  BY <1>3, <1>4 DEF DriverInv

\* A write marks its lines, or is a race.
LEMMA WriteBlockDriver ==
    ASSUME NEW b \in Blocks, NEW data \in [1 .. b[2] -> Value], DriverInv, WriteBlock(b, data)
    PROVE  DriverInv'
<1> DEFINE lines == _mark_dirty(b[1], b[2])
<1>1. /\ initialised
      /\ buffer' = Put(buffer, b, data)
      /\ dirty' = dirty \cup lines
  BY OpenEffect DEF WriteBlock, DriverInv
<1>2. /\ InBounds(b) /\ writes < MaxWrites
      /\ raced' = (raced \ lines) \cup Missed(lines)
      /\ wrote' = Put(wrote, b, data) /\ writes' = writes + 1
      /\ UNCHANGED <<using_fram, initialised, stored, thread>>
  BY DEF WriteBlock
<1>3. /\ buffer' \in [Addr -> Value]
      /\ \A a \in Addr : a \notin BytesOf(b) => buffer'[a] = buffer[a]
  BY <1>1, <1>2, PutEffect DEF DriverInv, TypeOK
<1>4. lines \in SUBSET Line /\ Missed(lines) \subseteq lines
  BY DEF _mark_dirty, Missed
<1>5. ASSUME NEW l \in Line, l \notin lines, NEW a \in LineBytes(l)
      PROVE  buffer'[a] = buffer[a]
  <2>1. b[1] \in Nat /\ b[2] \in Nat
    BY <1>2, BlockInside
  <2>2. a \in Addr
    BY LineInside
  <2>3. a \notin BytesOf(b)
    <3> SUFFICES ASSUME a \in BytesOf(b) PROVE FALSE
      OBVIOUS
    <3>1. b[1] <= a /\ a < b[1] + b[2]
      BY <2>1 DEF BytesOf
    <3> QED
      BY <1>5, <2>1, <3>1, MarksAll
  <2> QED
    BY <1>3, <2>2, <2>3
<1> HIDE DEF lines
<1>6. TypeOK'
  <2>1. DOMAIN wrote' \subseteq Addr
    BY <1>2, WroteInside DEF DriverInv, TypeOK
  <2>2. writes' \in 0 .. MaxWrites
    BY <1>2, CallerAssumption DEF DriverInv, TypeOK
  <2> QED
    BY <1>1, <1>2, <1>3, <1>4, <2>1, <2>2 DEF DriverInv, TypeOK
<1>7. dirty' = dirty \cup lines /\ initialised /\ initialised'
  BY <1>1, <1>2
<1>8. BusyInv'
  BY <1>2, <1>7 DEF DriverInv, BusyInv
<1>9. ASSUME thread.pc # "sleep", thread.line \notin raced'
      PROVE  thread.line \in Line /\ thread.line \notin raced /\ thread.line \notin lines
  BY <1>2, <1>9 DEF Missed, DriverInv, TypeOK
<1>10. CopyInv'
  <2>1. ASSUME thread.pc \in {"copy", "program"}, thread.line \notin raced',
               NEW i \in 1 .. Len(thread.blk)
        PROVE  thread.blk[i] = buffer'[thread.line * LineSize + i - 1]
    <3>1. thread.line \in Line /\ thread.line \notin raced /\ thread.line \notin lines
      BY <1>9, <2>1
    <3>2. thread.blk[i] = buffer[thread.line * LineSize + i - 1]
      BY <2>1, <3>1 DEF DriverInv, CopyInv
    <3>3. thread.line * LineSize + i - 1 \in LineBytes(thread.line)
      <4>1. Len(thread.blk) \in Nat /\ Len(thread.blk) <= LineSize
        BY <2>1, SizeAssumption, LenProperties DEF DriverInv, TypeOK, CopyInv
      <4> QED
        BY <3>1, <4>1, LineInside, SizeAssumption DEF LineBytes
    <3> QED
      BY <1>5, <1>7, <3>1, <3>2, <3>3
  <2>2. thread' = thread
    BY <1>2
  <2> QED
    BY <2>1, <2>2 DEF DriverInv, CopyInv
<1>11. ClearInv'
  <2>1. ASSUME thread.pc \in {"load", "store"}, thread.line \notin raced'
        PROVE  ~Unsaved(thread.line)'
    <3>1. thread.line \in Line /\ thread.line \notin raced /\ thread.line \notin lines
      BY <1>9, <2>1
    <3>2. ~Unsaved(thread.line)
      BY <2>1, <3>1 DEF DriverInv, ClearInv
    <3> QED
      BY <1>2, <1>5, <1>7, <3>1, <3>2 DEF Unsaved
  <2>2. ASSUME thread.pc = "store"
        PROVE  dirty' \cap Word(thread.line) \subseteq thread.word \cup raced'
    <3>1. lines \cap Word(thread.line) \subseteq raced'
      BY <1>2, <2>2 DEF Missed
    <3>2. dirty \cap Word(thread.line) \subseteq thread.word \cup raced
      BY <2>2 DEF DriverInv, ClearInv
    <3> QED
      BY <1>2, <1>7, <3>1, <3>2
  <2>3. thread' = thread
    BY <1>2
  <2> QED
    BY <2>1, <2>2, <2>3 DEF ClearInv
<1>12. OnlyRacesLose'
  <2>1. ASSUME NEW l \in Line, Unsaved(l)', l \notin lines PROVE l \in dirty' \cup raced'
    <3>1. Unsaved(l)
      BY <1>2, <1>5, <1>7, <2>1 DEF Unsaved
    <3> QED
      BY <1>2, <1>7, <2>1, <3>1 DEF DriverInv, OnlyRacesLose
  <2> QED
    BY <1>7, <2>1 DEF OnlyRacesLose
<1> QED
  BY <1>6, <1>8, <1>10, <1>11, <1>12 DEF DriverInv

-----------------------------------------------------------------------------
(* Together.                                                               *)

\* Every step of the two threads, and a power failure, keep the invariant.
LEMMA NextDriver == DriverInv /\ [Next]_vars => DriverInv'
<1> SUFFICES ASSUME DriverInv, [Next]_vars PROVE DriverInv'
  OBVIOUS
<1>1. CASE Main
  BY <1>1, ReadBlockDriver, WriteSameDriver, WriteBlockDriver DEF Main
<1>2. CASE Tick
  BY <1>2, TimerTickDriver, CopyDriver, WriteOkDriver, WriteFailedDriver, ClearLoadDriver,
     ClearStoreDriver DEF Tick
<1>3. CASE PowerFail
  BY <1>3, PowerFailDriver
<1>4. CASE UNCHANGED vars
  BY <1>4 DEF vars, DriverInv, TypeOK, BusyInv, CopyInv, ClearInv, OnlyRacesLose, Unsaved
<1> QED
  BY <1>1, <1>2, <1>3, <1>4 DEF Next

\* The driver invariant holds in every reachable state.
THEOREM DriverInvariant == Spec => []DriverInv
BY InitDriver, NextDriver, PTL DEF Spec

\* The state of the storage driver stays in its domain: in particular the lines
\* marked dirty exist, whatever block write_block accepts.
THEOREM DriverTypeCorrect == Spec => []TypeOK
<1>1. DriverInv => TypeOK
  BY DEF DriverInv
<1> QED
  BY <1>1, DriverInvariant, PTL

\* A line that differs from the backend is marked dirty, or was written while the
\* storage thread was saving it or clearing a bit of its mask word.
THEOREM DriverOnlyRacesLose == Spec => []OnlyRacesLose
<1>1. DriverInv => OnlyRacesLose
  BY DEF DriverInv
<1> QED
  BY <1>1, DriverInvariant, PTL

-----------------------------------------------------------------------------
(* What a read returns.                                                    *)

\* Nothing has been written to an image that is not open.
ReadInv == ReadsLastWrite /\ (~initialised => DOMAIN wrote = {})

\* The record of writes and the image change alike.
LEMMA PutAgrees ==
    ASSUME NEW b \in Blocks, InBounds(b), NEW data, DriverInv, ReadsLastWrite,
           NEW a \in DOMAIN Put(wrote, b, data)
    PROVE  /\ a \in Addr
           /\ Put(buffer, b, data)[a] = Put(wrote, b, data)[a]
<1>1. BytesOf(b) \subseteq Addr /\ DOMAIN wrote \subseteq Addr /\ DOMAIN buffer = Addr
  BY BlockInside DEF DriverInv, TypeOK
<1>2. a \in DOMAIN wrote \cup BytesOf(b) /\ a \in DOMAIN buffer \cup BytesOf(b)
  BY <1>1 DEF Put
<1>3. /\ Put(wrote, b, data)[a] = IF a \in BytesOf(b) THEN data[a - b[1] + 1] ELSE wrote[a]
      /\ Put(buffer, b, data)[a] = IF a \in BytesOf(b) THEN data[a - b[1] + 1] ELSE buffer[a]
  BY <1>2 DEF Put
<1> QED
  BY <1>1, <1>2, <1>3 DEF ReadsLastWrite

\* A write of the bytes that are there needs no write.
LEMMA SameIsPut ==
    ASSUME NEW b \in Blocks, InBounds(b), NEW data, DriverInv, Same(b, data), NEW a \in Addr
    PROVE  Put(buffer, b, data)[a] = buffer[a]
<1>1. /\ b[1] \in Nat /\ b[2] \in Nat \ {0} /\ BytesOf(b) \subseteq Addr /\ DOMAIN buffer = Addr
      /\ a \in Nat
  BY BlockInside DEF DriverInv, TypeOK, Addr
<1>2. Put(buffer, b, data)[a] = IF a \in BytesOf(b) THEN data[a - b[1] + 1] ELSE buffer[a]
  BY <1>1 DEF Put
<1>3. ASSUME a \in BytesOf(b) PROVE data[a - b[1] + 1] = buffer[a]
  <2>1. a - b[1] + 1 \in 1 .. b[2] /\ b[1] + (a - b[1] + 1) - 1 = a
    BY <1>1, <1>3 DEF BytesOf
  <2> QED
    BY <2>1 DEF Same
<1> QED
  BY <1>2, <1>3

\* Every step keeps the record of writes and the image in agreement.
LEMMA NextRead == DriverInv /\ ReadInv /\ [Next]_vars => ReadInv'
<1> SUFFICES ASSUME DriverInv, ReadInv, [Next]_vars PROVE ReadInv'
  OBVIOUS
<1>1. ASSUME NEW b \in Blocks, ReadBlock(b) PROVE ReadInv'
  <2>1. initialised' = TRUE /\ wrote' = wrote
    BY <1>1 DEF ReadBlock
  <2>2. initialised => buffer' = buffer
    BY <1>1, OpenEffect DEF ReadBlock, DriverInv
  <2> QED
    BY <2>1, <2>2 DEF ReadInv, ReadsLastWrite
<1>2. ASSUME NEW b \in Blocks, NEW d \in [1 .. b[2] -> Value], WriteSame(b, d) PROVE ReadInv'
  <2>1. /\ initialised' /\ buffer' = buffer /\ wrote' = Put(wrote, b, d)
        /\ InBounds(b) /\ Same(b, d)
    BY <1>2 DEF WriteSame
  <2>2. ASSUME NEW a \in DOMAIN wrote' PROVE buffer'[a] = wrote'[a]
    BY <2>1, PutAgrees, SameIsPut DEF ReadInv
  <2> QED
    BY <2>1, <2>2 DEF ReadInv, ReadsLastWrite
<1>3. ASSUME NEW b \in Blocks, NEW d \in [1 .. b[2] -> Value], WriteBlock(b, d) PROVE ReadInv'
  <2>1. /\ initialised' /\ buffer' = Put(buffer, b, d) /\ wrote' = Put(wrote, b, d)
        /\ InBounds(b)
    BY <1>3, OpenEffect DEF WriteBlock, DriverInv
  <2>2. ASSUME NEW a \in DOMAIN wrote' PROVE buffer'[a] = wrote'[a]
    BY <2>1, PutAgrees DEF ReadInv
  <2> QED
    BY <2>1, <2>2 DEF ReadInv, ReadsLastWrite
<1>4. CASE Tick \/ UNCHANGED vars
  <2>1. UNCHANGED <<initialised, buffer, wrote>>
    BY <1>4 DEF Tick, TimerTick, Copy, Write_Ok, Write_Failed, Clear_Load, Clear_Store, vars
  <2> QED
    BY <2>1 DEF ReadInv, ReadsLastWrite
<1>5. CASE PowerFail
  <2>1. wrote' = <<>> /\ DOMAIN wrote' = {}
    BY <1>5 DEF PowerFail
  <2> QED
    BY <2>1 DEF ReadInv, ReadsLastWrite
<1> QED
  BY <1>1, <1>2, <1>3, <1>4, <1>5 DEF Next, Main

\* read_block returns the bytes last given to write_block, for every storage size
\* and both backends: a power failure is the only thing that takes them back.
THEOREM DriverReadsLastWrite == Spec => []ReadsLastWrite
<1>1. Init => ReadInv
  <2>1. DOMAIN <<>> = {}
    OBVIOUS
  <2> QED
    BY <2>1 DEF Init, ReadInv, ReadsLastWrite
<1>2. ReadInv => ReadsLastWrite
  BY DEF ReadInv
<1> QED
  BY <1>1, <1>2, NextRead, DriverInvariant, PTL DEF Spec
=============================================================================
