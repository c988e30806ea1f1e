------------------------- MODULE FlashStorageProofs -------------------------
(***************************************************************************)
(* Proofs about FlashStorage, for every size of the storage, its blocks    *)
(* and its sectors: the types, that no block leaves its sector, that the   *)
(* log stays readable, and that the reserve is enough.                     *)
(***************************************************************************)
EXTENDS FlashStorage, SequenceTheorems, WellFoundedInduction, TLAPS

-----------------------------------------------------------------------------
(* The frames of the call stack.                                           *)

FrameType == [fn : FunctionNames, pc : Places, x : Nat, y : Nat]

\* Where a function can be, and the parameters it can have there.
FrameOK(f) ==
    /\ f \in FrameType
    /\ f.fn = "caller" => f.pc \in {"off", "idle", "panic", "booting", "storing"}
    /\ f.fn = "write" =>
         /\ f.x + f.y <= StorageSize
         /\ \/ f.pc \in {"start", "loop", "failed"}
            \/ f.y > 0 /\ f.pc \in {"switched", "switched_full", "header", "data", "valid"}
    /\ f.fn = "write_all" => f.pc \in {"start", "wrote"} /\ f.x % MaxWrite = 0
    /\ f.fn = "switch_sectors" => f.pc \in {"start", "in_use"}
    /\ f.fn = "switch_full_sector" => f.pc \in {"start", "written", "erased"}
    /\ f.fn = "erase_sector" => f.pc \in {"start", "mark"} /\ f.x \in Sectors
    /\ f.fn = "erase_all" => f.pc \in {"start", "erased0", "erased1"}
    /\ f.fn = "re_initialise" => f.pc \in {"start", "erased"}
    /\ f.fn = "load_sector" => f.pc = "start" /\ f.x \in Sectors
    /\ f.fn = "init" =>
         /\ f.x \in Sectors
         /\ f.pc \in {"start", "load", "loaded", "rewrite", "rewritten", "erase", "erased"}
         /\ f.pc \in {"load", "erase"} => f.y <= 2
         /\ f.pc \in {"loaded", "erased"} => f.y < 2

\* Frame f waits for a call of fn to return.
Awaits(f, fn) ==
    \/ f.fn = "caller" /\ f.pc = "booting" /\ fn \in {"init", "erase_all"}
    \/ f.fn = "caller" /\ f.pc = "storing" /\ fn = "write"
    \/ f.fn = "write" /\ f.pc = "switched" /\ fn = "switch_sectors"
    \/ f.fn = "write" /\ f.pc = "switched_full" /\ fn \in {"switch_full_sector", "switch_sectors"}
    \/ f.fn = "write" /\ f.pc = "failed" /\ fn \in {"re_initialise", "write_all"}
    \/ f.fn = "write_all" /\ f.pc = "wrote" /\ fn = "write"
    \/ f.fn = "switch_full_sector" /\ f.pc = "written" /\ fn = "write_all"
    \/ f.fn = "switch_full_sector" /\ f.pc = "erased" /\ fn = "erase_sector"
    \/ f.fn = "erase_all" /\ f.pc \in {"erased0", "erased1"} /\ fn = "erase_sector"
    \/ f.fn = "re_initialise" /\ f.pc = "erased" /\ fn = "erase_all"
    \/ f.fn = "init" /\ f.pc = "loaded" /\ fn = "load_sector"
    \/ f.fn = "init" /\ f.pc = "rewritten" /\ fn = "write_all"
    \/ f.fn = "init" /\ f.pc = "erased" /\ fn = "erase_sector"

\* Every frame but the last is one that the frame below it waits for.
StackOK(s) ==
    /\ s \in Seq(FrameType) /\ s # <<>>
    /\ \A i \in 1 .. Len(s) : FrameOK(s[i])
    /\ \A i \in 1 .. Len(s) - 1 : Awaits(s[i + 1], s[i].fn)
    /\ s[Len(s)].fn \in {"caller", "overflow"}

-----------------------------------------------------------------------------
(* The part of the invariant that holds whenever power fails.              *)

BlockOK(b) ==
    /\ b \in Block
    /\ b.state # "AVAILABLE" => b.count > 0
    /\ b.state = "VALID" => Len(b.data) = Bytes(b.count)

\* Every block is whole and ends inside its sector.
FlashOK ==
    /\ flash \in [Sectors -> Sector]
    /\ \A s \in Sectors : \A o \in 0 .. SectorSize - 1 : BlockOK(flash[s].log[o])
    /\ InBounds

\* There is room for a header, the largest block and the reserve.
Fits == obj.write_offset + BlockHdr + MaxWrite + obj.reserved_space <= SectorSize

\* A block is programmed where there is room for the largest one, and the reserve.
RoomInv ==
    /\ top.fn = "write" /\ top.pc \in {"header", "data", "valid"} => Fits
    /\ top.fn = "write" /\ top.pc \in {"switched", "switched_full"} /\ ret => Fits
    /\ At("write", "valid") => Len(obj.chunk) = Bytes(BlockCount(top.y))

\* The answer, the arming and the history of the writes.
OthersOK == ret \in BOOLEAN /\ armed \in BOOLEAN /\ may \in [Addr -> SUBSET Value]

\* The invariant of types and bounds.
TypeInv == FlashOK /\ obj \in Object /\ StackOK(stack) /\ RoomInv /\ OthersOK

-----------------------------------------------------------------------------
(* Arithmetic of blocks.                                                   *)

\* Quotient and remainder.
LEMMA DivMod ==
    ASSUME NEW a \in Nat, NEW b \in Nat \ {0}
    PROVE  /\ a \div b \in Nat
           /\ a % b \in Nat /\ a % b < b /\ a % b <= a
           /\ (a \div b) * b \in Nat
           /\ (a \div b) * b + (a % b) = a
<1> DEFINE q == a \div b
           r == a % b
<1>1. q \in Nat /\ r \in Nat /\ r < b
  BY Z3
<1>2. q * b + r = a
  BY Z3
<1> HIDE DEF q, r
<1>3. q * b \in Nat
  BY <1>1, Z3
<1>4. r <= a
  <2> DEFINE m == q * b
  <2>1. m \in Nat /\ m + r = a
    BY <1>2, <1>3
  <2> HIDE DEF m
  <2> QED
    BY <2>1, <1>1
<1> QED
  BY <1>1, <1>2, <1>3, <1>4, Zenon DEF q, r

\* Products grow with their factors.
LEMMA Monotone ==
    ASSUME NEW m \in Nat, NEW n \in Nat, NEW b \in Nat, m <= n
    PROVE  m * b <= n * b /\ m * b \in Nat /\ (m + 1) * b = m * b + b
BY Z3

\* The sizes are positive numbers.
LEMMA Sizes ==
    /\ StorageSize \in Nat /\ BlockSize \in Nat /\ MaxWrite \in Nat
    /\ SectorSize \in Nat /\ SectorHdr \in Nat /\ BlockHdr \in Nat
    /\ StorageSize > 0 /\ BlockSize > 0 /\ MaxWrite > 0 /\ SectorSize > 0 /\ SectorHdr > 0 /\ BlockHdr > 0
BY SizeAssumption

\* The reserve is a number, and a sector has room for a block in front of it.
LEMMA Reserve ==
    /\ ReserveSize \in Nat
    /\ SectorHdr + BlockHdr + MaxWrite + ReserveSize <= SectorSize
<1>1. StorageSize \div MaxWrite \in Nat
  BY Sizes, DivMod
<1>2. (StorageSize \div MaxWrite) * (BlockHdr + MaxWrite) \in Nat
  BY <1>1, Sizes, Z3
<1> QED
  BY <1>2, Sizes, SizeAssumption DEF ReserveSize

\* A multiple of a whole number of blocks is the product of its quotient.
LEMMA Whole ==
    ASSUME NEW a \in Nat, NEW b \in Nat \ {0}, a % b = 0
    PROVE  (a \div b) * b = a /\ a \div b \in Nat
BY DivMod

\* Rounding up: the least number of blocks that holds m bytes.
LEMMA RoundUp ==
    ASSUME NEW m \in Nat, NEW k \in Nat, m <= k * BlockSize
    PROVE  LET c == (m + BlockSize - 1) \div BlockSize
           IN  /\ c \in Nat /\ c <= k
               /\ c * BlockSize \in Nat /\ m <= c * BlockSize
               /\ m > 0 => c > 0
<1> DEFINE c == (m + BlockSize - 1) \div BlockSize
<1>1. m + BlockSize - 1 \in Nat /\ BlockSize \in Nat \ {0}
  BY Sizes
<1>2. /\ c \in Nat /\ c * BlockSize \in Nat
      /\ \E r \in Nat : r < BlockSize /\ c * BlockSize + r = m + BlockSize - 1
  BY <1>1, DivMod
<1> HIDE DEF c
<1>3. m <= c * BlockSize
  BY <1>2, <1>1
<1>4. c <= k
  <2> SUFFICES ASSUME k + 1 <= c PROVE FALSE
    BY <1>2
  <2>1. (k + 1) * BlockSize <= c * BlockSize /\ (k + 1) * BlockSize = k * BlockSize + BlockSize
    BY <1>2, <1>1, Monotone
  <2>2. k * BlockSize \in Nat
    BY <1>1, Monotone
  <2> QED
    BY <2>1, <2>2, <1>1, <1>2
<1>5. m > 0 => c > 0
  <2> SUFFICES ASSUME m > 0, c = 0 PROVE FALSE
    BY <1>2
  <2>1. c * BlockSize = 0
    BY <1>1
  <2> QED
    BY <2>1, <1>3
<1> QED
  BY <1>2, <1>3, <1>4, <1>5 DEF c

\* A block has at least one and at most MaxWrite bytes.
LEMMA BlockBytes ==
    ASSUME NEW y \in Nat, y > 0
    PROVE  /\ BlockCount(y) \in Nat /\ BlockCount(y) > 0
           /\ Bytes(BlockCount(y)) \in Nat /\ Bytes(BlockCount(y)) <= MaxWrite
<1> DEFINE m == IF y < MaxWrite THEN y ELSE MaxWrite
           k == MaxWrite \div BlockSize
<1>1. m \in Nat /\ m > 0 /\ m <= MaxWrite
  BY Sizes
<1>2. k \in Nat /\ k * BlockSize = MaxWrite
  BY Whole, Sizes, SizeAssumption
<1>3. BlockCount(y) = (m + BlockSize - 1) \div BlockSize
  BY DEF BlockCount
<1> HIDE DEF m, k
<1>4. BlockCount(y) \in Nat /\ BlockCount(y) > 0 /\ BlockCount(y) <= k /\ BlockCount(y) * BlockSize \in Nat
  BY <1>1, <1>2, <1>3, RoundUp
<1>5. BlockCount(y) * BlockSize <= k * BlockSize
  BY <1>2, <1>4, Sizes, Monotone
<1> QED
  BY <1>2, <1>4, <1>5 DEF Bytes

\* The storage is a whole number of blocks.
LEMMA WholeBlocks ==
    \E n \in Nat : n * BlockSize = StorageSize
<1> DEFINE c == StorageSize \div MaxWrite
           k == MaxWrite \div BlockSize
<1>1. c \in Nat /\ c * MaxWrite = StorageSize
  BY Whole, Sizes, SizeAssumption
<1>2. k \in Nat /\ k * BlockSize = MaxWrite
  BY Whole, Sizes, SizeAssumption
<1> HIDE DEF c, k
<1>3. c * (k * BlockSize) = (c * k) * BlockSize /\ c * k \in Nat
  BY <1>1, <1>2, Sizes, Z3
<1> QED
  BY <1>1, <1>2, <1>3

\* The block that write() writes for the bytes from x lies inside the storage.
LEMMA BlockInside ==
    ASSUME NEW x \in Nat, NEW y \in Nat, y > 0, x + y <= StorageSize
    PROVE  /\ BlockNum(x) \in Nat /\ Bytes(BlockNum(x)) \in Nat
           /\ Bytes(BlockNum(x)) + Bytes(BlockCount(y)) <= StorageSize
           /\ Bytes(BlockNum(x)) + (x % BlockSize) = x
           /\ x % BlockSize \in Nat /\ x % BlockSize <= x
<1> DEFINE q == x \div BlockSize
           m == IF y < MaxWrite THEN y ELSE MaxWrite
           c == BlockCount(y)
           r == x % BlockSize
           qb == q * BlockSize
<1>1. q \in Nat /\ qb \in Nat /\ r \in Nat /\ r <= x /\ qb + r = x
  BY Sizes, DivMod
<1>2. PICK n \in Nat : n * BlockSize = StorageSize
  BY WholeBlocks
<1>3. m \in Nat /\ m <= y /\ c = (m + BlockSize - 1) \div BlockSize
  BY Sizes DEF BlockCount
<1>a. Bytes(BlockNum(x)) = qb /\ Bytes(BlockCount(y)) = c * BlockSize /\ BlockNum(x) = q
  BY DEF Bytes, BlockNum
<1>b. qb = q * BlockSize
  OBVIOUS
<1> HIDE DEF q, m, c, r, qb
<1>4. q <= n
  <2> SUFFICES ASSUME n + 1 <= q PROVE FALSE
    BY <1>1, <1>2
  <2>1. (n + 1) * BlockSize <= q * BlockSize /\ (n + 1) * BlockSize = n * BlockSize + BlockSize
    BY <1>1, <1>2, Sizes, Monotone
  <2>2. StorageSize + BlockSize <= qb
    BY <2>1, <1>2, <1>b
  <2> QED
    BY <2>2, <1>1, Sizes
<1>5. n - q \in Nat
  BY <1>1, <1>2, <1>4
<1>6. (n - q) * BlockSize = n * BlockSize - q * BlockSize
  BY <1>1, <1>2, <1>4, Sizes, Z3
<1>7. (n - q) * BlockSize = StorageSize - qb
  BY <1>2, <1>6, <1>b
<1>8. m <= StorageSize - qb
  BY <1>1, <1>3, Sizes
<1>9. c \in Nat /\ c <= n - q
  BY <1>3, <1>5, <1>7, <1>8, RoundUp
<1>10. c * BlockSize <= StorageSize - qb
  <2>1. c * BlockSize <= (n - q) * BlockSize
    BY <1>5, <1>9, Sizes, Monotone
  <2> QED
    BY <2>1, <1>7
<1>11. c * BlockSize \in Nat
  BY <1>9, Sizes, Monotone
<1>12. qb + c * BlockSize <= StorageSize
  <2> DEFINE z == c * BlockSize
  <2>1. z \in Nat /\ z <= StorageSize - qb
    BY <1>10, <1>11
  <2> HIDE DEF z
  <2>2. qb + z <= StorageSize
    BY <2>1, <1>1, Sizes
  <2> QED
    BY <2>2 DEF z
<1> QED
  BY <1>1, <1>12, <1>a, Zenon DEF r

-----------------------------------------------------------------------------
(* What calls, returns and jumps do to the stack.                          *)

\* A new top frame, which the frame below waits for.
LEMMA Replaced ==
    ASSUME NEW s, StackOK(s), NEW f, FrameOK(f),
           Len(s) = 1 => f.fn \in {"caller", "overflow"},
           Len(s) > 1 => Awaits(s[2], f.fn)
    PROVE  LET t == <<f>> \o Tail(s)
           IN  /\ StackOK(t) /\ Len(t) = Len(s) /\ t[1] = f /\ Head(t) = f
               /\ \A i \in 2 .. Len(s) : t[i] = s[i]
<1> DEFINE t == <<f>> \o Tail(s)
<1>1. s \in Seq(FrameType) /\ s # <<>> /\ Len(s) \in Nat /\ Len(s) >= 1
  BY EmptySeq, LenProperties DEF StackOK
<1>2. /\ Tail(s) \in Seq(FrameType) /\ Len(Tail(s)) = Len(s) - 1
      /\ \A i \in 1 .. Len(s) - 1 : Tail(s)[i] = s[i + 1]
  BY <1>1
<1>3. <<f>> \in Seq(FrameType) /\ Len(<<f>>) = 1 /\ <<f>>[1] = f
  BY DEF FrameOK
<1>4. t \in Seq(FrameType) /\ Len(t) = Len(s) /\ t[1] = f /\ \A i \in 2 .. Len(s) : t[i] = s[i]
  BY <1>1, <1>2, <1>3, ConcatProperties
<1> HIDE DEF t
<1>5. t # <<>> /\ Head(t) = f
  BY <1>1, <1>4
<1>6. \A i \in 1 .. Len(t) : FrameOK(t[i])
  BY <1>1, <1>4 DEF StackOK
<1>7. ASSUME NEW i \in 1 .. Len(t) - 1 PROVE Awaits(t[i + 1], t[i].fn)
  <2>1. CASE i = 1
    <3>1. Len(s) > 1 /\ t[i + 1] = s[2] /\ t[i] = f
      BY <1>1, <1>4, <2>1
    <3> QED
      BY <3>1
  <2>2. CASE i # 1
    <3>1. i \in 1 .. Len(s) - 1 /\ t[i + 1] = s[i + 1] /\ t[i] = s[i]
      BY <1>1, <1>4, <2>2
    <3> QED
      BY <3>1 DEF StackOK
  <2> QED
    BY <2>1, <2>2
<1>8. t[Len(t)].fn \in {"caller", "overflow"}
  <2>1. CASE Len(s) = 1
    <3>1. t[Len(t)] = f
      BY <1>4, <2>1
    <3>2. f.fn \in {"caller", "overflow"}
      BY <2>1
    <3> QED
      BY <3>1, <3>2
  <2>2. CASE Len(s) > 1
    <3>1. t[Len(t)] = s[Len(s)]
      BY <1>1, <1>4, <2>2
    <3> QED
      BY <3>1 DEF StackOK
  <2> DEFINE n == Len(s)
  <2>a. n \in Nat /\ n >= 1
    BY <1>1
  <2> HIDE DEF n
  <2>b. n = 1 \/ n > 1
    BY <2>a
  <2>3. Len(s) = 1 \/ Len(s) > 1
    BY <2>b DEF n
  <2> QED
    BY <2>1, <2>2, <2>3, Zenon
<1> QED
  BY <1>4, <1>5, <1>6, <1>7, <1>8 DEF StackOK, t

\* A function of the library has a frame below that waits for it; its return uncovers it.
LEMMA Popped ==
    ASSUME NEW s, StackOK(s), s[1].fn \notin {"caller", "overflow"}
    PROVE  /\ Len(s) > 1 /\ Len(s) \in Nat /\ Awaits(s[2], s[1].fn) /\ FrameOK(s[2])
           /\ StackOK(Tail(s)) /\ Len(Tail(s)) = Len(s) - 1 /\ Head(Tail(s)) = s[2]
           /\ \A i \in 1 .. Len(s) - 1 : Tail(s)[i] = s[i + 1]
<1> DEFINE t == Tail(s)
<1>1. s \in Seq(FrameType) /\ s # <<>> /\ Len(s) \in Nat /\ Len(s) >= 1
  BY EmptySeq, LenProperties DEF StackOK
<1>2. Len(s) > 1
  BY <1>1 DEF StackOK
<1>3. Awaits(s[2], s[1].fn) /\ FrameOK(s[2])
  <2>1. 1 \in 1 .. Len(s) - 1 /\ 2 \in 1 .. Len(s) /\ 1 + 1 = 2
    BY <1>1, <1>2
  <2> QED
    BY <2>1 DEF StackOK
<1>4. t \in Seq(FrameType) /\ Len(t) = Len(s) - 1 /\ \A i \in 1 .. Len(s) - 1 : t[i] = s[i + 1]
  BY <1>1
<1> HIDE DEF t
<1>5. t # <<>> /\ Head(t) = s[2]
  BY <1>1, <1>2, <1>4
<1>6. \A i \in 1 .. Len(t) : FrameOK(t[i])
  BY <1>1, <1>4 DEF StackOK
<1>7. ASSUME NEW i \in 1 .. Len(t) - 1 PROVE Awaits(t[i + 1], t[i].fn)
  <2>1. i + 1 \in 1 .. Len(s) - 1 /\ t[i + 1] = s[(i + 1) + 1] /\ t[i] = s[i + 1]
    BY <1>1, <1>4
  <2> QED
    BY <2>1 DEF StackOK
<1>8. t[Len(t)] = s[Len(s)]
  BY <1>1, <1>2, <1>4
<1>9. t[Len(t)].fn \in {"caller", "overflow"}
  BY <1>8 DEF StackOK
<1> QED
  BY <1>1, <1>2, <1>3, <1>4, <1>5, <1>6, <1>7, <1>9 DEF StackOK, t

\* A call puts a frame on top of its caller's, which now waits for it.
LEMMA Pushed ==
    ASSUME NEW s, StackOK(s), NEW f, FrameOK(f), NEW g, FrameOK(g), g.fn = s[1].fn, Awaits(g, f.fn)
    PROVE  LET t == <<f, g>> \o Tail(s)
           IN  /\ StackOK(t) /\ Len(t) = Len(s) + 1 /\ t[1] = f /\ t[2] = g /\ Head(t) = f
               /\ \A i \in 3 .. Len(t) : t[i] = s[i - 1]
<1> DEFINE t == <<f, g>> \o Tail(s)
<1>1. s \in Seq(FrameType) /\ s # <<>> /\ Len(s) \in Nat /\ Len(s) >= 1
  BY EmptySeq, LenProperties DEF StackOK
<1>2. /\ Tail(s) \in Seq(FrameType) /\ Len(Tail(s)) = Len(s) - 1
      /\ \A i \in 1 .. Len(s) - 1 : Tail(s)[i] = s[i + 1]
  BY <1>1
<1>3. <<f, g>> \in Seq(FrameType) /\ Len(<<f, g>>) = 2 /\ <<f, g>>[1] = f /\ <<f, g>>[2] = g
  BY DEF FrameOK
<1>4. /\ t \in Seq(FrameType) /\ Len(t) = Len(s) + 1 /\ t[1] = f /\ t[2] = g
      /\ \A i \in 3 .. Len(t) : t[i] = s[i - 1]
  BY <1>1, <1>2, <1>3, ConcatProperties
<1> HIDE DEF t
<1>5. t # <<>> /\ Head(t) = f
  BY <1>1, <1>4
<1>6. ASSUME NEW i \in 1 .. Len(t) PROVE FrameOK(t[i])
  <2>1. CASE i \in {1, 2}
    BY <1>4, <2>1
  <2>2. CASE i \notin {1, 2}
    <3>1. i - 1 \in 1 .. Len(s) /\ t[i] = s[i - 1]
      BY <1>1, <1>4, <2>2
    <3> QED
      BY <3>1 DEF StackOK
  <2> QED
    BY <2>1, <2>2
<1>7. ASSUME NEW i \in 1 .. Len(t) - 1 PROVE Awaits(t[i + 1], t[i].fn)
  <2>1. CASE i = 1
    BY <1>4, <2>1
  <2>2. CASE i = 2
    <3>1. 1 \in 1 .. Len(s) - 1 /\ t[i + 1] = s[1 + 1] /\ t[i] = g
      BY <1>1, <1>4, <2>2
    <3>2. Awaits(s[1 + 1], s[1].fn)
      BY <3>1 DEF StackOK
    <3> QED
      BY <3>1, <3>2
  <2>3. CASE i > 2
    <3>1. i - 1 \in 1 .. Len(s) - 1 /\ t[i + 1] = s[(i - 1) + 1] /\ t[i] = s[i - 1]
      BY <1>1, <1>4, <2>3
    <3> QED
      BY <3>1 DEF StackOK
  <2> QED
    BY <2>1, <2>2, <2>3
<1>8. t[Len(t)].fn \in {"caller", "overflow"}
  <2>1. CASE Len(s) = 1
    <3>1. t[Len(t)] = g
      BY <1>4, <2>1
    <3>2. s[Len(s)].fn \in {"caller", "overflow"}
      BY DEF StackOK
    <3>3. s[1].fn \in {"caller", "overflow"}
      BY <3>2, <2>1
    <3> QED
      BY <3>1, <3>3
  <2>2. CASE Len(s) > 1
    <3>1. t[Len(t)] = s[Len(s)]
      BY <1>1, <1>4, <2>2
    <3> QED
      BY <3>1 DEF StackOK
  <2> DEFINE n == Len(s)
  <2>a. n \in Nat /\ n >= 1
    BY <1>1
  <2> HIDE DEF n
  <2>b. n = 1 \/ n > 1
    BY <2>a
  <2>3. Len(s) = 1 \/ Len(s) > 1
    BY <2>b DEF n
  <2> QED
    BY <2>1, <2>2, <2>3, Zenon
<1> QED
  BY <1>4, <1>5, <1>6, <1>7, <1>8 DEF StackOK, t

\* The stack of one frame.
LEMMA Alone ==
    ASSUME NEW f, FrameOK(f), f.fn \in {"caller", "overflow"}
    PROVE  StackOK(<<f>>) /\ Len(<<f>>) = 1 /\ <<f>>[1] = f /\ Head(<<f>>) = f
<1>1. <<f>> \in Seq(FrameType) /\ Len(<<f>>) = 1 /\ <<f>>[1] = f /\ <<f>> # <<>> /\ Head(<<f>>) = f
  BY DEF FrameOK
<1> HIDE DEF FrameOK
<1> QED
  BY <1>1 DEF StackOK

\* The top of a stack.
LEMMA Top ==
    ASSUME StackOK(stack)
    PROVE  /\ stack[1] = top /\ FrameOK(top) /\ top \in FrameType
           /\ Len(stack) \in Nat /\ Len(stack) >= 1
           /\ bottom.fn \in {"caller", "overflow"} /\ FrameOK(bottom)
<1>1. stack \in Seq(FrameType) /\ stack # <<>> /\ Len(stack) \in Nat /\ Len(stack) >= 1
  BY EmptySeq, LenProperties DEF StackOK
<1>2. stack[1] = top
  BY <1>1 DEF top
<1>3. FrameOK(stack[1]) /\ FrameOK(stack[Len(stack)])
  BY <1>1 DEF StackOK
<1>4. top \in FrameType
  BY <1>2, <1>3 DEF FrameOK
<1> QED
  BY <1>1, <1>2, <1>3, <1>4 DEF StackOK, bottom

\* The frame of the function on top, at another place.
LEMMA Jumps ==
    ASSUME StackOK(stack), NEW pc, NEW x, NEW y, FrameOK(Frame(top.fn, pc, x, y)), Goto(pc, x, y)
    PROVE  /\ StackOK(stack') /\ top' = Frame(top.fn, pc, x, y) /\ stack'[1] = top' /\ ~ret' /\ ret' \in BOOLEAN
           /\ Len(stack') = Len(stack) /\ \A i \in 2 .. Len(stack) : stack'[i] = stack[i]
           /\ Len(stack) \in Nat
<1> DEFINE f == Frame(top.fn, pc, x, y)
<1>1. stack' = <<f>> \o Tail(stack) /\ ~ret' /\ ret' \in BOOLEAN
  BY DEF Goto
<1>2. f.fn = top.fn
  BY DEF Frame
<1>3. stack[1] = top /\ Len(stack) \in Nat /\ Len(stack) >= 1
  BY Top
<1>4. FrameOK(f)
  OBVIOUS
<1> HIDE DEF f
<1>5. Len(stack) = 1 => f.fn \in {"caller", "overflow"}
  BY <1>2, <1>3 DEF StackOK
<1>6. Len(stack) > 1 => Awaits(stack[2], f.fn)
  <2> SUFFICES ASSUME Len(stack) > 1 PROVE Awaits(stack[2], f.fn)
    OBVIOUS
  <2>1. 1 \in 1 .. Len(stack) - 1 /\ 1 + 1 = 2
    BY <1>3
  <2> QED
    BY <2>1, <1>2, <1>3 DEF StackOK
<1>7. /\ StackOK(stack') /\ Len(stack') = Len(stack) /\ stack'[1] = f /\ Head(stack') = f
      /\ \A i \in 2 .. Len(stack) : stack'[i] = stack[i]
  BY <1>1, <1>4, <1>5, <1>6, Replaced
<1> QED
  BY <1>1, <1>3, <1>7 DEF top, f

\* return v
LEMMA Returns ==
    ASSUME StackOK(stack), top.fn \notin {"caller", "overflow"}, NEW v \in BOOLEAN, Return(v)
    PROVE  /\ StackOK(stack') /\ top' = stack[2] /\ stack'[1] = top' /\ ret' = v /\ ret' \in BOOLEAN
           /\ Awaits(top', top.fn) /\ FrameOK(top')
           /\ Len(stack) > 1 /\ Len(stack) \in Nat /\ Len(stack') = Len(stack) - 1
           /\ \A i \in 1 .. Len(stack) - 1 : stack'[i] = stack[i + 1]
<1>1. stack' = Tail(stack) /\ ret' = v
  BY DEF Return
<1>2. stack[1] = top /\ Len(stack) \in Nat
  BY Top
<1>3. /\ Len(stack) > 1 /\ Awaits(stack[2], top.fn) /\ FrameOK(stack[2])
      /\ StackOK(stack') /\ Len(stack') = Len(stack) - 1 /\ Head(stack') = stack[2]
      /\ \A i \in 1 .. Len(stack) - 1 : stack'[i] = stack[i + 1]
  BY <1>1, <1>2, Popped
<1>4. stack'[1] = stack[2]
  BY <1>2, <1>3
<1> QED
  BY <1>1, <1>2, <1>3, <1>4 DEF top

\* Call fn(x, y), or overrun the stack.
LEMMA Calls ==
    ASSUME StackOK(stack), NEW pc, NEW fn, NEW x, NEW y,
           FrameOK(Frame(fn, "start", x, y)), FrameOK(Frame(top.fn, pc, top.x, top.y)),
           Awaits(Frame(top.fn, pc, top.x, top.y), fn), Call(pc, fn, x, y)
    PROVE  /\ StackOK(stack') /\ stack'[1] = top' /\ ~ret' /\ ret' \in BOOLEAN
           /\ \/ /\ top' = Frame(fn, "start", x, y)
                 /\ stack'[2] = Frame(top.fn, pc, top.x, top.y)
                 /\ Len(stack') = Len(stack) + 1
                 /\ \A i \in 3 .. Len(stack') : stack'[i] = stack[i - 1]
              \/ /\ top' = Frame("overflow", "start", 0, 0) /\ Len(stack') = 1
                 /\ Len(stack) >= StackLimit
           /\ Len(stack) \in Nat
<1> DEFINE f == Frame(fn, "start", x, y)
           g == Frame(top.fn, pc, top.x, top.y)
           h == Frame("overflow", "start", 0, 0)
<1>1. FrameOK(f) /\ FrameOK(g) /\ Awaits(g, fn)
  OBVIOUS
<1>2. f.fn = fn /\ g.fn = top.fn /\ h.fn = "overflow"
  BY DEF Frame
<1>3. stack' = (IF Len(stack) < StackLimit THEN <<f, g>> \o Tail(stack) ELSE <<h>>) /\ ~ret' /\ ret' \in BOOLEAN
  BY DEF Call
<1>4. stack[1] = top /\ Len(stack) \in Nat /\ Len(stack) >= 1 /\ StackLimit \in Nat
  BY Top, CallerAssumption
<1>5. FrameOK(h)
  BY Sizes DEF FrameOK, Frame, FrameType, FunctionNames, Places
<1> HIDE DEF f, g, h
<1>6. CASE Len(stack) < StackLimit
  <2>1. stack' = <<f, g>> \o Tail(stack)
    BY <1>3, <1>6
  <2>2. /\ StackOK(stack') /\ Len(stack') = Len(stack) + 1 /\ stack'[1] = f /\ stack'[2] = g /\ Head(stack') = f
        /\ \A i \in 3 .. Len(stack') : stack'[i] = stack[i - 1]
    BY <2>1, <1>1, <1>2, <1>4, Pushed
  <2> QED
    BY <2>2, <1>3, <1>4 DEF top, f, g
<1>7. CASE ~(Len(stack) < StackLimit)
  <2>1. stack' = <<h>>
    BY <1>3, <1>7
  <2>2. StackOK(stack') /\ Len(stack') = 1 /\ stack'[1] = h /\ Head(stack') = h
    BY <2>1, <1>2, <1>5, Alone
  <2> QED
    BY <2>2, <1>3, <1>4, <1>7 DEF top, h
<1> QED
  BY <1>6, <1>7

\* return fn(x, y)
LEMMA TailCalls ==
    ASSUME StackOK(stack), top.fn \notin {"caller", "overflow"}, NEW fn, NEW x, NEW y,
           FrameOK(Frame(fn, "start", x, y)), Awaits(stack[2], fn), TailCall(fn, x, y)
    PROVE  /\ StackOK(stack') /\ top' = Frame(fn, "start", x, y) /\ stack'[1] = top' /\ ~ret' /\ ret' \in BOOLEAN
           /\ Len(stack') = Len(stack) /\ Len(stack) > 1 /\ Len(stack) \in Nat
           /\ \A i \in 2 .. Len(stack) : stack'[i] = stack[i]
<1> DEFINE f == Frame(fn, "start", x, y)
<1>1. stack' = <<f>> \o Tail(stack) /\ ~ret' /\ ret' \in BOOLEAN
  BY DEF TailCall
<1>2. f.fn = fn /\ FrameOK(f)
  BY DEF Frame
<1>3. stack[1] = top /\ Len(stack) \in Nat /\ Len(stack) > 1
  BY Top, Popped
<1> HIDE DEF f
<1>4. Len(stack) = 1 => f.fn \in {"caller", "overflow"}
  BY <1>3
<1>5. /\ StackOK(stack') /\ Len(stack') = Len(stack) /\ stack'[1] = f /\ Head(stack') = f
      /\ \A i \in 2 .. Len(stack) : stack'[i] = stack[i]
  BY <1>1, <1>2, <1>3, <1>4, Replaced
<1> QED
  BY <1>1, <1>3, <1>5 DEF top, f

-----------------------------------------------------------------------------
(* What the flash operations do to the sectors.                            *)

\* The offsets of a sector.
Offsets == 0 .. SectorSize - 1

\* One sector changes, to another sector.
LEMMA SectorChanges ==
    ASSUME flash \in [Sectors -> Sector], NEW s \in Sectors, NEW new \in Sector,
           flash' = [flash EXCEPT ![s] = new]
    PROVE  flash' \in [Sectors -> Sector] /\ flash'[s] = new /\ \A t \in Sectors : t # s => flash'[t] = flash[t]
OBVIOUS

\* The fields of a sector.
LEMMA SectorFields ==
    ASSUME flash \in [Sectors -> Sector], NEW s \in Sectors
    PROVE  flash[s] \in Sector /\ flash[s].header \in HeaderStates /\ flash[s].log \in [Offsets -> Block]
BY DEF Sector, Offsets

\* A change of the header leaves the log alone.
LEMMA HeaderSet ==
    ASSUME flash \in [Sectors -> Sector], NEW s \in Sectors, NEW h \in HeaderStates, SetHeader(s, h)
    PROVE  /\ flash' \in [Sectors -> Sector]
           /\ flash'[s].header = h /\ \A t \in Sectors : t # s => flash'[t].header = flash[t].header
           /\ \A t \in Sectors : flash'[t].log = flash[t].log
<1> DEFINE new == [flash[s] EXCEPT !.header = h]
<1>1. flash[s] \in Sector
  BY SectorFields
<1>2. new \in Sector /\ new.header = h /\ new.log = flash[s].log
  BY <1>1 DEF Sector
<1>3. flash' = [flash EXCEPT ![s] = new]
  BY DEF SetHeader
<1> HIDE DEF new
<1>4. flash' \in [Sectors -> Sector] /\ flash'[s] = new /\ \A t \in Sectors : t # s => flash'[t] = flash[t]
  BY <1>2, <1>3, SectorChanges
<1> QED
  BY <1>2, <1>4

\* A block is programmed at write_offset of the current sector.
LEMMA Programs ==
    ASSUME flash \in [Sectors -> Sector], obj \in Object, NEW b \in Block, ProgramBlock(b),
           obj.write_offset \in Offsets
    PROVE  /\ flash' \in [Sectors -> Sector]
           /\ flash'[current].log = [flash[current].log EXCEPT ![obj.write_offset] = b]
           /\ flash'[current].log[obj.write_offset] = b
           /\ \A o \in Offsets : o # obj.write_offset => flash'[current].log[o] = flash[current].log[o]
           /\ flash'[current].header = IF OverHeader THEN "BAD" ELSE flash[current].header
           /\ \A t \in Sectors : t # current => flash'[t] = flash[t]
           /\ current \in Sectors
<1> DEFINE w == obj.write_offset
           c == current
           lg == [flash[c].log EXCEPT ![w] = b]
           hd == IF OverHeader THEN "BAD" ELSE flash[c].header
           new == [flash[c] EXCEPT !.log = lg, !.header = hd]
<1>1. c \in Sectors
  BY DEF current, Object
<1>2. flash[c] \in Sector /\ flash[c].header \in HeaderStates /\ flash[c].log \in [Offsets -> Block]
  BY <1>1, SectorFields
<1>3. lg \in [Offsets -> Block] /\ lg[w] = b /\ \A o \in Offsets : o # w => lg[o] = flash[c].log[o]
  BY <1>2
<1>4. hd \in HeaderStates
  BY <1>2 DEF HeaderStates
<1>6. flash' = [flash EXCEPT ![c] = new]
  BY <1>2, <1>1 DEF ProgramBlock, Sector
<1>7. new \in Sector /\ new.header = hd /\ new.log = lg
  <2> HIDE DEF lg, hd
  <2> QED
    BY <1>2, <1>3, <1>4 DEF Sector, Offsets
<1> HIDE DEF new, lg, hd, c, w
<1>8. flash' \in [Sectors -> Sector] /\ flash'[c] = new /\ \A t \in Sectors : t # c => flash'[t] = flash[t]
  BY <1>1, <1>6, <1>7, SectorChanges
<1> QED
  BY <1>1, <1>3, <1>7, <1>8 DEF c, w, lg, hd

\* Headers come and go without harm.
LEMMA HeaderOK ==
    ASSUME FlashOK, NEW s \in Sectors, NEW h \in HeaderStates, SetHeader(s, h)
    PROVE  FlashOK'
<1>1. flash' \in [Sectors -> Sector] /\ \A t \in Sectors : flash'[t].log = flash[t].log
  BY HeaderSet DEF FlashOK
<1> QED
  BY <1>1 DEF FlashOK, InBounds, Programmed, EndOf

\* Blocks that fit stay inside the sector.
LEMMA ProgramOK ==
    ASSUME FlashOK, obj \in Object, NEW b, BlockOK(b), ProgramBlock(b), b.state # "AVAILABLE",
           obj.write_offset + BlockHdr + Bytes(b.count) <= SectorSize, Bytes(b.count) \in Nat
    PROVE  FlashOK'
<1>1. obj.write_offset \in Nat /\ flash \in [Sectors -> Sector] /\ b \in Block
  BY DEF Object, FlashOK, BlockOK
<1>2. obj.write_offset \in Offsets
  <2> DEFINE w == obj.write_offset
             n == Bytes(b.count)
  <2>1. w \in Nat /\ n \in Nat /\ w + BlockHdr + n <= SectorSize
    BY <1>1
  <2> HIDE DEF w, n
  <2>2. w \in 0 .. SectorSize - 1
    BY <2>1, Sizes
  <2> QED
    BY <2>2 DEF w, Offsets
<1>3. /\ flash' \in [Sectors -> Sector]
      /\ flash'[current].log[obj.write_offset] = b
      /\ \A o \in Offsets : o # obj.write_offset => flash'[current].log[o] = flash[current].log[o]
      /\ \A t \in Sectors : t # current => flash'[t] = flash[t]
      /\ current \in Sectors
  BY <1>1, <1>2, Programs
<1>4. ASSUME NEW s \in Sectors, NEW o \in Offsets
      PROVE  BlockOK(flash'[s].log[o])
  BY <1>3 DEF FlashOK, Offsets
<1>5. ASSUME NEW s \in Sectors, NEW o \in Offsets, flash'[s].log[o].state # "AVAILABLE"
      PROVE  o + BlockHdr + Bytes(flash'[s].log[o].count) <= SectorSize
  <2>1. CASE s = current /\ o = obj.write_offset
    BY <1>3, <2>1
  <2>2. CASE ~(s = current /\ o = obj.write_offset)
    <3>1. flash'[s].log[o] = flash[s].log[o]
      BY <1>3, <2>2
    <3> QED
      BY <3>1, <1>5 DEF FlashOK, InBounds, Programmed, EndOf, Offsets
  <2> QED
    BY <2>1, <2>2
<1> QED
  BY <1>3, <1>4, <1>5 DEF FlashOK, InBounds, Programmed, EndOf, Offsets

\* An erased sector has no blocks.
LEMMA Erases ==
    ASSUME flash \in [Sectors -> Sector], NEW s \in Sectors, flash' = [flash EXCEPT ![s] = ErasedSector]
    PROVE  /\ flash' \in [Sectors -> Sector]
           /\ flash'[s].header = "BAD" /\ \A o \in Offsets : flash'[s].log[o] = Erased
           /\ \A t \in Sectors : t # s => flash'[t] = flash[t]
<1>1. Erased \in Block
  <2>1. <<>> \in Seq(Value)
    OBVIOUS
  <2> QED
    BY <2>1 DEF Erased, Block
<1>2. /\ ErasedSector \in Sector /\ ErasedSector.header = "BAD"
      /\ \A o \in Offsets : ErasedSector.log[o] = Erased
  BY <1>1 DEF ErasedSector, Sector, HeaderStates, Offsets
<1>3. /\ flash' \in [Sectors -> Sector] /\ flash'[s] = ErasedSector
      /\ \A t \in Sectors : t # s => flash'[t] = flash[t]
  BY <1>2, SectorChanges
<1> QED
  BY <1>2, <1>3

\* Neither does a sector that is erased leave a block outside.
LEMMA EraseOK ==
    ASSUME FlashOK, NEW s \in Sectors, flash' = [flash EXCEPT ![s] = ErasedSector]
    PROVE  FlashOK'
<1>1. /\ flash' \in [Sectors -> Sector]
      /\ \A o \in Offsets : flash'[s].log[o] = Erased
      /\ \A t \in Sectors : t # s => flash'[t] = flash[t]
  BY Erases DEF FlashOK
<1>2. BlockOK(Erased) /\ Erased.state = "AVAILABLE"
  <2>1. <<>> \in Seq(Value)
    OBVIOUS
  <2> QED
    BY <2>1 DEF Erased, Block, BlockOK
<1> QED
  BY <1>1, <1>2 DEF FlashOK, InBounds, Programmed, EndOf, Offsets

-----------------------------------------------------------------------------
(* The types are kept: one lemma for each way a step ends, one for each    *)
(* action.                                                                 *)

\* The members of the object.
LEMMA Members ==
    ASSUME obj \in Object
    PROVE  /\ obj.mem_buffer \in [Addr -> Value] /\ obj.current_sector \in Sectors /\ obj.write_offset \in Nat
           /\ obj.reserved_space \in {0, ReserveSize} /\ obj.write_error \in BOOLEAN
           /\ obj.states \in [Sectors -> HeaderStates] /\ obj.chunk \in Seq(Value)
           /\ current \in Sectors /\ Other(current) \in Sectors /\ current = obj.current_sector
           /\ obj.reserved_space \in Nat /\ Other(current) # current
BY Reserve DEF Object, current, Other, Sectors

\* A return.
LEMMA ReturnOK ==
    ASSUME TypeInv, top.fn \notin {"caller", "overflow"}, NEW v \in BOOLEAN, Return(v),
           top.fn \in {"switch_sectors", "switch_full_sector"} /\ v => Fits',
           FlashOK', obj' \in Object, UNCHANGED <<armed, may>>
    PROVE  TypeInv'
<1>1. StackOK(stack') /\ ret' = v /\ ret' \in BOOLEAN /\ Awaits(top', top.fn)
  BY Returns DEF TypeInv
<1>2. RoomInv'
  BY <1>1 DEF RoomInv, Awaits, At
<1> QED
  BY <1>1, <1>2 DEF TypeInv, OthersOK

\* A jump.
LEMMA GotoOK ==
    ASSUME TypeInv, NEW pc, NEW x, NEW y, FrameOK(Frame(top.fn, pc, x, y)), Goto(pc, x, y),
           top.fn = "write" /\ pc \in {"header", "data", "valid"} => Fits',
           top.fn = "write" /\ pc = "valid" => Len(obj'.chunk) = Bytes(BlockCount(y)),
           FlashOK', obj' \in Object, UNCHANGED <<armed, may>>
    PROVE  TypeInv'
<1>1. StackOK(stack') /\ ~ret' /\ ret' \in BOOLEAN /\ top' = Frame(top.fn, pc, x, y)
  BY Jumps DEF TypeInv
<1>2. top'.fn = top.fn /\ top'.pc = pc /\ top'.y = y
  BY <1>1 DEF Frame
<1>3. RoomInv'
  BY <1>1, <1>2 DEF RoomInv, At
<1> QED
  BY <1>1, <1>3 DEF TypeInv, OthersOK

\* The new frame of a call, or an overrun.
LEMMA StartOK ==
    ASSUME StackOK(stack'), NEW fn, NEW x, NEW y, OthersOK',
           top' = Frame(fn, "start", x, y) \/ top' = Frame("overflow", "start", 0, 0),
           FlashOK', obj' \in Object
    PROVE  TypeInv'
<1>1. top'.pc = "start"
  BY DEF Frame
<1>2. RoomInv'
  BY <1>1 DEF RoomInv, At
<1> QED
  BY <1>2 DEF TypeInv

\* A call.
LEMMA CallOK ==
    ASSUME TypeInv, NEW pc, NEW fn, NEW x, NEW y,
           FrameOK(Frame(fn, "start", x, y)), FrameOK(Frame(top.fn, pc, top.x, top.y)),
           Awaits(Frame(top.fn, pc, top.x, top.y), fn), Call(pc, fn, x, y),
           FlashOK', obj' \in Object, armed' \in BOOLEAN, may' \in [Addr -> SUBSET Value]
    PROVE  TypeInv'
<1>1. /\ StackOK(stack') /\ ret' \in BOOLEAN
      /\ top' = Frame(fn, "start", x, y) \/ top' = Frame("overflow", "start", 0, 0)
  BY Calls DEF TypeInv
<1> QED
  BY <1>1, StartOK DEF OthersOK

\* A call in the place of the caller.
LEMMA TailCallOK ==
    ASSUME TypeInv, top.fn \notin {"caller", "overflow"}, NEW fn, NEW x, NEW y,
           FrameOK(Frame(fn, "start", x, y)), Awaits(stack[2], fn), TailCall(fn, x, y),
           FlashOK', obj' \in Object, UNCHANGED <<armed, may>>
    PROVE  TypeInv'
<1>1. StackOK(stack') /\ ret' \in BOOLEAN /\ top' = Frame(fn, "start", x, y)
  BY TailCalls DEF TypeInv
<1> QED
  BY <1>1, StartOK DEF OthersOK, TypeInv

\* Flash and the object stay as they are.
LEMMA Same ==
    ASSUME TypeInv, UNCHANGED <<flash, obj>>
    PROVE  FlashOK' /\ obj' \in Object /\ (Fits => Fits')
BY DEF TypeInv, FlashOK, InBounds, Programmed, EndOf, Fits

\* What the invariant says of the frame on top.
LEMMA TopOK ==
    ASSUME TypeInv
    PROVE  /\ FrameOK(top) /\ top.fn \in FunctionNames /\ top.x \in Nat /\ top.y \in Nat
           /\ top = Frame(top.fn, top.pc, top.x, top.y)
           /\ top.fn \notin {"caller", "overflow"} => Awaits(stack[2], top.fn)
<1>1. FrameOK(top) /\ top \in FrameType /\ stack[1] = top
  BY Top DEF TypeInv
<1>2. top.fn \notin {"caller", "overflow"} => Awaits(stack[2], top.fn)
  BY <1>1, Popped DEF TypeInv
<1> QED
  BY <1>1, <1>2 DEF FrameType, Frame

\* The frames of functions that do not look at their parameters.
LEMMA PlainFrame ==
    /\ FrameOK(Frame("switch_sectors", "start", 0, 0)) /\ FrameOK(Frame("switch_sectors", "in_use", 0, 0))
    /\ FrameOK(Frame("switch_full_sector", "start", 0, 0)) /\ FrameOK(Frame("erase_all", "start", 0, 0))
    /\ FrameOK(Frame("re_initialise", "start", 0, 0)) /\ FrameOK(Frame("init", "start", 0, 0))
    /\ FrameOK(Frame("overflow", "start", 0, 0)) /\ FrameOK(Frame("write_all", "start", 0, 0))
    /\ \A s \in Sectors : FrameOK(Frame("erase_sector", "start", s, 0)) /\ FrameOK(Frame("erase_sector", "mark", s, 0))
    /\ \A s \in Sectors : \A y \in Nat : FrameOK(Frame("load_sector", "start", s, y))
    /\ \A pc \in {"off", "idle", "panic", "booting", "storing"} : FrameOK(Frame("caller", pc, 0, 0))
<1>1. 0 % MaxWrite = 0
  BY Sizes, DivMod
<1> QED
  BY <1>1, Sizes DEF FrameOK, Frame, FrameType, FunctionNames, Places, Sectors

\* write(): the loop.
LEMMA Write_LoopOK ==
    ASSUME TypeInv, Write_Loop, UNCHANGED <<armed, may>>
    PROVE  TypeInv'
<1>1. /\ FrameOK(top) /\ top.fn = "write" /\ top.pc \in {"start", "loop"} /\ top.x \in Nat /\ top.y \in Nat
      /\ top.x + top.y <= StorageSize
  BY TopOK DEF Write_Loop, At, FrameOK
<1>2. FlashOK' /\ obj' \in Object /\ (Fits => Fits')
  BY Same DEF Write_Loop
<1>3. CASE \E v \in BOOLEAN : Return(v)
  BY <1>1, <1>2, <1>3, ReturnOK
<1>4. CASE top.y > 0 /\ NoRoom /\ Call("switched", "switch_sectors", 0, 0)
  <2>1. FrameOK(Frame(top.fn, "switched", top.x, top.y))
    BY <1>1, <1>4 DEF FrameOK, Frame, FrameType, FunctionNames, Places
  <2>2. Awaits(Frame(top.fn, "switched", top.x, top.y), "switch_sectors")
    BY <1>1 DEF Frame, Awaits
  <2> QED
    BY <2>1, <2>2, <1>2, <1>4, PlainFrame, CallOK DEF TypeInv, OthersOK
<1>5. CASE top.y > 0 /\ ~NoRoom /\ Goto("header", top.x, top.y)
  <2>1. FrameOK(Frame(top.fn, "header", top.x, top.y))
    BY <1>1, <1>5 DEF FrameOK, Frame, FrameType, FunctionNames, Places
  <2>2. Fits
    BY <1>5, Sizes, Members DEF NoRoom, Fits, TypeInv
  <2> QED
    BY <2>1, <2>2, <1>2, <1>5, GotoOK
<1> QED
  BY <1>3, <1>4, <1>5 DEF Write_Loop

\* write(): switch_sectors() has returned.
LEMMA Write_SwitchedOK ==
    ASSUME TypeInv, Write_Switched, UNCHANGED <<armed, may>>
    PROVE  TypeInv'
<1>1. /\ FrameOK(top) /\ top.fn = "write" /\ top.pc = "switched" /\ top.x \in Nat /\ top.y \in Nat
      /\ top.x + top.y <= StorageSize /\ top.y > 0
  BY TopOK DEF Write_Switched, At, FrameOK
<1>2. FlashOK' /\ obj' \in Object /\ (Fits => Fits')
  BY Same DEF Write_Switched
<1>3. CASE ret /\ Goto("header", top.x, top.y)
  <2>1. FrameOK(Frame(top.fn, "header", top.x, top.y))
    BY <1>1, <1>3 DEF FrameOK, Frame, FrameType, FunctionNames, Places
  <2>2. Fits
    BY <1>1, <1>3 DEF RoomInv, TypeInv
  <2> QED
    BY <2>1, <2>2, <1>2, <1>3, GotoOK
<1>4. CASE Return(FALSE)
  BY <1>1, <1>2, <1>4, ReturnOK
<1>5. CASE Call("switched_full", "switch_full_sector", 0, 0)
  <2>1. FrameOK(Frame(top.fn, "switched_full", top.x, top.y))
    BY <1>1 DEF FrameOK, Frame, FrameType, FunctionNames, Places
  <2>2. Awaits(Frame(top.fn, "switched_full", top.x, top.y), "switch_full_sector")
    BY <1>1 DEF Frame, Awaits
  <2> QED
    BY <2>1, <2>2, <1>2, <1>5, PlainFrame, CallOK DEF TypeInv, OthersOK
<1> QED
  BY <1>3, <1>4, <1>5 DEF Write_Switched

\* write(): switch_full_sector() has returned.
LEMMA Write_SwitchedFullOK ==
    ASSUME TypeInv, Write_SwitchedFull, UNCHANGED <<armed, may>>
    PROVE  TypeInv'
<1>1. /\ FrameOK(top) /\ top.fn = "write" /\ top.pc = "switched_full" /\ top.x \in Nat /\ top.y \in Nat
      /\ top.x + top.y <= StorageSize /\ top.y > 0
  BY TopOK DEF Write_SwitchedFull, At, FrameOK
<1>2. FlashOK' /\ obj' \in Object /\ (Fits => Fits')
  BY Same DEF Write_SwitchedFull
<1>3. CASE ret /\ Goto("header", top.x, top.y)
  <2>1. FrameOK(Frame(top.fn, "header", top.x, top.y))
    BY <1>1, <1>3 DEF FrameOK, Frame, FrameType, FunctionNames, Places
  <2>2. Fits
    BY <1>1, <1>3 DEF RoomInv, TypeInv
  <2> QED
    BY <2>1, <2>2, <1>2, <1>3, GotoOK
<1>4. CASE Return(FALSE)
  BY <1>1, <1>2, <1>4, ReturnOK
<1> QED
  BY <1>3, <1>4 DEF Write_SwitchedFull

\* A frame of write() at a place where it programs a block.
LEMMA AtBlock ==
    ASSUME TypeInv, top.fn = "write", top.pc \in {"header", "data", "valid"}
    PROVE  /\ top.x \in Nat /\ top.y \in Nat /\ top.x + top.y <= StorageSize /\ top.y > 0
           /\ Fits /\ BlockCount(top.y) \in Nat /\ BlockCount(top.y) > 0
           /\ Bytes(BlockCount(top.y)) \in Nat /\ Bytes(BlockCount(top.y)) <= MaxWrite
           /\ obj.write_offset + BlockHdr + Bytes(BlockCount(top.y)) <= SectorSize
           /\ obj.write_offset \in Offsets
<1>1. top.x \in Nat /\ top.y \in Nat /\ top.x + top.y <= StorageSize /\ top.y > 0
  BY TopOK DEF FrameOK
<1>2. Fits
  BY DEF TypeInv, RoomInv
<1>3. /\ BlockCount(top.y) \in Nat /\ BlockCount(top.y) > 0
      /\ Bytes(BlockCount(top.y)) \in Nat /\ Bytes(BlockCount(top.y)) <= MaxWrite
  BY <1>1, BlockBytes
<1> DEFINE n == Bytes(BlockCount(top.y))
           w == obj.write_offset
           r == obj.reserved_space
<1>4. n \in Nat /\ n <= MaxWrite /\ w \in Nat /\ r \in Nat /\ w + BlockHdr + MaxWrite + r <= SectorSize
  BY <1>2, <1>3, Members DEF TypeInv, Fits
<1> HIDE DEF n, w, r
<1>5. w + BlockHdr + n <= SectorSize /\ w \in 0 .. SectorSize - 1
  BY <1>4, Sizes
<1> QED
  BY <1>1, <1>2, <1>3, <1>5 DEF n, w, Offsets

\* write(): the header of the block.
LEMMA Write_HeaderOK ==
    ASSUME TypeInv, Write_Header, UNCHANGED <<armed, may>>
    PROVE  TypeInv'
<1> DEFINE b == [Erased EXCEPT !.state = "WRITING", !.count = BlockCount(top.y)]
<1>1. top.fn = "write" /\ top.pc = "header" /\ UNCHANGED obj /\ ProgramBlock(b)
  BY DEF Write_Header, At
<1>2. /\ top.x \in Nat /\ top.y \in Nat /\ top.x + top.y <= StorageSize /\ top.y > 0
      /\ Fits /\ BlockCount(top.y) \in Nat /\ BlockCount(top.y) > 0
      /\ Bytes(BlockCount(top.y)) \in Nat
      /\ obj.write_offset + BlockHdr + Bytes(BlockCount(top.y)) <= SectorSize
  BY <1>1, AtBlock
<1>3. BlockOK(b) /\ b.state = "WRITING" /\ b.count = BlockCount(top.y)
  <2>1. <<>> \in Seq(Value)
    OBVIOUS
  <2> QED
    BY <1>2, <2>1 DEF BlockOK, Block, Erased
<1> HIDE DEF b
<1>4. FlashOK'
  BY <1>1, <1>2, <1>3, ProgramOK DEF TypeInv
<1>5. obj' \in Object /\ Fits'
  BY <1>1, <1>2 DEF TypeInv, Fits
<1>6. CASE Goto("data", top.x, top.y)
  <2>1. FrameOK(Frame(top.fn, "data", top.x, top.y))
    BY <1>1, <1>2 DEF FrameOK, Frame, FrameType, FunctionNames, Places
  <2> QED
    BY <2>1, <1>4, <1>5, <1>6, GotoOK
<1>7. CASE Return(FALSE)
  BY <1>1, <1>4, <1>5, <1>7, ReturnOK
<1> QED
  BY <1>6, <1>7 DEF Write_Header

\* The bytes of the block, read from the image.
LEMMA ChunkOK ==
    ASSUME TypeInv, top.fn = "write", top.pc = "data"
    PROVE  LET c == [i \in 1 .. Bytes(BlockCount(top.y)) |-> obj.mem_buffer[Bytes(BlockNum(top.x)) + i - 1]]
           IN  c \in Seq(Value) /\ Len(c) = Bytes(BlockCount(top.y))
<1> DEFINE n == Bytes(BlockCount(top.y))
           q == Bytes(BlockNum(top.x))
           c == [i \in 1 .. n |-> obj.mem_buffer[q + i - 1]]
<1>1. top.x \in Nat /\ top.y \in Nat /\ top.x + top.y <= StorageSize /\ top.y > 0 /\ n \in Nat
  BY AtBlock
<1>2. q \in Nat /\ q + n <= StorageSize
  BY <1>1, BlockInside
<1>3. obj.mem_buffer \in [Addr -> Value]
  BY Members DEF TypeInv
<1> HIDE DEF n, q
<1>4. ASSUME NEW i \in 1 .. n PROVE obj.mem_buffer[q + i - 1] \in Value
  <2>1. q + i - 1 \in 0 .. StorageSize - 1
    BY <1>1, <1>2, Sizes
  <2> QED
    BY <2>1, <1>3 DEF Addr
<1>5. c \in Seq(Value) /\ Len(c) = n
  BY <1>1, <1>4, IsASeq
<1> QED
  BY <1>5 DEF n, q, c

\* write(): the data of the block.
LEMMA Write_DataOK ==
    ASSUME TypeInv, Write_Data, UNCHANGED <<armed, may>>
    PROVE  TypeInv'
<1> DEFINE c == [i \in 1 .. Bytes(BlockCount(top.y)) |-> obj.mem_buffer[Bytes(BlockNum(top.x)) + i - 1]]
<1>1. top.fn = "write" /\ top.pc = "data" /\ UNCHANGED flash /\ obj' = [obj EXCEPT !.chunk = c]
  BY DEF Write_Data, At
<1>2. /\ top.x \in Nat /\ top.y \in Nat /\ top.x + top.y <= StorageSize /\ top.y > 0 /\ Fits
  BY <1>1, AtBlock
<1>3. c \in Seq(Value) /\ Len(c) = Bytes(BlockCount(top.y))
  BY <1>1, ChunkOK
<1> HIDE DEF c
<1>4. FlashOK'
  BY <1>1 DEF TypeInv, FlashOK, InBounds, Programmed, EndOf
<1>5. obj' \in Object /\ obj'.chunk = c /\ obj'.write_offset = obj.write_offset /\ obj'.reserved_space = obj.reserved_space
  BY <1>1, <1>3 DEF TypeInv, Object
<1>6. Fits'
  BY <1>2, <1>5 DEF Fits
<1>7. CASE Goto("valid", top.x, top.y)
  <2>1. FrameOK(Frame(top.fn, "valid", top.x, top.y))
    BY <1>1, <1>2 DEF FrameOK, Frame, FrameType, FunctionNames, Places
  <2> QED
    BY <2>1, <1>3, <1>4, <1>5, <1>6, <1>7, GotoOK
<1>8. CASE Return(FALSE)
  BY <1>1, <1>4, <1>5, <1>8, ReturnOK
<1> QED
  BY <1>7, <1>8 DEF Write_Data

\* write(): the block is valid, and the loop goes on behind it.
LEMMA Write_ValidOK ==
    ASSUME TypeInv, Write_Valid, UNCHANGED <<armed, may>>
    PROVE  TypeInv'
<1> DEFINE n == Bytes(BlockCount(top.y))
           n2 == n - (top.x % BlockSize)
           b == [state |-> "VALID", num |-> BlockNum(top.x), count |-> BlockCount(top.y), data |-> obj.chunk]
<1>1. /\ top.fn = "write" /\ top.pc = "valid" /\ ProgramBlock(b)
      /\ obj' = [obj EXCEPT !.write_offset = @ + BlockHdr + n, !.chunk = <<>>]
      /\ IF n2 > top.y THEN Return(TRUE) ELSE Goto("loop", top.x + n2, top.y - n2)
  BY DEF Write_Valid, At
<1>2. /\ top.x \in Nat /\ top.y \in Nat /\ top.x + top.y <= StorageSize /\ top.y > 0
      /\ BlockCount(top.y) \in Nat /\ BlockCount(top.y) > 0 /\ n \in Nat
      /\ obj.write_offset + BlockHdr + n <= SectorSize
  BY <1>1, AtBlock
<1>3. /\ BlockNum(top.x) \in Nat /\ top.x % BlockSize \in Nat /\ top.x % BlockSize <= top.x
  BY <1>2, BlockInside
<1>4. BlockOK(b) /\ b.state = "VALID" /\ b.count = BlockCount(top.y)
  BY <1>1, <1>2, <1>3, Members DEF BlockOK, Block, TypeInv, RoomInv, At
<1>5. FlashOK'
  BY <1>1, <1>2, <1>4, ProgramOK DEF TypeInv
<1>6. obj' \in Object
  <2>1. obj.write_offset + BlockHdr + n \in Nat /\ <<>> \in Seq(Value)
    BY <1>2, Sizes, Members DEF TypeInv
  <2> QED
    BY <1>1, <2>1 DEF TypeInv, Object
<1>7. CASE n2 > top.y
  BY <1>1, <1>5, <1>6, <1>7, ReturnOK
<1>8. CASE ~(n2 > top.y)
  <2> DEFINE r == top.x % BlockSize
             x == top.x
             y == top.y
  <2>1. x \in Nat /\ y \in Nat /\ x + y <= StorageSize /\ r \in Nat /\ r <= x /\ n \in Nat /\ ~(n - r > y)
    BY <1>2, <1>3, <1>8
  <2> HIDE DEF r, x, y, n
  <2>2. x + (n - r) \in Nat /\ y - (n - r) \in Nat /\ (x + (n - r)) + (y - (n - r)) <= StorageSize
    BY <2>1, Sizes
  <2>3. FrameOK(Frame("write", "loop", x + (n - r), y - (n - r)))
    BY <2>2 DEF FrameOK, Frame, FrameType, FunctionNames, Places
  <2>4. Goto("loop", x + (n - r), y - (n - r))
    BY <1>1, <1>8 DEF x, y, r
  <2>5. top.fn = "write"
    BY <1>1
  <2> QED
    BY <2>3, <2>4, <2>5, <1>5, <1>6, GotoOK
<1> QED
  BY <1>7, <1>8

\* The multiples of MaxWrite: the next one, and the last one before the end.
LEMMA NextChunk ==
    ASSUME NEW x \in Nat, x % MaxWrite = 0
    PROVE  /\ x + MaxWrite \in Nat /\ (x + MaxWrite) % MaxWrite = 0
           /\ x < StorageSize => x + MaxWrite <= StorageSize
<1> DEFINE q == x \div MaxWrite
           c == StorageSize \div MaxWrite
           p == (x + MaxWrite) \div MaxWrite
           r == (x + MaxWrite) % MaxWrite
<1>1. q \in Nat /\ q * MaxWrite = x
  BY Whole, Sizes
<1>2. c \in Nat /\ c * MaxWrite = StorageSize
  BY Whole, Sizes, SizeAssumption
<1>3. p \in Nat /\ r \in Nat /\ r < MaxWrite /\ p * MaxWrite + r = x + MaxWrite /\ p * MaxWrite \in Nat
  BY DivMod, Sizes
<1> HIDE DEF q, c, p, r
<1>4. (q + 1) * MaxWrite = x + MaxWrite
  BY <1>1, Sizes, Monotone
<1>5. x < StorageSize => x + MaxWrite <= StorageSize
  <2> SUFFICES ASSUME x < StorageSize PROVE x + MaxWrite <= StorageSize
    OBVIOUS
  <2>1. q + 1 <= c
    <3> SUFFICES ASSUME c <= q PROVE FALSE
      BY <1>1, <1>2
    <3>1. c * MaxWrite <= q * MaxWrite
      BY <1>1, <1>2, Sizes, Monotone
    <3> QED
      BY <3>1, <1>1, <1>2, Sizes
  <2>2. (q + 1) * MaxWrite <= c * MaxWrite
    BY <2>1, <1>1, <1>2, Sizes, Monotone
  <2> QED
    BY <2>2, <1>2, <1>4
<1>6. r = 0
  <2>1. p <= q + 1
    <3> SUFFICES ASSUME q + 1 + 1 <= p PROVE FALSE
      BY <1>1, <1>3
    <3>1. (q + 1 + 1) * MaxWrite <= p * MaxWrite /\ (q + 1 + 1) * MaxWrite = (q + 1) * MaxWrite + MaxWrite
      BY <1>1, <1>3, Sizes, Monotone
    <3>2. x + MaxWrite + MaxWrite <= p * MaxWrite
      BY <3>1, <1>4
    <3> DEFINE z == p * MaxWrite
    <3>3. z \in Nat /\ z + r = x + MaxWrite /\ x + MaxWrite + MaxWrite <= z
      BY <3>2, <1>3
    <3> HIDE DEF z
    <3> QED
      BY <3>3, <1>3, Sizes
  <2>2. q + 1 <= p
    <3> SUFFICES ASSUME p + 1 <= q + 1 PROVE FALSE
      BY <1>1, <1>3
    <3>1. (p + 1) * MaxWrite <= (q + 1) * MaxWrite /\ (p + 1) * MaxWrite = p * MaxWrite + MaxWrite
      BY <1>1, <1>3, Sizes, Monotone
    <3> DEFINE z == p * MaxWrite
    <3>2. z \in Nat /\ z + r = x + MaxWrite /\ z + MaxWrite <= x + MaxWrite
      BY <3>1, <1>3, <1>4
    <3> HIDE DEF z
    <3> QED
      BY <3>2, <1>3, Sizes
  <2>3. p = q + 1
    BY <2>1, <2>2, <1>1, <1>3
  <2>4. p * MaxWrite = x + MaxWrite
    BY <2>3, <1>4
  <2> DEFINE z == p * MaxWrite
  <2>5. z \in Nat /\ z + r = x + MaxWrite /\ z = x + MaxWrite
    BY <2>4, <1>3
  <2> HIDE DEF z
  <2> QED
    BY <2>5, <1>3, Sizes
<1> QED
  BY <1>5, <1>6, Sizes DEF r

\* write_all(): the loop.
LEMMA WriteAll_LoopOK ==
    ASSUME TypeInv, WriteAll_Loop, UNCHANGED <<armed, may>>
    PROVE  TypeInv'
<1>1. /\ top.fn = "write_all" /\ top.pc = "start" /\ top.x \in Nat /\ top.y \in Nat /\ top.x % MaxWrite = 0
  BY TopOK DEF WriteAll_Loop, At, FrameOK
<1>2. FlashOK' /\ obj' \in Object
  BY Same DEF WriteAll_Loop
<1>3. /\ top.x + MaxWrite \in Nat /\ (top.x + MaxWrite) % MaxWrite = 0
      /\ top.x < StorageSize => top.x + MaxWrite <= StorageSize
  BY <1>1, NextChunk
<1>4. CASE Return(TRUE)
  BY <1>1, <1>2, <1>4, ReturnOK
<1>5. CASE Goto("start", top.x + MaxWrite, 0)
  <2>1. FrameOK(Frame(top.fn, "start", top.x + MaxWrite, 0))
    BY <1>1, <1>3 DEF FrameOK, Frame, FrameType, FunctionNames, Places
  <2> QED
    BY <2>1, <1>1, <1>2, <1>5, GotoOK
<1>6. CASE top.x < StorageSize /\ Call("wrote", "write", top.x, MaxWrite)
  <2>1. FrameOK(Frame(top.fn, "wrote", top.x, top.y))
    BY <1>1 DEF FrameOK, Frame, FrameType, FunctionNames, Places
  <2>2. FrameOK(Frame("write", "start", top.x, MaxWrite))
    BY <1>1, <1>3, <1>6, Sizes DEF FrameOK, Frame, FrameType, FunctionNames, Places
  <2>3. Awaits(Frame(top.fn, "wrote", top.x, top.y), "write")
    BY <1>1 DEF Frame, Awaits
  <2> QED
    BY <2>1, <2>2, <2>3, <1>2, <1>6, CallOK DEF TypeInv, OthersOK
<1> QED
  BY <1>4, <1>5, <1>6 DEF WriteAll_Loop

\* write_all(): a chunk has been written.
LEMMA WriteAll_WroteOK ==
    ASSUME TypeInv, WriteAll_Wrote, UNCHANGED <<armed, may>>
    PROVE  TypeInv'
<1>1. /\ top.fn = "write_all" /\ top.x \in Nat /\ top.x % MaxWrite = 0
  BY TopOK DEF WriteAll_Wrote, At, FrameOK
<1>2. FlashOK' /\ obj' \in Object
  BY Same DEF WriteAll_Wrote
<1>3. CASE Return(FALSE)
  BY <1>1, <1>2, <1>3, ReturnOK
<1>4. CASE Goto("start", top.x + MaxWrite, 0)
  <2>1. FrameOK(Frame(top.fn, "start", top.x + MaxWrite, 0))
    BY <1>1, NextChunk DEF FrameOK, Frame, FrameType, FunctionNames, Places
  <2> QED
    BY <2>1, <1>1, <1>2, <1>4, GotoOK
<1> QED
  BY <1>3, <1>4 DEF WriteAll_Wrote

\* switch_sectors(): the early returns, and the first header.
LEMMA SwitchSectors_StartOK ==
    ASSUME TypeInv, SwitchSectors_Start, UNCHANGED <<armed, may>>
    PROVE  TypeInv'
<1>1. top.fn = "switch_sectors"
  BY DEF SwitchSectors_Start, At
<1>2. CASE UNCHANGED flash /\ Return(FALSE) /\ (UNCHANGED obj \/ obj' = [obj EXCEPT !.write_error = TRUE])
  <2>1. FlashOK'
    BY <1>2 DEF TypeInv, FlashOK, InBounds, Programmed, EndOf
  <2>2. obj' \in Object
    BY <1>2 DEF TypeInv, Object
  <2> QED
    BY <2>1, <2>2, <1>1, <1>2, ReturnOK
<1>3. CASE UNCHANGED <<flash, obj>> /\ Goto("in_use", 0, 0)
  BY <1>1, <1>3, Same, PlainFrame, GotoOK
<1>4. CASE SetHeader(current, "FULL") /\ Goto("in_use", 0, 0) /\ UNCHANGED obj
  <2>1. FlashOK'
    BY <1>4, Members, HeaderOK DEF TypeInv, HeaderStates
  <2> QED
    BY <2>1, <1>1, <1>4, PlainFrame, GotoOK DEF TypeInv
<1> QED
  BY <1>2, <1>3, <1>4 DEF SwitchSectors_Start

\* switch_sectors(): the second header.
LEMMA SwitchSectors_InUseOK ==
    ASSUME TypeInv, SwitchSectors_InUse, UNCHANGED <<armed, may>>
    PROVE  TypeInv'
<1>1. /\ top.fn = "switch_sectors" /\ SetHeader(Other(current), "IN_USE") /\ Return(TRUE)
      /\ obj' = [obj EXCEPT !.current_sector = Other(current), !.reserved_space = ReserveSize, !.write_offset = SectorHdr]
  BY DEF SwitchSectors_InUse, At
<1>2. Other(current) \in Sectors
  BY Members DEF TypeInv
<1>3. FlashOK'
  BY <1>1, <1>2, HeaderOK DEF TypeInv, HeaderStates
<1>4. obj' \in Object /\ obj'.write_offset = SectorHdr /\ obj'.reserved_space = ReserveSize
  BY <1>1, <1>2, Sizes DEF TypeInv, Object
<1>5. Fits'
  BY <1>4, Reserve DEF Fits
<1> QED
  BY <1>1, <1>3, <1>4, <1>5, ReturnOK

\* switch_full_sector(): everything is to be written.
LEMMA SwitchFull_StartOK ==
    ASSUME TypeInv, SwitchFull_Start, UNCHANGED <<armed, may>>
    PROVE  TypeInv'
<1>1. /\ top.fn = "switch_full_sector" /\ UNCHANGED flash /\ Call("written", "write_all", 0, 0)
      /\ obj' = [obj EXCEPT !.write_error = FALSE, !.reserved_space = 0]
  BY DEF SwitchFull_Start, At
<1>2. FlashOK'
  BY <1>1 DEF TypeInv, FlashOK, InBounds, Programmed, EndOf
<1>3. obj' \in Object
  BY <1>1 DEF TypeInv, Object
<1>4. FrameOK(Frame(top.fn, "written", top.x, top.y)) /\ Awaits(Frame(top.fn, "written", top.x, top.y), "write_all")
  BY <1>1, TopOK DEF FrameOK, Frame, FrameType, FunctionNames, Places, Awaits
<1> QED
  BY <1>1, <1>2, <1>3, <1>4, PlainFrame, CallOK DEF TypeInv, OthersOK

\* switch_full_sector(): the other sector is to be erased.
LEMMA SwitchFull_WrittenOK ==
    ASSUME TypeInv, SwitchFull_Written, UNCHANGED <<armed, may>>
    PROVE  TypeInv'
<1>1. top.fn = "switch_full_sector" /\ FlashOK' /\ obj' \in Object /\ Other(current) \in Sectors
  BY Same, Members DEF SwitchFull_Written, At, TypeInv
<1>2. CASE Return(FALSE)
  BY <1>1, <1>2, ReturnOK
<1>3. CASE Call("erased", "erase_sector", Other(current), 0)
  <2>1. FrameOK(Frame(top.fn, "erased", top.x, top.y)) /\ Awaits(Frame(top.fn, "erased", top.x, top.y), "erase_sector")
    BY <1>1, TopOK DEF FrameOK, Frame, FrameType, FunctionNames, Places, Awaits
  <2>2. FrameOK(Frame("erase_sector", "start", Other(current), 0))
    BY <1>1, PlainFrame
  <2> QED
    BY <2>1, <2>2, <1>1, <1>3, CallOK DEF TypeInv, OthersOK
<1> QED
  BY <1>2, <1>3 DEF SwitchFull_Written

\* switch_full_sector(): the sectors are to be switched.
LEMMA SwitchFull_ErasedOK ==
    ASSUME TypeInv, SwitchFull_Erased, UNCHANGED <<armed, may>>
    PROVE  TypeInv'
<1>1. top.fn = "switch_full_sector" /\ FlashOK' /\ obj' \in Object
  BY Same DEF SwitchFull_Erased, At
<1>2. CASE Return(FALSE)
  BY <1>1, <1>2, ReturnOK
<1>3. CASE TailCall("switch_sectors", 0, 0)
  <2>1. Awaits(stack[2], "switch_sectors")
    BY <1>1, TopOK DEF Awaits
  <2> QED
    BY <2>1, <1>1, <1>3, PlainFrame, TailCallOK
<1> QED
  BY <1>2, <1>3 DEF SwitchFull_Erased

\* erase_sector(): the erase.
LEMMA EraseSector_EraseOK ==
    ASSUME TypeInv, EraseSector_Erase, UNCHANGED <<armed, may>>
    PROVE  TypeInv'
<1>1. top.fn = "erase_sector" /\ top.x \in Sectors /\ UNCHANGED obj
  BY TopOK DEF EraseSector_Erase, At, FrameOK
<1>2. FlashOK' /\ Goto("mark", top.x, 0)
  BY <1>1, EraseOK DEF EraseSector_Erase, TypeInv
<1>3. FrameOK(Frame(top.fn, "mark", top.x, 0))
  BY <1>1, PlainFrame
<1> QED
  BY <1>1, <1>2, <1>3, GotoOK DEF TypeInv

\* erase_sector(): the header.
LEMMA EraseSector_MarkOK ==
    ASSUME TypeInv, EraseSector_Mark, UNCHANGED <<armed, may>>
    PROVE  TypeInv'
<1>1. top.fn = "erase_sector" /\ top.x \in Sectors /\ UNCHANGED obj /\ Return(TRUE)
  BY TopOK DEF EraseSector_Mark, At, FrameOK
<1>2. FlashOK'
  BY <1>1, HeaderOK DEF EraseSector_Mark, TypeInv, HeaderStates
<1> QED
  BY <1>1, <1>2, ReturnOK DEF TypeInv

\* erase_all(): the object.
LEMMA EraseAll_StartOK ==
    ASSUME TypeInv, EraseAll_Start, UNCHANGED <<armed, may>>
    PROVE  TypeInv'
<1>1. /\ top.fn = "erase_all" /\ UNCHANGED flash /\ Call("erased0", "erase_sector", 0, 0)
      /\ obj' = [obj EXCEPT !.write_error = FALSE, !.current_sector = 0, !.write_offset = SectorHdr]
  BY DEF EraseAll_Start, At
<1>2. FlashOK'
  BY <1>1 DEF TypeInv, FlashOK, InBounds, Programmed, EndOf
<1>3. obj' \in Object
  BY <1>1, Sizes DEF TypeInv, Object, Sectors
<1>4. FrameOK(Frame(top.fn, "erased0", top.x, top.y)) /\ Awaits(Frame(top.fn, "erased0", top.x, top.y), "erase_sector")
  BY <1>1, TopOK DEF FrameOK, Frame, FrameType, FunctionNames, Places, Awaits
<1>5. FrameOK(Frame("erase_sector", "start", 0, 0))
  BY PlainFrame DEF Sectors
<1> QED
  BY <1>1, <1>2, <1>3, <1>4, <1>5, CallOK DEF TypeInv, OthersOK

\* erase_all(): the second sector.
LEMMA EraseAll_SecondOK ==
    ASSUME TypeInv, EraseAll_Second, UNCHANGED <<armed, may>>
    PROVE  TypeInv'
<1>1. top.fn = "erase_all" /\ FlashOK' /\ obj' \in Object
  BY Same DEF EraseAll_Second, At
<1>2. CASE Return(FALSE)
  BY <1>1, <1>2, ReturnOK
<1>3. CASE Call("erased1", "erase_sector", 1, 0)
  <2>1. FrameOK(Frame(top.fn, "erased1", top.x, top.y)) /\ Awaits(Frame(top.fn, "erased1", top.x, top.y), "erase_sector")
    BY <1>1, TopOK DEF FrameOK, Frame, FrameType, FunctionNames, Places, Awaits
  <2>2. FrameOK(Frame("erase_sector", "start", 1, 0))
    BY PlainFrame DEF Sectors
  <2> QED
    BY <2>1, <2>2, <1>1, <1>3, CallOK DEF TypeInv, OthersOK
<1> QED
  BY <1>2, <1>3 DEF EraseAll_Second

\* erase_all(): the first sector is in use.
LEMMA EraseAll_MarkOK ==
    ASSUME TypeInv, EraseAll_Mark, UNCHANGED <<armed, may>>
    PROVE  TypeInv'
<1>1. top.fn = "erase_all" /\ UNCHANGED obj /\ current \in Sectors
  BY Members DEF EraseAll_Mark, At, TypeInv
<1>2. CASE SetHeader(current, "IN_USE") /\ Return(TRUE)
  <2>1. FlashOK'
    BY <1>1, <1>2, HeaderOK DEF TypeInv, HeaderStates
  <2> QED
    BY <2>1, <1>1, <1>2, ReturnOK DEF TypeInv
<1>3. CASE UNCHANGED flash /\ Return(FALSE)
  BY <1>1, <1>3, Same, ReturnOK
<1> QED
  BY <1>2, <1>3 DEF EraseAll_Mark

\* re_initialise(): erase everything.
LEMMA ReInitialise_StartOK ==
    ASSUME TypeInv, ReInitialise_Start, UNCHANGED <<armed, may>>
    PROVE  TypeInv'
<1>1. top.fn = "re_initialise" /\ FlashOK' /\ obj' \in Object
  BY Same DEF ReInitialise_Start, At
<1>2. CASE Return(FALSE)
  BY <1>1, <1>2, ReturnOK
<1>3. CASE Call("erased", "erase_all", 0, 0)
  <2>1. FrameOK(Frame(top.fn, "erased", top.x, top.y)) /\ Awaits(Frame(top.fn, "erased", top.x, top.y), "erase_all")
    BY <1>1, TopOK DEF FrameOK, Frame, FrameType, FunctionNames, Places, Awaits
  <2> QED
    BY <2>1, <1>1, <1>3, PlainFrame, CallOK DEF TypeInv, OthersOK
<1> QED
  BY <1>2, <1>3 DEF ReInitialise_Start

\* re_initialise(): write everything.
LEMMA ReInitialise_ErasedOK ==
    ASSUME TypeInv, ReInitialise_Erased, UNCHANGED <<armed, may>>
    PROVE  TypeInv'
<1>1. top.fn = "re_initialise" /\ FlashOK' /\ obj' \in Object
  BY Same DEF ReInitialise_Erased, At
<1>2. CASE Return(FALSE)
  BY <1>1, <1>2, ReturnOK
<1>3. CASE TailCall("write_all", 0, 0)
  <2>1. Awaits(stack[2], "write_all")
    BY <1>1, TopOK DEF Awaits
  <2> QED
    BY <2>1, <1>1, <1>3, PlainFrame, TailCallOK
<1> QED
  BY <1>2, <1>3 DEF ReInitialise_Erased

\* A block of the log, read from inside the sector.
LEMMA BlockAt ==
    ASSUME TypeInv, NEW s \in Sectors, NEW o \in Nat, o < SectorSize - BlockHdr
    PROVE  /\ o \in Offsets /\ BlockOK(flash[s].log[o])
           /\ flash[s].log[o].num \in Nat /\ flash[s].log[o].count \in Nat
           /\ Bytes(flash[s].log[o].num) \in Nat /\ Bytes(flash[s].log[o].count) \in Nat
           /\ flash[s].log[o].data \in Seq(Value) /\ flash[s].log[o].state \in {"AVAILABLE", "WRITING", "VALID"}
<1>1. o \in 0 .. SectorSize - 1
  BY Sizes
<1>2. BlockOK(flash[s].log[o])
  BY <1>1 DEF TypeInv, FlashOK
<1> DEFINE b == flash[s].log[o]
<1> HIDE DEF b
<1>3. BlockOK(b)
  BY <1>2 DEF b
<1>4. b.num \in Nat /\ b.count \in Nat /\ b.data \in Seq(Value) /\ b.state \in {"AVAILABLE", "WRITING", "VALID"}
  BY <1>3 DEF BlockOK, Block
<1>5. Bytes(b.num) \in Nat /\ Bytes(b.count) \in Nat
  BY <1>4, Sizes, Monotone DEF Bytes
<1> QED
  BY <1>1, <1>3, <1>4, <1>5 DEF Offsets, b

\* The image with the bytes of a block put in.
Patched(mem, base, size, data) ==
    [a \in Addr |-> IF base <= a /\ a < base + size THEN data[a - base + 1] ELSE mem[a]]

\* The bytes of a block are values.
LEMMA PatchOK ==
    ASSUME NEW mem \in [Addr -> Value], NEW base \in Nat, NEW size \in Nat, NEW data \in Seq(Value),
           Len(data) = size
    PROVE  Patched(mem, base, size, data) \in [Addr -> Value]
<1>1. ASSUME NEW a \in Addr, base <= a, a < base + size PROVE data[a - base + 1] \in Value
  <2>1. a - base + 1 \in 1 .. Len(data)
    BY <1>1, Sizes DEF Addr
  <2> QED
    BY <2>1, ElementOfSeq
<1> QED
  BY <1>1 DEF Patched

\* load_sector(): one block.
LEMMA LoadSectorOK ==
    ASSUME TypeInv, LoadSector, UNCHANGED <<armed, may>>
    PROVE  TypeInv'
<1> DEFINE b == flash[top.x].log[top.y]
           base == Bytes(b.num)
           size == Bytes(b.count)
           end == top.y >= SectorSize - BlockHdr
           Skip == Goto("start", top.x, top.y + size + BlockHdr)
           mem == Patched(obj.mem_buffer, base, size, b.data)
<1>1. top.fn = "load_sector" /\ top.x \in Sectors /\ top.y \in Nat /\ UNCHANGED flash
  BY TopOK DEF LoadSector, At, FrameOK
<1>2. FlashOK'
  BY <1>1 DEF TypeInv, FlashOK, InBounds, Programmed, EndOf
<1>3. \/ obj' = [obj EXCEPT !.write_offset = top.y] /\ Return(TRUE)
      \/ ~end /\ Skip /\ UNCHANGED obj
      \/ Return(FALSE) /\ UNCHANGED obj
      \/ ~end /\ b.state = "VALID" /\ obj' = [obj EXCEPT !.mem_buffer = mem] /\ Skip
  BY DEF LoadSector, Patched
<1>4. CASE obj' = [obj EXCEPT !.write_offset = top.y] /\ Return(TRUE)
  <2>1. obj' \in Object
    BY <1>1, <1>4 DEF TypeInv, Object
  <2> QED
    BY <2>1, <1>1, <1>2, <1>4, ReturnOK
<1>5. CASE Return(FALSE) /\ UNCHANGED obj
  BY <1>1, <1>2, <1>5, ReturnOK DEF TypeInv
<1>6. ASSUME ~end
      PROVE  /\ BlockOK(b) /\ base \in Nat /\ size \in Nat /\ b.data \in Seq(Value)
             /\ FrameOK(Frame(top.fn, "start", top.x, top.y + size + BlockHdr))
  <2>1. top.y < SectorSize - BlockHdr
    BY <1>1, <1>6, Sizes
  <2>2. BlockOK(b) /\ base \in Nat /\ size \in Nat /\ b.data \in Seq(Value)
    BY <2>1, <1>1, BlockAt
  <2>3. top.y + size + BlockHdr \in Nat
    BY <2>2, <1>1, Sizes
  <2> QED
    BY <2>2, <2>3, <1>1, PlainFrame
<1>7. CASE ~end /\ Skip /\ UNCHANGED obj
  BY <1>1, <1>2, <1>6, <1>7, GotoOK DEF TypeInv
<1>8. CASE ~end /\ b.state = "VALID" /\ obj' = [obj EXCEPT !.mem_buffer = mem] /\ Skip
  <2>1. Len(b.data) = size
    BY <1>6, <1>8 DEF BlockOK
  <2>2. mem \in [Addr -> Value]
    BY <2>1, <1>6, <1>8, Members, PatchOK DEF TypeInv
  <2> HIDE DEF mem
  <2>3. obj' \in Object
    BY <2>2, <1>8 DEF TypeInv, Object
  <2> QED
    BY <2>3, <1>1, <1>2, <1>6, <1>8, GotoOK
<1> QED
  BY <1>3, <1>4, <1>5, <1>7, <1>8

\* init(): the headers are read.
LEMMA Init_HeadersOK ==
    ASSUME TypeInv, Init_Headers, UNCHANGED <<armed, may>>
    PROVE  TypeInv'
<1> DEFINE s == [i \in Sectors |-> flash[i].header]
<1>1. /\ top.fn = "init" /\ UNCHANGED flash
      /\ obj' = [obj EXCEPT !.mem_buffer = Cleared.mem_buffer, !.states = s]
  BY DEF Init_Headers, At
<1>2. FlashOK'
  BY <1>1 DEF TypeInv, FlashOK, InBounds, Programmed, EndOf
<1>3. s \in [Sectors -> HeaderStates] /\ Cleared.mem_buffer \in [Addr -> Value]
  BY SectorFields, CallerAssumption DEF TypeInv, FlashOK, Cleared
<1>4. obj' \in Object
  <2> HIDE DEF s
  <2> QED
    BY <1>1, <1>3 DEF TypeInv, Object
<1>5. CASE TailCall("erase_all", 0, 0)
  <2>1. Awaits(stack[2], "erase_all")
    BY <1>1, TopOK DEF Awaits
  <2> QED
    BY <2>1, <1>1, <1>2, <1>4, <1>5, PlainFrame, TailCallOK
<1>6. CASE Goto("load", FirstSector(s), 0)
  <2>1. FirstSector(s) \in Sectors
    BY DEF FirstSector, Sectors
  <2>2. FrameOK(Frame(top.fn, "load", FirstSector(s), 0))
    BY <2>1, <1>1 DEF FrameOK, Frame, FrameType, FunctionNames, Places, Sectors
  <2> QED
    BY <2>2, <1>1, <1>2, <1>4, <1>6, GotoOK
<1> QED
  BY <1>5, <1>6 DEF Init_Headers

\* A frame of init().
LEMMA InitFrame ==
    ASSUME NEW x \in Sectors, NEW y \in Nat
    PROVE  /\ \A pc \in {"start", "rewrite", "rewritten"} : FrameOK(Frame("init", pc, x, y))
           /\ y <= 2 => FrameOK(Frame("init", "load", x, y)) /\ FrameOK(Frame("init", "erase", x, y))
           /\ y < 2 => FrameOK(Frame("init", "loaded", x, y)) /\ FrameOK(Frame("init", "erased", x, y))
BY DEF FrameOK, Frame, FrameType, FunctionNames, Places, Sectors

\* init(): the next sector is looked at.
LEMMA Init_LoadOK ==
    ASSUME TypeInv, Init_Load, UNCHANGED <<armed, may>>
    PROVE  TypeInv'
<1> DEFINE sector == (top.x + top.y) % 2
<1>1. top.fn = "init" /\ top.x \in Sectors /\ top.y \in Nat /\ top.y <= 2 /\ FlashOK' /\ obj' \in Object
  BY TopOK, Same DEF Init_Load, At, FrameOK
<1>2. CASE Goto("rewrite", top.x, 0)
  BY <1>1, <1>2, InitFrame, GotoOK
<1>3. CASE top.y < 2 /\ Goto("load", top.x, top.y + 1)
  <2>1. top.y + 1 \in Nat /\ top.y + 1 <= 2
    BY <1>1, <1>3
  <2> QED
    BY <2>1, <1>1, <1>3, InitFrame, GotoOK
<1>4. CASE top.y < 2 /\ Call("loaded", "load_sector", sector, SectorHdr)
  <2>1. sector \in Sectors
    BY <1>1 DEF Sectors
  <2>2. FrameOK(Frame("load_sector", "start", sector, SectorHdr))
    BY <2>1, PlainFrame, Sizes
  <2>3. FrameOK(Frame(top.fn, "loaded", top.x, top.y)) /\ Awaits(Frame(top.fn, "loaded", top.x, top.y), "load_sector")
    BY <1>1, <1>4, InitFrame DEF Awaits, Frame
  <2> QED
    BY <2>2, <2>3, <1>1, <1>4, CallOK DEF TypeInv, OthersOK
<1> QED
  BY <1>2, <1>3, <1>4 DEF Init_Load

\* init(): a sector has been loaded.
LEMMA Init_LoadedOK ==
    ASSUME TypeInv, Init_Loaded, UNCHANGED <<armed, may>>
    PROVE  TypeInv'
<1>1. top.fn = "init" /\ top.x \in Sectors /\ top.y \in Nat /\ top.y < 2 /\ FlashOK' /\ obj' \in Object
  BY TopOK, Same DEF Init_Loaded, At, FrameOK
<1>2. CASE Goto("load", top.x, top.y + 1)
  <2>1. top.y + 1 \in Nat /\ top.y + 1 <= 2
    BY <1>1
  <2> QED
    BY <2>1, <1>1, <1>2, InitFrame, GotoOK
<1>3. CASE TailCall("erase_all", 0, 0)
  <2>1. Awaits(stack[2], "erase_all")
    BY <1>1, TopOK DEF Awaits
  <2> QED
    BY <2>1, <1>1, <1>3, PlainFrame, TailCallOK
<1> QED
  BY <1>2, <1>3 DEF Init_Loaded

\* init(): the rewrite begins.
LEMMA Init_RewriteOK ==
    ASSUME TypeInv, Init_Rewrite, UNCHANGED <<armed, may>>
    PROVE  TypeInv'
<1> DEFINE full == obj.states[top.x] = "FULL"
           sector == IF full THEN Other(top.x) ELSE obj.current_sector
<1>1. top.fn = "init" /\ top.x \in Sectors /\ top.y \in Nat /\ UNCHANGED flash
  BY TopOK DEF Init_Rewrite, At, FrameOK
<1>2. FlashOK'
  BY <1>1 DEF TypeInv, FlashOK, InBounds, Programmed, EndOf
<1>3. /\ obj' = [obj EXCEPT !.write_error = FALSE, !.reserved_space = 0, !.current_sector = sector]
      /\ IF full THEN Call("rewritten", "write_all", 0, 0) ELSE Goto("erase", top.x, 0)
  BY DEF Init_Rewrite
<1>4. sector \in Sectors
  BY <1>1, Members DEF TypeInv, Other, Sectors
<1>5. obj' \in Object
  <2> HIDE DEF sector
  <2> QED
    BY <1>3, <1>4 DEF TypeInv, Object
<1>6. CASE Call("rewritten", "write_all", 0, 0)
  <2>1. FrameOK(Frame(top.fn, "rewritten", top.x, top.y)) /\ Awaits(Frame(top.fn, "rewritten", top.x, top.y), "write_all")
    BY <1>1, InitFrame DEF Awaits, Frame
  <2> QED
    BY <2>1, <1>2, <1>5, <1>6, PlainFrame, CallOK DEF TypeInv, OthersOK
<1>7. CASE Goto("erase", top.x, 0)
  BY <1>1, <1>2, <1>5, <1>7, InitFrame, GotoOK
<1> QED
  BY <1>3, <1>6, <1>7

\* init(): the rewrite has ended.
LEMMA Init_RewrittenOK ==
    ASSUME TypeInv, Init_Rewritten, UNCHANGED <<armed, may>>
    PROVE  TypeInv'
<1>1. top.fn = "init" /\ top.x \in Sectors /\ FlashOK' /\ obj' \in Object
  BY TopOK, Same DEF Init_Rewritten, At, FrameOK
<1>2. CASE Goto("erase", top.x, 0)
  BY <1>1, <1>2, InitFrame, GotoOK
<1>3. CASE TailCall("erase_all", 0, 0)
  <2>1. Awaits(stack[2], "erase_all")
    BY <1>1, TopOK DEF Awaits
  <2> QED
    BY <2>1, <1>1, <1>3, PlainFrame, TailCallOK
<1> QED
  BY <1>2, <1>3 DEF Init_Rewritten

\* init(): the full sector is erased.
LEMMA Init_EraseOK ==
    ASSUME TypeInv, Init_Erase, UNCHANGED <<armed, may>>
    PROVE  TypeInv'
<1>1. top.fn = "init" /\ top.x \in Sectors /\ top.y \in Nat /\ top.y <= 2 /\ UNCHANGED flash
  BY TopOK DEF Init_Erase, At, FrameOK
<1>2. FlashOK'
  BY <1>1 DEF TypeInv, FlashOK, InBounds, Programmed, EndOf
<1>3. CASE Return(TRUE) /\ obj' = [obj EXCEPT !.reserved_space = 0]
  <2>1. obj' \in Object
    BY <1>3 DEF TypeInv, Object
  <2> QED
    BY <2>1, <1>1, <1>2, <1>3, ReturnOK
<1>4. CASE top.y # 2 /\ UNCHANGED obj /\ Goto("erase", top.x, top.y + 1)
  <2>1. top.y + 1 \in Nat /\ top.y + 1 <= 2
    BY <1>1, <1>4
  <2> QED
    BY <2>1, <1>1, <1>2, <1>4, InitFrame, GotoOK DEF TypeInv
<1>5. CASE top.y # 2 /\ UNCHANGED obj /\ Call("erased", "erase_sector", top.y, 0)
  <2>1. top.y \in Sectors /\ top.y < 2
    BY <1>1, <1>5 DEF Sectors
  <2>2. FrameOK(Frame(top.fn, "erased", top.x, top.y)) /\ Awaits(Frame(top.fn, "erased", top.x, top.y), "erase_sector")
    BY <2>1, <1>1, InitFrame DEF Awaits, Frame
  <2>3. FrameOK(Frame("erase_sector", "start", top.y, 0))
    BY <2>1, PlainFrame
  <2> QED
    BY <2>2, <2>3, <1>2, <1>5, CallOK DEF TypeInv, OthersOK
<1> QED
  BY <1>3, <1>4, <1>5 DEF Init_Erase

\* init(): a sector has been erased.
LEMMA Init_ErasedOK ==
    ASSUME TypeInv, Init_Erased, UNCHANGED <<armed, may>>
    PROVE  TypeInv'
<1>1. top.fn = "init" /\ top.x \in Sectors /\ top.y \in Nat /\ top.y < 2 /\ FlashOK' /\ obj' \in Object
  BY TopOK, Same DEF Init_Erased, At, FrameOK
<1>2. CASE Goto("erase", top.x, top.y + 1)
  <2>1. top.y + 1 \in Nat /\ top.y + 1 <= 2
    BY <1>1
  <2> QED
    BY <2>1, <1>1, <1>2, InitFrame, GotoOK
<1>3. CASE Return(FALSE)
  BY <1>1, <1>3, ReturnOK
<1> QED
  BY <1>2, <1>3 DEF Init_Erased

-----------------------------------------------------------------------------
(* The caller and the power supply.                                        *)

\* The caller alone on the stack.
LEMMA CallerOK ==
    ASSUME NEW pc \in {"off", "idle", "panic"}, stack' = Caller(pc), FlashOK', obj' \in Object, OthersOK'
    PROVE  /\ TypeInv' /\ stack'[1] = top' /\ Len(stack') = 1
           /\ top' = Frame("caller", pc, 0, 0) /\ bottom' = top'
<1> DEFINE f == Frame("caller", pc, 0, 0)
<1>1. FrameOK(f) /\ f.fn = "caller"
  BY PlainFrame DEF Frame
<1>2. stack' = <<f>>
  BY DEF Caller
<1> HIDE DEF f
<1>3. StackOK(stack') /\ Len(stack') = 1 /\ stack'[1] = f /\ Head(stack') = f
  BY <1>1, <1>2, Alone
<1>4. RoomInv'
  BY <1>1, <1>3 DEF RoomInv, At, top
<1> QED
  BY <1>3, <1>4 DEF TypeInv, top, bottom, f

\* The cleared object.
LEMMA ClearedOK == Cleared \in Object
<1>1. [a \in Addr |-> 0] \in [Addr -> Value] /\ [s \in Sectors |-> "BAD"] \in [Sectors -> HeaderStates]
  BY CallerAssumption DEF HeaderStates
<1>2. <<>> \in Seq(Value)
  OBVIOUS
<1> QED
  BY <1>1, <1>2 DEF Cleared, Object, Sectors

\* Initially.
LEMMA InitTypes == Init => TypeInv
<1> SUFFICES ASSUME Init PROVE TypeInv
  OBVIOUS
<1> DEFINE f == Frame("caller", "off", 0, 0)
<1>1. FrameOK(f) /\ f.fn = "caller" /\ stack = <<f>>
  BY PlainFrame DEF Init, Caller, Frame
<1> HIDE DEF f
<1>2. StackOK(stack) /\ Head(stack) = f
  BY <1>1, Alone
<1>3. RoomInv
  BY <1>1, <1>2 DEF RoomInv, At, top
<1>4. obj \in Object
  BY ClearedOK DEF Init
<1>5. OthersOK
  BY CallerAssumption DEF Init, OthersOK
<1>6. /\ flash \in [Sectors -> Sector]
      /\ \A s \in Sectors : \A o \in Offsets : flash[s].log[o] = Erased
  <2>1. <<>> \in Seq(Value)
    OBVIOUS
  <2>2. Erased \in Block
    BY <2>1 DEF Erased, Block
  <2>3. ErasedSector \in Sector /\ \A o \in Offsets : ErasedSector.log[o] = Erased
    BY <2>2 DEF ErasedSector, Sector, HeaderStates, Offsets
  <2> QED
    BY <2>3 DEF Init
<1>7. BlockOK(Erased) /\ Erased.state = "AVAILABLE"
  <2>1. <<>> \in Seq(Value)
    OBVIOUS
  <2> QED
    BY <2>1 DEF Erased, Block, BlockOK
<1>8. FlashOK
  BY <1>6, <1>7 DEF FlashOK, InBounds, Programmed, EndOf, Offsets
<1> QED
  BY <1>2, <1>3, <1>4, <1>5, <1>8 DEF TypeInv

\* Booting.
LEMMA BootOK ==
    ASSUME TypeInv, Boot
    PROVE  TypeInv'
<1>1. top.fn = "caller" /\ top.pc = "off" /\ FlashOK' /\ obj' \in Object
  BY Same DEF Boot, At
<1>2. FrameOK(Frame(top.fn, "booting", top.x, top.y)) /\ Awaits(Frame(top.fn, "booting", top.x, top.y), "init")
  BY <1>1, TopOK DEF FrameOK, Frame, FrameType, FunctionNames, Places, Awaits
<1> QED
  BY <1>1, <1>2, PlainFrame, CallOK DEF Boot, TypeInv, OthersOK

\* Booted.
LEMMA BootedOK ==
    ASSUME TypeInv, Booted
    PROVE  TypeInv'
<1>1. FlashOK'
  BY DEF Booted, TypeInv, FlashOK, InBounds, Programmed, EndOf
<1>2. obj' \in Object
  <2>1. Cleared.states \in [Sectors -> HeaderStates]
    BY ClearedOK DEF Object
  <2> QED
    BY <2>1 DEF Booted, TypeInv, Object
<1>3. OthersOK'
  BY Members DEF Booted, OthersOK, TypeInv
<1>4. stack' = Caller(IF ret THEN "idle" ELSE "panic") /\ (IF ret THEN "idle" ELSE "panic") \in {"off", "idle", "panic"}
  BY DEF Booted
<1> QED
  BY <1>1, <1>2, <1>3, <1>4, CallerOK

\* The caller changes the image and calls write().
LEMMA StoreOK ==
    ASSUME TypeInv, NEW r \in Ranges, Store(r)
    PROVE  TypeInv'
<1> DEFINE f == Frame("write", "start", r[1], r[2])
           g == Frame("caller", "storing", r[1], r[2])
<1>1. r[1] \in Nat /\ r[2] \in Nat /\ r[2] > 0 /\ r[1] + r[2] <= StorageSize
  BY CallerAssumption
<1>2. FrameOK(f) /\ FrameOK(g) /\ f.fn = "write" /\ g.fn = "caller" /\ Awaits(g, f.fn) /\ f.pc = "start"
  BY <1>1 DEF FrameOK, Frame, FrameType, FunctionNames, Places, Awaits
<1>3. stack' = <<f, g>> /\ ret' = FALSE /\ UNCHANGED <<flash, armed>> /\ top.fn = "caller"
  BY DEF Store, At
<1> HIDE DEF f, g
<1>4. StackOK(stack') /\ Head(stack') = f
  <2>1. <<f, g>> \in Seq(FrameType) /\ Len(<<f, g>>) = 2 /\ <<f, g>>[1] = f /\ <<f, g>>[2] = g /\ <<f, g>> # <<>>
        /\ Head(<<f, g>>) = f
    BY <1>2 DEF FrameOK
  <2>2. \A i \in 1 .. 2 : FrameOK(<<f, g>>[i])
    BY <1>2, <2>1
  <2>3. \A i \in 1 .. 1 : Awaits(<<f, g>>[i + 1], <<f, g>>[i].fn)
    BY <1>2, <2>1
  <2> QED
    BY <2>1, <2>2, <2>3, <1>2, <1>3 DEF StackOK
<1>5. FlashOK'
  BY <1>3 DEF TypeInv, FlashOK, InBounds, Programmed, EndOf
<1>6. obj' \in Object /\ may' \in [Addr -> SUBSET Value]
  <2>1. PICK m \in [Addr -> Value] :
          /\ obj' = [obj EXCEPT !.mem_buffer = m]
          /\ may' = [a \in Addr |-> IF InRange(a, r[1], r[2]) THEN may[a] \cup {m[a]} ELSE may[a]]
    BY DEF Store
  <2>2. obj' \in Object
    BY <2>1 DEF TypeInv, Object
  <2>3. may' \in [Addr -> SUBSET Value]
    BY <2>1 DEF TypeInv, OthersOK
  <2> QED
    BY <2>2, <2>3
<1>7. RoomInv'
  BY <1>2, <1>4 DEF RoomInv, At, top
<1> QED
  BY <1>3, <1>4, <1>5, <1>6, <1>7 DEF TypeInv, OthersOK

\* write() has returned to the caller.
LEMMA StoredOK ==
    ASSUME TypeInv, Stored
    PROVE  TypeInv'
<1>1. FlashOK' /\ obj' \in Object
  BY Same DEF Stored
<1>2. OthersOK'
  BY Members DEF Stored, OthersOK, TypeInv
<1> QED
  BY <1>1, <1>2, CallerOK DEF Stored

\* Flash refuses a header.
LEMMA Write_FaultOK ==
    ASSUME TypeInv, Write_Fault
    PROVE  TypeInv'
<1>1. top.fn = "write" /\ FlashOK' /\ obj' \in Object /\ UNCHANGED armed
  BY Same DEF Write_Fault, At
<1>2. CASE Return(FALSE) /\ UNCHANGED may
  BY <1>1, <1>2, ReturnOK
<1>3. CASE Call("failed", "re_initialise", 0, 0) /\ may' = [a \in Addr |-> Value]
  <2>1. FrameOK(Frame(top.fn, "failed", top.x, top.y)) /\ Awaits(Frame(top.fn, "failed", top.x, top.y), "re_initialise")
    BY <1>1, TopOK DEF FrameOK, Frame, FrameType, FunctionNames, Places, Awaits
  <2>2. may' \in [Addr -> SUBSET Value]
    BY <1>3
  <2> QED
    BY <2>1, <2>2, <1>1, <1>3, PlainFrame, CallOK DEF TypeInv, OthersOK
<1> QED
  BY <1>2, <1>3 DEF Write_Fault

\* The store has been started afresh.
LEMMA Write_FailedOK ==
    ASSUME TypeInv, Write_Failed
    PROVE  TypeInv'
<1>1. top.fn = "write" /\ FlashOK' /\ obj' \in Object /\ UNCHANGED armed /\ Return(FALSE)
  BY Same DEF Write_Failed, At
<1>2. may' \in [Addr -> SUBSET Value]
  BY Members DEF Write_Failed, OthersOK, TypeInv
<1>3. StackOK(stack') /\ ret' = FALSE /\ Awaits(top', top.fn)
  BY <1>1, Returns DEF TypeInv
<1>4. RoomInv'
  BY <1>1, <1>3 DEF RoomInv, Awaits, At
<1> QED
  BY <1>1, <1>2, <1>3, <1>4 DEF TypeInv, OthersOK

\* Arming and disarming.
LEMMA ArmOrDisarmOK ==
    ASSUME TypeInv, ArmOrDisarm
    PROVE  TypeInv'
<1>1. FlashOK' /\ obj' \in Object
  BY Same DEF ArmOrDisarm
<1>2. RoomInv' /\ StackOK(stack')
  BY DEF ArmOrDisarm, TypeInv, RoomInv, At, top, Fits
<1>3. OthersOK'
  BY DEF ArmOrDisarm, TypeInv, OthersOK
<1> QED
  BY <1>1, <1>2, <1>3 DEF TypeInv

\* Power fails.
LEMMA PowerFailOK ==
    ASSUME TypeInv, PowerFail
    PROVE  TypeInv'
<1>1. FlashOK' /\ OthersOK'
  BY DEF PowerFail, TypeInv, FlashOK, InBounds, Programmed, EndOf, OthersOK
<1>2. obj' \in Object
  BY ClearedOK DEF PowerFail
<1> QED
  BY <1>1, <1>2, CallerOK DEF PowerFail

\* Nothing happens.
LEMMA StutterOK ==
    ASSUME TypeInv, UNCHANGED vars
    PROVE  TypeInv'
<1>1. FlashOK' /\ obj' \in Object
  BY Same DEF vars
<1>2. RoomInv' /\ StackOK(stack')
  BY DEF vars, TypeInv, RoomInv, At, top, Fits
<1>3. OthersOK'
  BY DEF vars, TypeInv, OthersOK
<1> QED
  BY <1>1, <1>2, <1>3 DEF TypeInv

\* Every step keeps the types.
LEMMA StepTypes ==
    ASSUME TypeInv, [Next]_vars
    PROVE  TypeInv'
<1>1. CASE Library
  BY <1>1, Write_LoopOK, Write_SwitchedOK, Write_SwitchedFullOK, Write_HeaderOK, Write_DataOK,
     Write_ValidOK, WriteAll_LoopOK, WriteAll_WroteOK, SwitchSectors_StartOK, SwitchSectors_InUseOK,
     SwitchFull_StartOK, SwitchFull_WrittenOK, SwitchFull_ErasedOK, EraseSector_EraseOK,
     EraseSector_MarkOK, EraseAll_StartOK, EraseAll_SecondOK, EraseAll_MarkOK, ReInitialise_StartOK,
     ReInitialise_ErasedOK, LoadSectorOK, Init_HeadersOK, Init_LoadOK, Init_LoadedOK, Init_RewriteOK,
     Init_RewrittenOK, Init_EraseOK, Init_ErasedOK, Zenon DEF Library
<1>2. CASE Boot \/ Booted \/ Stored \/ Write_Fault \/ Write_Failed
  BY <1>2, BootOK, BootedOK, StoredOK, Write_FaultOK, Write_FailedOK
<1>3. CASE (\E r \in Ranges : Store(r)) \/ ArmOrDisarm \/ PowerFail
  BY <1>3, StoreOK, ArmOrDisarmOK, PowerFailOK
<1> QED
  BY <1>1, <1>2, <1>3, StutterOK DEF Next, Thread

\* The types, the shape of the call stack and the room for blocks.
THEOREM FlashTypes == Spec => []TypeInv
BY InitTypes, StepTypes, PTL DEF Spec

\* The object, the two sectors, the calls and the history stay in their domains, for
\* every size and however power fails, flash refuses and the vehicle arms.
THEOREM FlashTypeCorrect == Spec => []TypeOK
<1>1. TypeInv => TypeOK
  BY DEF TypeInv, TypeOK, FlashOK, StackOK, OthersOK, FrameType
<1> QED
  BY <1>1, FlashTypes, PTL

\* No block that write() programs reaches past the end of its sector, however deep
\* write(), switch_full_sector() and write_all() call each other.
THEOREM FlashInBounds == Spec => []InBounds
<1>1. TypeInv => InBounds
  BY DEF TypeInv, FlashOK
<1> QED
  BY <1>1, FlashTypes, PTL

-----------------------------------------------------------------------------
(* The log.  The proof that it stays readable needs that init() is never   *)
(* cut short in the two states from which the next init() goes on in a     *)
(* sector that it has not read.                                            *)

LogSafe == PowerFailAt \cap {"lone_sector_1", "marked_full"} = {}

\* What the header of a sector says, and a sector without a block.
Header(s) == flash[s].header
Blank(s) == Programmed(s) = {}

\* LogIsReadable, for one sector.
Chain(s) ==
    \A o \in Programmed(s) :
        /\ \A p \in Programmed(s) : p > o => EndOf(s, o) <= p
        /\ o = SectorHdr \/ \E p \in Programmed(s) : EndOf(s, p) = o

\* load_sector() gets to t.
Boundary(s, t) == t >= SectorHdr /\ (t = SectorHdr \/ \E p \in Programmed(s) : EndOf(s, p) = t)

\* The log of s ends at t.
EndsAt(s, t) == Chain(s) /\ Boundary(s, t) /\ \A o \in Programmed(s) : EndOf(s, o) <= t

\* The function that works, or has a sector loaded or erased.
user == IF top.fn \in {"load_sector", "erase_sector"} THEN stack[2] ELSE top

\* The function that the caller has called.
boot == IF Len(stack) > 1 THEN stack[Len(stack) - 1] ELSE top

\* The phases of the store: off, lost to a panic or an overrun, in the first half of
\* init(), in erase_all(), and at work.
Off == At("caller", "off")
Dead == top.fn = "overflow" \/ At("caller", "panic")
Loading == user.fn = "init" /\ user.pc \in {"start", "load", "loaded", "rewrite"}
Formatting == user.fn = "erase_all"
Working == ~Off /\ ~Dead /\ ~Loading /\ ~Formatting

\* What is free is blank, what will be read is readable.
SectorsInv ==
    \A s \in Sectors : /\ Header(s) = "AVAILABLE" => Blank(s)
                       /\ Header(s) \in {"IN_USE", "FULL"} => Chain(s)

\* The pairs of headers that a boot finds.
BootPair ==
    \/ \E s \in Sectors : Header(s) = "BAD"
    \/ Header(0) = Header(1)
    \/ Header(0) = "IN_USE"
    \/ Header(0) = "FULL" /\ Header(1) = "IN_USE"

InBlock == top.fn = "write" /\ top.pc \in {"data", "valid"}

\* The log of the current sector ends at write_offset, or behind the block that is
\* being written there, unless the next block destroys the sector's header.
Open ==
    /\ Header(current) = "IN_USE" =>
         /\ obj.write_offset >= SectorHdr
         /\ ~InBlock => EndsAt(current, obj.write_offset)
         /\ InBlock => /\ obj.write_offset \in Programmed(current)
                       /\ flash[current].log[obj.write_offset].count = BlockCount(top.y)
                       /\ EndsAt(current, EndOf(current, obj.write_offset))
    /\ Header(current) = "AVAILABLE" => obj.write_offset < SectorHdr
    /\ Header(current) = "FULL" => At("switch_sectors", "in_use")

\* At work, the log is open, and what is erased is the other sector.
OpenInv == Working =>
    /\ Open
    /\ top.fn = "erase_sector" => top.x = Other(current)
    /\ At("switch_sectors", "in_use") => Header(Other(current)) = "AVAILABLE"

\* erase_sector() marks a sector that it has erased.
EraseInv == At("erase_sector", "mark") => Blank(top.x)

\* erase_all() has set the object up before it erases.
FormatInv == Formatting =>
    /\ user.pc # "start" => current = 0 /\ obj.write_offset = SectorHdr
    /\ user.pc = "erased0" => IF top.fn = "erase_sector" THEN top.x = 0 ELSE ret /\ Blank(0)
    /\ user.pc = "erased1" => Blank(0) /\ IF top.fn = "erase_sector" THEN top.x = 1 ELSE ret

\* A store that is off has lost its object, and left headers that init() can read.
OffInv == Off => obj = Cleared /\ BootPair

\* init() reads the sectors, the one in use last.
Next2(f) == (f.x + f.y) % 2
LoadInv == Loading =>
    /\ BootPair /\ current = 0
    /\ user.pc = "start" => obj = Cleared
    /\ user.pc # "start" =>
         /\ \A s \in Sectors : obj.states[s] = Header(s) /\ Header(s) # "BAD"
         /\ Header(0) = Header(1) => Header(0) = "AVAILABLE"
         /\ user.x = FirstSector(obj.states)
         /\ Header(0) = "AVAILABLE" => obj.write_offset = 0
    /\ user.pc = "loaded" =>
         /\ Header(Next2(user)) \in {"IN_USE", "FULL"}
         /\ top.fn = "load_sector" => top.x = Next2(user) /\ Boundary(top.x, top.y)
         /\ top.fn # "load_sector" /\ ret => EndsAt(Next2(user), obj.write_offset)
    /\ user.pc \in {"load", "rewrite"} =>
         \A s \in Sectors : Header(s) = "IN_USE" /\ (user.pc = "rewrite" \/ user.y = 2 \/ (user.y = 1 /\ s = user.x))
                               => EndsAt(s, obj.write_offset)

\* What is left of init() erases the sector that is not the current one.
Erasing == boot.fn = "init" /\ boot.pc \in {"rewritten", "erase", "erased"}
Rewriting == boot.fn = "init" /\ boot.pc = "rewritten"
RewriteInv == Erasing =>
    /\ obj.reserved_space = 0
    /\ \A s \in Sectors : obj.states[s] = "FULL" => s = Other(current)
    /\ Rewriting => Header(Other(current)) = "FULL" /\ obj.states[Other(current)] = "FULL"

\* A rewrite in init() that runs out of room gets nowhere: it never comes back
\* with TRUE, and never switches or erases a sector.
Zero(n) == \A a \in Addr : a < n => obj.mem_buffer[a] = 0
Deep == Len(stack) > 4 \/ (Len(stack) = 4 /\ top.pc \in {"switched", "switched_full"})
Stuck ==
    /\ top.fn = "write" => ~Zero(StorageSize)
    /\ Deep =>
         /\ obj.write_offset > SectorSize - (BlockHdr + MaxWrite)
         /\ ~Zero(StorageSize)
         /\ ~ret
         /\ top.fn \in {"write_all", "write", "switch_sectors", "switch_full_sector"}
         /\ top.pc \in {"start", "wrote", "switched", "switched_full", "failed", "written"}
         /\ At("write", "start") => top.y > 0
         /\ At("write_all", "start") => Zero(top.x)
\* What holds of the rewrite in init().
StuckInv == Rewriting => Stuck

\* The invariant of the log.
LogInv == SectorsInv /\ OpenInv /\ EraseInv /\ FormatInv /\ OffInv /\ LoadInv /\ RewriteInv /\ StuckInv

-----------------------------------------------------------------------------
(* Logs: what reading, appending and erasing do to them.                   *)

\* A set of numbers has a least member.
LEMMA Least ==
    ASSUME NEW T \in SUBSET Nat, T # {}
    PROVE  \E x \in T : \A y \in T : x <= y
<1>1. IsWellFoundedOn(OpToRel(<, Nat), Nat)
  BY NatLessThanWellFounded
<1>2. PICK x \in T : \A y \in T : ~(<<y, x>> \in OpToRel(<, Nat))
  BY <1>1, WFMin
<1>3. ASSUME NEW y \in T PROVE x <= y
  <2>1. ~(<<y, x>> \in OpToRel(<, Nat))
    BY <1>2
  <2>2. ~(y < x)
    BY <2>1 DEF OpToRel
  <2> QED
    BY <2>2
<1> QED
  BY <1>3

\* The ends of blocks.
LEMMA Ends ==
    ASSUME FlashOK, NEW s \in Sectors, NEW o \in Programmed(s)
    PROVE  /\ o \in Nat /\ o \in Offsets /\ EndOf(s, o) \in Nat /\ EndOf(s, o) > o + BlockHdr
           /\ EndOf(s, o) <= SectorSize /\ flash[s].log[o].state # "AVAILABLE"
<1>1. o \in Offsets /\ flash[s].log[o].state # "AVAILABLE" /\ o \in Nat
  BY DEF Programmed, Offsets
<1>2. BlockOK(flash[s].log[o])
  BY <1>1 DEF FlashOK, Offsets
<1> DEFINE c == flash[s].log[o].count
<1>3. c \in Nat /\ c > 0
  BY <1>1, <1>2 DEF BlockOK, Block
<1>4. EndOf(s, o) <= SectorSize
  BY DEF FlashOK, InBounds
<1>5. EndOf(s, o) = o + BlockHdr + c * BlockSize
  BY DEF EndOf, Bytes
<1> HIDE DEF c
<1> DEFINE z == c * BlockSize
<1>6. z \in Nat /\ z > 0
  BY <1>3, Sizes, Z3
<1> HIDE DEF z
<1>7. EndOf(s, o) = o + BlockHdr + z
  BY <1>5 DEF z
<1> QED
  BY <1>1, <1>4, <1>6, <1>7, Sizes

\* A log whose headers stay as they are.
LEMMA LogSame ==
    ASSUME NEW s \in Sectors,
           \A o \in Offsets : /\ flash'[s].log[o].state = "AVAILABLE" <=> flash[s].log[o].state = "AVAILABLE"
                              /\ flash'[s].log[o].count = flash[s].log[o].count
    PROVE  /\ Programmed(s)' = Programmed(s) /\ \A o \in Programmed(s) : EndOf(s, o)' = EndOf(s, o)
           /\ Blank(s)' = Blank(s) /\ (Chain(s) => Chain(s)')
           /\ \A t : (Boundary(s, t) => Boundary(s, t)') /\ (EndsAt(s, t) => EndsAt(s, t)')
<1>1. Programmed(s)' = Programmed(s)
  BY DEF Programmed, Offsets
<1>2. \A o \in Programmed(s) : o \in Offsets /\ EndOf(s, o)' = EndOf(s, o)
  BY DEF EndOf, Programmed, Offsets
<1>3. Blank(s)' = Blank(s) /\ (Chain(s) => Chain(s)')
  BY <1>1, <1>2 DEF Blank, Chain
<1>4. ASSUME NEW t PROVE (Boundary(s, t) => Boundary(s, t)') /\ (EndsAt(s, t) => EndsAt(s, t)')
  BY <1>1, <1>2, <1>3 DEF Boundary, EndsAt
<1> QED
  BY <1>1, <1>2, <1>3, <1>4

\* A blank sector can be read, to its beginning.
LEMMA BlankEnds ==
    ASSUME NEW s, Blank(s)
    PROVE  Chain(s) /\ EndsAt(s, SectorHdr)
BY Sizes DEF Blank, Chain, EndsAt, Boundary

\* The same of the next state.
LEMMA BlankEnds2 ==
    ASSUME NEW s, Blank(s)'
    PROVE  Chain(s)' /\ EndsAt(s, SectorHdr)'
BY Sizes DEF Blank, Chain, EndsAt, Boundary

\* No block lies in front of the log, and those in front of a boundary end there.
LEMMA Before ==
    ASSUME FlashOK, NEW s \in Sectors, Chain(s), NEW t \in Nat, Boundary(s, t), NEW o \in Programmed(s), o < t
    PROVE  EndOf(s, o) <= t
<1>1. \A p \in Programmed(s) : p \in Nat /\ EndOf(s, p) \in Nat /\ EndOf(s, p) > p
  BY Ends, Sizes
<1>2. PICK m \in Programmed(s) : \A p \in Programmed(s) : m <= p
  <2>1. Programmed(s) \in SUBSET Nat /\ Programmed(s) # {}
    BY <1>1
  <2> QED
    BY <2>1, Least
<1>3. m = SectorHdr
  <2>1. m = SectorHdr \/ \E p \in Programmed(s) : EndOf(s, p) = m
    BY DEF Chain
  <2> QED
    BY <2>1, <1>1, <1>2
<1>4. t # SectorHdr
  BY <1>1, <1>2, <1>3
<1>5. PICK q \in Programmed(s) : EndOf(s, q) = t
  BY <1>4 DEF Boundary
<1>6. CASE o = q
  BY <1>5, <1>6, <1>1
<1>7. CASE o < q
  <2>1. EndOf(s, o) <= q
    BY <1>7 DEF Chain
  <2> QED
    BY <2>1, <1>1, <1>5
<1>8. CASE o > q
  <2>1. EndOf(s, q) <= o
    BY <1>8 DEF Chain
  <2> QED
    BY <2>1, <1>1, <1>5
<1> QED
  BY <1>1, <1>6, <1>7, <1>8

\* The scan stops at the end of the log.
LEMMA ScanEnds ==
    ASSUME FlashOK, NEW s \in Sectors, Chain(s), NEW t \in Nat, Boundary(s, t),
           t >= SectorSize - BlockHdr \/ t \notin Programmed(s)
    PROVE  EndsAt(s, t)
<1>1. \A p \in Programmed(s) : /\ p \in Nat /\ EndOf(s, p) \in Nat /\ EndOf(s, p) > p + BlockHdr
                               /\ EndOf(s, p) <= SectorSize /\ EndOf(s, p) > p
  BY Ends, Sizes
<1>2. \A p \in Programmed(s) : p < t => EndOf(s, p) <= t
  BY Before
<1>3. \A p \in Programmed(s) : p # t
  BY <1>1, Sizes
<1> DEFINE T == {p \in Programmed(s) : p > t}
<1>4. T = {}
  <2> SUFFICES ASSUME T # {} PROVE FALSE
    OBVIOUS
  <2>1. T \in SUBSET Nat
    BY <1>1
  <2>2. PICK p \in T : \A q \in T : p <= q
    BY <2>1, Least
  <2>3. p # SectorHdr
    BY <1>1, Sizes DEF Boundary
  <2>4. PICK q \in Programmed(s) : EndOf(s, q) = p
    BY <2>3 DEF Chain
  <2>5. q < t
    BY <2>2, <2>4, <1>1, <1>3
  <2> QED
    BY <2>4, <2>5, <1>1, <1>2
<1>5. \A p \in Programmed(s) : EndOf(s, p) <= t
  BY <1>1, <1>2, <1>3, <1>4
<1> QED
  BY <1>5 DEF EndsAt

\* The scan goes on behind a block.
LEMMA ScanGoesOn ==
    ASSUME FlashOK, NEW s \in Sectors, NEW t \in Programmed(s), Boundary(s, t)
    PROVE  Boundary(s, EndOf(s, t))
<1>1. t \in Nat /\ EndOf(s, t) \in Nat /\ EndOf(s, t) > t
  BY Ends, Sizes
<1> QED
  BY <1>1, Sizes DEF Boundary

\* A block at the end of the log: the log ends behind it.
LEMMA Appends ==
    ASSUME FlashOK, FlashOK', NEW s \in Sectors, NEW w \in Offsets, EndsAt(s, w),
           flash'[s].log[w].state # "AVAILABLE",
           \A o \in Offsets : o # w => flash'[s].log[o] = flash[s].log[o]
    PROVE  w \in Programmed(s)' /\ EndsAt(s, EndOf(s, w))'
<1> DEFINE P == Programmed(s)
           Q == Programmed(s)'
           E(o) == EndOf(s, o)
           F(o) == o + BlockHdr + Bytes(flash'[s].log[o].count)
<1>1. \A o \in P : o \in Nat /\ E(o) \in Nat /\ E(o) > o /\ E(o) <= w /\ o # w /\ o < w
  <2>1. \A o \in P : o \in Nat /\ E(o) \in Nat /\ E(o) > o
    BY Ends, Sizes
  <2>2. \A o \in P : E(o) <= w
    BY DEF EndsAt
  <2>3. w \in Nat
    BY DEF Offsets
  <2> HIDE DEF E
  <2> QED
    BY <2>1, <2>2, <2>3
<1>2. Q = P \cup {w}
  <2>1. \A o \in Offsets : o # w => (o \in Q <=> o \in P)
    BY DEF Programmed, Offsets
  <2>2. w \in Q /\ Q \subseteq Offsets /\ P \subseteq Offsets
    BY DEF Programmed, Offsets
  <2> HIDE DEF P, Q
  <2> QED
    BY <2>1, <2>2
<1>3. \A o \in P : F(o) = E(o)
  <2> SUFFICES ASSUME NEW o \in P PROVE F(o) = E(o)
    OBVIOUS
  <2>1. o \in Offsets /\ o # w
    BY <1>1 DEF Programmed, Offsets
  <2> QED
    BY <2>1 DEF EndOf
<1>4. F(w) \in Nat /\ F(w) > w /\ w \in Nat /\ F(w) >= SectorHdr /\ w >= SectorHdr
  <2>1. BlockOK(flash[s].log[w])'
    BY DEF FlashOK, Offsets
  <2>2. flash'[s].log[w].count \in Nat
    BY <2>1 DEF BlockOK, Block
  <2>3. Bytes(flash'[s].log[w].count) \in Nat
    BY <2>2, Sizes DEF Bytes
  <2>4. w >= SectorHdr /\ w \in Nat
    BY DEF EndsAt, Boundary, Offsets
  <2> DEFINE z == Bytes(flash'[s].log[w].count)
  <2>5. F(w) = w + BlockHdr + z /\ z \in Nat
    BY <2>3 DEF EndOf
  <2> HIDE DEF z, F
  <2> QED
    BY <2>4, <2>5, Sizes
<1>5. /\ \A o \in P : \A p \in P : p > o => E(o) <= p
      /\ \A o \in P : o = SectorHdr \/ \E p \in P : E(p) = o
      /\ w = SectorHdr \/ \E p \in P : E(p) = w
  BY DEF EndsAt, Chain, Boundary
<1> HIDE DEF P, Q, E, F
<1>6. /\ \A o \in Q : \A p \in Q : p > o => F(o) <= p
      /\ \A o \in Q : o = SectorHdr \/ \E p \in Q : F(p) = o
      /\ \A o \in Q : F(o) <= F(w)
  <2>1. ASSUME NEW o \in Q, NEW p \in Q, p > o PROVE F(o) <= p
    BY <2>1, <1>1, <1>2, <1>3, <1>4, <1>5
  <2>2. ASSUME NEW o \in Q PROVE o = SectorHdr \/ \E p \in Q : F(p) = o
    BY <2>2, <1>2, <1>3, <1>5
  <2>3. ASSUME NEW o \in Q PROVE F(o) <= F(w)
    BY <2>3, <1>1, <1>2, <1>3, <1>4
  <2> QED
    BY <2>1, <2>2, <2>3
<1>7. Chain(s)'
  BY <1>6 DEF Chain, Q, F, EndOf
<1>8. Boundary(s, EndOf(s, w))' /\ \A o \in Q : F(o) <= F(w)
  BY <1>2, <1>4, <1>6 DEF Boundary, Q, F, EndOf
<1>9. w \in Programmed(s)'
  BY <1>2 DEF Q
<1> QED
  BY <1>7, <1>8, <1>9 DEF EndsAt, F, Q, EndOf

-----------------------------------------------------------------------------
(* The call stack, from below.                                             *)

\* The caller is at the bottom.
LEMMA CallerLast ==
    ASSUME NEW s, StackOK(s), NEW i \in 1 .. Len(s), s[i].fn \in {"caller", "overflow"}
    PROVE  i = Len(s)
<1> DEFINE n == Len(s)
<1>1. n \in Nat
  BY LenProperties DEF StackOK
<1>2. \A k \in 1 .. n - 1 : Awaits(s[k + 1], s[k].fn)
  BY DEF StackOK
<1>3. ~(\E f : Awaits(f, s[i].fn))
  BY DEF Awaits
<1> HIDE DEF n
<1>4. i \in 1 .. n
  BY DEF n
<1>5. i \notin 1 .. n - 1
  BY <1>2, <1>3
<1>6. i = n
  BY <1>1, <1>4, <1>5
<1> QED
  BY <1>6 DEF n

\* init() is called by the caller.
LEMMA InitAlone ==
    ASSUME StackOK(stack), top.fn = "init"
    PROVE  Len(stack) = 2 /\ boot = top /\ stack[2].fn = "caller" /\ stack[2].pc = "booting" /\ stack[1] = top
<1>1. stack[1] = top /\ Len(stack) > 1 /\ Len(stack) \in Nat /\ Awaits(stack[2], "init")
  BY Top, Popped
<1>2. stack[2].fn = "caller" /\ stack[2].pc = "booting"
  BY <1>1 DEF Awaits
<1>3. Len(stack) = 2
  <2>1. 2 \in 1 .. Len(stack)
    BY <1>1
  <2> QED
    BY <2>1, <1>2, CallerLast
<1> QED
  BY <1>1, <1>2, <1>3 DEF boot

\* What init() waits for.
LEMMA BootChild ==
    ASSUME StackOK(stack), boot.fn = "init"
    PROVE  /\ Len(stack) \in Nat /\ Len(stack) > 1 /\ boot = stack[Len(stack) - 1]
           /\ Len(stack) = 2 => top = boot
           /\ Len(stack) > 2 => Awaits(boot, stack[Len(stack) - 2].fn)
           /\ bottom.fn = "caller" /\ bottom.pc = "booting"
<1>1. Len(stack) \in Nat /\ Len(stack) >= 1 /\ stack[1] = top
  BY Top
<1>2. Len(stack) > 1
  <2>1. Len(stack) = 1 => top = bottom
    BY <1>1 DEF bottom
  <2>2. top = bottom => top.fn # "init"
    BY Top
  <2>3. Len(stack) = 1 => boot = top
    BY DEF boot
  <2> DEFINE k == Len(stack)
  <2>4. k # 1 /\ k \in Nat /\ k >= 1
    BY <2>1, <2>2, <2>3, <1>1
  <2> HIDE DEF k
  <2>5. k > 1
    BY <2>4
  <2> QED
    BY <2>5 DEF k
<1> DEFINE n == Len(stack)
<1>3. n \in Nat /\ n > 1 /\ \A i \in 1 .. n - 1 : Awaits(stack[i + 1], stack[i].fn)
  BY <1>1, <1>2 DEF StackOK
<1>4. boot = stack[n - 1]
  BY <1>2 DEF boot
<1> HIDE DEF n
<1>5. Awaits(stack[n], stack[n - 1].fn)
  <2>1. n - 1 \in 1 .. n - 1 /\ n - 1 + 1 = n
    BY <1>3
  <2> QED
    BY <2>1, <1>3
<1>6. n > 2 => Awaits(stack[n - 1], stack[n - 2].fn)
  <2>1. n > 2 => n - 2 \in 1 .. n - 1 /\ n - 2 + 1 = n - 1
    BY <1>3
  <2> QED
    BY <2>1, <1>3
<1>7. stack[n].fn = "caller" /\ stack[n].pc = "booting"
  BY <1>4, <1>5 DEF Awaits
<1>8. n = 2 => stack[n - 1] = top
  BY <1>1, <1>3
<1> QED
  BY <1>3, <1>4, <1>6, <1>7, <1>8 DEF n, bottom

\* While init() erases nothing else is called.
LEMMA EraseStack ==
    ASSUME StackOK(stack), boot.fn = "init", boot.pc \in {"erase", "erased"}
    PROVE  top.fn = "init" \/ (top.fn = "erase_sector" /\ stack[2] = boot)
<1> DEFINE n == Len(stack)
<1>1. /\ n \in Nat /\ n > 1 /\ boot = stack[n - 1]
      /\ n = 2 => top = boot
      /\ n > 2 => Awaits(boot, stack[n - 2].fn)
  BY BootChild
<1>2. stack[1] = top /\ \A i \in 1 .. n - 1 : Awaits(stack[i + 1], stack[i].fn)
  BY Top DEF StackOK
<1> HIDE DEF n
<1>3. n > 2 => stack[n - 2].fn = "erase_sector"
  BY <1>1 DEF Awaits
<1>4. n > 3 => Awaits(stack[n - 2], stack[n - 3].fn)
  <2>1. n > 3 => n - 3 \in 1 .. n - 1 /\ n - 3 + 1 = n - 2
    BY <1>1
  <2> QED
    BY <2>1, <1>2
<1>5. ~(n > 3)
  BY <1>1, <1>3, <1>4 DEF Awaits
<1>6. n = 3 => stack[n - 2] = top /\ boot = stack[2]
  BY <1>1, <1>2
<1>7. n = 2 \/ n = 3
  BY <1>1, <1>5
<1> QED
  BY <1>1, <1>3, <1>6, <1>7

\* The rewrite of init().
LEMMA RewriteStack ==
    ASSUME StackOK(stack), Rewriting
    PROVE  /\ Len(stack) \in Nat /\ Len(stack) >= 2
           /\ Len(stack) = 2 => top.fn = "init"
           /\ Len(stack) = 3 => top.fn = "write_all" /\ stack[2].fn = "init"
           /\ Len(stack) = 4 => top.fn = "write" /\ stack[2].fn = "write_all"
           /\ Len(stack) > 2 => top.fn # "init"
<1> DEFINE n == Len(stack)
<1>1. /\ n \in Nat /\ n > 1 /\ boot = stack[n - 1] /\ boot.fn = "init" /\ boot.pc = "rewritten" 
      /\ n = 2 => top = boot
      /\ n > 2 => Awaits(boot, stack[n - 2].fn)
  BY BootChild DEF Rewriting
<1>2. stack[1] = top /\ \A i \in 1 .. n - 1 : Awaits(stack[i + 1], stack[i].fn)
  BY Top DEF StackOK
<1>3. top.fn = "init" => n = 2
  BY InitAlone
<1> HIDE DEF n
<1>4. n > 2 => stack[n - 2].fn = "write_all"
  BY <1>1 DEF Awaits
<1>5. n > 3 => Awaits(stack[n - 2], stack[n - 3].fn)
  <2>1. n > 3 => n - 3 \in 1 .. n - 1 /\ n - 3 + 1 = n - 2
    BY <1>1
  <2> QED
    BY <2>1, <1>2
<1>6. n > 3 => stack[n - 3].fn = "write"
  BY <1>1, <1>4, <1>5 DEF Awaits
<1>7. n = 3 => top.fn = "write_all" /\ stack[2].fn = "init"
  <2>1. n = 3 => n - 2 = 1 /\ n - 1 = 2
    OBVIOUS
  <2> QED
    BY <2>1, <1>1, <1>2, <1>4
<1>8. n = 4 => top.fn = "write" /\ stack[2].fn = "write_all"
  <2>1. n = 4 => n - 2 = 2 /\ n - 3 = 1
    OBVIOUS
  <2> QED
    BY <2>1, <1>2, <1>4, <1>6
<1>9. (n = 2 => top.fn = "init") /\ (n > 2 => top.fn # "init") /\ n >= 2
  BY <1>1, <1>3
<1> QED
  BY <1>1, <1>7, <1>8, <1>9 DEF n

\* A jump, or a call in the place of the caller, above init().
LEMMA BootJumps ==
    ASSUME StackOK(stack), Len(stack') = Len(stack), \A i \in 2 .. Len(stack) : stack'[i] = stack[i],
           stack'[1] = top', top'.fn # "init"
    PROVE  boot'.fn = "init" => boot' = boot /\ Len(stack) > 2 /\ boot.fn = "init"
<1> DEFINE n == Len(stack)
<1>1. n \in Nat /\ n >= 1 /\ (n > 1 => boot = stack[n - 1]) /\ (n > 1 => boot' = stack'[n - 1]) /\ (n = 1 => boot' = top')
  BY Top DEF boot
<1> HIDE DEF n
<1>2. n > 2 => n - 1 \in 2 .. n
  BY <1>1
<1>3. n > 2 => boot' = boot
  BY <1>1, <1>2 DEF n
<1>4. n = 2 => boot' = top'
  BY <1>1
<1>5. n > 2 \/ n = 2 \/ n = 1
  BY <1>1
<1> QED
  BY <1>1, <1>3, <1>4, <1>5 DEF n

\* A return to a function that init() has called, or to the caller.
LEMMA BootReturns ==
    ASSUME StackOK(stack), StackOK(stack'), Len(stack) > 1, Len(stack') = Len(stack) - 1,
           \A i \in 1 .. Len(stack) - 1 : stack'[i] = stack[i + 1], top.fn # "init"
    PROVE  boot'.fn = "init" => boot' = boot /\ Len(stack) > 2 /\ boot.fn = "init"
<1> DEFINE n == Len(stack)
<1>1. n \in Nat /\ n > 1 /\ boot = stack[n - 1] /\ Len(stack') = n - 1
  BY Top DEF boot
<1>2. stack'[1] = top'
  BY DEF StackOK, top
<1>3. boot' = IF n - 1 > 1 THEN stack'[n - 1 - 1] ELSE top'
  BY <1>1 DEF boot
<1>4. n = 2 => boot'.fn # "init"
  <2>1. stack'[Len(stack')].fn \in {"caller", "overflow"}
    BY DEF StackOK
  <2> HIDE DEF n
  <2>2. n = 2 => n - 1 = 1 /\ ~(n - 1 > 1)
    OBVIOUS
  <2>3. n = 2 => stack'[1].fn \in {"caller", "overflow"}
    BY <2>1, <2>2, <1>1
  <2>4. n = 2 => boot' = top'
    BY <2>2, <1>3
  <2> QED
    BY <2>3, <2>4, <1>2
<1>5. \A i \in 1 .. n - 1 : stack'[i] = stack[i + 1]
  OBVIOUS
<1> HIDE DEF n
<1>6. n > 2 => boot' = boot
  <2>1. n > 2 => n - 1 > 1 /\ n - 1 - 1 \in 1 .. n - 1 /\ n - 1 - 1 + 1 = n - 1
    BY <1>1
  <2>2. n > 2 => boot' = stack'[n - 1 - 1]
    BY <2>1, <1>3
  <2>3. n > 2 => stack'[n - 1 - 1] = stack[n - 1 - 1 + 1]
    BY <2>1, <1>5
  <2> QED
    BY <2>1, <2>2, <2>3, <1>1
<1>7. n > 2 \/ n = 2
  BY <1>1
<1> QED
  BY <1>4, <1>6, <1>7 DEF n

\* A call above init().
LEMMA BootCalls ==
    ASSUME StackOK(stack), Len(stack') = Len(stack) + 1, \A i \in 3 .. Len(stack') : stack'[i] = stack[i - 1],
           stack'[1] = top', top'.fn # "init", stack'[2].fn # "init"
    PROVE  boot'.fn = "init" => boot' = boot /\ Len(stack) > 2 /\ boot.fn = "init"
<1> DEFINE n == Len(stack)
<1>1. n \in Nat /\ n >= 1 /\ (n > 1 => boot = stack[n - 1]) /\ Len(stack') = n + 1
  BY Top DEF boot
<1>2. boot' = stack'[n]
  <2>1. boot' = stack'[n + 1 - 1]
    BY <1>1 DEF boot
  <2>2. n + 1 - 1 = n
    BY <1>1
  <2> QED
    BY <2>1, <2>2
<1>3. \A i \in 3 .. n + 1 : stack'[i] = stack[i - 1]
  OBVIOUS
<1> HIDE DEF n
<1>4. n > 2 => boot' = boot
  <2>1. n > 2 => n \in 3 .. n + 1 /\ n > 1
    BY <1>1
  <2>2. n > 2 => stack'[n] = stack[n - 1]
    BY <2>1, <1>3
  <2> QED
    BY <2>1, <2>2, <1>1, <1>2
<1>5. n = 2 => boot' = stack'[2]
  BY <1>1, <1>2
<1>6. n = 1 => boot' = stack'[1]
  BY <1>1, <1>2
<1>7. n > 2 \/ n = 2 \/ n = 1
  BY <1>1
<1> QED
  BY <1>4, <1>5, <1>6, <1>7 DEF n

\* The four ways a step of another function than init() ends: init() stays where it is.
BootStays == boot'.fn = "init" => boot' = boot /\ Len(stack) > 2 /\ boot.fn = "init"

\* First way: the function goes on.
LEMMA BootGoto ==
    ASSUME TypeInv, NEW pc, NEW x, NEW y, Goto(pc, x, y), top.fn # "init", FrameOK(Frame(top.fn, pc, x, y))
    PROVE  BootStays
<1>1. /\ top' = Frame(top.fn, pc, x, y) /\ stack'[1] = top'
      /\ Len(stack') = Len(stack) /\ \A i \in 2 .. Len(stack) : stack'[i] = stack[i]
  BY Jumps DEF TypeInv
<1>2. top'.fn # "init"
  BY <1>1 DEF Frame
<1> QED
  BY <1>1, <1>2, BootJumps DEF TypeInv, BootStays

\* Second way: it returns.
LEMMA BootReturn ==
    ASSUME TypeInv, NEW v \in BOOLEAN, Return(v), top.fn \notin {"init", "caller", "overflow"}
    PROVE  BootStays
<1>1. /\ StackOK(stack') /\ Len(stack) > 1 /\ Len(stack') = Len(stack) - 1
      /\ \A i \in 1 .. Len(stack) - 1 : stack'[i] = stack[i + 1]
  BY Returns DEF TypeInv
<1> QED
  BY <1>1, BootReturns DEF TypeInv, BootStays

\* Third way: it returns what another function answers.
LEMMA BootTailCall ==
    ASSUME TypeInv, NEW fn, NEW x, NEW y, TailCall(fn, x, y), top.fn \notin {"caller", "overflow"}, fn # "init",
           FrameOK(Frame(fn, "start", x, y)), Awaits(stack[2], fn)
    PROVE  BootStays
<1>1. /\ top' = Frame(fn, "start", x, y) /\ stack'[1] = top'
      /\ Len(stack') = Len(stack) /\ \A i \in 2 .. Len(stack) : stack'[i] = stack[i]
  BY TailCalls DEF TypeInv
<1>2. top'.fn # "init"
  BY <1>1 DEF Frame
<1> QED
  BY <1>1, <1>2, BootJumps DEF TypeInv, BootStays

\* Fourth way: it calls another function, or overruns the stack.
LEMMA BootCall ==
    ASSUME TypeInv, NEW pc, NEW fn, NEW x, NEW y,
           FrameOK(Frame(fn, "start", x, y)), FrameOK(Frame(top.fn, pc, top.x, top.y)),
           Awaits(Frame(top.fn, pc, top.x, top.y), fn), Call(pc, fn, x, y), top.fn # "init", fn # "init"
    PROVE  BootStays
<1>1. /\ stack'[1] = top'
      /\ \/ /\ top' = Frame(fn, "start", x, y)
            /\ stack'[2] = Frame(top.fn, pc, top.x, top.y)
            /\ Len(stack') = Len(stack) + 1
            /\ \A i \in 3 .. Len(stack') : stack'[i] = stack[i - 1]
         \/ top' = Frame("overflow", "start", 0, 0) /\ Len(stack') = 1
  BY Calls DEF TypeInv
<1>2. CASE top' = Frame("overflow", "start", 0, 0) /\ Len(stack') = 1
  <2>1. boot' = top' /\ top'.fn # "init"
    BY <1>2 DEF boot, Frame
  <2> QED
    BY <2>1 DEF BootStays
<1>3. CASE /\ top' = Frame(fn, "start", x, y)
           /\ stack'[2] = Frame(top.fn, pc, top.x, top.y)
           /\ Len(stack') = Len(stack) + 1
           /\ \A i \in 3 .. Len(stack') : stack'[i] = stack[i - 1]
  <2>1. top'.fn # "init" /\ stack'[2].fn # "init"
    BY <1>3 DEF Frame
  <2> QED
    BY <2>1, <1>1, <1>3, BootCalls DEF TypeInv, BootStays
<1> QED
  BY <1>1, <1>2, <1>3

-----------------------------------------------------------------------------
(* What a step leaves of the invariant of the log.                         *)

WorkFns == {"write", "write_all", "switch_sectors", "switch_full_sector", "re_initialise"}

\* The functions at work on an open store.
WorkFrame(f) ==
    \/ f.fn \in WorkFns
    \/ f.fn = "init" /\ f.pc \in {"rewritten", "erase", "erased"}
    \/ f.fn = "caller" /\ f.pc \in {"idle", "booting", "storing"}

\* A working function, or erase_sector() called by one: the store is at work.
LEMMA Works ==
    ASSUME WorkFrame(top) \/ (top.fn = "erase_sector" /\ WorkFrame(stack[2]))
    PROVE  Working
BY Zenon DEF WorkFrame, WorkFns, Working, Off, Dead, Loading, Formatting, user, At

\* The same of the next state.
LEMMA WorksOn ==
    ASSUME WorkFrame(top') \/ (top'.fn = "erase_sector" /\ WorkFrame(stack'[2]))
    PROVE  Working'
BY Zenon DEF WorkFrame, WorkFns, Working, Off, Dead, Loading, Formatting, user, At

\* A step to a working function.
LEMMA ToWorking ==
    ASSUME Working', SectorsInv', OpenInv', EraseInv', RewriteInv', StuckInv'
    PROVE  LogInv'
BY Zenon DEF LogInv, Working, FormatInv, OffInv, LoadInv

\* An overrun of the stack, and a panic.
LEMMA ToDead ==
    ASSUME Dead', Len(stack') = 1, SectorsInv'
    PROVE  LogInv'
<1>1. boot' = top' /\ top'.fn \in {"overflow", "caller"}
  BY DEF boot, Dead, At
<1>2. ~Working' /\ ~Off' /\ ~Loading' /\ ~Formatting' /\ ~Erasing' /\ ~Rewriting' /\ ~(At("erase_sector", "mark"))'
  BY <1>1 DEF Working, Off, Dead, Loading, Formatting, user, At, Erasing, Rewriting
<1> QED
  BY <1>2, Zenon DEF LogInv, OpenInv, EraseInv, FormatInv, OffInv, LoadInv, RewriteInv, StuckInv

\* Flash is not touched.
LEMMA FlashSame ==
    ASSUME flash' = flash
    PROVE  /\ SectorsInv => SectorsInv'
           /\ \A s \in Sectors : Header(s)' = Header(s) /\ (Chain(s) => Chain(s)') /\ Blank(s)' = Blank(s)
           /\ \A s \in Sectors : \A t : (Boundary(s, t) => Boundary(s, t)') /\ (EndsAt(s, t) => EndsAt(s, t)')
<1>1. ASSUME NEW s \in Sectors
      PROVE  /\ Header(s)' = Header(s) /\ (Chain(s) => Chain(s)') /\ Blank(s)' = Blank(s)
             /\ \A t : (Boundary(s, t) => Boundary(s, t)') /\ (EndsAt(s, t) => EndsAt(s, t)')
  <2>1. \A o \in Offsets : /\ flash'[s].log[o].state = "AVAILABLE" <=> flash[s].log[o].state = "AVAILABLE"
                           /\ flash'[s].log[o].count = flash[s].log[o].count
    OBVIOUS
  <2>2. Header(s)' = Header(s)
    BY DEF Header
  <2> QED
    BY <2>1, <2>2, LogSame
<1>2. SectorsInv => SectorsInv'
  BY <1>1 DEF SectorsInv
<1> QED
  BY <1>1, <1>2

\* The rest of init() sees nothing of the step.
LEMMA RewriteKept ==
    ASSUME RewriteInv, BootStays, obj'.states = obj.states, obj'.current_sector = obj.current_sector,
           obj'.reserved_space \in {0, obj.reserved_space},
           Rewriting => flash'[Other(current)].header = flash[Other(current)].header
    PROVE  RewriteInv' /\ (Rewriting' => Rewriting)
<1>1. (Erasing' => Erasing) /\ (Rewriting' => Rewriting)
  BY DEF BootStays, Erasing, Rewriting
<1>2. current' = current
  BY DEF current
<1> QED
  BY <1>1, <1>2 DEF RewriteInv, Header, Other

\* A step of a working function that leaves flash and write_offset alone.
LEMMA Stays ==
    ASSUME TypeInv, LogInv, Working, flash' = flash,
           obj'.current_sector = obj.current_sector, obj'.write_offset = obj.write_offset,
           ~InBlock, ~InBlock', ~At("switch_sectors", "in_use"), ~(At("switch_sectors", "in_use"))',
           top'.fn = "erase_sector" => top'.pc = "start" /\ top'.x = Other(current),
           Working', RewriteInv', StuckInv'
    PROVE  LogInv'
<1>1. current' = current /\ current \in Sectors
  BY Members DEF current, TypeInv
<1>2. SectorsInv' /\ Header(current)' = Header(current)
      /\ (EndsAt(current, obj.write_offset) => EndsAt(current, obj.write_offset)')
  <2>1. SectorsInv' /\ flash'[current].header = flash[current].header
    BY FlashSame DEF LogInv
  <2>2. \A t : EndsAt(current, t) => \A s \in Sectors : s = current => EndsAt(s, t)'
    BY <1>1, FlashSame
  <2>3. PICK w, c : w = obj.write_offset /\ c = current /\ c \in Sectors
    BY <1>1
  <2>4. EndsAt(c, w) => EndsAt(c, w)'
    BY <2>2, <2>3
  <2> QED
    BY <2>1, <2>3, <2>4, <1>1 DEF Header
<1>3. Open'
  BY <1>1, <1>2 DEF Open, LogInv, OpenInv
<1>4. OpenInv'
  BY <1>1, <1>3 DEF OpenInv, Other
<1>5. EraseInv'
  BY DEF EraseInv, At
<1> QED
  BY <1>2, <1>4, <1>5, ToWorking

\* Above the rewrite of init().
LEMMA InRewrite ==
    ASSUME TypeInv, LogInv, Rewriting
    PROVE  /\ Stuck /\ obj.reserved_space = 0 /\ Header(Other(current)) = "FULL"
           /\ Len(stack) \in Nat /\ Len(stack) >= 2
           /\ Len(stack) = 2 => top.fn = "init"
           /\ Len(stack) = 3 => top.fn = "write_all" /\ stack[2].fn = "init"
           /\ Len(stack) = 4 => top.fn = "write" /\ stack[2].fn = "write_all"
           /\ Len(stack) > 2 => top.fn # "init"
           /\ Len(stack) > 4 => Deep
           /\ top.fn \in {"init", "write_all", "write", "switch_sectors", "switch_full_sector"}
           /\ top.fn \in {"switch_sectors", "switch_full_sector"} => Deep /\ Len(stack) > 4
           /\ top.fn = "write" => Len(stack) >= 4 /\ (Len(stack) = 4 \/ Len(stack) > 4)
           /\ bottom.pc = "booting"
<1>1. /\ Len(stack) \in Nat /\ Len(stack) >= 2
      /\ Len(stack) = 2 => top.fn = "init"
      /\ Len(stack) = 3 => top.fn = "write_all" /\ stack[2].fn = "init"
      /\ Len(stack) = 4 => top.fn = "write" /\ stack[2].fn = "write_all"
      /\ Len(stack) > 2 => top.fn # "init"
  BY RewriteStack DEF TypeInv
<1>2. Stuck /\ obj.reserved_space = 0 /\ Header(Other(current)) = "FULL"
  BY DEF LogInv, StuckInv, RewriteInv, Erasing, Rewriting
<1>3. Len(stack) > 4 => Deep
  BY DEF Deep
<1>4. Deep => top.fn \in {"write_all", "write", "switch_sectors", "switch_full_sector"}
  BY <1>2 DEF Stuck
<1>5. bottom.pc = "booting"
  BY BootChild DEF TypeInv, Rewriting
<1> DEFINE n == Len(stack)
<1>6. n = 2 \/ n = 3 \/ n = 4 \/ n > 4
  <2>1. n \in Nat /\ n >= 2
    BY <1>1
  <2> HIDE DEF n
  <2> QED
    BY <2>1
<1>7. n = 4 => n >= 4
  OBVIOUS
<1>8. n > 4 => n >= 4
  <2>1. n \in Nat
    BY <1>1
  <2> HIDE DEF n
  <2> QED
    BY <2>1
<1> QED
  BY <1>1, <1>2, <1>3, <1>4, <1>5, <1>6, <1>7, <1>8, Zenon DEF n

\* A rewrite that is stuck, or has ended, returns.
LEMMA StuckReturn ==
    ASSUME TypeInv, LogInv, BootStays, NEW v \in BOOLEAN, Return(v), top.fn \in WorkFns,
           obj'.mem_buffer = obj.mem_buffer, obj'.write_offset = obj.write_offset \/ Len(stack) <= 4,
           Rewriting => ~v \/ Len(stack) <= 4
    PROVE  StuckInv'
<1> SUFFICES ASSUME Rewriting' PROVE Stuck'
  BY DEF StuckInv
<1>1. Rewriting /\ Len(stack) > 2
  BY DEF BootStays, Rewriting
<1>2. /\ StackOK(stack') /\ top' = stack[2] /\ stack'[1] = top' /\ ret' = v
      /\ Awaits(top', top.fn) /\ FrameOK(top')
      /\ Len(stack) \in Nat /\ Len(stack') = Len(stack) - 1
  BY Returns DEF TypeInv, WorkFns
<1>3. /\ Stuck
      /\ Len(stack) = 3 => stack[2].fn = "init"
      /\ Len(stack) = 4 => stack[2].fn = "write_all"
      /\ Len(stack) > 4 => Deep
      /\ top.fn \in {"write_all", "write", "switch_sectors", "switch_full_sector"}
  BY <1>1, InRewrite DEF WorkFns
<1> DEFINE n == Len(stack)
<1>4. n \in Nat /\ n > 2 /\ Len(stack') = n - 1
  BY <1>1, <1>2
<1>5. CASE n <= 4
  <2>1. n = 3 \/ n = 4
    <3> HIDE DEF n
    <3> QED
      BY <1>4, <1>5
  <2>2. top'.fn # "write"
    BY <2>1, <1>2, <1>3
  <2>3. ~Deep'
    <3>1. n - 1 # 4 /\ ~(n - 1 > 4)
      <4> HIDE DEF n
      <4> QED
        BY <2>1, <1>4
    <3>2. Len(stack') # 4 /\ ~(Len(stack') > 4)
      BY <3>1, <1>4, Zenon
    <3> QED
      BY <3>2, Zenon DEF Deep
  <2> QED
    BY <2>2, <2>3 DEF Stuck
<1>6. CASE n > 4
  <2>1. Deep /\ ~v
    <3>1. ~(n <= 4)
      <4> HIDE DEF n
      <4> QED
        BY <1>4, <1>6
    <3> QED
      BY <3>1, <1>1, <1>3, <1>6
  <2>2. obj'.write_offset = obj.write_offset
    <3>1. ~(n <= 4)
      <4> HIDE DEF n
      <4> QED
        BY <1>4, <1>6
    <3> QED
      BY <3>1
  <2>3. top'.fn # "caller"
    <3>1. Len(stack') # 1 /\ 1 \in 1 .. Len(stack')
      <4> HIDE DEF n
      <4> QED
        BY <1>4, <1>6
    <3> QED
      BY <3>1, <1>2, CallerLast
  <2>4. top'.fn # "init"
    <3>1. top' = stack[2] /\ Len(stack) > 1 /\ 2 \in 1 .. Len(stack) /\ 3 \in 1 .. Len(stack)
      <4> HIDE DEF n
      <4>1. 2 \in 1 .. n /\ 3 \in 1 .. n
        BY <1>4, <1>6
      <4> QED
        BY <4>1, <1>2, <1>4 DEF n
    <3>2. Awaits(stack[3], stack[2].fn)
      <4>1. 2 \in 1 .. Len(stack) - 1 /\ 2 + 1 = 3
        <5> HIDE DEF n
        <5>1. 2 \in 1 .. n - 1
          BY <1>4, <1>6
        <5> QED
          BY <5>1 DEF n
      <4> QED
        BY <4>1 DEF TypeInv, StackOK
    <3>3. top'.fn = "init" => stack[3].fn = "caller"
      BY <3>1, <3>2 DEF Awaits
    <3>4. stack[3].fn # "caller"
      <4>1. 3 # n
        <5> HIDE DEF n
        <5> QED
          BY <1>6
      <4> QED
        BY <4>1, <3>1, CallerLast DEF TypeInv
    <3> QED
      BY <3>3, <3>4
  <2>5. /\ top'.fn \in {"write_all", "write", "switch_full_sector"}
        /\ top'.pc \in {"wrote", "switched", "switched_full", "failed", "written"}
    BY <1>2, <1>3, <2>3, <2>4 DEF Awaits
  <2>6. top'.fn = "write" => top'.pc \in {"switched", "switched_full", "failed"}
    BY <1>2, <1>3 DEF Awaits
  <2> QED
    BY <2>1, <2>2, <2>5, <2>6, <1>2, <1>3 DEF Stuck, Zero, At
<1>7. n <= 4 \/ n > 4
  <2> HIDE DEF n
  <2> QED
    BY <1>4
<1> QED
  BY <1>5, <1>6, <1>7

\* A return to the function that waits for it.
LEMMA StayReturn ==
    ASSUME TypeInv, LogInv, top.fn \in WorkFns, ~InBlock, ~At("switch_sectors", "in_use"),
           NEW v \in BOOLEAN, Return(v), flash' = flash,
           obj'.current_sector = obj.current_sector, obj'.write_offset = obj.write_offset,
           obj'.states = obj.states, obj'.mem_buffer = obj.mem_buffer, obj'.reserved_space = obj.reserved_space,
           Rewriting => ~v \/ Len(stack) <= 4
    PROVE  LogInv'
<1>1. top.fn \notin {"init", "caller", "overflow"} /\ Working
  BY Works DEF WorkFns, WorkFrame
<1>2. top' = stack[2] /\ Awaits(top', top.fn)
  BY <1>1, Returns DEF TypeInv
<1>3. WorkFrame(top') /\ ~InBlock' /\ ~(At("switch_sectors", "in_use"))' /\ top'.fn # "erase_sector"
  BY <1>2 DEF Awaits, WorkFns, WorkFrame, InBlock, At
<1>4. BootStays
  BY <1>1, BootReturn
<1>5. RewriteInv' /\ (Rewriting' => Rewriting)
  BY <1>4, RewriteKept DEF LogInv
<1>6. StuckInv'
  BY <1>4, StuckReturn
<1> QED
  BY <1>1, <1>3, <1>5, <1>6, WorksOn, Stays

\* A jump of a function at work.
LEMMA StayGoto ==
    ASSUME TypeInv, LogInv, top.fn \in WorkFns, ~InBlock, ~At("switch_sectors", "in_use"),
           NEW pc, NEW x, NEW y, Goto(pc, x, y), FrameOK(Frame(top.fn, pc, x, y)), pc \notin {"data", "valid", "in_use"},
           flash' = flash, obj' = obj, Rewriting => Stuck'
    PROVE  LogInv'
<1>1. Working /\ top.fn # "init"
  BY Works DEF WorkFns, WorkFrame
<1>2. top' = Frame(top.fn, pc, x, y)
  BY Jumps DEF TypeInv
<1>3. WorkFrame(top') /\ ~InBlock' /\ ~(At("switch_sectors", "in_use"))' /\ top'.fn # "erase_sector"
  BY <1>2 DEF Frame, WorkFns, WorkFrame, InBlock, At
<1>4. BootStays
  BY <1>1, BootGoto
<1>5. RewriteInv' /\ (Rewriting' => Rewriting)
  BY <1>4, RewriteKept DEF LogInv
<1>6. StuckInv'
  BY <1>5 DEF StuckInv
<1> QED
  BY <1>1, <1>3, <1>5, <1>6, WorksOn, Stays

\* A call by a function at work.
LEMMA StayCall ==
    ASSUME TypeInv, LogInv, top.fn \in WorkFns, ~InBlock, ~At("switch_sectors", "in_use"),
           NEW pc, NEW fn, NEW x, NEW y, Call(pc, fn, x, y),
           FrameOK(Frame(fn, "start", x, y)), FrameOK(Frame(top.fn, pc, top.x, top.y)),
           Awaits(Frame(top.fn, pc, top.x, top.y), fn),
           fn \in WorkFns \/ (fn = "erase_sector" /\ x = Other(current)),
           flash' = flash,
           obj'.current_sector = obj.current_sector, obj'.write_offset = obj.write_offset,
           obj'.states = obj.states, obj'.reserved_space \in {0, obj.reserved_space},
           top' = Frame(fn, "start", x, y) /\ Len(stack') = Len(stack) + 1 /\ ~ret' /\ Rewriting => Stuck'
    PROVE  LogInv'
<1>1. Working /\ top.fn # "init" /\ fn # "init"
  BY Works DEF WorkFns, WorkFrame
<1>2. /\ ~ret'
      /\ \/ /\ top' = Frame(fn, "start", x, y)
            /\ stack'[2] = Frame(top.fn, pc, top.x, top.y)
            /\ Len(stack') = Len(stack) + 1
         \/ top' = Frame("overflow", "start", 0, 0) /\ Len(stack') = 1
  BY Calls DEF TypeInv
<1>3. CASE top' = Frame("overflow", "start", 0, 0) /\ Len(stack') = 1
  <2>1. Dead' /\ SectorsInv'
    BY <1>3, FlashSame DEF Dead, Frame, LogInv
  <2> QED
    BY <2>1, <1>3, ToDead
<1>4. CASE /\ top' = Frame(fn, "start", x, y)
           /\ stack'[2] = Frame(top.fn, pc, top.x, top.y)
           /\ Len(stack') = Len(stack) + 1
  <2>1. WorkFrame(top') \/ (top'.fn = "erase_sector" /\ WorkFrame(stack'[2]))
    BY <1>4 DEF Frame, WorkFns, WorkFrame
  <2>2. /\ ~InBlock' /\ ~(At("switch_sectors", "in_use"))'
        /\ top'.fn = "erase_sector" => top'.pc = "start" /\ top'.x = Other(current)
    BY <1>4 DEF Frame, InBlock, At, WorkFns
  <2>3. BootStays
    BY <1>1, BootCall
  <2>4. RewriteInv' /\ (Rewriting' => Rewriting)
    BY <2>3, RewriteKept DEF LogInv
  <2>5. StuckInv'
    BY <2>4, <1>2, <1>4 DEF StuckInv
  <2> QED
    BY <2>1, <2>2, <2>4, <2>5, <1>1, WorksOn, Stays
<1> QED
  BY <1>2, <1>3, <1>4

-----------------------------------------------------------------------------
(* The log is kept: the steps that do not touch flash.                     *)

\* write(): the loop.
LEMMA Write_LoopLog ==
    ASSUME TypeInv, LogInv, Write_Loop
    PROVE  LogInv'
<1>1. /\ FrameOK(top) /\ top.fn = "write" /\ top.pc \in {"start", "loop"} /\ top.x \in Nat /\ top.y \in Nat
      /\ top.x + top.y <= StorageSize /\ flash' = flash /\ obj' = obj
  BY TopOK DEF Write_Loop, At, FrameOK
<1>2. top.fn \in WorkFns /\ ~InBlock /\ ~At("switch_sectors", "in_use")
  BY <1>1 DEF WorkFns, InBlock, At
<1>3. /\ Rewriting => ~Zero(StorageSize)
      /\ Rewriting /\ Deep => top.pc = "start" /\ top.y > 0 /\ obj.write_offset > SectorSize - (BlockHdr + MaxWrite)
      /\ Rewriting => obj.reserved_space = 0 /\ Len(stack) \in Nat /\ Len(stack) >= 4 /\ (Len(stack) > 4 => Deep)
  BY <1>1, InRewrite DEF Stuck, At
<1>4. CASE Return(FALSE)
  BY <1>1, <1>2, <1>4, StayReturn
<1>5. CASE ~(top.pc = "start" /\ obj.write_error) /\ top.y = 0 /\ Return(TRUE)
  <2>1. Rewriting => ~Deep
    BY <1>1, <1>3, <1>5
  <2>2. Rewriting => Len(stack) <= 4
    BY <2>1, <1>3
  <2> QED
    BY <2>2, <1>1, <1>2, <1>5, StayReturn
<1>6. CASE top.y > 0 /\ NoRoom /\ Call("switched", "switch_sectors", 0, 0)
  <2>1. FrameOK(Frame(top.fn, "switched", top.x, top.y))
    BY <1>1, <1>6 DEF FrameOK, Frame, FrameType, FunctionNames, Places
  <2>2. Awaits(Frame(top.fn, "switched", top.x, top.y), "switch_sectors")
    BY <1>1 DEF Frame, Awaits
  <2>3. ASSUME Rewriting, ~ret', top' = Frame("switch_sectors", "start", 0, 0) PROVE Stuck'
    <3>1. obj.write_offset > SectorSize - (BlockHdr + MaxWrite)
      BY <2>3, <1>3, <1>6, Sizes, Members DEF NoRoom, TypeInv
    <3>2. top'.fn = "switch_sectors" /\ top'.pc = "start"
      BY <2>3 DEF Frame
    <3> QED
      BY <3>1, <3>2, <2>3, <1>1, <1>3 DEF Stuck, Zero, At
  <2>4. "switch_sectors" \in WorkFns
    BY DEF WorkFns
  <2> QED
    BY <2>1, <2>2, <2>3, <2>4, <1>1, <1>2, <1>6, PlainFrame, StayCall
<1>7. CASE top.y > 0 /\ ~NoRoom /\ Goto("header", top.x, top.y)
  <2>1. FrameOK(Frame(top.fn, "header", top.x, top.y))
    BY <1>1, <1>7 DEF FrameOK, Frame, FrameType, FunctionNames, Places
  <2>2. top' = Frame(top.fn, "header", top.x, top.y) /\ Len(stack') = Len(stack)
    BY <2>1, <1>7, Jumps DEF TypeInv
  <2>3. ASSUME Rewriting PROVE Stuck'
    <3>1. ~(obj.write_offset > SectorSize - (BlockHdr + MaxWrite))
      BY <2>3, <1>3, <1>7, Sizes, Members DEF NoRoom, TypeInv
    <3>2. ~(Len(stack) > 4)
      BY <3>1, <2>3, <1>3
    <3>3. top'.fn = "write" /\ top'.pc = "header"
      BY <2>2, <1>1 DEF Frame
    <3>4. ~Deep'
      BY <3>2, <3>3, <2>2, Zenon DEF Deep
    <3> QED
      BY <3>3, <3>4, <2>3, <1>1, <1>3 DEF Stuck, Zero, At
  <2> QED
    BY <2>1, <2>3, <1>1, <1>2, <1>7, StayGoto
<1> QED
  BY <1>4, <1>5, <1>6, <1>7 DEF Write_Loop

\* write(): switch_sectors() has returned.
LEMMA Write_SwitchedLog ==
    ASSUME TypeInv, LogInv, Write_Switched
    PROVE  LogInv'
<1>1. /\ FrameOK(top) /\ top.fn = "write" /\ top.pc = "switched" /\ top.x \in Nat /\ top.y \in Nat
      /\ top.x + top.y <= StorageSize /\ top.y > 0 /\ flash' = flash /\ obj' = obj
  BY TopOK DEF Write_Switched, At, FrameOK
<1>2. top.fn \in WorkFns /\ ~InBlock /\ ~At("switch_sectors", "in_use")
  BY <1>1 DEF WorkFns, InBlock, At
<1>3. Rewriting => Deep /\ Stuck
  <2>1. Rewriting => (Len(stack) = 4 \/ Len(stack) > 4) /\ Stuck
    BY <1>1, InRewrite
  <2> QED
    BY <2>1, <1>1 DEF Deep
<1>4. CASE ret /\ Goto("header", top.x, top.y)
  <2>1. FrameOK(Frame(top.fn, "header", top.x, top.y))
    BY <1>1, <1>4 DEF FrameOK, Frame, FrameType, FunctionNames, Places
  <2>2. ~Rewriting
    BY <1>3, <1>4 DEF Stuck
  <2> QED
    BY <2>1, <2>2, <1>1, <1>2, <1>4, StayGoto
<1>5. CASE Return(FALSE)
  BY <1>1, <1>2, <1>5, StayReturn
<1>6. CASE Call("switched_full", "switch_full_sector", 0, 0)
  <2>1. FrameOK(Frame(top.fn, "switched_full", top.x, top.y))
    BY <1>1 DEF FrameOK, Frame, FrameType, FunctionNames, Places
  <2>2. Awaits(Frame(top.fn, "switched_full", top.x, top.y), "switch_full_sector")
    BY <1>1 DEF Frame, Awaits
  <2>3. ASSUME Rewriting, ~ret', top' = Frame("switch_full_sector", "start", 0, 0) PROVE Stuck'
    <3>1. top'.fn = "switch_full_sector" /\ top'.pc = "start"
      BY <2>3 DEF Frame
    <3> QED
      BY <3>1, <2>3, <1>1, <1>3 DEF Stuck, Zero, At
  <2>4. "switch_full_sector" \in WorkFns
    BY DEF WorkFns
  <2> QED
    BY <2>1, <2>2, <2>3, <2>4, <1>1, <1>2, <1>6, PlainFrame, StayCall
<1> QED
  BY <1>4, <1>5, <1>6 DEF Write_Switched

\* write(): switch_full_sector() has returned.
LEMMA Write_SwitchedFullLog ==
    ASSUME TypeInv, LogInv, Write_SwitchedFull
    PROVE  LogInv'
<1>1. /\ FrameOK(top) /\ top.fn = "write" /\ top.pc = "switched_full" /\ top.x \in Nat /\ top.y \in Nat
      /\ top.x + top.y <= StorageSize /\ top.y > 0 /\ flash' = flash /\ obj' = obj
  BY TopOK DEF Write_SwitchedFull, At, FrameOK
<1>2. top.fn \in WorkFns /\ ~InBlock /\ ~At("switch_sectors", "in_use")
  BY <1>1 DEF WorkFns, InBlock, At
<1>3. Rewriting => Deep /\ Stuck
  <2>1. Rewriting => (Len(stack) = 4 \/ Len(stack) > 4) /\ Stuck
    BY <1>1, InRewrite
  <2> QED
    BY <2>1, <1>1 DEF Deep
<1>4. CASE ret /\ Goto("header", top.x, top.y)
  <2>1. FrameOK(Frame(top.fn, "header", top.x, top.y))
    BY <1>1, <1>4 DEF FrameOK, Frame, FrameType, FunctionNames, Places
  <2>2. ~Rewriting
    BY <1>3, <1>4 DEF Stuck
  <2> QED
    BY <2>1, <2>2, <1>1, <1>2, <1>4, StayGoto
<1>5. CASE Return(FALSE)
  BY <1>1, <1>2, <1>5, StayReturn
<1> QED
  BY <1>4, <1>5 DEF Write_SwitchedFull

\* write_all(): the loop.
LEMMA WriteAll_LoopLog ==
    ASSUME TypeInv, LogInv, WriteAll_Loop
    PROVE  LogInv'
<1>1. /\ FrameOK(top) /\ top.fn = "write_all" /\ top.pc = "start" /\ top.x \in Nat /\ top.y \in Nat
      /\ top.x % MaxWrite = 0 /\ flash' = flash /\ obj' = obj
  BY TopOK DEF WriteAll_Loop, At, FrameOK
<1>2. top.fn \in WorkFns /\ ~InBlock /\ ~At("switch_sectors", "in_use")
  BY <1>1 DEF WorkFns, InBlock, At
<1>3. /\ Rewriting => Len(stack) \in Nat /\ Len(stack) # 4 /\ (Len(stack) > 4 => Deep) /\ Stuck
      /\ Rewriting /\ Deep => Zero(top.x) /\ ~Zero(StorageSize)
  BY <1>1, InRewrite DEF Stuck, At
<1>4. CASE top.x >= StorageSize /\ Return(TRUE)
  <2>1. Rewriting => ~Deep
    BY <1>3, <1>4, <1>1, Sizes DEF Zero, Addr
  <2>2. Rewriting => Len(stack) <= 4
    BY <2>1, <1>3
  <2> QED
    BY <2>2, <1>1, <1>2, <1>4, StayReturn
<1>5. CASE top.x < StorageSize /\ all_zero(top.x, MaxWrite) /\ Goto("start", top.x + MaxWrite, 0)
  <2>1. top.x + MaxWrite \in Nat /\ (top.x + MaxWrite) % MaxWrite = 0
    BY <1>1, NextChunk
  <2>2. FrameOK(Frame(top.fn, "start", top.x + MaxWrite, 0))
    BY <2>1, <1>1 DEF FrameOK, Frame, FrameType, FunctionNames, Places
  <2>3. top' = Frame(top.fn, "start", top.x + MaxWrite, 0) /\ Len(stack') = Len(stack) /\ ~ret'
    BY <2>2, <1>5, Jumps DEF TypeInv
  <2>4. top'.fn = "write_all" /\ top'.pc = "start" /\ top'.x = top.x + MaxWrite
    BY <2>3, <1>1 DEF Frame
  <2>5. ASSUME Rewriting PROVE Stuck'
    <3>1. Deep' => Deep
      BY <2>3, <2>4 DEF Deep
    <3>2. Zero(top.x) => Zero(top.x + MaxWrite)
      BY <1>1, <1>5, Sizes DEF Zero, all_zero, Addr
    <3>3. Deep => Zero(top.x + MaxWrite)
      BY <3>2, <2>5, <1>3
    <3> QED
      BY <3>1, <3>3, <2>3, <2>4, <2>5, <1>1, <1>3 DEF Stuck, Zero, At
  <2> QED
    BY <2>2, <2>5, <1>1, <1>2, <1>5, StayGoto
<1>6. CASE top.x < StorageSize /\ ~all_zero(top.x, MaxWrite) /\ Call("wrote", "write", top.x, MaxWrite)
  <2>1. top.x + MaxWrite <= StorageSize
    BY <1>1, <1>6, NextChunk
  <2>2. FrameOK(Frame("write", "start", top.x, MaxWrite)) /\ FrameOK(Frame(top.fn, "wrote", top.x, top.y))
    BY <2>1, <1>1, Sizes DEF FrameOK, Frame, FrameType, FunctionNames, Places
  <2>3. Awaits(Frame(top.fn, "wrote", top.x, top.y), "write")
    BY <1>1 DEF Frame, Awaits
  <2>4. ASSUME Rewriting, ~ret', top' = Frame("write", "start", top.x, MaxWrite), Len(stack') = Len(stack) + 1 PROVE Stuck'
    <3>1. top'.fn = "write" /\ top'.pc = "start" /\ top'.y = MaxWrite
      BY <2>4 DEF Frame
    <3>2. ~Zero(StorageSize)
      BY <2>1, <1>1, <1>6, Sizes DEF Zero, all_zero, Addr
    <3>3. Deep' => Deep
      <4> DEFINE n == Len(stack)
      <4>1. n \in Nat /\ n # 4 /\ Len(stack') = n + 1 /\ (n > 4 => Deep)
        BY <2>4, <1>3
      <4>2. Deep' => n + 1 > 4
        BY <4>1, <3>1, Zenon DEF Deep
      <4> HIDE DEF n
      <4>3. n + 1 > 4 => n > 4
        BY <4>1
      <4> QED
        BY <4>1, <4>2, <4>3
    <3> QED
      BY <3>1, <3>2, <3>3, <2>4, <1>1, <1>3, Sizes DEF Stuck, Zero, At
  <2>5. "write" \in WorkFns
    BY DEF WorkFns
  <2> QED
    BY <2>2, <2>3, <2>4, <2>5, <1>1, <1>2, <1>6, StayCall
<1> QED
  BY <1>4, <1>5, <1>6 DEF WriteAll_Loop

\* write_all(): write() has returned.
LEMMA WriteAll_WroteLog ==
    ASSUME TypeInv, LogInv, WriteAll_Wrote
    PROVE  LogInv'
<1>1. /\ FrameOK(top) /\ top.fn = "write_all" /\ top.pc = "wrote" /\ top.x \in Nat /\ top.y \in Nat
      /\ top.x % MaxWrite = 0 /\ flash' = flash /\ obj' = obj
  BY TopOK DEF WriteAll_Wrote, At, FrameOK
<1>2. top.fn \in WorkFns /\ ~InBlock /\ ~At("switch_sectors", "in_use")
  BY <1>1 DEF WorkFns, InBlock, At
<1>3. CASE ret /\ Goto("start", top.x + MaxWrite, 0)
  <2>1. top.x + MaxWrite \in Nat /\ (top.x + MaxWrite) % MaxWrite = 0
    BY <1>1, NextChunk
  <2>2. FrameOK(Frame(top.fn, "start", top.x + MaxWrite, 0))
    BY <2>1, <1>1 DEF FrameOK, Frame, FrameType, FunctionNames, Places
  <2>3. top' = Frame(top.fn, "start", top.x + MaxWrite, 0) /\ Len(stack') = Len(stack)
    BY <2>2, <1>3, Jumps DEF TypeInv
  <2>4. top'.fn = "write_all" /\ top'.pc = "start"
    BY <2>3, <1>1 DEF Frame
  <2>5. ASSUME Rewriting PROVE Stuck'
    <3>1. ~Deep
      BY <2>5, <1>3, InRewrite DEF Stuck
    <3>2. ~Deep'
      BY <3>1, <2>3, <2>4 DEF Deep
    <3> QED
      BY <3>2, <2>4 DEF Stuck
  <2> QED
    BY <2>2, <2>5, <1>1, <1>2, <1>3, StayGoto
<1>4. CASE Return(FALSE)
  BY <1>1, <1>2, <1>4, StayReturn
<1> QED
  BY <1>3, <1>4 DEF WriteAll_Wrote

\* Outside init().
LEMMA NotErasing ==
    ASSUME TypeInv, LogInv, Erasing, top.fn # "init"
    PROVE  Rewriting \/ (top.fn = "erase_sector" /\ stack[2] = boot)
BY EraseStack DEF TypeInv, Erasing, Rewriting

\* A step to erase_all().
LEMMA ToFormatting ==
    ASSUME Formatting', SectorsInv', FormatInv', EraseInv', ~Erasing'
    PROVE  LogInv'
<1>1. ~Working' /\ ~Off' /\ ~Loading' /\ ~Rewriting'
  BY DEF Working, Off, Formatting, Loading, user, At, Erasing, Rewriting
<1> QED
  BY <1>1, Zenon DEF LogInv, OpenInv, OffInv, LoadInv, RewriteInv, StuckInv

\* The call of erase_all().
LEMMA ToFormat ==
    ASSUME LogInv, flash' = flash, top'.fn = "erase_all", top'.pc = "start", ~Erasing'
    PROVE  LogInv'
<1>1. Formatting' /\ FormatInv' /\ EraseInv'
  BY DEF Formatting, user, FormatInv, EraseInv, At
<1>2. SectorsInv'
  BY FlashSame DEF LogInv
<1> QED
  BY <1>1, <1>2, ToFormatting

\* A function at work calls another one and returns what that returns.
LEMMA StayTailCall ==
    ASSUME TypeInv, LogInv, top.fn \in WorkFns, ~InBlock, ~At("switch_sectors", "in_use"), ~Rewriting,
           NEW fn \in WorkFns, NEW x, NEW y, TailCall(fn, x, y), FrameOK(Frame(fn, "start", x, y)), Awaits(stack[2], fn),
           flash' = flash, obj' = obj
    PROVE  LogInv'
<1>1. Working /\ top.fn \notin {"init", "caller", "overflow"} /\ fn # "init"
  BY Works DEF WorkFns, WorkFrame
<1>2. top' = Frame(fn, "start", x, y)
  BY <1>1, TailCalls DEF TypeInv
<1>3. WorkFrame(top') /\ ~InBlock' /\ ~(At("switch_sectors", "in_use"))' /\ top'.fn # "erase_sector"
  BY <1>2 DEF Frame, WorkFns, WorkFrame, InBlock, At
<1>4. BootStays
  BY <1>1, BootTailCall
<1>5. RewriteInv' /\ (Rewriting' => Rewriting)
  BY <1>4, RewriteKept DEF LogInv
<1>6. StuckInv'
  BY <1>5 DEF StuckInv
<1> QED
  BY <1>1, <1>3, <1>5, <1>6, WorksOn, Stays

\* A header changes, no log does.
LEMMA HeaderChanges ==
    ASSUME TypeInv, NEW s \in Sectors, NEW h \in HeaderStates, SetHeader(s, h)
    PROVE  /\ Header(s)' = h /\ \A t \in Sectors : t # s => Header(t)' = Header(t)
           /\ \A t \in Sectors : (Chain(t) => Chain(t)') /\ Blank(t)' = Blank(t)
           /\ \A t \in Sectors : \A e : EndsAt(t, e) => EndsAt(t, e)'
<1>1. /\ flash'[s].header = h /\ \A t \in Sectors : t # s => flash'[t].header = flash[t].header
      /\ \A t \in Sectors : flash'[t].log = flash[t].log
  BY HeaderSet DEF TypeInv, FlashOK
<1>2. ASSUME NEW t \in Sectors
      PROVE  (Chain(t) => Chain(t)') /\ Blank(t)' = Blank(t) /\ \A e : EndsAt(t, e) => EndsAt(t, e)'
  <2>1. \A o \in Offsets : /\ flash'[t].log[o].state = "AVAILABLE" <=> flash[t].log[o].state = "AVAILABLE"
                           /\ flash'[t].log[o].count = flash[t].log[o].count
    BY <1>1
  <2> QED
    BY <2>1, LogSame
<1> QED
  BY <1>1, <1>2 DEF Header

\* switch_sectors(): the current sector is full.
LEMMA SwitchSectors_StartLog ==
    ASSUME TypeInv, LogInv, SwitchSectors_Start
    PROVE  LogInv'
<1>1. top.fn = "switch_sectors" /\ top.pc = "start" /\ current \in Sectors /\ Other(current) \in Sectors
      /\ Other(current) # current
  BY Members DEF SwitchSectors_Start, At, TypeInv
<1>2. top.fn \in WorkFns /\ ~InBlock /\ ~At("switch_sectors", "in_use")
  BY <1>1 DEF WorkFns, InBlock, At
<1>3. CASE flash' = flash /\ Return(FALSE) /\ (obj' = obj \/ obj' = [obj EXCEPT !.write_error = TRUE])
  <2>1. /\ obj'.current_sector = obj.current_sector /\ obj'.write_offset = obj.write_offset
        /\ obj'.states = obj.states /\ obj'.mem_buffer = obj.mem_buffer /\ obj'.reserved_space = obj.reserved_space
    BY <1>3 DEF TypeInv, Object
  <2> QED
    BY <2>1, <1>2, <1>3, StayReturn
<1>4. CASE /\ Header(Other(current)) = "AVAILABLE" /\ Goto("in_use", 0, 0) /\ obj' = obj
           /\ IF Header(current) = "BAD" THEN flash' = flash ELSE SetHeader(current, "FULL")
  <2>1. ~Rewriting
    BY <1>4, InRewrite
  <2>2. top' = Frame("switch_sectors", "in_use", 0, 0) /\ BootStays
    BY <1>1, <1>4, PlainFrame, Jumps, BootGoto DEF TypeInv
  <2>3. top'.fn = "switch_sectors" /\ top'.pc = "in_use"
    BY <2>2 DEF Frame
  <2>4. Working' /\ ~InBlock'
    BY <2>3, WorksOn DEF WorkFrame, WorkFns, InBlock
  <2>5. /\ Header(current)' \in {"BAD", "FULL"} /\ Header(Other(current))' = "AVAILABLE" /\ SectorsInv'
        /\ current' = current
    <3>1. current' = current
      BY <1>4 DEF current
    <3>2. CASE Header(current) = "BAD" /\ flash' = flash
      BY <3>1, <3>2, <1>1, <1>4, FlashSame DEF LogInv, Header, Other
    <3>3. CASE Header(current) # "BAD" /\ SetHeader(current, "FULL")
      <4>1. "FULL" \in HeaderStates
        BY DEF HeaderStates
      <4>2. /\ Header(current)' = "FULL" /\ \A t \in Sectors : t # current => Header(t)' = Header(t)
            /\ \A t \in Sectors : (Chain(t) => Chain(t)') /\ Blank(t)' = Blank(t)
        <5>1. PICK c \in Sectors : c = current
          BY <1>1
        <5>2. SetHeader(c, "FULL")
          BY <3>3, <5>1
        <5>3. /\ Header(c)' = "FULL" /\ \A t \in Sectors : t # c => Header(t)' = Header(t)
              /\ \A t \in Sectors : (Chain(t) => Chain(t)') /\ Blank(t)' = Blank(t)
          BY <4>1, <5>2, HeaderChanges
        <5> QED
          BY <5>1, <5>3, <3>1 DEF Header
      <4>3. Chain(current)
        <5>1. Header(current) \in HeaderStates
          BY <1>1, SectorFields DEF Header, TypeInv, FlashOK
        <5>2. Header(current) = "AVAILABLE" => Blank(current)
          BY <1>1 DEF LogInv, SectorsInv
        <5>3. Header(current) \in {"IN_USE", "FULL"} => Chain(current)
          BY <1>1 DEF LogInv, SectorsInv
        <5> QED
          BY <5>1, <5>2, <5>3, <3>3, BlankEnds DEF HeaderStates
      <4>4. SectorsInv'
        <5> SUFFICES ASSUME NEW s \in Sectors
                     PROVE  (Header(s)' = "AVAILABLE" => Blank(s)') /\ (Header(s)' \in {"IN_USE", "FULL"} => Chain(s)')
          BY DEF SectorsInv
        <5>1. CASE s = current
          BY <5>1, <4>2, <4>3, <3>1 DEF Header
        <5>2. CASE s # current
          BY <5>2, <4>2 DEF LogInv, SectorsInv
        <5> QED
          BY <5>1, <5>2
      <4>5. flash'[Other(current)].header = "AVAILABLE"
        BY <4>2, <1>1, <1>4 DEF Header
      <4> QED
        BY <4>2, <4>4, <4>5, <3>1 DEF Header, Other
    <3> QED
      BY <3>2, <3>3, <1>4
  <2>6. OpenInv'
    BY <2>3, <2>4, <2>5 DEF OpenInv, Open, At
  <2>7. EraseInv'
    BY <2>3 DEF EraseInv, At
  <2>8. RewriteInv' /\ StuckInv'
    BY <2>1, <2>2, <1>4, RewriteKept DEF LogInv, StuckInv
  <2> QED
    BY <2>4, <2>5, <2>6, <2>7, <2>8, ToWorking
<1> QED
  BY <1>3, <1>4 DEF SwitchSectors_Start, Header

\* switch_sectors(): the other sector is in use.
LEMMA SwitchSectors_InUseLog ==
    ASSUME TypeInv, LogInv, SwitchSectors_InUse
    PROVE  LogInv'
<1>0. PICK d \in Sectors : d = Other(current)
  BY Members DEF TypeInv
<1>1. /\ top.fn = "switch_sectors" /\ top.pc = "in_use" /\ d \in Sectors /\ Return(TRUE)
      /\ SetHeader(d, "IN_USE") /\ d = Other(current)
  BY <1>0 DEF SwitchSectors_InUse, At
<1>2. obj'.current_sector = d /\ obj'.write_offset = SectorHdr
  BY <1>0 DEF SwitchSectors_InUse, TypeInv, Object
<1>3. ~Erasing
  <2>1. ~Rewriting
    BY <1>1, InRewrite DEF Stuck
  <2> QED
    BY <2>1, <1>1, NotErasing
<1>4. Blank(d) /\ Header(d) = "AVAILABLE"
  <2>1. Working
    BY <1>1, Works DEF WorkFrame, WorkFns
  <2> QED
    BY <2>1, <1>1 DEF LogInv, OpenInv, SectorsInv, At
<1>5. /\ Header(d)' = "IN_USE" /\ \A t \in Sectors : t # d => Header(t)' = Header(t)
      /\ \A t \in Sectors : (Chain(t) => Chain(t)') /\ Blank(t)' = Blank(t)
  BY <1>1, HeaderChanges DEF HeaderStates
<1>6. Chain(d)' /\ EndsAt(d, SectorHdr)'
  BY <1>1, <1>4, <1>5, BlankEnds2
<1>7. SectorsInv'
  <2> SUFFICES ASSUME NEW s \in Sectors
               PROVE  (Header(s)' = "AVAILABLE" => Blank(s)') /\ (Header(s)' \in {"IN_USE", "FULL"} => Chain(s)')
    BY DEF SectorsInv
  <2>1. CASE s = d
    BY <2>1, <1>5, <1>6 DEF Header
  <2>2. CASE s # d
    BY <2>2, <1>5 DEF LogInv, SectorsInv
  <2> QED
    BY <2>1, <2>2
<1>8. Awaits(top', "switch_sectors") /\ BootStays
  BY <1>1, Returns, BootReturn DEF TypeInv
<1>9. top'.fn = "write" /\ top'.pc \in {"switched", "switched_full"}
  BY <1>8 DEF Awaits
<1>10. Working' /\ ~InBlock' /\ ~(At("switch_sectors", "in_use"))' /\ EraseInv'
  BY <1>9, WorksOn DEF WorkFrame, WorkFns, InBlock, At, EraseInv
<1>11. Open'
  <2>1. current' = d
    BY <1>2 DEF current
  <2>2. (Header(current))' = "IN_USE" /\ EndsAt(current, obj.write_offset)' /\ obj'.write_offset >= SectorHdr
    BY <2>1, <1>2, <1>5, <1>6, Sizes DEF Header
  <2> QED
    BY <2>2, <1>10 DEF Open
<1>12. OpenInv'
  BY <1>9, <1>10, <1>11 DEF OpenInv
<1>13. ~Erasing' /\ ~Rewriting'
  BY <1>3, <1>8 DEF BootStays, Erasing, Rewriting
<1> QED
  BY <1>7, <1>10, <1>12, <1>13, ToWorking DEF RewriteInv, StuckInv

\* switch_full_sector(): the image is written.
LEMMA SwitchFull_StartLog ==
    ASSUME TypeInv, LogInv, SwitchFull_Start
    PROVE  LogInv'
<1>1. top.fn = "switch_full_sector" /\ top.pc = "start" /\ flash' = flash /\ Call("written", "write_all", 0, 0)
  BY DEF SwitchFull_Start, At
<1>2. top.fn \in WorkFns /\ ~InBlock /\ ~At("switch_sectors", "in_use") /\ "write_all" \in WorkFns
  BY <1>1 DEF WorkFns, InBlock, At
<1>3. /\ obj'.current_sector = obj.current_sector /\ obj'.write_offset = obj.write_offset
      /\ obj'.states = obj.states /\ obj'.reserved_space = 0 /\ obj'.mem_buffer = obj.mem_buffer
  BY DEF SwitchFull_Start, TypeInv, Object
<1>4. FrameOK(Frame(top.fn, "written", top.x, top.y)) /\ Awaits(Frame(top.fn, "written", top.x, top.y), "write_all")
  BY <1>1, TopOK DEF FrameOK, Frame, FrameType, FunctionNames, Places, Awaits
<1>5. ASSUME Rewriting, ~ret', top' = Frame("write_all", "start", 0, 0) PROVE Stuck'
  <2>1. Deep /\ Stuck
    BY <1>1, <1>5, InRewrite
  <2>2. top'.fn = "write_all" /\ top'.pc = "start" /\ top'.x = 0
    BY <1>5 DEF Frame
  <2>3. Zero(top.x)'
    BY <2>2, Sizes DEF Zero, Addr
  <2> QED
    BY <2>1, <2>2, <2>3, <1>3, <1>5 DEF Stuck, Zero, At
<1> QED
  BY <1>1, <1>2, <1>3, <1>4, <1>5, PlainFrame, StayCall

\* switch_full_sector(): the image has been written.
LEMMA SwitchFull_WrittenLog ==
    ASSUME TypeInv, LogInv, SwitchFull_Written
    PROVE  LogInv'
<1>1. top.fn = "switch_full_sector" /\ top.pc = "written" /\ flash' = flash /\ obj' = obj
  BY DEF SwitchFull_Written, At
<1>2. top.fn \in WorkFns /\ ~InBlock /\ ~At("switch_sectors", "in_use")
  BY <1>1 DEF WorkFns, InBlock, At
<1>3. CASE Return(FALSE)
  BY <1>1, <1>2, <1>3, StayReturn
<1>4. CASE ret /\ Call("erased", "erase_sector", Other(current), 0)
  <2>1. ~Rewriting
    BY <1>1, <1>4, InRewrite DEF Stuck
  <2>2. FrameOK(Frame(top.fn, "erased", top.x, top.y)) /\ Awaits(Frame(top.fn, "erased", top.x, top.y), "erase_sector")
    BY <1>1, TopOK DEF FrameOK, Frame, FrameType, FunctionNames, Places, Awaits
  <2>3. FrameOK(Frame("erase_sector", "start", Other(current), 0))
    BY Members, PlainFrame DEF TypeInv
  <2> QED
    BY <2>1, <2>2, <2>3, <1>1, <1>2, <1>4, StayCall
<1> QED
  BY <1>3, <1>4 DEF SwitchFull_Written

\* switch_full_sector(): the other sector has been erased.
LEMMA SwitchFull_ErasedLog ==
    ASSUME TypeInv, LogInv, SwitchFull_Erased
    PROVE  LogInv'
<1>1. top.fn = "switch_full_sector" /\ top.pc = "erased" /\ flash' = flash /\ obj' = obj
  BY DEF SwitchFull_Erased, At
<1>2. top.fn \in WorkFns /\ ~InBlock /\ ~At("switch_sectors", "in_use") /\ "switch_sectors" \in WorkFns
  BY <1>1 DEF WorkFns, InBlock, At
<1>3. ~Rewriting
  BY <1>1, InRewrite DEF Stuck
<1>4. CASE Return(FALSE)
  BY <1>1, <1>2, <1>4, StayReturn
<1>5. CASE TailCall("switch_sectors", 0, 0)
  <2>1. Awaits(stack[2], "switch_sectors")
    BY <1>1, TopOK DEF Awaits
  <2> QED
    BY <2>1, <1>1, <1>2, <1>3, <1>5, PlainFrame, StayTailCall
<1> QED
  BY <1>4, <1>5 DEF SwitchFull_Erased

\* re_initialise(): the sectors are erased.
LEMMA ReInitialise_StartLog ==
    ASSUME TypeInv, LogInv, ReInitialise_Start
    PROVE  LogInv'
<1>1. top.fn = "re_initialise" /\ top.pc = "start" /\ flash' = flash /\ obj' = obj
  BY DEF ReInitialise_Start, At
<1>2. top.fn \in WorkFns /\ ~InBlock /\ ~At("switch_sectors", "in_use")
  BY <1>1 DEF WorkFns, InBlock, At
<1>3. ~Rewriting /\ ~Erasing
  BY <1>1, InRewrite, NotErasing
<1>4. CASE Return(FALSE)
  BY <1>1, <1>2, <1>4, StayReturn
<1>5. CASE Call("erased", "erase_all", 0, 0)
  <2>1. FrameOK(Frame(top.fn, "erased", top.x, top.y)) /\ Awaits(Frame(top.fn, "erased", top.x, top.y), "erase_all")
    BY <1>1, TopOK DEF FrameOK, Frame, FrameType, FunctionNames, Places, Awaits
  <2>2. BootStays
    BY <2>1, <1>1, <1>5, PlainFrame, BootCall
  <2>3. ~Erasing'
    BY <2>2, <1>3 DEF BootStays, Erasing
  <2>4. top' = Frame("erase_all", "start", 0, 0) \/ (top' = Frame("overflow", "start", 0, 0) /\ Len(stack') = 1)
    BY <2>1, <1>5, PlainFrame, Calls DEF TypeInv
  <2>5. CASE top' = Frame("erase_all", "start", 0, 0)
    BY <2>3, <2>5, <1>1, ToFormat DEF Frame
  <2>6. CASE top' = Frame("overflow", "start", 0, 0) /\ Len(stack') = 1
    BY <2>6, <1>1, FlashSame, ToDead DEF Dead, Frame, LogInv
  <2> QED
    BY <2>4, <2>5, <2>6
<1> QED
  BY <1>4, <1>5 DEF ReInitialise_Start

\* re_initialise(): the image is written back.
LEMMA ReInitialise_ErasedLog ==
    ASSUME TypeInv, LogInv, ReInitialise_Erased
    PROVE  LogInv'
<1>1. top.fn = "re_initialise" /\ top.pc = "erased" /\ flash' = flash /\ obj' = obj
  BY DEF ReInitialise_Erased, At
<1>2. top.fn \in WorkFns /\ ~InBlock /\ ~At("switch_sectors", "in_use") /\ "write_all" \in WorkFns
  BY <1>1 DEF WorkFns, InBlock, At
<1>3. ~Rewriting
  BY <1>1, InRewrite
<1>4. CASE Return(FALSE)
  BY <1>1, <1>2, <1>4, StayReturn
<1>5. CASE TailCall("write_all", 0, 0)
  <2>1. Awaits(stack[2], "write_all")
    BY <1>1, TopOK DEF Awaits
  <2> QED
    BY <2>1, <1>1, <1>2, <1>3, <1>5, PlainFrame, StayTailCall
<1> QED
  BY <1>4, <1>5 DEF ReInitialise_Erased

-----------------------------------------------------------------------------
(* The log is kept: the steps that erase.                                  *)

\* An erased sector is blank, the other one stays as it is.
LEMMA SectorErased ==
    ASSUME TypeInv, NEW s \in Sectors, flash' = [flash EXCEPT ![s] = ErasedSector]
    PROVE  /\ Header(s)' = "BAD" /\ Blank(s)'
           /\ \A t \in Sectors : t # s => /\ Header(t)' = Header(t) /\ (Chain(t) => Chain(t)') /\ Blank(t)' = Blank(t)
                                          /\ \A e : EndsAt(t, e) => EndsAt(t, e)'
<1>1. /\ flash'[s].header = "BAD" /\ \A o \in Offsets : flash'[s].log[o] = Erased
      /\ \A t \in Sectors : t # s => flash'[t] = flash[t]
  BY Erases DEF TypeInv, FlashOK
<1>2. Erased.state = "AVAILABLE"
  BY DEF Erased
<1>3. Blank(s)'
  BY <1>1, <1>2 DEF Blank, Programmed, Offsets
<1>4. ASSUME NEW t \in Sectors, t # s
      PROVE  /\ Header(t)' = Header(t) /\ (Chain(t) => Chain(t)') /\ Blank(t)' = Blank(t)
             /\ \A e : EndsAt(t, e) => EndsAt(t, e)'
  <2>1. \A o \in Offsets : /\ flash'[t].log[o].state = "AVAILABLE" <=> flash[t].log[o].state = "AVAILABLE"
                           /\ flash'[t].log[o].count = flash[t].log[o].count
    BY <1>1, <1>4
  <2>2. Header(t)' = Header(t)
    BY <1>1, <1>4 DEF Header
  <2> QED
    BY <2>1, <2>2, LogSame
<1> QED
  BY <1>1, <1>3, <1>4 DEF Header

\* The function that erases: erase_all(), or one at work on the other sector.
LEMMA Eraser ==
    ASSUME TypeInv, LogInv, top.fn = "erase_sector"
    PROVE  /\ user = stack[2] /\ Awaits(stack[2], "erase_sector") /\ Len(stack) > 1 /\ Len(stack) \in Nat /\ ~Rewriting
           /\ top.x \in Sectors
           /\ \/ Formatting /\ ~Erasing /\ stack[2].fn = "erase_all"
              \/ ~Formatting /\ Working /\ WorkFrame(stack[2]) /\ top.x = Other(current)
<1>1. user = stack[2] /\ Awaits(stack[2], "erase_sector") /\ top.x \in Sectors
  BY TopOK DEF user, FrameOK
<1>2. Len(stack) > 1 /\ Len(stack) \in Nat
  BY Popped, Top DEF TypeInv
<1>3. ~Rewriting
  BY InRewrite
<1>4. CASE stack[2].fn = "erase_all"
  <2>1. ~Erasing
    BY <1>3, <1>4, NotErasing DEF Erasing
  <2> QED
    BY <2>1, <1>1, <1>2, <1>3, <1>4 DEF Formatting
<1>5. CASE stack[2].fn # "erase_all"
  <2>1. WorkFrame(stack[2])
    BY <1>1, <1>5 DEF Awaits, WorkFrame, WorkFns
  <2>2. Working
    BY <2>1, Works
  <2> QED
    BY <2>1, <2>2, <1>1, <1>2, <1>3, <1>5 DEF Formatting, LogInv, OpenInv
<1> QED
  BY <1>4, <1>5

\* erase_sector(): the sector is erased.
LEMMA EraseSector_EraseLog ==
    ASSUME TypeInv, LogInv, EraseSector_Erase
    PROVE  LogInv'
<1>0. top.fn = "erase_sector" /\ top.pc = "start" /\ obj' = obj
  BY DEF EraseSector_Erase, At
<1>1. PICK d \in Sectors : d = top.x
  BY <1>0, Eraser
<1>2. flash' = [flash EXCEPT ![d] = ErasedSector] /\ Goto("mark", d, 0) /\ FrameOK(Frame(top.fn, "mark", d, 0))
  BY <1>0, <1>1, PlainFrame DEF EraseSector_Erase
<1>3. /\ Header(d)' = "BAD" /\ Blank(d)'
      /\ \A t \in Sectors : t # d => /\ Header(t)' = Header(t) /\ (Chain(t) => Chain(t)') /\ Blank(t)' = Blank(t)
                                     /\ \A e : EndsAt(t, e) => EndsAt(t, e)'
  BY <1>2, SectorErased
<1>4. SectorsInv'
  <2> SUFFICES ASSUME NEW s \in Sectors
               PROVE  (Header(s)' = "AVAILABLE" => Blank(s)') /\ (Header(s)' \in {"IN_USE", "FULL"} => Chain(s)')
    BY DEF SectorsInv
  <2>1. CASE s = d
    BY <2>1, <1>3 DEF Header
  <2>2. CASE s # d
    BY <2>2, <1>3 DEF LogInv, SectorsInv
  <2> QED
    BY <2>1, <2>2
<1>5. /\ top' = Frame(top.fn, "mark", d, 0) /\ BootStays
      /\ Len(stack) > 1 /\ Len(stack) \in Nat /\ \A i \in 2 .. Len(stack) : stack'[i] = stack[i]
  BY <1>0, <1>2, Jumps, BootGoto, Eraser DEF TypeInv
<1>6. top'.fn = "erase_sector" /\ top'.pc = "mark" /\ top'.x = d /\ stack'[2] = stack[2]
  <2>1. 2 \in 2 .. Len(stack)
    BY <1>5
  <2> QED
    BY <2>1, <1>0, <1>5 DEF Frame
<1>7. EraseInv'
  BY <1>3, <1>6 DEF EraseInv, Blank, Programmed
<1>8. user' = stack[2] /\ user = stack[2]
  BY <1>0, <1>6 DEF user
<1>9. CASE Formatting /\ ~Erasing
  <2>1. Formatting' /\ ~Erasing'
    BY <1>5, <1>8, <1>9 DEF Formatting, BootStays, Erasing
  <2>2. FormatInv'
    <3>1. current' = current /\ (user.pc # "start" => current = 0 /\ obj'.write_offset = SectorHdr)
      BY <1>0, <1>9 DEF current, LogInv, FormatInv
    <3>2. user.pc = "erased0" => d = 0
      BY <1>0, <1>1, <1>9 DEF LogInv, FormatInv
    <3>3. user.pc = "erased1" => d = 1 /\ Blank(0)
      BY <1>0, <1>1, <1>9 DEF LogInv, FormatInv
    <3>4. user.pc = "erased1" => Blank(0)'
      BY <3>3, <1>3 DEF Sectors
    <3> QED
      BY <3>1, <3>2, <3>3, <3>4, <1>6, <1>8 DEF FormatInv
  <2> QED
    BY <2>1, <2>2, <1>4, <1>7, ToFormatting
<1>10. CASE Working /\ WorkFrame(stack[2]) /\ top.x = Other(current)
  <2>1. PICK c \in Sectors : c = current /\ c # d
    BY <1>1, <1>10, Members DEF TypeInv
  <2>2. current' = c
    BY <2>1, <1>0 DEF current
  <2>3. PICK w : w = obj.write_offset
    OBVIOUS
  <2>4. /\ Header(c)' = Header(c) /\ (EndsAt(c, w) => EndsAt(c, w)') /\ ~InBlock /\ ~InBlock'
        /\ ~At("switch_sectors", "in_use") /\ ~(At("switch_sectors", "in_use"))'
    BY <2>1, <1>0, <1>3, <1>6 DEF InBlock, At
  <2>5. Open
    BY <1>10 DEF LogInv, OpenInv
  <2>6. Open'
    BY <2>1, <2>2, <2>3, <2>4, <2>5, <1>0 DEF Open, Header
  <2>7. OpenInv'
    BY <2>1, <2>2, <2>4, <2>6, <1>1, <1>6, <1>10 DEF OpenInv, Other
  <2>8. RewriteInv' /\ StuckInv'
    BY <1>0, <1>5, RewriteKept, Eraser DEF LogInv, StuckInv
  <2>9. Working'
    BY <1>6, <1>10, WorksOn
  <2> QED
    BY <2>7, <2>8, <2>9, <1>4, <1>7, ToWorking
<1> QED
  BY <1>0, <1>9, <1>10, Eraser

\* erase_sector(): the sector is available.
LEMMA EraseSector_MarkLog ==
    ASSUME TypeInv, LogInv, EraseSector_Mark
    PROVE  LogInv'
<1>0. top.fn = "erase_sector" /\ top.pc = "mark" /\ obj' = obj /\ Return(TRUE)
  BY DEF EraseSector_Mark, At
<1>1. PICK d \in Sectors : d = top.x
  BY <1>0, Eraser
<1>2. SetHeader(d, "AVAILABLE") /\ Blank(d)
  BY <1>0, <1>1 DEF EraseSector_Mark, LogInv, EraseInv, At
<1>3. /\ Header(d)' = "AVAILABLE" /\ \A t \in Sectors : t # d => Header(t)' = Header(t)
      /\ \A t \in Sectors : (Chain(t) => Chain(t)') /\ Blank(t)' = Blank(t)
      /\ \A t \in Sectors : \A e : EndsAt(t, e) => EndsAt(t, e)'
  BY <1>2, HeaderChanges DEF HeaderStates
<1>4. SectorsInv'
  <2> SUFFICES ASSUME NEW s \in Sectors
               PROVE  (Header(s)' = "AVAILABLE" => Blank(s)') /\ (Header(s)' \in {"IN_USE", "FULL"} => Chain(s)')
    BY DEF SectorsInv
  <2>1. CASE s = d
    BY <2>1, <1>2, <1>3 DEF Header
  <2>2. CASE s # d
    BY <2>2, <1>3 DEF LogInv, SectorsInv
  <2> QED
    BY <2>1, <2>2
<1>5. top' = stack[2] /\ ret' = TRUE /\ BootStays /\ Awaits(top', "erase_sector")
  BY <1>0, Returns, BootReturn DEF TypeInv
<1>6. top'.fn \in {"switch_full_sector", "erase_all", "init"} /\ user' = stack[2] /\ user = stack[2]
  BY <1>0, <1>5, Eraser DEF Awaits, user
<1>7. EraseInv'
  BY <1>6 DEF EraseInv, At
<1>8. CASE Formatting /\ ~Erasing /\ stack[2].fn = "erase_all"
  <2>1. Formatting' /\ ~Erasing'
    BY <1>5, <1>6, <1>8 DEF Formatting, BootStays, Erasing
  <2>2. FormatInv'
    <3>1. current' = current /\ (user.pc # "start" => current = 0 /\ obj'.write_offset = SectorHdr)
      BY <1>0, <1>8 DEF current, LogInv, FormatInv
    <3>2. user.pc = "erased0" => d = 0
      BY <1>0, <1>1, <1>8 DEF LogInv, FormatInv
    <3>3. user.pc = "erased1" => Blank(0)
      BY <1>0, <1>1, <1>8 DEF LogInv, FormatInv
    <3>4. user.pc \in {"erased0", "erased1"} => Blank(0)'
      BY <3>2, <3>3, <1>2, <1>3 DEF Sectors
    <3> QED
      BY <3>1, <3>4, <1>5, <1>6 DEF FormatInv
  <2> QED
    BY <2>1, <2>2, <1>4, <1>7, ToFormatting
<1>9. CASE ~Formatting /\ Working /\ WorkFrame(stack[2]) /\ top.x = Other(current)
  <2>1. PICK c \in Sectors : c = current /\ c # d
    BY <1>1, <1>9, Members DEF TypeInv
  <2>2. current' = c
    BY <2>1, <1>0 DEF current
  <2>3. PICK w : w = obj.write_offset
    OBVIOUS
  <2>4. /\ Header(c)' = Header(c) /\ (EndsAt(c, w) => EndsAt(c, w)') /\ ~InBlock /\ ~InBlock'
        /\ ~At("switch_sectors", "in_use") /\ ~(At("switch_sectors", "in_use"))'
    BY <2>1, <1>0, <1>3, <1>6 DEF InBlock, At
  <2>5. Open
    BY <1>9 DEF LogInv, OpenInv
  <2>6. Open'
    BY <2>1, <2>2, <2>3, <2>4, <2>5, <1>0 DEF Open, Header
  <2>7. OpenInv'
    BY <2>4, <2>6, <1>6 DEF OpenInv
  <2>8. RewriteInv' /\ StuckInv'
    BY <1>0, <1>5, RewriteKept, Eraser DEF LogInv, StuckInv
  <2>9. Working'
    BY <1>5, <1>9, WorksOn
  <2> QED
    BY <2>7, <2>8, <2>9, <1>4, <1>7, ToWorking
<1> QED
  BY <1>0, <1>8, <1>9, Eraser

\* erase_all(): what it knows.
LEMMA Formats ==
    ASSUME TypeInv, LogInv, top.fn = "erase_all"
    PROVE  Formatting /\ user = top /\ ~Erasing /\ ~Rewriting
<1>1. ~Rewriting
  BY InRewrite
<1> QED
  BY <1>1, NotErasing DEF Formatting, user

\* erase_all() calls erase_sector().
LEMMA FormatCalls ==
    ASSUME TypeInv, LogInv, top.fn = "erase_all", NEW pc \in {"erased0", "erased1"}, NEW x \in Sectors,
           Call(pc, "erase_sector", x, 0), flash' = flash, current' = 0, obj'.write_offset = SectorHdr,
           pc = "erased0" => x = 0, pc = "erased1" => x = 1 /\ Blank(0)
    PROVE  LogInv'
<1>1. FrameOK(Frame(top.fn, pc, top.x, top.y)) /\ Awaits(Frame(top.fn, pc, top.x, top.y), "erase_sector")
  BY TopOK DEF FrameOK, Frame, FrameType, FunctionNames, Places, Awaits
<1>2. FrameOK(Frame("erase_sector", "start", x, 0))
  BY PlainFrame
<1>3. BootStays
  BY <1>1, <1>2, BootCall
<1>4. ~Erasing' /\ SectorsInv'
  BY <1>3, Formats, FlashSame DEF BootStays, Erasing, LogInv
<1>5. \/ top' = Frame("erase_sector", "start", x, 0) /\ stack'[2] = Frame(top.fn, pc, top.x, top.y)
      \/ top' = Frame("overflow", "start", 0, 0) /\ Len(stack') = 1
  BY <1>1, <1>2, Calls DEF TypeInv
<1>6. CASE top' = Frame("erase_sector", "start", x, 0) /\ stack'[2] = Frame(top.fn, pc, top.x, top.y)
  <2>1. top'.fn = "erase_sector" /\ top'.pc = "start" /\ top'.x = x /\ stack'[2].fn = "erase_all" /\ stack'[2].pc = pc
    BY <1>6 DEF Frame
  <2>2. user' = stack'[2] /\ Formatting' /\ EraseInv'
    BY <2>1 DEF user, Formatting, EraseInv, At
  <2>3. Blank(0) => Blank(0)'
    BY FlashSame DEF Sectors
  <2>4. FormatInv'
    BY <2>1, <2>2, <2>3 DEF FormatInv
  <2> QED
    BY <2>2, <2>4, <1>4, ToFormatting
<1>7. CASE top' = Frame("overflow", "start", 0, 0) /\ Len(stack') = 1
  BY <1>4, <1>7, ToDead DEF Dead, Frame
<1> QED
  BY <1>5, <1>6, <1>7

\* erase_all(): the first sector.
LEMMA EraseAll_StartLog ==
    ASSUME TypeInv, LogInv, EraseAll_Start
    PROVE  LogInv'
<1>1. top.fn = "erase_all" /\ flash' = flash /\ Call("erased0", "erase_sector", 0, 0)
  BY DEF EraseAll_Start, At
<1>2. current' = 0 /\ obj'.write_offset = SectorHdr
  BY DEF EraseAll_Start, TypeInv, Object, current
<1> QED
  BY <1>1, <1>2, FormatCalls DEF Sectors

\* erase_all(): the second sector.
LEMMA EraseAll_SecondLog ==
    ASSUME TypeInv, LogInv, EraseAll_Second
    PROVE  LogInv'
<1>1. top.fn = "erase_all" /\ top.pc = "erased0" /\ flash' = flash /\ obj' = obj
  BY DEF EraseAll_Second, At
<1>2. Formatting /\ user = top
  BY <1>1, Formats
<1>3. current = 0 /\ obj.write_offset = SectorHdr /\ ret /\ Blank(0)
  BY <1>1, <1>2 DEF LogInv, FormatInv
<1>4. Call("erased1", "erase_sector", 1, 0) /\ current' = 0
  BY <1>1, <1>3 DEF EraseAll_Second, current
<1> QED
  BY <1>1, <1>3, <1>4, FormatCalls DEF Sectors

\* erase_all(): the first sector is in use.
LEMMA EraseAll_MarkLog ==
    ASSUME TypeInv, LogInv, EraseAll_Mark
    PROVE  LogInv'
<1>1. top.fn = "erase_all" /\ top.pc = "erased1" /\ obj' = obj
  BY DEF EraseAll_Mark, At
<1>2. Formatting /\ user = top /\ ~Erasing /\ ~Rewriting
  BY <1>1, Formats
<1>3. current = 0 /\ obj.write_offset = SectorHdr /\ ret /\ Blank(0) /\ 0 \in Sectors /\ current' = 0
  BY <1>1, <1>2 DEF LogInv, FormatInv, Sectors, current
<1>4. SetHeader(0, "IN_USE") /\ Return(TRUE)
  BY <1>3 DEF EraseAll_Mark
<1>5. /\ Header(0)' = "IN_USE" /\ \A t \in Sectors : t # 0 => Header(t)' = Header(t)
      /\ \A t \in Sectors : (Chain(t) => Chain(t)') /\ Blank(t)' = Blank(t)
  BY <1>3, <1>4, HeaderChanges DEF HeaderStates
<1>6. Chain(0)' /\ EndsAt(0, SectorHdr)'
  BY <1>3, <1>5, BlankEnds2
<1>7. SectorsInv'
  <2> SUFFICES ASSUME NEW s \in Sectors
               PROVE  (Header(s)' = "AVAILABLE" => Blank(s)') /\ (Header(s)' \in {"IN_USE", "FULL"} => Chain(s)')
    BY DEF SectorsInv
  <2>1. CASE s = 0
    BY <2>1, <1>5, <1>6 DEF Header
  <2>2. CASE s # 0
    BY <2>2, <1>5 DEF LogInv, SectorsInv
  <2> QED
    BY <2>1, <2>2
<1>8. Awaits(top', "erase_all") /\ BootStays
  BY <1>1, <1>4, Returns, BootReturn DEF TypeInv
<1>9. WorkFrame(top') /\ top'.fn \in {"caller", "re_initialise"}
  BY <1>8 DEF Awaits, WorkFrame, WorkFns
<1>10. Working' /\ ~InBlock' /\ ~(At("switch_sectors", "in_use"))' /\ EraseInv'
  BY <1>9, WorksOn DEF InBlock, At, EraseInv
<1>11. Open'
  <2>1. (Header(current))' = "IN_USE" /\ EndsAt(current, obj.write_offset)' /\ obj'.write_offset >= SectorHdr
    BY <1>1, <1>3, <1>5, <1>6, Sizes DEF Header
  <2> QED
    BY <2>1, <1>10 DEF Open
<1>12. OpenInv'
  BY <1>9, <1>10, <1>11 DEF OpenInv
<1>13. ~Erasing' /\ ~Rewriting'
  BY <1>2, <1>8 DEF BootStays, Erasing, Rewriting
<1> QED
  BY <1>7, <1>10, <1>12, <1>13, ToWorking DEF RewriteInv, StuckInv

-----------------------------------------------------------------------------
(* The log is kept: the steps that program a block.                        *)

\* A block is programmed at the end of the log of a sector in use, or over the
\* block that is being written there.
LEMMA BlockWritten ==
    ASSUME TypeInv, FlashOK', LogInv, top.fn = "write", top.pc \in {"header", "valid"},
           NEW b \in Block, ProgramBlock(b), b.state # "AVAILABLE", b.count = BlockCount(top.y),
           NEW c, c = current, NEW w, w = obj.write_offset
    PROVE  /\ c \in Sectors /\ w \in Offsets /\ SectorsInv' /\ flash'[Other(c)].header = flash[Other(c)].header
           /\ Header(c)' \in {"BAD", "IN_USE"}
           /\ Header(c)' = "IN_USE" =>
                /\ w >= SectorHdr /\ w \in Programmed(c)' /\ flash'[c].log[w].count = BlockCount(top.y)
                /\ EndsAt(c, EndOf(c, w))'
           /\ Rewriting => ~Deep /\ Len(stack) = 4 /\ ~Zero(StorageSize)
<1>1. w \in Offsets /\ w \in Nat
  BY AtBlock DEF Offsets
<1>2. /\ flash'[c].log[w] = b /\ \A o \in Offsets : o # w => flash'[c].log[o] = flash[c].log[o]
      /\ flash'[c].header = IF OverHeader THEN "BAD" ELSE flash[c].header
      /\ \A t \in Sectors : t # c => flash'[t] = flash[t]
      /\ c \in Sectors
  BY <1>1, Programs DEF TypeInv, FlashOK
<1>3. Other(c) \in Sectors /\ Other(c) # c
  BY <1>2 DEF Other, Sectors
<1>4. Open
  <2>1. Working
    BY Works DEF WorkFrame, WorkFns
  <2> QED
    BY <2>1 DEF LogInv, OpenInv
<1>5. Header(c) \in HeaderStates
  BY <1>2, SectorFields DEF Header, TypeInv, FlashOK
<1>6. (OverHeader <=> w < SectorHdr) /\ ~At("switch_sectors", "in_use")
  BY DEF OverHeader, At
<1>7. Header(c)' \in {"BAD", "IN_USE"} /\ (Header(c)' = "IN_USE" => ~OverHeader /\ Header(c) = "IN_USE" /\ w >= SectorHdr)
  <2>1. Header(c) # "FULL" /\ (Header(c) = "AVAILABLE" => w < SectorHdr)
    BY <1>4, <1>6 DEF Open
  <2>2. OverHeader => Header(c)' = "BAD"
    BY <1>2 DEF Header
  <2>3. ~OverHeader => Header(c)' = Header(c) /\ w >= SectorHdr
    BY <1>1, <1>2, <1>6, Sizes DEF Header
  <2> QED
    BY <2>1, <2>2, <2>3, <1>5, <1>6 DEF HeaderStates
<1>8. ASSUME Header(c)' = "IN_USE" PROVE w \in Programmed(c)' /\ EndsAt(c, EndOf(c, w))'
  <2>1. CASE top.pc = "header"
    <3>1. EndsAt(c, w)
      BY <2>1, <1>4, <1>7, <1>8 DEF Open, InBlock
    <3>2. flash'[c].log[w].state # "AVAILABLE"
      BY <1>2
    <3> QED
      BY <3>1, <3>2, <1>1, <1>2, Appends DEF TypeInv
  <2>2. CASE top.pc = "valid"
    <3>1. w \in Programmed(c) /\ flash[c].log[w].count = BlockCount(top.y) /\ EndsAt(c, EndOf(c, w))
      BY <2>2, <1>4, <1>7, <1>8 DEF Open, InBlock
    <3>2. flash[c].log[w].state # "AVAILABLE"
      BY <3>1 DEF Programmed
    <3>3. \A o \in Offsets : /\ flash'[c].log[o].state = "AVAILABLE" <=> flash[c].log[o].state = "AVAILABLE"
                             /\ flash'[c].log[o].count = flash[c].log[o].count
      BY <3>1, <3>2, <1>2
    <3>4. PICK e : e = EndOf(c, w)
      OBVIOUS
    <3>5. Programmed(c)' = Programmed(c) /\ EndOf(c, w)' = EndOf(c, w) /\ (EndsAt(c, e) => EndsAt(c, e)')
      BY <3>1, <3>3, <1>2, LogSame
    <3> QED
      BY <3>1, <3>4, <3>5
  <2> QED
    BY <2>1, <2>2
<1>9. SectorsInv'
  <2> SUFFICES ASSUME NEW s \in Sectors
               PROVE  (Header(s)' = "AVAILABLE" => Blank(s)') /\ (Header(s)' \in {"IN_USE", "FULL"} => Chain(s)')
    BY DEF SectorsInv
  <2>1. CASE s = c
    BY <2>1, <1>7, <1>8 DEF Header, EndsAt
  <2>2. CASE s # c
    <3>1. \A o \in Offsets : /\ flash'[s].log[o].state = "AVAILABLE" <=> flash[s].log[o].state = "AVAILABLE"
                             /\ flash'[s].log[o].count = flash[s].log[o].count
      BY <2>2, <1>2
    <3>2. Header(s)' = Header(s)
      BY <2>2, <1>2 DEF Header
    <3> QED
      BY <3>1, <3>2, LogSame DEF LogInv, SectorsInv
  <2> QED
    BY <2>1, <2>2
<1>10. Rewriting => ~Deep /\ Len(stack) = 4 /\ ~Zero(StorageSize)
  BY InRewrite DEF Stuck
<1> QED
  BY <1>1, <1>2, <1>3, <1>7, <1>8, <1>9, <1>10

\* write() goes on, or fails, with the store open.
LEMMA WriteGoesOn ==
    ASSUME TypeInv, LogInv, top.fn = "write", SectorsInv', Open',
           obj'.states = obj.states, obj'.current_sector = obj.current_sector, obj'.mem_buffer = obj.mem_buffer,
           obj'.reserved_space = obj.reserved_space, flash'[Other(current)].header = flash[Other(current)].header,
           Rewriting => ~Deep /\ Len(stack) = 4 /\ ~Zero(StorageSize),
           \/ \E v \in BOOLEAN : Return(v)
           \/ \E pc, x, y : Goto(pc, x, y) /\ FrameOK(Frame(top.fn, pc, x, y)) /\ pc \notin {"switched", "switched_full"}
    PROVE  LogInv'
<1>1. top.fn \in WorkFns /\ top.fn # "init"
  BY DEF WorkFns
<1>2. CASE \E v \in BOOLEAN : Return(v)
  <2>1. PICK v \in BOOLEAN : Return(v)
    BY <1>2
  <2>2. Awaits(top', "write") /\ BootStays
    BY <2>1, Returns, BootReturn DEF TypeInv
  <2>3. WorkFrame(top') /\ top'.fn \in {"caller", "write_all"}
    BY <2>2 DEF Awaits, WorkFrame, WorkFns
  <2>4. Working' /\ ~InBlock' /\ ~(At("switch_sectors", "in_use"))' /\ EraseInv' /\ OpenInv'
    BY <2>3, WorksOn DEF InBlock, At, EraseInv, OpenInv
  <2>5. RewriteInv'
    BY <2>2, RewriteKept DEF LogInv
  <2>6. StuckInv'
    <3>1. Rewriting' => Rewriting
      BY <2>2 DEF BootStays, Rewriting
    <3>2. Rewriting => Len(stack) <= 4
      <4>1. 4 <= 4
        OBVIOUS
      <4> QED
        BY <4>1, Zenon
    <3>3. CASE Rewriting
      BY <3>2, <3>3, <2>1, <2>2, <1>1, StuckReturn
    <3> QED
      BY <3>1, <3>3 DEF StuckInv
  <2> QED
    BY <2>4, <2>5, <2>6, ToWorking
<1>3. CASE \E pc, x, y : Goto(pc, x, y) /\ FrameOK(Frame(top.fn, pc, x, y)) /\ pc \notin {"switched", "switched_full"}
  <2>1. PICK pc, x, y : Goto(pc, x, y) /\ FrameOK(Frame(top.fn, pc, x, y)) /\ pc \notin {"switched", "switched_full"}
    BY <1>3
  <2>2. top' = Frame(top.fn, pc, x, y) /\ BootStays /\ Len(stack') = Len(stack)
    BY <2>1, Jumps, BootGoto DEF TypeInv
  <2>3. top'.fn = "write" /\ top'.pc = pc
    BY <2>2 DEF Frame
  <2>4. Working' /\ ~(At("switch_sectors", "in_use"))' /\ EraseInv' /\ OpenInv'
    BY <2>3, WorksOn DEF At, EraseInv, OpenInv, WorkFrame, WorkFns
  <2>5. RewriteInv' /\ (Rewriting' => Rewriting)
    BY <2>2, RewriteKept DEF LogInv
  <2>6. Rewriting => ~Deep'
    BY <2>1, <2>2, <2>3 DEF Deep
  <2>7. StuckInv'
    BY <2>3, <2>5, <2>6 DEF StuckInv, Stuck, Zero
  <2> QED
    BY <2>4, <2>5, <2>7, ToWorking
<1> QED
  BY <1>2, <1>3

\* write(): the header of the block.
LEMMA Write_HeaderLog ==
    ASSUME TypeInv, TypeInv', LogInv, Write_Header
    PROVE  LogInv'
<1> DEFINE b == [Erased EXCEPT !.state = "WRITING", !.count = BlockCount(top.y)]
<1>1. top.fn = "write" /\ top.pc = "header" /\ obj' = obj /\ ProgramBlock(b)
  BY DEF Write_Header, At
<1>2. top.x \in Nat /\ top.y \in Nat /\ top.x + top.y <= StorageSize /\ top.y > 0 /\ BlockCount(top.y) \in Nat
  BY <1>1, AtBlock
<1>3. b \in Block /\ b.state # "AVAILABLE" /\ b.count = BlockCount(top.y)
  <2>1. <<>> \in Seq(Value)
    OBVIOUS
  <2> QED
    BY <1>2, <2>1 DEF Block, Erased
<1> HIDE DEF b
<1>4. PICK c, w : c = current /\ w = obj.write_offset
  OBVIOUS
<1>5. /\ c \in Sectors /\ w \in Offsets /\ SectorsInv' /\ flash'[Other(c)].header = flash[Other(c)].header
      /\ Header(c)' \in {"BAD", "IN_USE"}
      /\ Header(c)' = "IN_USE" =>
           /\ w >= SectorHdr /\ w \in Programmed(c)' /\ flash'[c].log[w].count = BlockCount(top.y)
           /\ EndsAt(c, EndOf(c, w))'
      /\ Rewriting => ~Deep /\ Len(stack) = 4 /\ ~Zero(StorageSize)
  BY <1>1, <1>3, <1>4, BlockWritten DEF TypeInv
<1>6. current' = c /\ obj'.write_offset = w
  BY <1>1, <1>4 DEF current
<1>7. CASE Goto("data", top.x, top.y)
  <2>1. FrameOK(Frame(top.fn, "data", top.x, top.y))
    BY <1>1, <1>2 DEF FrameOK, Frame, FrameType, FunctionNames, Places
  <2>2. top' = Frame(top.fn, "data", top.x, top.y)
    BY <2>1, <1>7, Jumps DEF TypeInv
  <2>3. InBlock' /\ top'.y = top.y
    BY <2>2, <1>1 DEF Frame, InBlock
  <2>4. Open'
    BY <2>3, <1>5, <1>6 DEF Open, Header
  <2> QED
    BY <2>1, <2>4, <1>1, <1>4, <1>5, <1>7, WriteGoesOn
<1>8. CASE OverHeader /\ Return(FALSE)
  <2>1. ~(w >= SectorHdr)
    BY <1>4, <1>5, <1>8, Sizes DEF OverHeader, Offsets
  <2>2. Open'
    BY <2>1, <1>5, <1>6 DEF Open, Header
  <2> QED
    BY <2>2, <1>1, <1>4, <1>5, <1>8, WriteGoesOn
<1> QED
  BY <1>7, <1>8 DEF Write_Header

\* write(): the data of the block.
LEMMA Write_DataLog ==
    ASSUME TypeInv, TypeInv', LogInv, Write_Data
    PROVE  LogInv'
<1>1. top.fn = "write" /\ top.pc = "data" /\ flash' = flash
  BY DEF Write_Data, At
<1>2. top.x \in Nat /\ top.y \in Nat /\ top.x + top.y <= StorageSize /\ top.y > 0
  BY <1>1, AtBlock
<1>3. /\ obj'.states = obj.states /\ obj'.current_sector = obj.current_sector /\ obj'.mem_buffer = obj.mem_buffer
      /\ obj'.reserved_space = obj.reserved_space /\ obj'.write_offset = obj.write_offset
  BY DEF Write_Data, TypeInv, Object
<1>4. Open /\ InBlock /\ ~At("switch_sectors", "in_use")
  <2>1. Working
    BY <1>1, Works DEF WorkFrame, WorkFns
  <2> QED
    BY <2>1, <1>1 DEF LogInv, OpenInv, InBlock, At
<1>5. Rewriting => ~Deep /\ Len(stack) = 4 /\ ~Zero(StorageSize)
  BY <1>1, InRewrite DEF Stuck
<1>6. SectorsInv' /\ flash'[Other(current)].header = flash[Other(current)].header
  BY <1>1, FlashSame DEF LogInv
<1>7. PICK c \in Sectors : c = current /\ current' = c
  BY <1>3, Members DEF TypeInv, current
<1>8. PICK w, e : w = obj.write_offset /\ obj'.write_offset = w /\ e = EndOf(c, w)
  BY <1>3
<1>9. Header(c)' = Header(c) /\ Programmed(c)' = Programmed(c) /\ EndOf(c, w)' = e /\ (EndsAt(c, e) => EndsAt(c, e)')
  BY <1>1, <1>8, FlashSame DEF Programmed, EndOf
<1>10. CASE Goto("valid", top.x, top.y)
  <2>1. FrameOK(Frame(top.fn, "valid", top.x, top.y))
    BY <1>1, <1>2 DEF FrameOK, Frame, FrameType, FunctionNames, Places
  <2>2. top' = Frame(top.fn, "valid", top.x, top.y)
    BY <2>1, <1>10, Jumps DEF TypeInv
  <2>3. InBlock' /\ top'.y = top.y
    BY <2>2, <1>1 DEF Frame, InBlock
  <2>4. Header(c) = "IN_USE" => /\ w >= SectorHdr /\ w \in Programmed(c) /\ flash[c].log[w].count = BlockCount(top.y)
                                /\ EndsAt(c, e)
    BY <1>4, <1>7, <1>8 DEF Open
  <2>5. Header(c)' = "IN_USE" => /\ w >= SectorHdr /\ w \in Programmed(c)' /\ flash'[c].log[w].count = BlockCount(top.y)
                                 /\ EndsAt(c, EndOf(c, w))'
    BY <2>4, <1>1, <1>9
  <2>6. (Header(c)' = "AVAILABLE" => w < SectorHdr) /\ Header(c)' # "FULL"
    BY <1>4, <1>7, <1>8, <1>9 DEF Open
  <2>7. Open'
    BY <2>3, <2>5, <2>6, <1>7, <1>8 DEF Open, Header
  <2> QED
    BY <2>1, <2>7, <1>1, <1>3, <1>5, <1>6, <1>10, WriteGoesOn
<1>11. CASE OverHeader /\ Return(FALSE)
  <2>1. w \in Nat /\ ~(w >= SectorHdr)
    BY <1>8, <1>11, Sizes, Members DEF OverHeader, TypeInv
  <2>2. (Header(c)' = "AVAILABLE" => w < SectorHdr) /\ Header(c)' # "FULL" /\ Header(c)' # "IN_USE"
    BY <2>1, <1>4, <1>7, <1>8, <1>9 DEF Open
  <2>3. Open'
    BY <2>2, <1>7, <1>8 DEF Open, Header
  <2> QED
    BY <2>3, <1>1, <1>3, <1>5, <1>6, <1>11, WriteGoesOn
<1> QED
  BY <1>10, <1>11 DEF Write_Data

\* write(): the block is valid.
LEMMA Write_ValidLog ==
    ASSUME TypeInv, TypeInv', LogInv, Write_Valid
    PROVE  LogInv'
<1> DEFINE n == Bytes(BlockCount(top.y))
           n2 == n - (top.x % BlockSize)
           b == [state |-> "VALID", num |-> BlockNum(top.x), count |-> BlockCount(top.y), data |-> obj.chunk]
<1>1. /\ top.fn = "write" /\ top.pc = "valid" /\ ProgramBlock(b)
      /\ obj' = [obj EXCEPT !.write_offset = @ + BlockHdr + n, !.chunk = <<>>]
      /\ IF n2 > top.y THEN Return(TRUE) ELSE Goto("loop", top.x + n2, top.y - n2)
  BY DEF Write_Valid, At
<1>2. /\ top.x \in Nat /\ top.y \in Nat /\ top.x + top.y <= StorageSize /\ top.y > 0
      /\ BlockCount(top.y) \in Nat /\ n \in Nat
  BY <1>1, AtBlock
<1>3. BlockNum(top.x) \in Nat /\ top.x % BlockSize \in Nat /\ top.x % BlockSize <= top.x
  BY <1>2, BlockInside
<1>4. b \in Block /\ b.state # "AVAILABLE" /\ b.count = BlockCount(top.y)
  BY <1>2, <1>3, Members DEF Block, TypeInv
<1>5. PICK c, w : c = current /\ w = obj.write_offset
  OBVIOUS
<1>6. /\ obj'.states = obj.states /\ obj'.current_sector = obj.current_sector /\ obj'.mem_buffer = obj.mem_buffer
      /\ obj'.reserved_space = obj.reserved_space /\ obj'.write_offset = w + BlockHdr + n
  <2> HIDE DEF n
  <2> QED
    BY <1>1, <1>5 DEF TypeInv, Object
<1> HIDE DEF b
<1>7. /\ c \in Sectors /\ w \in Offsets /\ SectorsInv' /\ flash'[Other(c)].header = flash[Other(c)].header
      /\ Header(c)' \in {"BAD", "IN_USE"}
      /\ Header(c)' = "IN_USE" =>
           /\ w >= SectorHdr /\ w \in Programmed(c)' /\ flash'[c].log[w].count = BlockCount(top.y)
           /\ EndsAt(c, EndOf(c, w))'
      /\ Rewriting => ~Deep /\ Len(stack) = 4 /\ ~Zero(StorageSize)
  BY <1>1, <1>4, <1>5, BlockWritten DEF TypeInv
<1>8. current' = c
  BY <1>5, <1>6 DEF current
<1>9. Header(c)' = "IN_USE" => EndsAt(current, obj.write_offset)' /\ obj'.write_offset >= SectorHdr
  <2> SUFFICES ASSUME Header(c)' = "IN_USE" PROVE EndsAt(current, obj.write_offset)' /\ obj'.write_offset >= SectorHdr
    OBVIOUS
  <2>1. EndOf(c, w)' = w + BlockHdr + n
    BY <1>7 DEF EndOf
  <2>2. EndsAt(c, EndOf(c, w))' /\ w >= SectorHdr
    BY <1>7
  <2>3. EndsAt(c, obj.write_offset)'
    BY <2>1, <2>2, <1>6
  <2>4. w + BlockHdr + n >= SectorHdr
    <3> HIDE DEF n
    <3> QED
      BY <2>2, <1>2, <1>7, Sizes DEF Offsets
  <2> QED
    BY <2>3, <2>4, <1>6, <1>8
<1>10. ASSUME ~InBlock' PROVE Open'
  BY <1>7, <1>8, <1>9, <1>10 DEF Open, Header
<1>11. CASE n2 > top.y
  <2>1. Awaits(top', "write")
    BY <1>1, <1>11, Returns DEF TypeInv
  <2>2. ~InBlock'
    BY <2>1 DEF Awaits, InBlock
  <2> QED
    BY <2>2, <1>1, <1>5, <1>6, <1>7, <1>10, <1>11, WriteGoesOn
<1>12. CASE ~(n2 > top.y)
  <2> DEFINE r == top.x % BlockSize
             x == top.x
             y == top.y
  <2>1. x \in Nat /\ y \in Nat /\ x + y <= StorageSize /\ r \in Nat /\ r <= x /\ n \in Nat /\ ~(n - r > y)
    BY <1>2, <1>3, <1>12
  <2> HIDE DEF r, x, y, n
  <2>2. x + (n - r) \in Nat /\ y - (n - r) \in Nat /\ (x + (n - r)) + (y - (n - r)) <= StorageSize
    BY <2>1, Sizes
  <2>3. FrameOK(Frame("write", "loop", x + (n - r), y - (n - r)))
    BY <2>2 DEF FrameOK, Frame, FrameType, FunctionNames, Places
  <2>4. Goto("loop", x + (n - r), y - (n - r)) /\ top.fn = "write"
    BY <1>1, <1>12 DEF x, y, r
  <2>5. top' = Frame("write", "loop", x + (n - r), y - (n - r))
    BY <2>3, <2>4, Jumps DEF TypeInv
  <2>6. ~InBlock'
    BY <2>5 DEF InBlock, Frame
  <2> QED
    BY <2>3, <2>4, <2>6, <1>5, <1>6, <1>7, <1>10, WriteGoesOn
<1> QED
  BY <1>11, <1>12

-----------------------------------------------------------------------------
(* The log is kept: init().                                                *)

\* The steps of init(): what the caller has called afterwards.
LEMMA InitGoto ==
    ASSUME TypeInv, top.fn = "init", NEW pc, NEW x, NEW y, Goto(pc, x, y), FrameOK(Frame("init", pc, x, y))
    PROVE  boot' = top' /\ top' = Frame("init", pc, x, y) /\ user' = top' /\ ~ret'
<1>1. Len(stack) = 2
  BY InitAlone DEF TypeInv
<1>2. top' = Frame("init", pc, x, y) /\ Len(stack') = Len(stack) /\ stack'[1] = top' /\ ~ret'
  BY Jumps DEF TypeInv
<1>3. boot' = top'
  BY <1>1, <1>2 DEF boot
<1> QED
  BY <1>2, <1>3 DEF user, Frame

\* init() formats: the caller waits for erase_all().
LEMMA InitTailCall ==
    ASSUME TypeInv, top.fn = "init", TailCall("erase_all", 0, 0)
    PROVE  boot' = top' /\ top' = Frame("erase_all", "start", 0, 0)
<1>1. Len(stack) = 2 /\ Awaits(stack[2], "erase_all")
  BY InitAlone DEF TypeInv, Awaits
<1>2. top' = Frame("erase_all", "start", 0, 0) /\ Len(stack') = Len(stack) /\ stack'[1] = top'
  BY <1>1, TailCalls, PlainFrame DEF TypeInv
<1> QED
  BY <1>1, <1>2 DEF boot

\* init() returns to the caller, which was booting.
LEMMA InitReturn ==
    ASSUME TypeInv, top.fn = "init", NEW v \in BOOLEAN, Return(v)
    PROVE  boot' = top' /\ top'.fn = "caller" /\ top'.pc = "booting" /\ ret' = v
<1>1. Len(stack) = 2 /\ stack[2].fn = "caller" /\ stack[2].pc = "booting"
  BY InitAlone DEF TypeInv
<1>2. top' = stack[2] /\ Len(stack') = Len(stack) - 1 /\ ret' = v
  BY Returns DEF TypeInv
<1>3. Len(stack') = 1
  BY <1>1, <1>2
<1> QED
  BY <1>1, <1>2, <1>3 DEF boot

\* init() calls a function and waits, or overruns the stack.
LEMMA InitCall ==
    ASSUME TypeInv, top.fn = "init", NEW pc, NEW fn, NEW x, NEW y, Call(pc, fn, x, y),
           FrameOK(Frame(fn, "start", x, y)), FrameOK(Frame("init", pc, top.x, top.y)),
           Awaits(Frame("init", pc, top.x, top.y), fn)
    PROVE  \/ /\ top' = Frame(fn, "start", x, y) /\ stack'[2] = Frame("init", pc, top.x, top.y) 
              /\ boot' = stack'[2] /\ Len(stack') = 3 /\ ~ret'
           \/ Dead' /\ Len(stack') = 1
<1>1. Len(stack) = 2
  BY InitAlone DEF TypeInv
<1>2. /\ ~ret'
      /\ \/ /\ top' = Frame(fn, "start", x, y)
            /\ stack'[2] = Frame(top.fn, pc, top.x, top.y)
            /\ Len(stack') = Len(stack) + 1
         \/ top' = Frame("overflow", "start", 0, 0) /\ Len(stack') = 1
  BY Calls DEF TypeInv
<1>3. CASE top' = Frame("overflow", "start", 0, 0) /\ Len(stack') = 1
  BY <1>3 DEF Dead, Frame
<1>4. CASE /\ top' = Frame(fn, "start", x, y)
           /\ stack'[2] = Frame(top.fn, pc, top.x, top.y)
           /\ Len(stack') = Len(stack) + 1
  <2>1. Len(stack') = 3
    BY <1>1, <1>4
  <2>2. boot' = stack'[2]
    BY <2>1 DEF boot
  <2> QED
    BY <2>1, <2>2, <1>2, <1>4
<1> QED
  BY <1>2, <1>3, <1>4

\* init() gives up and formats.
LEMMA InitFormats ==
    ASSUME TypeInv, LogInv, top.fn = "init", TailCall("erase_all", 0, 0), flash' = flash
    PROVE  LogInv'
<1>1. boot' = top' /\ top' = Frame("erase_all", "start", 0, 0)
  BY InitTailCall
<1>2. top'.fn = "erase_all" /\ top'.pc = "start" /\ ~Erasing'
  BY <1>1 DEF Frame, Erasing
<1> QED
  BY <1>2, ToFormat

\* A step of init() that has not read all yet.
LEMMA ToLoading ==
    ASSUME Loading', SectorsInv', LoadInv', ~Erasing', EraseInv'
    PROVE  LogInv'
<1>1. ~Working' /\ ~Off' /\ ~Formatting' /\ ~Rewriting'
  BY DEF Working, Off, Formatting, Loading, user, At, Erasing, Rewriting
<1> QED
  BY <1>1, Zenon DEF LogInv, OpenInv, OffInv, FormatInv, RewriteInv, StuckInv

\* A frame of init() on top.
LEMMA InitTop ==
    ASSUME top'.fn = "init", top'.pc \in {"start", "load", "rewrite"}, boot' = top'
    PROVE  Loading' /\ user' = top' /\ ~Erasing' /\ EraseInv'
BY DEF Loading, user, Erasing, EraseInv, At

\* The first sector that init() reads, and the one that it reads last.
LEMMA Order ==
    ASSUME BootPair, \A s \in Sectors : Header(s) \in HeaderStates /\ Header(s) # "BAD" /\ obj.states[s] = Header(s),
           Header(0) = Header(1) => Header(0) = "AVAILABLE",
           NEW x, x = FirstSector(obj.states)
    PROVE  /\ x \in Sectors /\ Other(x) \in Sectors
           /\ Header(0) = "AVAILABLE" => Header(1) = "AVAILABLE"
           /\ Header(x) = "FULL" => Header(Other(x)) = "IN_USE"
           /\ Header(x) # "FULL" => x = 0 /\ Header(0) \in {"AVAILABLE", "IN_USE"} /\ Header(1) = "AVAILABLE"
           /\ Header(Other(x)) \in {"IN_USE", "FULL"} => Header(x) = "FULL"
<1>1. Header(0) \in {"AVAILABLE", "IN_USE", "FULL"} /\ Header(1) \in {"AVAILABLE", "IN_USE", "FULL"}
      /\ obj.states[0] = Header(0) /\ obj.states[1] = Header(1)
  BY DEF HeaderStates, Sectors
<1>2. \/ Header(0) = "AVAILABLE" /\ Header(1) = "AVAILABLE"
      \/ Header(0) = "IN_USE" /\ Header(1) \in {"AVAILABLE", "FULL"}
      \/ Header(0) = "FULL" /\ Header(1) = "IN_USE"
  BY <1>1 DEF BootPair, Sectors
<1>3. Other(0) = 1 /\ Other(1) = 0 /\ 0 \in Sectors /\ 1 \in Sectors
  BY DEF Other, Sectors
<1> QED
  BY <1>1, <1>2, <1>3 DEF FirstSector

\* The sector that comes next.
LEMMA NextSector ==
    ASSUME NEW x \in Sectors, NEW y \in Nat, y < 2
    PROVE  /\ (x + y) % 2 \in Sectors /\ y \in {0, 1} /\ y + 1 \in Nat /\ y + 1 <= 2
           /\ y = 0 => (x + y) % 2 = x
           /\ y = 1 => (x + y) % 2 = Other(x)
<1>1. y = 0 \/ y = 1
  OBVIOUS
<1>2. x = 0 \/ x = 1
  BY DEF Sectors
<1>3. 0 % 2 = 0 /\ 1 % 2 = 1 /\ 2 % 2 = 0
  OBVIOUS
<1> QED
  BY <1>1, <1>2, <1>3 DEF Sectors, Other

\* What init() knows while it reads.
Known(f) ==
    /\ BootPair /\ current = 0
    /\ \A s \in Sectors : obj.states[s] = Header(s) /\ Header(s) # "BAD"
    /\ Header(0) = Header(1) => Header(0) = "AVAILABLE"
    /\ f.x = FirstSector(obj.states)
    /\ Header(0) = "AVAILABLE" => obj.write_offset = 0

\* The sector in use, once it is read, ends at write_offset.
Read(f) ==
    \A s \in Sectors : (Header(s) = "IN_USE" /\ (f.pc = "rewrite" \/ f.y = 2 \/ (f.y = 1 /\ s = f.x)))
                        => EndsAt(s, obj.write_offset)

\* Reading changes neither the headers nor what init() knows of them.
LEMMA KnownKept ==
    ASSUME NEW f, Known(f), NEW g, g.x = f.x, flash' = flash, obj'.states = obj.states,
           obj'.current_sector = obj.current_sector,
           obj'.write_offset = obj.write_offset \/ Header(0) # "AVAILABLE"
    PROVE  Known(g)'
<1>1. current' = current /\ 0 \in Sectors /\ 1 \in Sectors /\ \A s \in Sectors : Header(s)' = Header(s)
  BY FlashSame DEF current, Sectors
<1>2. BootPair'
  BY <1>1 DEF Known, BootPair
<1> QED
  BY <1>1, <1>2 DEF Known

\* Between two sectors, init() knows the headers and what it has read.
LEMMA IsReading ==
    ASSUME TypeInv, LogInv, top.fn = "init", top.pc \in {"load", "rewrite"}
    PROVE  /\ Known(top) /\ Read(top) /\ top.x \in Sectors /\ top.y \in Nat /\ SectorsInv
           /\ current \in Sectors /\ obj.write_offset \in Nat
           /\ \A s \in Sectors : Header(s) \in HeaderStates
<1>1. user = top /\ Loading
  BY DEF user, Loading
<1>2. Known(top)
  BY <1>1, Zenon DEF LogInv, LoadInv, Known
<1>3. Read(top)
  BY <1>1 DEF LogInv, LoadInv, Read
<1>4. top.x \in Sectors /\ top.y \in Nat
  BY TopOK DEF FrameOK
<1> QED
  BY <1>2, <1>3, <1>4, Members, SectorFields DEF LogInv, TypeInv, FlashOK, Header

\* A step of init() that comes between two sectors keeps the log if it keeps what init()
\* knows and has read.
LEMMA StaysReading ==
    ASSUME top'.fn = "init", top'.pc \in {"load", "rewrite"}, boot' = top', SectorsInv', Known(top)', Read(top)'
    PROVE  LogInv'
<1>1. Loading' /\ user' = top' /\ ~Erasing' /\ EraseInv'
  BY InitTop
<1>2. LoadInv'
  BY <1>1 DEF LoadInv, Known, Read
<1> QED
  BY <1>1, <1>2, ToLoading

\* The same with the frame that init() goes to.
LEMMA GoesOnReading ==
    ASSUME TypeInv, LogInv, top.fn = "init", NEW pc \in {"load", "rewrite"}, NEW x \in Sectors, NEW y \in Nat, y <= 2,
           Goto(pc, x, y), x = top.x, Known(top), flash' = flash, obj' = obj,
           \A s \in Sectors : Header(s) = "IN_USE" /\ (pc = "rewrite" \/ y = 2 \/ (y = 1 /\ s = x))
                               => EndsAt(s, obj.write_offset)
    PROVE  LogInv'
<1>1. FrameOK(Frame("init", pc, x, y))
  BY InitFrame
<1>2. boot' = top' /\ top' = Frame("init", pc, x, y)
  BY <1>1, InitGoto
<1>3. top'.fn = "init" /\ top'.pc = pc /\ top'.x = x /\ top'.y = y
  BY <1>2 DEF Frame
<1>4. PICK f : f = top
  OBVIOUS
<1>5. PICK g : g = top'
  OBVIOUS
<1>6. Known(g)'
  <2>1. Known(f) /\ g.x = f.x /\ obj'.states = obj.states /\ obj'.current_sector = obj.current_sector
        /\ obj'.write_offset = obj.write_offset
    BY <1>3, <1>4, <1>5
  <2> QED
    BY <2>1, KnownKept
<1>7. Known(top)'
  BY <1>5, <1>6 DEF Known
<1>8. Read(top)'
  <2>1. PICK w : w = obj.write_offset
    OBVIOUS
  <2>2. obj'.write_offset = w
    BY <2>1
  <2>3. \A s \in Sectors : Header(s)' = Header(s) /\ (EndsAt(s, w) => EndsAt(s, w)')
    BY FlashSame
  <2>4. \A s \in Sectors : Header(s)' = "IN_USE" /\ (pc = "rewrite" \/ y = 2 \/ (y = 1 /\ s = x)) => EndsAt(s, w)'
    BY <2>1, <2>3
  <2> QED
    BY <2>2, <2>4, <1>3 DEF Read
<1> QED
  BY <1>2, <1>3, <1>7, <1>8, StaysReading, FlashSame DEF LogInv

\* The caller calls init().
LEMMA BootLog ==
    ASSUME TypeInv, LogInv, Boot
    PROVE  LogInv'
<1>1. top.fn = "caller" /\ top.pc = "off" /\ Call("booting", "init", 0, 0) /\ flash' = flash /\ obj' = obj
  BY DEF Boot, At
<1>2. Len(stack) = 1
  <2>1. StackOK(stack) /\ 1 \in 1 .. Len(stack) /\ stack[1].fn = "caller"
    BY <1>1, Top DEF TypeInv
  <2> QED
    BY <2>1, CallerLast
<1>3. FrameOK(Frame(top.fn, "booting", top.x, top.y)) /\ Awaits(Frame(top.fn, "booting", top.x, top.y), "init")
  BY <1>1, TopOK DEF FrameOK, Frame, FrameType, FunctionNames, Places, Awaits
<1>4. top' = Frame("init", "start", 0, 0) /\ Len(stack') = 2 /\ stack'[1] = top'
  BY <1>1, <1>2, <1>3, PlainFrame, Calls, CallerAssumption DEF TypeInv
<1>5. boot' = top' /\ top'.fn = "init" /\ top'.pc = "start"
  BY <1>4 DEF boot, Frame
<1>6. Loading' /\ user' = top' /\ ~Erasing' /\ EraseInv'
  BY <1>5, InitTop
<1>7. obj = Cleared /\ BootPair /\ SectorsInv
  BY <1>1 DEF LogInv, OffInv, Off, At
<1>8. BootPair' /\ SectorsInv' /\ obj' = Cleared /\ current' = 0
  <2>1. \A s \in Sectors : Header(s)' = Header(s)
    BY <1>1, FlashSame
  <2>2. BootPair'
    BY <2>1, <1>7 DEF BootPair, Sectors
  <2> QED
    BY <2>2, <1>1, <1>7, FlashSame DEF current, Cleared
<1>9. LoadInv'
  BY <1>5, <1>6, <1>8 DEF LoadInv
<1> QED
  BY <1>6, <1>8, <1>9, ToLoading

\* init() reads the headers.
LEMMA Init_HeadersLog ==
    ASSUME TypeInv, LogInv, Init_Headers
    PROVE  LogInv'
<1> DEFINE h == [i \in Sectors |-> flash[i].header]
           bad == h[0] = "BAD" \/ h[1] = "BAD" \/ (h[0] = h[1] /\ h[0] # "AVAILABLE")
<1>1. /\ top.fn = "init" /\ top.pc = "start" /\ flash' = flash
      /\ obj' = [obj EXCEPT !.mem_buffer = Cleared.mem_buffer, !.states = h]
      /\ IF bad THEN TailCall("erase_all", 0, 0) ELSE Goto("load", FirstSector(h), 0)
  BY DEF Init_Headers, At
<1>2. CASE bad
  BY <1>1, <1>2, InitFormats
<1>3. CASE ~bad
  <2>1. user = top /\ Loading
    BY <1>1 DEF user, Loading
  <2>2. obj = Cleared /\ BootPair /\ current = 0 /\ SectorsInv
    BY <2>1, <1>1 DEF LogInv, LoadInv
  <2>3. obj'.states = h /\ obj'.current_sector = 0 /\ obj'.write_offset = 0
    BY <1>1, <2>2 DEF TypeInv, Object, Cleared
  <2>4. 0 \in Sectors /\ 1 \in Sectors /\ FirstSector(h) \in Sectors
    BY DEF Sectors, FirstSector
  <2>5. Goto("load", FirstSector(h), 0)
    BY <1>1, <1>3
  <2>6. FrameOK(Frame("init", "load", FirstSector(h), 0))
    BY <2>4, InitFrame
  <2>7. boot' = top' /\ top' = Frame("init", "load", FirstSector(h), 0)
    BY <2>5, <2>6, <1>1, InitGoto
  <2>8. top'.fn = "init" /\ top'.pc = "load" /\ top'.x = FirstSector(h) /\ top'.y = 0
    BY <2>7 DEF Frame
  <2>9. \A s \in Sectors : Header(s)' = Header(s) /\ h[s] = Header(s)
    BY <1>1, FlashSame DEF Header
  <2>10. h[0] # "BAD" /\ h[1] # "BAD" /\ (h[0] = h[1] => h[0] = "AVAILABLE")
    BY <1>3
  <2> HIDE DEF h
  <2>11. BootPair' /\ SectorsInv'
    BY <2>2, <2>4, <2>9, <1>1, FlashSame DEF BootPair
  <2>12. \A s \in Sectors : h[s] # "BAD"
    BY <2>10 DEF Sectors
  <2>13. Known(top)'
    BY <2>3, <2>4, <2>8, <2>9, <2>10, <2>11, <2>12 DEF Known, current
  <2>14. Read(top)'
    BY <2>8 DEF Read
  <2> QED
    BY <2>7, <2>8, <2>11, <2>13, <2>14, StaysReading
<1> QED
  BY <1>2, <1>3

\* init() looks at a header, reads the sector or goes on.
LEMMA Init_LoadLog ==
    ASSUME TypeInv, LogInv, Init_Load
    PROVE  LogInv'
<1>1. /\ top.fn = "init" /\ top.pc = "load" /\ flash' = flash /\ obj' = obj
      /\ \/ top.y = 2 /\ Goto("rewrite", top.x, 0)
         \/ /\ top.y < 2 /\ obj.states[(top.x + top.y) % 2] \in {"IN_USE", "FULL"}
            /\ Call("loaded", "load_sector", (top.x + top.y) % 2, SectorHdr)
         \/ /\ top.y < 2 /\ obj.states[(top.x + top.y) % 2] \notin {"IN_USE", "FULL"}
            /\ Goto("load", top.x, top.y + 1)
  BY DEF Init_Load, At
<1>2. /\ Known(top) /\ Read(top) /\ top.x \in Sectors /\ top.y \in Nat /\ SectorsInv
      /\ \A s \in Sectors : Header(s) \in HeaderStates
  BY <1>1, IsReading
<1>3. PICK x \in Sectors, y \in Nat : x = top.x /\ y = top.y
  BY <1>2
<1>4. y <= 2
  BY <1>1, <1>3
<1>5. CASE y = 2 /\ Goto("rewrite", x, 0)
  <2>1. \A s \in Sectors : Header(s) = "IN_USE" => EndsAt(s, obj.write_offset)
    BY <1>2, <1>3, <1>5 DEF Read
  <2> QED
    BY <1>1, <1>2, <1>3, <1>5, <2>1, GoesOnReading
<1>6. CASE y < 2 /\ obj.states[(x + y) % 2] \notin {"IN_USE", "FULL"} /\ Goto("load", x, y + 1)
  <2>1. /\ (x + y) % 2 \in Sectors /\ y \in {0, 1} /\ y + 1 \in Nat /\ y + 1 <= 2
        /\ y = 0 => (x + y) % 2 = x
        /\ y = 1 => (x + y) % 2 = Other(x)
    BY <1>6, NextSector
  <2>2. Header((x + y) % 2) # "IN_USE"
    BY <2>1, <1>2, <1>6 DEF Known
  <2>3. ASSUME NEW s \in Sectors, Header(s) = "IN_USE", y + 1 = 2 \/ (y + 1 = 1 /\ s = x)
        PROVE  EndsAt(s, obj.write_offset)
    <3>1. y = 1 \/ (y = 0 /\ s = x)
      BY <2>1, <2>3
    <3>2. ~(y = 0 /\ s = x)
      BY <2>1, <2>2, <2>3
    <3>3. y = 1 /\ s # Other(x)
      BY <2>1, <2>2, <2>3, <3>1, <3>2
    <3>4. s = x
      BY <3>3 DEF Sectors, Other
    <3> QED
      BY <3>3, <3>4, <2>3, <1>2, <1>3 DEF Read
  <2> QED
    BY <1>1, <1>2, <1>3, <1>6, <2>1, <2>3, GoesOnReading
<1>7. CASE y < 2 /\ obj.states[(x + y) % 2] \in {"IN_USE", "FULL"} /\ Call("loaded", "load_sector", (x + y) % 2, SectorHdr)
  <2> DEFINE s == (x + y) % 2
             g == Frame("init", "loaded", x, y)
  <2>1. s \in Sectors
    BY <1>7, NextSector
  <2>2. SectorHdr \in Nat
    BY Sizes
  <2>3. FrameOK(g) /\ FrameOK(Frame("load_sector", "start", s, SectorHdr)) /\ Awaits(g, "load_sector")
    BY <1>7, <2>1, <2>2, InitFrame, PlainFrame DEF Awaits, Frame
  <2>4. g.fn = "init" /\ g.pc = "loaded" /\ g.x = x /\ g.y = y
    BY DEF Frame
  <2>5. Header(s) \in {"IN_USE", "FULL"}
    BY <2>1, <1>2, <1>7 DEF Known
  <2> HIDE DEF g, s
  <2>6. \/ /\ top' = Frame("load_sector", "start", s, SectorHdr) /\ stack'[2] = g
           /\ boot' = stack'[2] /\ Len(stack') = 3 /\ ~ret'
        \/ Dead' /\ Len(stack') = 1
    BY <1>1, <1>3, <1>7, <2>3, InitCall DEF s, g
  <2>7. SectorsInv'
    BY <1>1, <1>2, FlashSame
  <2>8. CASE Dead' /\ Len(stack') = 1
    BY <2>7, <2>8, ToDead
  <2>9. CASE top' = Frame("load_sector", "start", s, SectorHdr) /\ stack'[2] = g /\ boot' = stack'[2]
    <3>1. top'.fn = "load_sector" /\ top'.x = s /\ top'.y = SectorHdr
      BY <2>9 DEF Frame
    <3>2. user' = g /\ boot' = g
      BY <2>9, <3>1 DEF user
    <3>3. Loading' /\ ~Erasing' /\ EraseInv'
      BY <3>1, <3>2, <2>4 DEF Loading, Erasing, EraseInv, At
    <3>4. PICK f : f = top
      OBVIOUS
    <3>5. Known(g)'
      <4>1. Known(f) /\ g.x = f.x /\ obj'.states = obj.states /\ obj'.current_sector = obj.current_sector
            /\ obj'.write_offset = obj.write_offset
        BY <1>1, <1>2, <1>3, <2>4, <3>4
      <4> QED
        BY <4>1, <1>1, KnownKept
    <3>6. Next2(g) = s
      BY <2>4 DEF Next2, s
    <3>7. Header(s)' = Header(s) /\ Boundary(s, SectorHdr)'
      <4>1. Boundary(s, SectorHdr)
        BY <2>2 DEF Boundary
      <4> QED
        BY <4>1, <2>1, <1>1, FlashSame
    <3>8. LoadInv'
      BY <3>1, <3>2, <3>5, <3>6, <3>7, <2>4, <2>5 DEF LoadInv, Known, Next2
    <3> QED
      BY <3>3, <3>8, <2>7, ToLoading
  <2> QED
    BY <2>6, <2>8, <2>9
<1> QED
  BY <1>1, <1>3, <1>5, <1>6, <1>7

\* A sector is read: the next one, or the end of init().
LEMMA Init_LoadedLog ==
    ASSUME TypeInv, LogInv, Init_Loaded
    PROVE  LogInv'
<1>1. /\ top.fn = "init" /\ top.pc = "loaded" /\ flash' = flash /\ obj' = obj
      /\ IF ret THEN Goto("load", top.x, top.y + 1) ELSE TailCall("erase_all", 0, 0)
  BY DEF Init_Loaded, At
<1>2. CASE ~ret
  BY <1>1, <1>2, InitFormats
<1>3. CASE ret
  <2>1. user = top /\ Loading
    BY <1>1 DEF user, Loading
  <2>2. Known(top)
    BY <1>1, <2>1, Zenon DEF LogInv, LoadInv, Known
  <2>3. Header(Next2(top)) \in {"IN_USE", "FULL"} /\ EndsAt(Next2(top), obj.write_offset)
    BY <1>1, <1>3, <2>1 DEF LogInv, LoadInv
  <2>4. top.x \in Sectors /\ top.y \in Nat /\ top.y < 2
    BY <1>1, TopOK DEF FrameOK
  <2>5. PICK x \in Sectors, y \in Nat : x = top.x /\ y = top.y /\ y < 2
    BY <2>4
  <2>6. /\ y \in {0, 1} /\ y + 1 \in Nat /\ y + 1 <= 2
        /\ y = 0 => Next2(top) = x
        /\ y = 1 => Next2(top) = Other(x)
    BY <2>5, NextSector DEF Next2
  <2>7. \A s \in Sectors : Header(s) \in HeaderStates
    BY SectorFields DEF TypeInv, FlashOK, Header
  <2>8. Header(Other(x)) \in {"IN_USE", "FULL"} => Header(x) = "FULL"
    <3>1. /\ BootPair /\ \A s \in Sectors : Header(s) \in HeaderStates /\ Header(s) # "BAD" /\ obj.states[s] = Header(s)
          /\ Header(0) = Header(1) => Header(0) = "AVAILABLE"
          /\ x = FirstSector(obj.states)
      BY <2>2, <2>5, <2>7 DEF Known
    <3> QED
      BY <3>1, Order
  <2>9. ASSUME NEW s \in Sectors, Header(s) = "IN_USE", y + 1 = 2 \/ (y + 1 = 1 /\ s = x)
        PROVE  EndsAt(s, obj.write_offset)
    <3>1. y = 1 \/ (y = 0 /\ s = x)
      BY <2>6, <2>9
    <3>2. CASE y = 0 /\ s = x
      BY <3>2, <2>3, <2>6
    <3>3. CASE y = 1
      <4>1. s # x
        BY <3>3, <2>3, <2>6, <2>8, <2>9
      <4>2. s = Other(x)
        BY <4>1 DEF Sectors, Other
      <4> QED
        BY <4>2, <3>3, <2>3, <2>6
    <3> QED
      BY <3>1, <3>2, <3>3
  <2>10. Goto("load", x, y + 1)
    BY <1>1, <1>3, <2>5
  <2> QED
    BY <1>1, <2>2, <2>5, <2>6, <2>9, <2>10, GoesOnReading
<1> QED
  BY <1>2, <1>3

\* load_sector() reads the next block, which init() has called it for.
LEMMA Reads ==
    ASSUME TypeInv, LogInv, top.fn = "load_sector"
    PROVE  /\ user = stack[2] /\ stack[2].fn = "init" /\ stack[2].pc = "loaded" /\ Loading /\ ~Erasing
           /\ Known(stack[2]) /\ top.x \in Sectors /\ top.y \in Nat /\ top.x = Next2(stack[2])
           /\ Header(top.x) \in {"IN_USE", "FULL"} /\ Boundary(top.x, top.y) /\ Chain(top.x)
           /\ Header(0) # "AVAILABLE"
<1>1. Awaits(stack[2], "load_sector") /\ top.x \in Sectors /\ top.y \in Nat
  BY TopOK DEF FrameOK
<1>2. stack[2].fn = "init" /\ stack[2].pc = "loaded" /\ user = stack[2]
  BY <1>1 DEF Awaits, user
<1>3. Loading
  BY <1>2 DEF Loading
<1>4. ~Erasing
  BY NotErasing, InRewrite
<1>5. Known(stack[2])
  BY <1>2, <1>3, Zenon DEF LogInv, LoadInv, Known
<1>6. top.x = Next2(stack[2]) /\ Header(top.x) \in {"IN_USE", "FULL"} /\ Boundary(top.x, top.y)
  BY <1>2, <1>3 DEF LogInv, LoadInv
<1>7. Chain(top.x)
  BY <1>1, <1>6 DEF LogInv, SectorsInv
<1>8. Header(0) # "AVAILABLE"
  <2>1. \A s \in Sectors : Header(s) \in HeaderStates
    BY SectorFields DEF TypeInv, FlashOK, Header
  <2>2. PICK x : x = stack[2].x
    OBVIOUS
  <2>3. /\ BootPair /\ \A s \in Sectors : Header(s) \in HeaderStates /\ Header(s) # "BAD" /\ obj.states[s] = Header(s)
        /\ Header(0) = Header(1) => Header(0) = "AVAILABLE"
        /\ x = FirstSector(obj.states)
    BY <1>5, <2>1, <2>2 DEF Known
  <2>4. Header(0) = "AVAILABLE" => Header(1) = "AVAILABLE"
    BY <2>3, Order
  <2> QED
    BY <2>4, <1>1, <1>6 DEF Sectors
<1> QED
  BY <1>1, <1>2, <1>3, <1>4, <1>5, <1>6, <1>7, <1>8

\* A step of load_sector(), to the next block or back to init().
LEMMA LoadGoesOn ==
    ASSUME TypeInv, LogInv, top.fn = "load_sector", BootStays, flash' = flash,
           obj'.states = obj.states, obj'.current_sector = obj.current_sector,
           NEW g, g = stack[2], user' = g,
           top'.fn = "load_sector" => top'.pc = "start" /\ top'.x = Next2(g) /\ Boundary(top.x, top.y)',
           top'.fn # "load_sector" => top' = g /\ (ret' => EndsAt(Next2(g), obj.write_offset)')
    PROVE  LogInv'
<1>1. /\ g.fn = "init" /\ g.pc = "loaded" /\ ~Erasing /\ Known(g) /\ top.x \in Sectors /\ top.x = Next2(g)
      /\ Header(top.x) \in {"IN_USE", "FULL"} /\ Header(0) # "AVAILABLE"
  BY Reads
<1>2. Loading' /\ ~Erasing' /\ EraseInv'
  <2>1. Loading'
    BY <1>1 DEF Loading
  <2>2. ~Erasing'
    BY <1>1 DEF Erasing, BootStays
  <2>3. EraseInv'
    BY <1>1 DEF EraseInv, At
  <2> QED
    BY <2>1, <2>2, <2>3
<1>3. Known(g)'
  BY <1>1, KnownKept
<1>4. Next2(g) \in Sectors /\ Header(Next2(g))' \in {"IN_USE", "FULL"}
  <2>1. Next2(g) \in Sectors /\ Header(Next2(g)) \in {"IN_USE", "FULL"}
    BY <1>1
  <2> QED
    BY <2>1, FlashSame
<1>5. LoadInv'
  <2>1. PICK n : n = Next2(g)
    OBVIOUS
  <2>2. user'.fn = "init" /\ user'.pc = "loaded" /\ (user'.x + user'.y) % 2 = n /\ user'.x = g.x
    BY <1>1, <2>1 DEF Next2
  <2>3. Header(n)' \in {"IN_USE", "FULL"}
    BY <1>4, <2>1
  <2>4. top'.fn = "load_sector" => top'.x = n /\ Boundary(top.x, top.y)'
    BY <2>1
  <2>5. top'.fn # "load_sector" /\ ret' => EndsAt(n, obj.write_offset)'
    BY <2>1
  <2> QED
    BY <1>3, <2>2, <2>3, <2>4, <2>5 DEF LoadInv, Known, Next2
<1>6. SectorsInv'
  BY FlashSame DEF LogInv
<1> QED
  BY <1>2, <1>5, <1>6, ToLoading

\* load_sector() returns to init().
LEMMA LoadReturns ==
    ASSUME TypeInv, LogInv, top.fn = "load_sector", NEW v \in BOOLEAN, Return(v), flash' = flash,
           obj'.states = obj.states, obj'.current_sector = obj.current_sector,
           v => EndsAt(top.x, top.y) /\ obj'.write_offset = top.y
    PROVE  LogInv'
<1>1. BootStays
  BY BootReturn
<1>2. top' = stack[2] /\ ret' = v
  BY Returns DEF TypeInv
<1>3. /\ user = stack[2] /\ stack[2].fn = "init" /\ top.x \in Sectors /\ top.x = Next2(stack[2])
  BY Reads
<1>4. PICK g : g = stack[2]
  OBVIOUS
<1>5. user' = g /\ top' = g /\ top'.fn # "load_sector"
  BY <1>2, <1>3, <1>4 DEF user
<1>6. ASSUME v
      PROVE  EndsAt(Next2(g), obj.write_offset)'
  <2>1. PICK s \in Sectors, t \in {top.y} : s = top.x /\ t = top.y
    BY <1>3
  <2>2. EndsAt(s, t)
    BY <1>6, <2>1
  <2>3. EndsAt(s, t)'
    BY <2>2, FlashSame
  <2>4. Next2(g) = s /\ obj'.write_offset = t
    BY <1>3, <1>4, <1>6, <2>1
  <2> QED
    BY <2>3, <2>4
<1> QED
  BY <1>1, <1>2, <1>4, <1>5, <1>6, LoadGoesOn

\* load_sector() goes to the next block.
LEMMA LoadSkips ==
    ASSUME TypeInv, LogInv, top.fn = "load_sector", NEW t \in Nat, Goto("start", top.x, t), flash' = flash,
           obj'.states = obj.states, obj'.current_sector = obj.current_sector,
           Boundary(top.x, t)
    PROVE  LogInv'
<1>1. /\ user = stack[2] /\ stack[2].fn = "init" /\ top.x \in Sectors /\ top.x = Next2(stack[2])
  BY Reads
<1>2. FrameOK(Frame(top.fn, "start", top.x, t))
  BY <1>1, PlainFrame
<1>3. BootStays
  BY <1>2, BootGoto
<1>4. top' = Frame(top.fn, "start", top.x, t) /\ \A i \in 2 .. Len(stack) : stack'[i] = stack[i]
  BY <1>2, Jumps DEF TypeInv
<1>5. top'.fn = "load_sector" /\ top'.pc = "start" /\ top'.x = top.x /\ top'.y = t
  BY <1>4 DEF Frame
<1>6. stack'[2] = stack[2]
  <2>1. Len(stack) > 1 /\ Len(stack) \in Nat
    <3>1. StackOK(stack) /\ stack[1].fn \notin {"caller", "overflow"}
      BY Top DEF TypeInv
    <3> QED
      BY <3>1, Popped
  <2>2. 2 \in 2 .. Len(stack)
    BY <2>1
  <2> QED
    BY <1>4, <2>2
<1>7. PICK g : g = stack[2]
  OBVIOUS
<1>8. user' = g
  BY <1>5, <1>6, <1>7 DEF user
<1>9. Boundary(top.x, top.y)'
  <2>1. PICK s \in Sectors : s = top.x
    BY <1>1
  <2>2. Boundary(s, t)
    BY <2>1
  <2>3. Boundary(s, t)'
    BY <2>2, FlashSame
  <2> QED
    BY <2>1, <2>3, <1>5
<1> QED
  BY <1>1, <1>3, <1>5, <1>7, <1>8, <1>9, LoadGoesOn

\* load_sector(): the scan ends behind the last block.
LEMMA LoadSectorLog ==
    ASSUME TypeInv, LogInv, LoadSector
    PROVE  LogInv'
<1>1. top.fn = "load_sector" /\ flash' = flash
  BY DEF LoadSector, At
<1>2. top.x \in Sectors /\ top.y \in Nat /\ Boundary(top.x, top.y) /\ Chain(top.x)
  BY <1>1, Reads
<1>3. PICK s \in Sectors, t \in Nat : s = top.x /\ t = top.y /\ Boundary(s, t) /\ Chain(s)
  BY <1>2
<1> DEFINE block == flash[s].log[t]
           size == Bytes(block.count)
           end == t >= SectorSize - BlockHdr
<1>4. CASE (end \/ block.state = "AVAILABLE") /\ obj' = [obj EXCEPT !.write_offset = t] /\ Return(TRUE)
  <2>1. end \/ t \notin Programmed(s)
    BY <1>4 DEF Programmed
  <2>2. EndsAt(s, t)
    BY <2>1, <1>3, ScanEnds DEF TypeInv
  <2>3. obj'.states = obj.states /\ obj'.current_sector = obj.current_sector /\ obj'.write_offset = t
    BY <1>4 DEF TypeInv, Object
  <2> QED
    BY <2>2, <2>3, <1>1, <1>3, <1>4, LoadReturns
<1>5. CASE ~end /\ block.state # "AVAILABLE" /\ Goto("start", top.x, t + size + BlockHdr)
           /\ obj'.states = obj.states /\ obj'.current_sector = obj.current_sector
  <2>1. t < SectorSize - BlockHdr
    BY <1>5, Sizes
  <2>2. t \in Offsets /\ size \in Nat
    BY <2>1, BlockAt
  <2>3. t \in Programmed(s)
    BY <2>2, <1>5 DEF Programmed, Offsets
  <2>4. Boundary(s, EndOf(s, t))
    BY <2>3, <1>3, ScanGoesOn DEF TypeInv
  <2>5. EndOf(s, t) = t + size + BlockHdr /\ t + size + BlockHdr \in Nat
    BY <2>2, Sizes DEF EndOf
  <2>6. Boundary(top.x, t + size + BlockHdr)
    BY <2>4, <2>5, <1>3
  <2> HIDE DEF size
  <2> QED
    BY <2>5, <2>6, <1>1, <1>5, LoadSkips
<1>6. CASE Return(FALSE) /\ UNCHANGED obj
  BY <1>1, <1>6, LoadReturns
<1> HIDE DEF end
<1>7. \/ end /\ obj' = [obj EXCEPT !.write_offset = t] /\ Return(TRUE)
      \/ ~end /\ block.state = "AVAILABLE" /\ obj' = [obj EXCEPT !.write_offset = t] /\ Return(TRUE)
      \/ /\ ~end /\ block.state = "WRITING" /\ Goto("start", top.x, t + size + BlockHdr) /\ UNCHANGED obj
      \/ /\ ~end /\ block.state = "VALID"
         /\ \/ Return(FALSE) /\ UNCHANGED obj
            \/ /\ Goto("start", top.x, t + size + BlockHdr)
               /\ \E m : obj' = [obj EXCEPT !.mem_buffer = m]
  BY <1>3 DEF LoadSector, end
<1>8. (\E m : obj' = [obj EXCEPT !.mem_buffer = m]) => obj'.states = obj.states /\ obj'.current_sector = obj.current_sector
  BY DEF TypeInv, Object
<1> QED
  BY <1>4, <1>5, <1>6, <1>7, <1>8

-----------------------------------------------------------------------------
(* The log is kept: the end of init(), the caller and the power supply.    *)

\* init() has read all that is to be read, and opens the store.
LEMMA Init_RewriteLog ==
    ASSUME TypeInv, LogInv, Init_Rewrite
    PROVE  LogInv'
<1>1. /\ top.fn = "init" /\ top.pc = "rewrite" /\ flash' = flash
      /\ obj' = [obj EXCEPT !.write_error = FALSE, !.reserved_space = 0,
                            !.current_sector = IF obj.states[top.x] = "FULL" THEN Other(top.x) ELSE @]
      /\ IF obj.states[top.x] = "FULL" THEN Call("rewritten", "write_all", 0, 0) ELSE Goto("erase", top.x, 0)
  BY DEF Init_Rewrite, At
<1>2. /\ Known(top) /\ Read(top) /\ top.x \in Sectors /\ SectorsInv
      /\ \A s \in Sectors : Header(s) \in HeaderStates
  BY <1>1, IsReading
<1>3. PICK x \in Sectors, w \in {obj.write_offset} : x = top.x /\ w = obj.write_offset
  BY <1>2
<1>4. /\ Other(x) \in Sectors
      /\ Header(x) = "FULL" => Header(Other(x)) = "IN_USE"
      /\ Header(x) # "FULL" => x = 0 /\ Header(0) \in {"AVAILABLE", "IN_USE"} /\ Header(1) = "AVAILABLE"
  <2>1. /\ BootPair /\ \A s \in Sectors : Header(s) \in HeaderStates /\ Header(s) # "BAD" /\ obj.states[s] = Header(s)
        /\ Header(0) = Header(1) => Header(0) = "AVAILABLE"
        /\ x = FirstSector(obj.states)
    BY <1>2, <1>3 DEF Known
  <2> QED
    BY <2>1, Order
<1>5. /\ obj'.states = obj.states /\ obj'.reserved_space = 0 /\ obj'.write_offset = w
      /\ obj'.current_sector = IF obj.states[x] = "FULL" THEN Other(x) ELSE obj.current_sector
  BY <1>1, <1>3 DEF TypeInv, Object
<1>6. \A s \in Sectors : obj.states[s] = Header(s) /\ Header(s)' = Header(s) /\ (Header(s) = "IN_USE" => EndsAt(s, w)')
  <2>1. \A s \in Sectors : Header(s) = "IN_USE" => EndsAt(s, w)
    BY <1>1, <1>2, <1>3 DEF Read
  <2> QED
    BY <2>1, <1>1, <1>2, FlashSame DEF Known
<1>7. SectorsInv'
  BY <1>1, <1>2, FlashSame
<1>8. \A s : EndsAt(s, w)' => w >= SectorHdr
  BY DEF EndsAt, Boundary
<1>9. CASE Header(x) = "FULL"
  <2>1. Call("rewritten", "write_all", 0, 0) /\ current' = Other(x)
    BY <1>1, <1>3, <1>5, <1>6, <1>9 DEF current
  <2>2. FrameOK(Frame("init", "rewritten", top.x, top.y)) /\ Awaits(Frame("init", "rewritten", top.x, top.y), "write_all")
    BY <1>2, TopOK, InitFrame DEF Awaits, Frame
  <2>3. \/ /\ top' = Frame("write_all", "start", 0, 0) /\ stack'[2] = Frame("init", "rewritten", top.x, top.y)
           /\ boot' = stack'[2] /\ Len(stack') = 3 /\ ~ret'
        \/ Dead' /\ Len(stack') = 1
    BY <1>1, <2>1, <2>2, PlainFrame, InitCall
  <2>4. CASE Dead' /\ Len(stack') = 1
    BY <2>4, <1>7, ToDead
  <2>5. CASE top' = Frame("write_all", "start", 0, 0) /\ boot' = Frame("init", "rewritten", top.x, top.y) /\ Len(stack') = 3
    <3>1. top'.fn = "write_all" /\ boot'.fn = "init" /\ boot'.pc = "rewritten"
      BY <2>5 DEF Frame
    <3>2. Working' /\ EraseInv' /\ ~InBlock'
      BY <3>1, WorksOn DEF WorkFrame, WorkFns, EraseInv, At, InBlock
    <3>3. PICK c \in Sectors : c = Other(x)
      BY <1>4
    <3>4. Header(c)' = "IN_USE" /\ EndsAt(c, w)' /\ w >= SectorHdr
      BY <3>3, <1>4, <1>6, <1>8, <1>9
    <3>5. OpenInv'
      <4>1. Open'
        BY <3>2, <3>3, <3>4, <2>1, <1>5 DEF Open
      <4> QED
        BY <4>1, <3>1 DEF OpenInv, At
    <3>6. Other(c) = x /\ \A s \in Sectors : s # c => s = x
      BY <3>3 DEF Other, Sectors
    <3>7. RewriteInv'
      <4>1. \A s \in Sectors : obj'.states[s] = "FULL" => s = x
        BY <3>3, <3>6, <1>4, <1>5, <1>6, <1>9
      <4>2. Other(current') = x /\ Header(x)' = "FULL" /\ obj'.states[x] = "FULL"
        BY <3>3, <3>6, <2>1, <1>5, <1>6, <1>9
      <4> QED
        BY <4>1, <4>2, <1>5 DEF RewriteInv, Other
    <3>8. StuckInv'
      BY <3>1, <2>5 DEF StuckInv, Stuck, Deep
    <3> QED
      BY <3>2, <3>5, <3>7, <3>8, <1>7, ToWorking
  <2> QED
    BY <2>3, <2>4, <2>5
<1>10. CASE Header(x) # "FULL"
  <2>1. Goto("erase", x, 0) /\ current' = 0 /\ x = 0
    BY <1>1, <1>2, <1>3, <1>4, <1>5, <1>6, <1>10 DEF current, Known
  <2>2. boot' = top' /\ top' = Frame("init", "erase", x, 0)
    BY <2>1, <1>1, InitFrame, InitGoto
  <2>3. top'.fn = "init" /\ top'.pc = "erase" /\ boot'.pc = "erase"
    BY <2>2 DEF Frame
  <2>4. Working' /\ EraseInv' /\ ~InBlock'
    BY <2>3, WorksOn DEF WorkFrame, EraseInv, At, InBlock
  <2>5. Header(0) \in {"AVAILABLE", "IN_USE"} /\ Header(1) = "AVAILABLE" /\ 0 \in Sectors /\ 1 \in Sectors
    BY <1>4, <1>10 DEF Sectors
  <2>6. Open'
    <3>1. Header(0)' = "IN_USE" => EndsAt(0, w)' /\ w >= SectorHdr
      BY <2>5, <1>6, <1>8
    <3>2. Header(0)' = "AVAILABLE" => w = 0
      BY <2>5, <1>2, <1>3, <1>6 DEF Known
    <3>3. Header(0)' # "FULL" /\ 0 < SectorHdr
      BY <2>5, <1>6, Sizes
    <3> QED
      BY <3>1, <3>2, <3>3, <2>1, <2>4, <1>5 DEF Open
  <2>7. OpenInv'
    BY <2>3, <2>6 DEF OpenInv, At
  <2>8. RewriteInv' /\ StuckInv'
    <3>1. \A s \in Sectors : obj'.states[s] # "FULL"
      BY <2>5, <1>5, <1>6 DEF Sectors
    <3> QED
      BY <3>1, <2>3, <1>5 DEF RewriteInv, StuckInv, Rewriting
  <2> QED
    BY <2>4, <2>7, <2>8, <1>7, ToWorking
<1> QED
  BY <1>9, <1>10

\* A step of the rest of init() that erases nothing.
LEMMA StaysInit ==
    ASSUME TypeInv, LogInv, top.fn = "init", top.pc \in {"rewritten", "erase", "erased"}, flash' = flash,
           obj'.current_sector = obj.current_sector, obj'.write_offset = obj.write_offset,
           obj'.states = obj.states, obj'.reserved_space \in {0, obj.reserved_space},
           \/ boot' = top' /\ top'.fn \in {"init", "caller"} /\ top'.pc \in {"erase", "booting"}
           \/ /\ top'.fn = "erase_sector" /\ top'.pc = "start" /\ top'.x = Other(current)
              /\ boot' = stack'[2] /\ stack'[2].fn = "init" /\ stack'[2].pc = "erased",
           WorkFrame(top') \/ top'.fn = "erase_sector"
    PROVE  LogInv'
<1>1. Erasing
  BY InitAlone DEF Erasing, TypeInv
<1>2. Working /\ ~InBlock /\ ~At("switch_sectors", "in_use")
  BY Works DEF WorkFrame, InBlock, At
<1>3. Working'
  BY WorksOn DEF WorkFrame
<1>4. ~InBlock' /\ ~(At("switch_sectors", "in_use"))'
  BY DEF InBlock, At
<1>5. ~Rewriting' /\ StuckInv'
  BY DEF Rewriting, StuckInv
<1>6. current' = current
  BY DEF current
<1>7. RewriteInv'
  BY <1>1, <1>5, <1>6 DEF RewriteInv, LogInv, Other
<1> QED
  BY <1>2, <1>3, <1>4, <1>5, <1>7, Stays

\* write_all() has returned to init().
LEMMA Init_RewrittenLog ==
    ASSUME TypeInv, LogInv, Init_Rewritten
    PROVE  LogInv'
<1>1. /\ top.fn = "init" /\ top.pc = "rewritten" /\ flash' = flash /\ obj' = obj
      /\ IF ret THEN Goto("erase", top.x, 0) ELSE TailCall("erase_all", 0, 0)
  BY DEF Init_Rewritten, At
<1>2. CASE ~ret
  BY <1>1, <1>2, InitFormats
<1>3. CASE ret
  <2>1. top.x \in Sectors /\ Goto("erase", top.x, 0)
    BY <1>1, <1>3, TopOK DEF FrameOK
  <2>2. boot' = top' /\ top' = Frame("init", "erase", top.x, 0)
    BY <2>1, <1>1, InitFrame, InitGoto
  <2>3. top'.fn = "init" /\ top'.pc = "erase" /\ WorkFrame(top')
    BY <2>2 DEF Frame, WorkFrame
  <2> QED
    BY <2>2, <2>3, <1>1, StaysInit
<1> QED
  BY <1>2, <1>3

\* init() erases what was full, which is not the current sector.
LEMMA Init_EraseLog ==
    ASSUME TypeInv, LogInv, Init_Erase
    PROVE  LogInv'
<1>1. top.fn = "init" /\ top.pc = "erase" /\ flash' = flash
  BY DEF Init_Erase, At
<1>2. top.x \in Sectors /\ top.y \in Nat /\ top.y <= 2
  BY <1>1, TopOK DEF FrameOK
<1>3. CASE top.y = 2 /\ Return(TRUE) /\ obj' = [obj EXCEPT !.reserved_space = 0]
  <2>1. /\ obj'.current_sector = obj.current_sector /\ obj'.write_offset = obj.write_offset
        /\ obj'.states = obj.states /\ obj'.reserved_space = 0
    BY <1>3 DEF TypeInv, Object
  <2>2. boot' = top' /\ top'.fn = "caller" /\ top'.pc = "booting"
    BY <1>1, <1>3, InitReturn
  <2>3. WorkFrame(top')
    BY <2>2 DEF WorkFrame
  <2> QED
    BY <2>1, <2>2, <2>3, <1>1, StaysInit
<1>4. CASE top.y # 2 /\ obj.states[top.y] = "FULL" /\ Call("erased", "erase_sector", top.y, 0) /\ obj' = obj
  <2>1. top.y < 2 /\ top.y \in Sectors
    BY <1>2, <1>4 DEF Sectors
  <2>2. FrameOK(Frame("init", "erased", top.x, top.y)) /\ Awaits(Frame("init", "erased", top.x, top.y), "erase_sector")
        /\ FrameOK(Frame("erase_sector", "start", top.y, 0))
    BY <1>2, <2>1, InitFrame, PlainFrame DEF Awaits, Frame
  <2>3. \/ /\ top' = Frame("erase_sector", "start", top.y, 0) /\ stack'[2] = Frame("init", "erased", top.x, top.y)
           /\ boot' = stack'[2] /\ Len(stack') = 3 /\ ~ret'
        \/ Dead' /\ Len(stack') = 1
    BY <1>1, <1>4, <2>2, InitCall
  <2>4. CASE Dead' /\ Len(stack') = 1
    BY <2>4, <1>1, FlashSame, ToDead DEF LogInv
  <2>5. CASE top' = Frame("erase_sector", "start", top.y, 0) /\ stack'[2] = Frame("init", "erased", top.x, top.y)
             /\ boot' = stack'[2]
    <3>1. Erasing
      BY <1>1, InitAlone DEF Erasing, TypeInv
    <3>2. top.y = Other(current)
      BY <3>1, <1>4, <2>1 DEF LogInv, RewriteInv
    <3>3. top'.fn = "erase_sector" /\ top'.pc = "start" /\ top'.x = Other(current)
          /\ stack'[2].fn = "init" /\ stack'[2].pc = "erased"
      BY <2>5, <3>2 DEF Frame
    <3> QED
      BY <3>3, <2>5, <1>1, <1>4, StaysInit
  <2> QED
    BY <2>3, <2>4, <2>5
<1>5. CASE top.y # 2 /\ Goto("erase", top.x, top.y + 1) /\ obj' = obj
  <2>1. top.y + 1 \in Nat /\ top.y + 1 <= 2
    BY <1>2, <1>5
  <2>2. boot' = top' /\ top' = Frame("init", "erase", top.x, top.y + 1)
    BY <2>1, <1>1, <1>2, <1>5, InitFrame, InitGoto
  <2>3. top'.fn = "init" /\ top'.pc = "erase" /\ WorkFrame(top')
    BY <2>2 DEF Frame, WorkFrame
  <2> QED
    BY <2>2, <2>3, <1>1, <1>5, StaysInit
<1> QED
  BY <1>3, <1>4, <1>5 DEF Init_Erase

\* A sector that was full is erased.
LEMMA Init_ErasedLog ==
    ASSUME TypeInv, LogInv, Init_Erased
    PROVE  LogInv'
<1>1. /\ top.fn = "init" /\ top.pc = "erased" /\ flash' = flash /\ obj' = obj
      /\ IF ret THEN Goto("erase", top.x, top.y + 1) ELSE Return(FALSE)
  BY DEF Init_Erased, At
<1>2. top.x \in Sectors /\ top.y \in Nat /\ top.y < 2
  BY <1>1, TopOK DEF FrameOK
<1>3. CASE ret
  <2>1. top.y + 1 \in Nat /\ top.y + 1 <= 2 /\ Goto("erase", top.x, top.y + 1)
    BY <1>1, <1>2, <1>3
  <2>2. boot' = top' /\ top' = Frame("init", "erase", top.x, top.y + 1)
    BY <2>1, <1>1, <1>2, InitFrame, InitGoto
  <2>3. top'.fn = "init" /\ top'.pc = "erase" /\ WorkFrame(top')
    BY <2>2 DEF Frame, WorkFrame
  <2> QED
    BY <2>2, <2>3, <1>1, StaysInit
<1>4. CASE ~ret
  <2>1. boot' = top' /\ top'.fn = "caller" /\ top'.pc = "booting"
    BY <1>1, <1>4, InitReturn
  <2>2. WorkFrame(top')
    BY <2>1 DEF WorkFrame
  <2> QED
    BY <2>1, <2>2, <1>1, StaysInit
<1> QED
  BY <1>3, <1>4

\* A step of the caller, between two calls.
LEMMA StaysIdle ==
    ASSUME TypeInv, LogInv, top.fn = "caller", top.pc \in {"idle", "booting", "storing"}, flash' = flash,
           obj'.current_sector = obj.current_sector, obj'.write_offset = obj.write_offset,
           boot' = top', WorkFrame(top'), top'.fn # "init", top'.pc \in {"idle", "start"}
    PROVE  LogInv'
<1>1. Working /\ ~InBlock /\ ~At("switch_sectors", "in_use")
  BY Works DEF WorkFrame, InBlock, At
<1>2. Working' /\ ~InBlock' /\ ~(At("switch_sectors", "in_use"))'
  BY WorksOn DEF InBlock, At
<1>3. RewriteInv' /\ StuckInv'
  BY DEF RewriteInv, StuckInv, Erasing, Rewriting
<1>4. top'.fn # "erase_sector"
  BY DEF WorkFrame, WorkFns
<1> QED
  BY <1>1, <1>2, <1>3, <1>4, Stays

\* init() has returned to the caller.
LEMMA BootedLog ==
    ASSUME TypeInv, LogInv, TypeInv', Booted
    PROVE  LogInv'
<1> DEFINE pc == IF ret THEN "idle" ELSE "panic"
<1>1. /\ top.fn = "caller" /\ top.pc = "booting" /\ flash' = flash /\ stack' = Caller(pc)
      /\ obj' = [obj EXCEPT !.states = Cleared.states]
  BY DEF Booted, At
<1>2. obj'.current_sector = obj.current_sector /\ obj'.write_offset = obj.write_offset
  BY <1>1 DEF TypeInv, Object
<1>3. pc \in {"off", "idle", "panic"}
  OBVIOUS
<1>4. top' = Frame("caller", pc, 0, 0) /\ Len(stack') = 1
  BY <1>1, <1>3, CallerOK DEF TypeInv
<1>5. top'.fn = "caller" /\ top'.pc = pc /\ boot' = top'
  BY <1>4 DEF Frame, boot
<1>6. CASE ret
  BY <1>1, <1>2, <1>5, <1>6, StaysIdle DEF WorkFrame
<1>7. CASE ~ret
  BY <1>1, <1>4, <1>5, <1>7, FlashSame, ToDead DEF Dead, At, LogInv
<1> QED
  BY <1>6, <1>7

\* The caller calls write().
LEMMA StoreLog ==
    ASSUME TypeInv, LogInv, NEW r \in Ranges, Store(r)
    PROVE  LogInv'
<1> DEFINE f == Frame("write", "start", r[1], r[2])
           g == Frame("caller", "storing", r[1], r[2])
<1>1. top.fn = "caller" /\ top.pc = "idle" /\ flash' = flash /\ stack' = <<f, g>>
  BY DEF Store, At
<1>2. PICK m : obj' = [obj EXCEPT !.mem_buffer = m]
  BY DEF Store
<1>3. obj'.current_sector = obj.current_sector /\ obj'.write_offset = obj.write_offset
  BY <1>2 DEF TypeInv, Object
<1>4. f.fn = "write" /\ f.pc = "start"
  BY DEF Frame
<1> HIDE DEF f, g
<1>5. top' = f /\ boot' = f
  <2>1. Len(stack') = 2 /\ stack'[1] = f /\ Head(stack') = f
    BY <1>1
  <2> QED
    BY <2>1 DEF boot, top
<1>6. WorkFrame(top')
  BY <1>4, <1>5 DEF WorkFrame, WorkFns
<1> QED
  BY <1>1, <1>3, <1>4, <1>5, <1>6, StaysIdle

\* write() has returned to the caller.
LEMMA StoredLog ==
    ASSUME TypeInv, TypeInv', LogInv, Stored
    PROVE  LogInv'
<1>1. top.fn = "caller" /\ top.pc = "storing" /\ flash' = flash /\ obj' = obj /\ stack' = Caller("idle")
  BY DEF Stored, At
<1>2. top' = Frame("caller", "idle", 0, 0) /\ Len(stack') = 1
  BY <1>1, CallerOK DEF TypeInv
<1>3. top'.fn = "caller" /\ top'.pc = "idle" /\ boot' = top'
  BY <1>2 DEF Frame, boot
<1> QED
  BY <1>1, <1>3, StaysIdle DEF WorkFrame

\* Flash refuses a block header.
LEMMA Write_FaultLog ==
    ASSUME TypeInv, LogInv, Write_Fault
    PROVE  LogInv'
<1>1. top.fn = "write" /\ top.pc = "header" /\ bottom.pc = "storing" /\ flash' = flash /\ obj' = obj
  BY DEF Write_Fault, At
<1>2. ~Rewriting /\ top.fn \in WorkFns /\ ~InBlock /\ ~At("switch_sectors", "in_use")
  BY <1>1, InRewrite DEF WorkFns, InBlock, At
<1>3. CASE Return(FALSE)
  BY <1>1, <1>2, <1>3, StayReturn
<1>4. CASE Call("failed", "re_initialise", 0, 0)
  <2>1. FrameOK(Frame(top.fn, "failed", top.x, top.y)) /\ Awaits(Frame(top.fn, "failed", top.x, top.y), "re_initialise")
    BY <1>1, TopOK DEF FrameOK, Frame, FrameType, FunctionNames, Places, Awaits
  <2>2. "re_initialise" \in WorkFns
    BY DEF WorkFns
  <2> QED
    BY <2>1, <2>2, <1>1, <1>2, <1>4, PlainFrame, StayCall
<1> QED
  BY <1>3, <1>4 DEF Write_Fault

\* re_initialise() has returned to the callback.
LEMMA Write_FailedLog ==
    ASSUME TypeInv, LogInv, Write_Failed
    PROVE  LogInv'
<1>1. top.fn = "write" /\ top.pc = "failed" /\ flash' = flash /\ obj' = obj /\ Return(FALSE)
  BY DEF Write_Failed, At
<1>2. top.fn \in WorkFns /\ ~InBlock /\ ~At("switch_sectors", "in_use")
  BY <1>1 DEF WorkFns, InBlock, At
<1> QED
  BY <1>1, <1>2, StayReturn

\* Nothing that the log is about changes.
LEMMA SameLog ==
    ASSUME LogInv, UNCHANGED <<flash, obj, stack, ret>>
    PROVE  LogInv'
<1>1. top' = top /\ user' = user /\ boot' = boot /\ current' = current
  BY DEF top, user, boot, current
<1>2. /\ Off' = Off /\ Dead' = Dead /\ Loading' = Loading /\ Formatting' = Formatting /\ InBlock' = InBlock
      /\ Erasing' = Erasing /\ Rewriting' = Rewriting /\ Working' = Working
  BY <1>1 DEF Off, Dead, Loading, Formatting, InBlock, Erasing, Rewriting, Working, At
<1>3. SectorsInv'
  BY FlashSame DEF LogInv
<1>4. OpenInv'
  <2>1. Open' = Open
    BY <1>1, <1>2 DEF Open, EndsAt, Chain, Boundary, Programmed, EndOf, Header, At
  <2> QED
    BY <2>1, <1>1, <1>2 DEF LogInv, OpenInv, Header, At
<1>5. EraseInv' /\ FormatInv'
  BY <1>1, <1>2 DEF LogInv, EraseInv, FormatInv, Blank, Programmed, At
<1>6. OffInv' /\ RewriteInv'
  BY <1>1, <1>2 DEF LogInv, OffInv, BootPair, RewriteInv, Header
<1>7. LoadInv'
  <2>1. \A s, t : /\ EndsAt(s, t)' = EndsAt(s, t) /\ Boundary(s, t)' = Boundary(s, t)
                  /\ Header(s)' = Header(s)
    BY DEF Header, EndsAt, Chain, Boundary, Programmed, EndOf
  <2>2. BootPair' = BootPair
    BY <2>1 DEF BootPair
  <2>3. PICK w, u, p : w = obj.write_offset /\ u = user /\ p = top
    OBVIOUS
  <2> QED
    BY <1>1, <1>2, <2>1, <2>2, <2>3 DEF LogInv, LoadInv, Next2
<1>8. StuckInv'
  BY <1>1, <1>2 DEF LogInv, StuckInv, Stuck, Deep, Zero, At
<1> QED
  BY <1>3, <1>4, <1>5, <1>6, <1>7, <1>8 DEF LogInv

\* Power fails, but not in the two states that LogSafe leaves out.
LEMMA PowerFailLog ==
    ASSUME LogSafe, TypeInv, TypeInv', LogInv, PowerFail
    PROVE  LogInv'
<1>1. FailPoint \in PowerFailAt /\ obj' = Cleared /\ stack' = Caller("off") /\ flash' = flash
  BY DEF PowerFail
<1>2. FailPoint \notin {"lone_sector_1", "marked_full"}
  BY <1>1 DEF LogSafe
<1>3. top' = Frame("caller", "off", 0, 0) /\ Len(stack') = 1
  BY <1>1, CallerOK DEF TypeInv
<1>4. top'.fn = "caller" /\ top'.pc = "off" /\ boot' = top' /\ user' = top'
  BY <1>3 DEF Frame, boot, user
<1>5. /\ ~Working' /\ ~Loading' /\ ~Formatting' /\ ~Erasing' /\ ~Rewriting' /\ ~(At("erase_sector", "mark"))'
      /\ SectorsInv'
  BY <1>1, <1>4, FlashSame DEF Working, Off, Loading, Formatting, Erasing, Rewriting, At, LogInv
<1> DEFINE a == Header(0)
           b == Header(1)
<1>6. a \in HeaderStates /\ b \in HeaderStates
  BY SectorFields DEF TypeInv, FlashOK, Header, Sectors
<1>7. /\ ~(a = "AVAILABLE" /\ b = "IN_USE")
      /\ ~(a = "FULL" /\ b = "AVAILABLE") /\ ~(a = "AVAILABLE" /\ b = "FULL")
  BY <1>2 DEF FailPoint, Header, Sectors, Other
<1> HIDE DEF a, b
<1>8. \/ a = "BAD" \/ b = "BAD" \/ a = b \/ a = "IN_USE" \/ (a = "FULL" /\ b = "IN_USE")
  BY <1>6, <1>7 DEF HeaderStates
<1>9. Header(0)' = a /\ Header(1)' = b /\ 0 \in Sectors /\ 1 \in Sectors
  BY <1>1 DEF Header, Sectors, a, b
<1>10. BootPair'
  BY <1>8, <1>9 DEF BootPair
<1> QED
  BY <1>1, <1>5, <1>10, Zenon DEF LogInv, OpenInv, EraseInv, FormatInv, OffInv, LoadInv, RewriteInv, StuckInv

\* Erased flash.
LEMMA InitLog == Init => LogInv
<1> SUFFICES ASSUME Init PROVE LogInv
  OBVIOUS
<1>1. obj = Cleared /\ stack = <<Frame("caller", "off", 0, 0)>> /\ flash = [s \in Sectors |-> ErasedSector]
  BY DEF Init, Caller
<1>2. top.fn = "caller" /\ top.pc = "off" /\ boot = top /\ user = top
  BY <1>1 DEF top, boot, user, Frame
<1>3. ~Working /\ ~Loading /\ ~Formatting /\ ~Erasing /\ ~Rewriting /\ ~At("erase_sector", "mark")
  BY <1>2 DEF Working, Off, Loading, Formatting, Erasing, Rewriting, At
<1>4. \A s \in Sectors : Header(s) = "BAD"
  BY <1>1 DEF Header, ErasedSector
<1>5. SectorsInv /\ BootPair
  BY <1>4 DEF SectorsInv, BootPair, Sectors
<1> QED
  BY <1>1, <1>3, <1>5, Zenon DEF LogInv, OpenInv, EraseInv, FormatInv, OffInv, LoadInv, RewriteInv, StuckInv

\* Every step keeps the invariant of the log.
LEMMA StepLog ==
    ASSUME LogSafe, TypeInv, LogInv, [Next]_vars
    PROVE  LogInv'
<1>1. TypeInv'
  BY StepTypes
<1>2. CASE Library
  BY <1>1, <1>2, Write_LoopLog, Write_SwitchedLog, Write_SwitchedFullLog, Write_HeaderLog, Write_DataLog,
     Write_ValidLog, WriteAll_LoopLog, WriteAll_WroteLog, SwitchSectors_StartLog, SwitchSectors_InUseLog,
     SwitchFull_StartLog, SwitchFull_WrittenLog, SwitchFull_ErasedLog, EraseSector_EraseLog,
     EraseSector_MarkLog, EraseAll_StartLog, EraseAll_SecondLog, EraseAll_MarkLog, ReInitialise_StartLog,
     ReInitialise_ErasedLog, LoadSectorLog, Init_HeadersLog, Init_LoadLog, Init_LoadedLog, Init_RewriteLog,
     Init_RewrittenLog, Init_EraseLog, Init_ErasedLog, Zenon DEF Library
<1>3. CASE Boot \/ Booted \/ Stored \/ Write_Fault \/ Write_Failed
  BY <1>1, <1>3, BootLog, BootedLog, StoredLog, Write_FaultLog, Write_FailedLog
<1>4. CASE (\E r \in Ranges : Store(r)) \/ PowerFail
  BY <1>1, <1>4, StoreLog, PowerFailLog
<1>5. CASE ArmOrDisarm \/ UNCHANGED vars
  BY <1>5, SameLog DEF ArmOrDisarm, vars
<1> QED
  BY <1>2, <1>3, <1>4, <1>5 DEF Next, Thread

\* The invariant of the log, where power does not fail in the two states from which
\* the next init() goes on in a sector that it has not read.
THEOREM FlashLog == ASSUME LogSafe PROVE Spec => []LogInv
<1>1. Init => TypeInv /\ LogInv
  BY InitTypes, InitLog
<1>2. (TypeInv /\ LogInv) /\ [Next]_vars => (TypeInv /\ LogInv)'
  BY StepTypes, StepLog
<1> QED
  BY <1>1, <1>2, PTL DEF Spec

\* In a sector that load_sector() reads, no block overlaps another one and none lies
\* behind a gap: for every size, through every switch, rewrite, format and power
\* failure but the two that LogSafe leaves out.
THEOREM FlashLogIsReadable == ASSUME LogSafe PROVE Spec => []LogIsReadable
<1>1. LogInv => LogIsReadable
  BY DEF LogInv, SectorsInv, LogIsReadable, Header, Chain
<1> QED
  BY <1>1, FlashLog, PTL

-----------------------------------------------------------------------------
(* The reserve.  Where power fails only while the caller is idle, flash    *)
(* does not refuse and the deepest call fits on the stack, write_all()     *)
(* always finds the room that it needs.                                    *)

Calm == PowerFailAt \subseteq {"idle"} /\ ~ProgramFault /\ StackLimit >= 5

\* What write_all() may still need when it has come to x.
Rest(x) == ((StorageSize - x) \div MaxWrite) * (BlockHdr + MaxWrite) + MaxWrite
\* There is room for it in the current sector.
RestFits(x) == obj.write_offset + Rest(x) <= SectorSize

\* The calls that a calm store makes: write(), switch_full_sector() and write_all()
\* come to one round of their recursion.
Shape ==
    \/ Len(stack) = 1 /\ top.fn = "caller"
    \/ Len(stack) = 2 /\ top.fn \in {"init", "erase_all", "write"}
    \/ Len(stack) = 3 /\ top.fn \in {"load_sector", "erase_sector", "write_all"} /\ stack[2].fn \in {"init", "erase_all"}
    \/ Len(stack) = 3 /\ top.fn \in {"switch_sectors", "switch_full_sector"} /\ stack[2].fn = "write"
    \/ Len(stack) = 4 /\ top.fn = "write" /\ stack[2].fn = "write_all" /\ stack[3].fn = "init"
    \/ Len(stack) = 4 /\ top.fn \in {"write_all", "erase_sector"} /\ stack[2].fn = "switch_full_sector"
    \/ Len(stack) = 5 /\ top.fn = "write" /\ stack[2].fn = "write_all" /\ stack[3].fn = "switch_full_sector"

\* What the headers of the current and of the other sector say.
InUse == Header(current) = "IN_USE"
OtherIs(h) == Header(Other(current)) = h

\* The other sector is free, or full with the reserve kept in this one.
Safe == /\ obj.reserved_space = 0 => OtherIs("AVAILABLE")
        /\ obj.reserved_space # 0 => OtherIs("FULL") /\ RestFits(0)

\* The reserve survives a power failure.
Reserved(s) == \A o \in Programmed(s) : EndOf(s, o) + ReserveSize <= SectorSize
\* Off, and in the first half of init(): a sector in use beside a full one has kept the reserve.
OffCalm == Off \/ Loading =>
    /\ obj.reserved_space = 0
    /\ ~(Header(0) = "AVAILABLE" /\ Header(1) = "AVAILABLE")
    /\ \A s \in Sectors : Header(s) = "IN_USE" /\ Header(Other(s)) = "FULL" => Reserved(s)

\* erase_all(): both sectors are erased, and the second one is free.
FormatCalm == Formatting =>
    /\ obj.reserved_space = 0
    /\ top.fn = "erase_all" /\ top.pc # "start" => ret
    /\ At("erase_all", "erased1") => Header(1) = "AVAILABLE"

\* The rest of init().
EraseCalm == user.fn = "init" /\ user.pc \in {"rewritten", "erase", "erased"} =>
    /\ InUse /\ obj.reserved_space = 0
    /\ At("init", "rewritten") => ret
    /\ user.pc # "rewritten" => OtherIs("AVAILABLE") \/ (obj.states[Other(current)] = "FULL" /\ user.y <= Other(current))
    /\ At("init", "erased") => ret /\ OtherIs("AVAILABLE")
    /\ top.fn = "erase_sector" => top.x = user.y /\ obj.states[user.y] = "FULL"

\* The caller and the write() that it has called.
SaveCalm == top.fn = "caller" \/ (Len(stack) = 2 /\ top.fn = "write") =>
    /\ top.pc # "panic" /\ top.pc # "failed"
    /\ top.pc # "off" => InUse /\ Safe
    /\ top.pc = "booting" => ret /\ obj.reserved_space = 0
    /\ top.pc = "switched" /\ ~ret => obj.reserved_space # 0
    /\ top.pc = "switched_full" => ret

\* switch_sectors(), called by the write() of the caller.
SwitchCalm == top.fn = "switch_sectors" =>
    /\ Safe /\ (top.pc = "start" => InUse)
    /\ top.pc = "in_use" => obj.reserved_space = 0 /\ Header(current) = "FULL"
    /\ stack[2].pc = "switched_full" => obj.reserved_space = 0

\* switch_full_sector(): the rewrite fits, and the full sector ends up free.
FullCalm == user.fn = "switch_full_sector" =>
    /\ InUse
    /\ user.pc = "start" => RestFits(0)
    /\ user.pc # "start" => obj.reserved_space = 0 /\ (top.fn # "erase_sector" => ret)
    /\ At("switch_full_sector", "erased") => OtherIs("AVAILABLE")

\* write_all(), and the write() that it has called.
RestCalm ==
    /\ top.fn = "write_all" =>
         /\ InUse /\ obj.reserved_space = 0
         /\ top.pc = "start" => RestFits(top.x)
         /\ top.pc = "wrote" => ret /\ top.x < StorageSize /\ RestFits(top.x + MaxWrite)
    /\ Len(stack) > 2 /\ top.fn = "write" =>
         /\ InUse /\ obj.reserved_space = 0 /\ stack[2].x < StorageSize
         /\ \/ /\ top.y = MaxWrite /\ top.x = stack[2].x /\ RestFits(top.x)
               /\ top.pc \in {"start", "header", "data", "valid"}
            \/ top.y = 0 /\ top.pc = "loop" /\ RestFits(stack[2].x + MaxWrite)

\* The invariant of the reserve.
CalmInv == /\ Shape /\ ~obj.write_error
           /\ OffCalm /\ FormatCalm /\ EraseCalm /\ SaveCalm /\ SwitchCalm /\ FullCalm /\ RestCalm

-----------------------------------------------------------------------------
(* The calls of a calm store.                                              *)

\* Flash and object keep what the reserve is about.
LEMMA DataSame ==
    ASSUME \A s \in Sectors : Header(s)' = Header(s), obj \in Object,
           obj'.current_sector = obj.current_sector, obj'.write_offset = obj.write_offset
    PROVE  /\ InUse' = InUse /\ (\A h : OtherIs(h)' = OtherIs(h)) /\ (\A x : RestFits(x)' = RestFits(x))
           /\ obj'.reserved_space = obj.reserved_space => (Safe => Safe')
           /\ current' = current
<1>1. current' = current /\ current \in Sectors /\ Other(current) \in Sectors
  BY Members DEF current
<1>2. PICK c \in Sectors, d \in Sectors : c = current /\ d = Other(current)
  BY <1>1
<1>3. Header(c)' = Header(c) /\ Header(d)' = Header(d)
  OBVIOUS
<1>4. Header(current)' = Header(current) /\ Header(Other(current))' = Header(Other(current))
  BY <1>1, <1>2, <1>3 DEF Other
<1>5. InUse' = InUse /\ \A h : OtherIs(h)' = OtherIs(h)
  BY <1>4 DEF InUse, OtherIs
<1>6. \A x : RestFits(x)' = RestFits(x)
  BY DEF RestFits, Rest
<1> QED
  BY <1>1, <1>5, <1>6 DEF Safe

\* Who has called the function on top.
LEMMA Callers ==
    ASSUME TypeInv, Shape
    PROVE  /\ Len(stack) \in 1 .. 5 /\ Len(stack) \in Nat
           /\ top.fn = "caller" => Len(stack) = 1
           /\ top.fn \in {"init", "erase_all"} => Len(stack) = 2 /\ stack[2].fn = "caller" /\ stack[2].pc = "booting"
           /\ top.fn = "write" /\ Len(stack) = 2 => stack[2].fn = "caller" /\ stack[2].pc = "storing"
           /\ top.fn = "write" /\ Len(stack) # 2 => Len(stack) > 2 /\ stack[2].fn = "write_all" /\ stack[2].pc = "wrote"
           /\ top.fn = "write" => Len(stack) \in {2, 4, 5}
           /\ top.fn = "write_all" => \/ Len(stack) = 3 /\ stack[2].fn = "init" /\ stack[2].pc = "rewritten"
                                      \/ Len(stack) = 4 /\ stack[2].fn = "switch_full_sector" /\ stack[2].pc = "written"
           /\ top.fn \in {"switch_sectors", "switch_full_sector"} =>
                /\ Len(stack) = 3 /\ stack[2].fn = "write" /\ stack[2].pc \in {"switched", "switched_full"}
                /\ top.fn = "switch_full_sector" => stack[2].pc = "switched_full"
           /\ top.fn = "load_sector" => Len(stack) = 3 /\ stack[2].fn = "init" /\ stack[2].pc = "loaded"
           /\ top.fn = "erase_sector" =>
                \/ Len(stack) = 3 /\ stack[2].fn = "init" /\ stack[2].pc = "erased"
                \/ Len(stack) = 3 /\ stack[2].fn = "erase_all" /\ stack[2].pc \in {"erased0", "erased1"}
                \/ Len(stack) = 4 /\ stack[2].fn = "switch_full_sector" /\ stack[2].pc = "erased"
           /\ top.fn \notin {"re_initialise", "overflow"}
<1>1. top.fn \notin {"caller", "overflow"} => Awaits(stack[2], top.fn)
  BY TopOK
<1>2. Len(stack) = 2 => stack[2].fn \in {"caller", "overflow"}
  BY Top DEF TypeInv, bottom
<1>3. Len(stack) \in {1, 2, 3, 4, 5}
  BY DEF Shape
<1> DEFINE n == Len(stack)
<1>4. n \in {1, 2, 3, 4, 5} /\ (n = 2 => stack[2].fn \in {"caller", "overflow"})
  BY <1>2, <1>3
<1>5. /\ n \in 1 .. 5 /\ n \in Nat /\ (n # 2 /\ n # 1 => n > 2)
  <2> HIDE DEF n
  <2> QED
    BY <1>4
<1>6. \/ n = 1 /\ top.fn = "caller"
      \/ n = 2 /\ top.fn \in {"init", "erase_all", "write"}
      \/ n = 3 /\ top.fn \in {"load_sector", "erase_sector", "write_all"} /\ stack[2].fn \in {"init", "erase_all"}
      \/ n = 3 /\ top.fn \in {"switch_sectors", "switch_full_sector"} /\ stack[2].fn = "write"
      \/ n = 4 /\ top.fn = "write" /\ stack[2].fn = "write_all" /\ stack[3].fn = "init"
      \/ n = 4 /\ top.fn \in {"write_all", "erase_sector"} /\ stack[2].fn = "switch_full_sector"
      \/ n = 5 /\ top.fn = "write" /\ stack[2].fn = "write_all" /\ stack[3].fn = "switch_full_sector"
  BY DEF Shape
<1> HIDE DEF n
<1>7. top.fn \notin {"re_initialise", "overflow"} /\ (top.fn = "caller" => n = 1)
  BY <1>6
<1>8. top.fn \in {"init", "erase_all"} => n = 2 /\ stack[2].fn = "caller" /\ stack[2].pc = "booting"
  BY <1>1, <1>4, <1>6 DEF Awaits
<1>9. top.fn = "write" => n \in {2, 4, 5} /\ (n = 2 => stack[2].fn = "caller" /\ stack[2].pc = "storing")
                          /\ (n # 2 => n > 2 /\ stack[2].fn = "write_all" /\ stack[2].pc = "wrote")
  BY <1>1, <1>4, <1>5, <1>6 DEF Awaits
<1>10. top.fn = "write_all" => \/ n = 3 /\ stack[2].fn = "init" /\ stack[2].pc = "rewritten"
                               \/ n = 4 /\ stack[2].fn = "switch_full_sector" /\ stack[2].pc = "written"
  BY <1>1, <1>6 DEF Awaits
<1>11. top.fn \in {"switch_sectors", "switch_full_sector"} =>
                /\ n = 3 /\ stack[2].fn = "write" /\ stack[2].pc \in {"switched", "switched_full"}
                /\ top.fn = "switch_full_sector" => stack[2].pc = "switched_full"
  BY <1>1, <1>6 DEF Awaits
<1>12. top.fn = "load_sector" => n = 3 /\ stack[2].fn = "init" /\ stack[2].pc = "loaded"
  BY <1>1, <1>6 DEF Awaits
<1>13. top.fn = "erase_sector" =>
                \/ n = 3 /\ stack[2].fn = "init" /\ stack[2].pc = "erased"
                \/ n = 3 /\ stack[2].fn = "erase_all" /\ stack[2].pc \in {"erased0", "erased1"}
                \/ n = 4 /\ stack[2].fn = "switch_full_sector" /\ stack[2].pc = "erased"
  BY <1>1, <1>6 DEF Awaits
<1> QED
  BY <1>5, <1>7, <1>8, <1>9, <1>10, <1>11, <1>12, <1>13, Zenon DEF n

\* A jump keeps the calls.
LEMMA ShapeGoto ==
    ASSUME TypeInv, Shape, NEW pc, NEW x, NEW y, Goto(pc, x, y), FrameOK(Frame(top.fn, pc, x, y))
    PROVE  /\ Shape' /\ Len(stack') = Len(stack) /\ ~ret' /\ top' = Frame(top.fn, pc, x, y)
           /\ top'.fn = top.fn /\ top'.pc = pc /\ top'.x = x /\ top'.y = y
           /\ Len(stack) > 1 => stack'[2] = stack[2]
<1>1. /\ top' = Frame(top.fn, pc, x, y) /\ Len(stack') = Len(stack) /\ Len(stack) \in Nat /\ ~ret'
      /\ \A i \in 2 .. Len(stack) : stack'[i] = stack[i]
  BY Jumps DEF TypeInv
<1>2. top'.fn = top.fn /\ top'.pc = pc /\ top'.x = x /\ top'.y = y
  BY <1>1 DEF Frame
<1> DEFINE n == Len(stack)
<1>3. n \in Nat /\ Len(stack') = n /\ \A i \in 2 .. n : stack'[i] = stack[i]
  BY <1>1
<1> HIDE DEF n
<1>4. (n > 1 => stack'[2] = stack[2]) /\ (n > 2 => stack'[3] = stack[3])
  BY <1>3
<1>5. Shape'
  BY <1>2, <1>3, <1>4 DEF Shape, n
<1> QED
  BY <1>1, <1>2, <1>4, <1>5 DEF n

\* A return keeps the calls.
LEMMA ShapeReturn ==
    ASSUME TypeInv, Shape, NEW v \in BOOLEAN, Return(v), top.fn # "caller"
    PROVE  Shape' /\ Len(stack') = Len(stack) - 1 /\ ret' = v /\ top' = stack[2]
<1>1. top.fn \notin {"caller", "overflow"} /\ Len(stack) \in 1 .. 5
  BY Callers
<1>2. /\ top' = stack[2] /\ ret' = v /\ Len(stack') = Len(stack) - 1 /\ Len(stack) > 1
      /\ \A i \in 1 .. Len(stack) - 1 : stack'[i] = stack[i + 1]
  BY <1>1, Returns DEF TypeInv
<1> DEFINE n == Len(stack)
<1>3. n \in 1 .. 5 /\ n > 1 /\ Len(stack') = n - 1 /\ \A i \in 1 .. n - 1 : stack'[i] = stack[i + 1]
  BY <1>1, <1>2
<1> HIDE DEF n
<1>4. /\ n = 2 => Len(stack') = 1
      /\ n = 3 => Len(stack') = 2
      /\ n = 4 => Len(stack') = 3 /\ stack'[2] = stack[3]
      /\ n = 5 => Len(stack') = 4 /\ stack'[2] = stack[3] /\ stack'[3] = stack[4]
  BY <1>3
<1>5. n \in {2, 3, 4, 5}
  BY <1>3
<1>6. \A i \in 1 .. n - 1 : Awaits(stack[i + 1], stack[i].fn)
  BY DEF n, TypeInv, StackOK
<1>7. n > 3 => Awaits(stack[4], stack[3].fn)
  BY <1>3, <1>6
<1>8. n > 2 => Awaits(stack[3], stack[2].fn)
  BY <1>3, <1>6
<1>9. n = 2 => stack[2].fn = "caller"
  BY Callers DEF n, Shape
<1>10. CASE n = 2
  BY <1>2, <1>4, <1>9, <1>10 DEF Shape
<1>11. CASE n = 3
  BY <1>2, <1>4, <1>11 DEF Shape, n
<1>12. CASE n = 4
  BY <1>2, <1>4, <1>8, <1>12 DEF Shape, n, Awaits
<1>13. CASE n = 5
  BY <1>2, <1>4, <1>7, <1>13 DEF Shape, n, Awaits
<1> QED
  BY <1>2, <1>5, <1>10, <1>11, <1>12, <1>13

\* A call goes one level deeper, and there is room for it on the stack.
LEMMA ShapeCall ==
    ASSUME Calm, TypeInv, Shape, NEW pc, NEW fn, NEW x, NEW y, Call(pc, fn, x, y),
           FrameOK(Frame(fn, "start", x, y)), FrameOK(Frame(top.fn, pc, top.x, top.y)),
           Awaits(Frame(top.fn, pc, top.x, top.y), fn),
           top.fn = "write" => Len(stack) = 2 /\ pc # "failed", top.fn = "caller" => pc = "booting"
    PROVE  /\ Shape' /\ Len(stack') = Len(stack) + 1 /\ ~ret'
           /\ top'.fn = fn /\ top'.pc = "start" /\ top'.x = x /\ top'.y = y
           /\ stack'[2].fn = top.fn /\ stack'[2].pc = pc /\ stack'[2].x = top.x /\ stack'[2].y = top.y
<1> DEFINE g == Frame(top.fn, pc, top.x, top.y)
           n == Len(stack)
<1>1. g.fn = top.fn /\ g.pc = pc /\ g.x = top.x /\ g.y = top.y
  BY DEF Frame
<1>2. n < StackLimit /\ n \in {1, 2, 3, 4}
  <2>1. Awaits(g, fn) => top.fn \in {"caller", "write", "write_all", "switch_full_sector", "erase_all", "re_initialise", "init"}
    BY <1>1 DEF Awaits
  <2>2. n \in {1, 2, 3, 4}
    BY <2>1, Callers, Zenon
  <2>3. StackLimit \in Nat /\ StackLimit >= 5
    BY CallerAssumption DEF Calm
  <2> HIDE DEF n
  <2> QED
    BY <2>2, <2>3
<1>3. /\ ~ret' /\ top' = Frame(fn, "start", x, y) /\ stack'[2] = g /\ Len(stack') = n + 1
      /\ \A i \in 3 .. Len(stack') : stack'[i] = stack[i - 1]
  <2>1. /\ ~ret'
        /\ \/ /\ top' = Frame(fn, "start", x, y) /\ stack'[2] = g /\ Len(stack') = n + 1
              /\ \A i \in 3 .. Len(stack') : stack'[i] = stack[i - 1]
           \/ n >= StackLimit
    BY Calls DEF TypeInv
  <2>2. ~(n >= StackLimit)
    <3>1. StackLimit \in Nat
      BY CallerAssumption
    <3> HIDE DEF n
    <3> QED
      BY <1>2, <3>1
  <2> QED
    BY <2>1, <2>2, Zenon
<1>4. top'.fn = fn /\ top'.pc = "start" /\ top'.x = x /\ top'.y = y
  BY <1>3 DEF Frame
<1> HIDE DEF g, n
<1>5. n > 1 => stack'[3] = stack[2]
  BY <1>2, <1>3
<1>6. Awaits(g, fn)
  BY DEF g
<1>7. Shape'
  <2>1. CASE top.fn = "caller"
    <3>1. n = 1 /\ fn \in {"init", "erase_all"}
      BY <2>1, <1>1, <1>6, Callers DEF Awaits, n
    <3> QED
      BY <3>1, <1>3, <1>4 DEF Shape
  <2>2. CASE top.fn \in {"init", "erase_all"}
    <3>1. n = 2 /\ fn \in {"load_sector", "erase_sector", "write_all"}
      BY <2>2, <1>1, <1>6, Callers DEF Awaits, n
    <3> QED
      BY <3>1, <2>2, <1>1, <1>3, <1>4 DEF Shape
  <2>3. CASE top.fn = "write"
    <3>1. n = 2 /\ fn \in {"switch_sectors", "switch_full_sector"}
      BY <2>3, <1>1, <1>6 DEF Awaits, n
    <3> QED
      BY <3>1, <2>3, <1>1, <1>3, <1>4 DEF Shape
  <2>4. CASE top.fn = "switch_full_sector"
    <3>1. n = 3 /\ fn \in {"write_all", "erase_sector"}
      BY <2>4, <1>1, <1>6, Callers DEF Awaits, n
    <3> QED
      BY <3>1, <2>4, <1>1, <1>3, <1>4 DEF Shape
  <2>5. CASE top.fn = "write_all"
    <3>1. fn = "write" /\ \/ n = 3 /\ stack[2].fn = "init"
                          \/ n = 4 /\ stack[2].fn = "switch_full_sector"
      BY <2>5, <1>1, <1>6, Callers DEF Awaits, n
    <3> QED
      BY <3>1, <2>5, <1>1, <1>3, <1>4, <1>5 DEF Shape
  <2>6. top.fn # "re_initialise"
    BY Callers
  <2> QED
    BY <2>1, <2>2, <2>3, <2>4, <2>5, <2>6, <1>1, <1>6 DEF Awaits
<1> QED
  BY <1>1, <1>3, <1>4, <1>7, Zenon DEF n

\* A tail call.
LEMMA ShapeTailCall ==
    ASSUME TypeInv, Shape, NEW fn, NEW x, NEW y, TailCall(fn, x, y), FrameOK(Frame(fn, "start", x, y)),
           \/ top.fn = "init" /\ fn = "erase_all"
           \/ top.fn = "switch_full_sector" /\ fn = "switch_sectors"
    PROVE  /\ Shape' /\ Len(stack') = Len(stack) /\ ~ret'
           /\ top'.fn = fn /\ top'.pc = "start" /\ stack'[2] = stack[2]
<1> DEFINE n == Len(stack)
<1>1. /\ top.fn = "init" => n = 2 /\ stack[2].fn = "caller" /\ stack[2].pc = "booting"
      /\ top.fn = "switch_full_sector" => n = 3 /\ stack[2].fn = "write" /\ stack[2].pc = "switched_full"
  BY Callers
<1>2. Awaits(stack[2], fn)
  BY <1>1 DEF Awaits
<1>3. /\ top' = Frame(fn, "start", x, y) /\ Len(stack') = n /\ ~ret' /\ n \in Nat
      /\ \A i \in 2 .. n : stack'[i] = stack[i]
  BY <1>2, TailCalls DEF TypeInv
<1>4. top'.fn = fn /\ top'.pc = "start"
  BY <1>3 DEF Frame
<1> HIDE DEF n
<1>5. stack'[2] = stack[2]
  BY <1>1, <1>3
<1>6. Shape'
  BY <1>1, <1>3, <1>4, <1>5 DEF Shape
<1> QED
  BY <1>3, <1>4, <1>5, <1>6 DEF n

-----------------------------------------------------------------------------
(* What write_all() needs.                                                 *)

\* One more divisor adds one to the quotient.
LEMMA OneMore ==
    ASSUME NEW a \in Nat, NEW b \in Nat \ {0}
    PROVE  (a + b) \div b = (a \div b) + 1
<1> DEFINE q == a \div b
           r == a % b
           p == (a + b) \div b
           t == (a + b) % b
<1>1. q \in Nat /\ r \in Nat /\ r < b /\ q * b \in Nat /\ q * b + r = a
  BY DivMod
<1>2. p \in Nat /\ t \in Nat /\ t < b /\ p * b \in Nat /\ p * b + t = a + b
  <2>1. a + b \in Nat
    OBVIOUS
  <2> QED
    BY <2>1, DivMod
<1> HIDE DEF q, r, p, t
<1>3. (q + 1) * b = q * b + b /\ (q + 1) * b \in Nat
  BY <1>1, Monotone, Z3
<1>4. ~(p < q + 1)
  <2> SUFFICES ASSUME p < q + 1 PROVE FALSE
    OBVIOUS
  <2>1. p \in Nat /\ q \in Nat /\ b \in Nat /\ p <= q
    BY <1>1, <1>2
  <2>2. p * b <= q * b
    BY <2>1, Monotone
  <2> DEFINE u == p * b
             v == q * b
  <2>3. u \in Nat /\ v \in Nat /\ u <= v /\ v + r = a /\ u + t = a + b
    BY <2>2, <1>1, <1>2
  <2> HIDE DEF u, v
  <2> QED
    BY <2>3, <1>1, <1>2
<1>5. ~(p > q + 1)
  <2> SUFFICES ASSUME p > q + 1 PROVE FALSE
    OBVIOUS
  <2>1. q + 2 \in Nat /\ q + 2 <= p /\ b \in Nat
    BY <1>1, <1>2
  <2>2. (q + 2) * b <= p * b
    BY <2>1, <1>2, Monotone
  <2>3. (q + 2) * b = q * b + b + b
    BY <1>1, Z3
  <2> DEFINE u == p * b
             v == q * b
  <2>4. u \in Nat /\ v \in Nat /\ v + b + b <= u /\ v + r = a /\ u + t = a + b
    BY <2>2, <2>3, <1>1, <1>2
  <2> HIDE DEF u, v
  <2> QED
    BY <2>4, <1>1, <1>2
<1> QED
  BY <1>1, <1>2, <1>4, <1>5 DEF q, p

\* Each chunk takes a block's share of the rest.
LEMMA RestStep ==
    ASSUME NEW x \in Nat, x % MaxWrite = 0, x < StorageSize
    PROVE  /\ x + MaxWrite \in Nat
           /\ Rest(x) \in Nat /\ Rest(x + MaxWrite) \in Nat
           /\ Rest(x) = Rest(x + MaxWrite) + (BlockHdr + MaxWrite)
<1>1. x + MaxWrite \in Nat /\ x + MaxWrite <= StorageSize
  BY NextChunk
<1> DEFINE a == StorageSize - (x + MaxWrite)
           q == a \div MaxWrite
           c == BlockHdr + MaxWrite
<1>2. a \in Nat /\ a + MaxWrite = StorageSize - x /\ MaxWrite \in Nat \ {0} /\ c \in Nat /\ MaxWrite \in Nat
  BY <1>1, Sizes
<1>3. q \in Nat
  BY <1>2, DivMod
<1>4. (StorageSize - x) \div MaxWrite = q + 1
  BY <1>2, OneMore
<1>5. Rest(x) = (q + 1) * c + MaxWrite /\ Rest(x + MaxWrite) = q * c + MaxWrite
  BY <1>4 DEF Rest
<1> HIDE DEF q, c, a
<1>6. q * c \in Nat /\ (q + 1) * c = q * c + c
  BY <1>2, <1>3, Monotone
<1> DEFINE u == q * c
<1>7. u \in Nat /\ Rest(x) = u + c + MaxWrite /\ Rest(x + MaxWrite) = u + MaxWrite
  BY <1>5, <1>6
<1> HIDE DEF u
<1>8. Rest(x) \in Nat /\ Rest(x + MaxWrite) \in Nat /\ Rest(x) = Rest(x + MaxWrite) + c
  BY <1>2, <1>7
<1> QED
  BY <1>1, <1>8 DEF c

\* At the start the rest is the reserve.
LEMMA RestAll == Rest(0) = ReserveSize /\ ReserveSize \in Nat /\ ReserveSize > 0
<1>1. StorageSize - 0 = StorageSize
  BY Sizes
<1>2. (StorageSize \div MaxWrite) * (BlockHdr + MaxWrite) \in Nat
  <2>1. StorageSize \div MaxWrite \in Nat
    BY Sizes, DivMod
  <2> QED
    BY <2>1, Sizes, Z3
<1> QED
  BY <1>1, <1>2, Sizes DEF Rest, ReserveSize

\* A chunk of write_all() fits where the rest does, and leaves room for what comes after it.
LEMMA ChunkFits ==
    ASSUME obj \in Object, obj.reserved_space = 0, NEW x \in Nat, x % MaxWrite = 0, x < StorageSize, RestFits(x)
    PROVE  /\ ~NoRoom
           /\ obj.write_offset + (BlockHdr + MaxWrite) + Rest(x + MaxWrite) <= SectorSize
           /\ RestFits(x + MaxWrite)
<1> DEFINE w == obj.write_offset
           r == Rest(x + MaxWrite)
<1>1. w \in Nat /\ r \in Nat /\ Rest(x) = r + (BlockHdr + MaxWrite) /\ BlockHdr \in Nat /\ MaxWrite \in Nat /\ SectorSize \in Nat
  BY Members, RestStep, Sizes
<1>2. w + Rest(x) <= SectorSize
  BY DEF RestFits
<1> HIDE DEF w, r
<1>3. w + (BlockHdr + MaxWrite) + r <= SectorSize /\ w + r <= SectorSize /\ ~(w > SectorSize - (BlockHdr + MaxWrite + 0))
  BY <1>1, <1>2
<1> QED
  BY <1>3 DEF RestFits, NoRoom, w, r

\* A multiple leaves no remainder.
LEMMA Multiple ==
    ASSUME NEW n \in Nat, NEW b \in Nat \ {0}
    PROVE  (n * b) % b = 0
<1> DEFINE a == n * b
           p == a \div b
           r == a % b
<1>1. a \in Nat
  BY Monotone
<1>2. p \in Nat /\ r \in Nat /\ r < b /\ p * b \in Nat /\ p * b + r = a
  BY <1>1, DivMod
<1> HIDE DEF p, r
<1>3. p = n
  <2>1. ~(p + 1 <= n)
    <3> SUFFICES ASSUME p + 1 <= n PROVE FALSE
      OBVIOUS
    <3>1. (p + 1) * b <= n * b /\ (p + 1) * b = p * b + b
      BY <1>2, Monotone
    <3> DEFINE u == p * b
    <3>2. u \in Nat /\ u + b <= a /\ u + r = a
      BY <3>1, <1>2
    <3> HIDE DEF u, a
    <3> QED
      BY <3>2, <1>1, <1>2
  <2>2. ~(n + 1 <= p)
    <3> SUFFICES ASSUME n + 1 <= p PROVE FALSE
      OBVIOUS
    <3>1. (n + 1) * b <= p * b /\ (n + 1) * b = n * b + b
      BY <1>2, Monotone
    <3> DEFINE u == p * b
    <3>2. u \in Nat /\ a + b <= u /\ u + r = a
      BY <3>1, <1>2
    <3> HIDE DEF u, a
    <3> QED
      BY <3>2, <1>1, <1>2
  <2> QED
    BY <2>1, <2>2, <1>2
<1>4. r = 0
  <2>1. a + r = a
    BY <1>2, <1>3
  <2> HIDE DEF a
  <2> QED
    BY <2>1, <1>1, <1>2
<1> QED
  BY <1>4 DEF r

\* A chunk of write_all() is a whole number of whole blocks.
LEMMA ChunkWhole ==
    ASSUME NEW x \in Nat, x % MaxWrite = 0
    PROVE  Bytes(BlockCount(MaxWrite)) = MaxWrite /\ x % BlockSize = 0
<1> DEFINE k == MaxWrite \div BlockSize
           q == x \div MaxWrite
           c == (MaxWrite + BlockSize - 1) \div BlockSize
<1>1. k \in Nat /\ k * BlockSize = MaxWrite
  BY Whole, Sizes, SizeAssumption
<1>2. q \in Nat /\ q * MaxWrite = x
  BY Whole, Sizes
<1>3. BlockCount(MaxWrite) = c
  BY Sizes DEF BlockCount
<1>4. c \in Nat /\ c <= k /\ c * BlockSize \in Nat /\ MaxWrite <= c * BlockSize
  BY <1>1, Sizes, RoundUp
<1> HIDE DEF k, q, c
<1>5. c * BlockSize <= k * BlockSize
  BY <1>1, <1>4, Sizes, Monotone
<1>6. c * BlockSize = MaxWrite
  BY <1>1, <1>4, <1>5, Sizes
<1>7. q * (k * BlockSize) = (q * k) * BlockSize /\ q * k \in Nat
  BY <1>1, <1>2, Sizes, Z3
<1>8. ((q * k) * BlockSize) % BlockSize = 0
  BY <1>7, Sizes, Multiple
<1>9. x = (q * k) * BlockSize
  BY <1>1, <1>2, <1>7
<1> QED
  BY <1>3, <1>6, <1>8, <1>9 DEF Bytes

-----------------------------------------------------------------------------
(* Where a step may lead.                                                  *)

\* The caller, or the write() that it has called.
LEMMA ToSave ==
    ASSUME Shape', ~obj'.write_error, InUse', Safe', Len(stack') = 1 \/ Len(stack') = 2,
           top'.fn = "caller" \/ (Len(stack') = 2 /\ top'.fn = "write"),
           top'.pc \notin {"off", "panic", "failed"},
           top'.pc = "booting" => ret' /\ obj'.reserved_space = 0,
           top'.pc = "switched" /\ ~ret' => obj'.reserved_space # 0,
           top'.pc = "switched_full" => ret'
    PROVE  CalmInv'
<1>0. ~(Len(stack') > 2)
  <2> DEFINE n == Len(stack')
  <2>1. n = 1 \/ n = 2
    OBVIOUS
  <2> HIDE DEF n
  <2>2. ~(n > 2)
    BY <2>1
  <2> QED
    BY <2>2 DEF n
<1>1. user' = top' /\ ~Off' /\ ~Loading' /\ ~Formatting' /\ ~(Len(stack') > 2)
  BY <1>0 DEF user, Off, Loading, Formatting, At
<1>2. SaveCalm'
  BY DEF SaveCalm
<1> QED
  BY <1>1, <1>2, Zenon DEF CalmInv, OffCalm, FormatCalm, EraseCalm, SwitchCalm, FullCalm, RestCalm, At

\* write_all(), or the write() that it has called.
LEMMA ToRest ==
    ASSUME Shape', ~obj'.write_error, RestCalm',
           top'.fn = "write_all" \/ (Len(stack') > 2 /\ top'.fn = "write")
    PROVE  CalmInv'
<1>0. Len(stack') > 2 => Len(stack') # 2
  <2> DEFINE n == Len(stack')
  <2>1. n = 2 => ~(n > 2)
    OBVIOUS
  <2> QED
    BY <2>1, Zenon
<1>1. user' = top' /\ ~Off' /\ ~Loading' /\ ~Formatting' /\ (top'.fn = "write" => Len(stack') # 2)
  BY <1>0 DEF user, Off, Loading, Formatting, At
<1> QED
  BY <1>1, Zenon DEF CalmInv, OffCalm, FormatCalm, EraseCalm, SwitchCalm, FullCalm, SaveCalm, At

\* switch_sectors().
LEMMA ToSwitch ==
    ASSUME Shape', ~obj'.write_error, SwitchCalm', top'.fn = "switch_sectors"
    PROVE  CalmInv'
<1>1. user' = top' /\ ~Off' /\ ~Loading' /\ ~Formatting'
  BY DEF user, Off, Loading, Formatting, At
<1> QED
  BY <1>1, Zenon DEF CalmInv, OffCalm, FormatCalm, EraseCalm, RestCalm, FullCalm, SaveCalm, At

\* switch_full_sector(), or the erase_sector() that it has called.
LEMMA ToFull ==
    ASSUME Shape', ~obj'.write_error, FullCalm', user'.fn = "switch_full_sector",
           top' = user' \/ top'.fn = "erase_sector"
    PROVE  CalmInv'
<1>1. ~Off' /\ ~Loading' /\ ~Formatting' /\ top'.fn \in {"switch_full_sector", "erase_sector"}
  BY DEF Off, Loading, Formatting, At
<1> QED
  BY <1>1, Zenon DEF CalmInv, OffCalm, FormatCalm, EraseCalm, RestCalm, SwitchCalm, SaveCalm, At

\* The end of init(), or the erase_sector() that it has called.
LEMMA ToErase ==
    ASSUME Shape', ~obj'.write_error, EraseCalm', user'.fn = "init", user'.pc \in {"rewritten", "erase", "erased"},
           top' = user' \/ top'.fn = "erase_sector"
    PROVE  CalmInv'
<1>1. ~Off' /\ ~Loading' /\ ~Formatting' /\ top'.fn \in {"init", "erase_sector"}
  BY DEF Off, Loading, Formatting, At
<1> QED
  BY <1>1, Zenon DEF CalmInv, OffCalm, FormatCalm, FullCalm, RestCalm, SwitchCalm, SaveCalm, At

\* erase_all(), or the erase_sector() that it has called.
LEMMA ToFormatCalm ==
    ASSUME Shape', ~obj'.write_error, FormatCalm', user'.fn = "erase_all",
           top' = user' \/ top'.fn = "erase_sector"
    PROVE  CalmInv'
<1>1. ~Off' /\ ~Loading' /\ top'.fn \in {"erase_all", "erase_sector"}
  BY DEF Off, Loading, At
<1> QED
  BY <1>1, Zenon DEF CalmInv, OffCalm, EraseCalm, FullCalm, RestCalm, SwitchCalm, SaveCalm, At

\* init() while it reads, or the load_sector() that it has called.
LEMMA ToLoad ==
    ASSUME Shape', ~obj'.write_error, OffCalm', user'.fn = "init", user'.pc \in {"start", "load", "loaded", "rewrite"},
           top' = user' \/ top'.fn = "load_sector"
    PROVE  CalmInv'
<1>1. ~Off' /\ ~Formatting' /\ top'.fn \in {"init", "load_sector"}
  BY DEF Off, Formatting, At
<1> QED
  BY <1>1, Zenon DEF CalmInv, FormatCalm, EraseCalm, FullCalm, RestCalm, SwitchCalm, SaveCalm, At

-----------------------------------------------------------------------------
(* The reserve is kept: write() and write_all().                           *)

\* The two kinds of write(): the caller's, and the one of write_all().
LEMMA AtWrite ==
    ASSUME TypeInv, CalmInv, top.fn = "write"
    PROVE  /\ Shape /\ ~obj.write_error /\ InUse /\ top.pc # "failed"
           /\ \/ /\ Len(stack) = 2 /\ stack[2].fn = "caller" /\ stack[2].pc = "storing" /\ Safe
                 /\ top.pc = "switched" /\ ~ret => obj.reserved_space # 0
                 /\ top.pc = "switched_full" => ret
              \/ /\ Len(stack) # 2 /\ Len(stack) > 2 /\ stack[2].fn = "write_all" /\ stack[2].pc = "wrote"
                 /\ obj.reserved_space = 0
                 /\ stack[2].x \in Nat /\ stack[2].x < StorageSize /\ stack[2].x % MaxWrite = 0
                 /\ \/ /\ top.y = MaxWrite /\ top.x = stack[2].x /\ RestFits(top.x)
                       /\ top.pc \in {"start", "header", "data", "valid"}
                    \/ top.y = 0 /\ top.pc = "loop" /\ RestFits(stack[2].x + MaxWrite)
<1>1. Shape /\ ~obj.write_error
  BY DEF CalmInv
<1>2. CASE Len(stack) = 2
  <2>1. stack[2].fn = "caller" /\ stack[2].pc = "storing"
    BY <1>1, <1>2, Callers
  <2>2. top.pc # "off"
    BY TopOK DEF FrameOK
  <2> QED
    BY <1>1, <1>2, <2>1, <2>2 DEF CalmInv, SaveCalm
<1>3. CASE Len(stack) # 2
  <2>1. Len(stack) > 2 /\ stack[2].fn = "write_all" /\ stack[2].pc = "wrote"
    BY <1>1, <1>3, Callers
  <2>2. stack[2].x \in Nat /\ stack[2].x % MaxWrite = 0
    <3>1. FrameOK(stack[2])
      <4>1. StackOK(stack) /\ stack[1].fn \notin {"caller", "overflow"}
        BY Top DEF TypeInv
      <4> QED
        BY <4>1, Popped
    <3> QED
      BY <3>1, <2>1 DEF FrameOK, FrameType
  <2> QED
    BY <1>1, <1>3, <2>1, <2>2 DEF CalmInv, RestCalm
<1> QED
  BY <1>2, <1>3

\* The caller's write() goes on, or returns.
LEMMA SaveGoesOn ==
    ASSUME TypeInv, CalmInv, top.fn = "write", Len(stack) = 2, InUse', Safe', ~obj'.write_error,
           \/ \E v \in BOOLEAN : Return(v)
           \/ \E pc \in {"loop", "header", "data", "valid"} : \E x, y : Goto(pc, x, y) /\ FrameOK(Frame(top.fn, pc, x, y))
    PROVE  CalmInv'
<1>1. Shape /\ stack[2].fn = "caller" /\ stack[2].pc = "storing"
  BY AtWrite
<1>2. CASE \E v \in BOOLEAN : Return(v)
  <2>1. PICK v \in BOOLEAN : Return(v)
    BY <1>2
  <2>2. Shape' /\ Len(stack') = Len(stack) - 1 /\ top' = stack[2]
    BY <1>1, <2>1, ShapeReturn
  <2>3. Len(stack') = 1 /\ top'.fn = "caller" /\ top'.pc = "storing"
    BY <1>1, <2>2
  <2> QED
    BY <2>2, <2>3, ToSave
<1>3. CASE \E pc \in {"loop", "header", "data", "valid"} : \E x, y : Goto(pc, x, y) /\ FrameOK(Frame(top.fn, pc, x, y))
  <2>0. PICK pc \in {"loop", "header", "data", "valid"} : \E x, y : Goto(pc, x, y) /\ FrameOK(Frame(top.fn, pc, x, y))
    BY <1>3
  <2>1. PICK x, y : Goto(pc, x, y) /\ FrameOK(Frame(top.fn, pc, x, y))
    BY <2>0
  <2>2. Shape' /\ Len(stack') = 2 /\ top'.fn = "write" /\ top'.pc = pc
    BY <1>1, <2>1, ShapeGoto
  <2> QED
    BY <2>1, <2>2, ToSave
<1> QED
  BY <1>2, <1>3

\* write_all()'s write() goes to the next place.
LEMMA RestGoesOn ==
    ASSUME TypeInv, CalmInv, top.fn = "write", Len(stack) > 2, NEW pc, NEW y, NEW x, Goto(pc, x, y), NEW g, g = stack[2],
           FrameOK(Frame(top.fn, pc, x, y)), InUse', obj'.reserved_space = 0, ~obj'.write_error, Len(stack) # 2,
           \/ y = MaxWrite /\ x = g.x /\ RestFits(x)' /\ pc \in {"start", "header", "data", "valid"}
           \/ y = 0 /\ pc = "loop" /\ RestFits(g.x + MaxWrite)'
    PROVE  CalmInv'
<1>1. Shape /\ stack[2].x < StorageSize
  BY AtWrite
<1>2. /\ Shape' /\ Len(stack') = Len(stack)
      /\ top'.fn = top.fn /\ top'.pc = pc /\ top'.x = x /\ top'.y = y
      /\ Len(stack) > 1 => stack'[2] = stack[2]
  BY <1>1, ShapeGoto
<1>3. stack'[2] = stack[2] /\ Len(stack') > 2
  <2> DEFINE n == Len(stack)
  <2>1. n > 2 /\ n \in Nat
    BY <1>1, Callers
  <2> HIDE DEF n
  <2>2. n > 1
    BY <2>1
  <2> QED
    BY <2>2, <1>2 DEF n
<1>4. RestCalm'
  <2>2. stack'[2] = g /\ g.x < StorageSize
    BY <1>1, <1>3
  <2>3. top'.fn = "write" /\ top'.pc = pc /\ top'.x = x /\ top'.y = y
    BY <1>2
  <2> QED
    BY <2>2, <2>3 DEF RestCalm, RestFits
<1> QED
  BY <1>2, <1>3, <1>4, ToRest

\* The loop of write().
LEMMA Write_LoopCalm ==
    ASSUME Calm, TypeInv, CalmInv, Write_Loop
    PROVE  CalmInv'
<1>1. /\ top.fn = "write" /\ top.pc \in {"start", "loop"} /\ flash' = flash /\ obj' = obj
  BY DEF Write_Loop, At
<1>2. Shape /\ ~obj.write_error /\ InUse
  BY <1>1, AtWrite
<1>3. \/ top.y = 0 /\ Return(TRUE)
      \/ top.y > 0 /\ NoRoom /\ Call("switched", "switch_sectors", 0, 0)
      \/ top.y > 0 /\ ~NoRoom /\ Goto("header", top.x, top.y)
  BY <1>2 DEF Write_Loop
<1>4. /\ InUse' /\ (Safe => Safe') /\ ~obj'.write_error /\ \A x : RestFits(x)' = RestFits(x)
  <2>1. \A s \in Sectors : Header(s)' = Header(s)
    BY <1>1, FlashSame
  <2> QED
    BY <1>1, <1>2, <2>1, DataSame DEF TypeInv
<1>5. top.x \in Nat /\ top.y \in Nat /\ FrameOK(top)
  BY TopOK
<1>6. top.y > 0 => FrameOK(Frame(top.fn, "header", top.x, top.y)) /\ FrameOK(Frame(top.fn, "switched", top.x, top.y))
                   /\ Awaits(Frame(top.fn, "switched", top.x, top.y), "switch_sectors")
  BY <1>1, <1>5 DEF FrameOK, Frame, FrameType, FunctionNames, Places, Awaits
<1>7. CASE Len(stack) = 2
  <2>1. Safe /\ Safe'
    BY <1>1, <1>4, <1>7, AtWrite
  <2>2. CASE Return(TRUE)
    BY <1>1, <1>4, <1>7, <2>1, <2>2, SaveGoesOn
  <2>3. CASE top.y > 0 /\ Goto("header", top.x, top.y)
    BY <1>1, <1>4, <1>6, <1>7, <2>1, <2>3, SaveGoesOn
  <2>4. CASE top.y > 0 /\ Call("switched", "switch_sectors", 0, 0)
    <3>1. /\ Shape' /\ top'.fn = "switch_sectors" /\ top'.pc = "start" /\ stack'[2].pc = "switched"
      BY <1>1, <1>2, <1>6, <1>7, <2>4, PlainFrame, ShapeCall
    <3> QED
      BY <3>1, <2>1, <1>4, ToSwitch DEF SwitchCalm
  <2> QED
    BY <1>3, <2>2, <2>3, <2>4
<1>8. CASE Len(stack) # 2
  <2>1. /\ Len(stack) > 2 /\ stack[2].fn = "write_all" /\ stack[2].pc = "wrote" /\ obj.reserved_space = 0
        /\ stack[2].x \in Nat /\ stack[2].x < StorageSize /\ stack[2].x % MaxWrite = 0
        /\ \/ top.y = MaxWrite /\ top.x = stack[2].x /\ RestFits(top.x) /\ top.pc = "start"
           \/ top.y = 0 /\ top.pc = "loop" /\ RestFits(stack[2].x + MaxWrite)
    BY <1>1, <1>8, AtWrite
  <2>2. CASE top.y = MaxWrite /\ top.x = stack[2].x /\ RestFits(top.x) /\ top.pc = "start"
    <3>1. ~NoRoom
      BY <2>1, <2>2, ChunkFits DEF TypeInv
    <3>0. top.y > 0 /\ top.y # 0
      BY <2>2, Sizes
    <3>2. top.y > 0 /\ Goto("header", top.x, top.y)
      BY <1>3, <3>0, <3>1, Zenon
    <3>3. FrameOK(Frame(top.fn, "header", top.x, top.y))
      BY <1>6, <3>2
    <3>4. PICK x, y, g : x = top.x /\ y = top.y /\ g = stack[2]
      OBVIOUS
    <3>5. RestFits(x)' /\ x = g.x /\ y = MaxWrite
      BY <1>4, <2>2, <3>4
    <3>6. Goto("header", x, y) /\ FrameOK(Frame(top.fn, "header", x, y)) /\ obj'.reserved_space = 0
      BY <1>1, <2>1, <3>2, <3>3, <3>4
    <3> QED
      BY <1>1, <1>4, <1>8, <2>1, <3>4, <3>5, <3>6, RestGoesOn
  <2>3. CASE top.y = 0 /\ top.pc = "loop" /\ RestFits(stack[2].x + MaxWrite)
    <3>0. ~(top.y > 0)
      BY <2>3
    <3>1. Return(TRUE)
      BY <1>3, <3>0, Zenon
    <3>2. Shape' /\ ret' /\ top' = stack[2]
      BY <1>1, <1>2, <3>1, ShapeReturn
    <3>3. PICK g : g = stack[2]
      OBVIOUS
    <3>4. RestFits(g.x + MaxWrite)' /\ top' = g /\ g.fn = "write_all" /\ g.pc = "wrote" /\ g.x < StorageSize
      BY <1>4, <2>1, <2>3, <3>2, <3>3
    <3>5. RestCalm'
      BY <1>1, <1>4, <2>1, <3>2, <3>4 DEF RestCalm, RestFits
    <3> QED
      BY <1>4, <3>2, <3>4, <3>5, ToRest
  <2> QED
    BY <2>1, <2>2, <2>3
<1> QED
  BY <1>7, <1>8

\* write(), back from switch_sectors().
LEMMA Write_SwitchedCalm ==
    ASSUME Calm, TypeInv, CalmInv, Write_Switched
    PROVE  CalmInv'
<1>1. /\ top.fn = "write" /\ top.pc = "switched" /\ flash' = flash /\ obj' = obj
      /\ \/ ret /\ Goto("header", top.x, top.y)
         \/ ~ret /\ Return(FALSE)
         \/ ~ret /\ Call("switched_full", "switch_full_sector", 0, 0)
  BY DEF Write_Switched, At
<1>2. Shape /\ ~obj.write_error /\ InUse /\ Safe /\ Len(stack) = 2 /\ (~ret => obj.reserved_space # 0)
  BY <1>1, AtWrite
<1>3. /\ InUse' /\ Safe' /\ ~obj'.write_error /\ \A x : RestFits(x)' = RestFits(x)
  <2>1. \A s \in Sectors : Header(s)' = Header(s)
    BY <1>1, FlashSame
  <2> QED
    BY <1>1, <1>2, <2>1, DataSame DEF TypeInv
<1>4. FrameOK(Frame(top.fn, "header", top.x, top.y)) /\ FrameOK(Frame(top.fn, "switched_full", top.x, top.y))
      /\ Awaits(Frame(top.fn, "switched_full", top.x, top.y), "switch_full_sector")
  BY <1>1, TopOK DEF FrameOK, Frame, FrameType, FunctionNames, Places, Awaits
<1>5. CASE Goto("header", top.x, top.y) \/ Return(FALSE)
  BY <1>1, <1>2, <1>3, <1>4, <1>5, SaveGoesOn
<1>6. CASE ~ret /\ Call("switched_full", "switch_full_sector", 0, 0)
  <2>1. Shape' /\ top'.fn = "switch_full_sector" /\ top'.pc = "start"
    BY <1>1, <1>2, <1>4, <1>6, PlainFrame, ShapeCall
  <2>2. user' = top'
    BY <2>1 DEF user
  <2>3. RestFits(0)'
    BY <1>2, <1>3, <1>6 DEF Safe
  <2> QED
    BY <2>1, <2>2, <2>3, <1>3, ToFull DEF FullCalm, At
<1> QED
  BY <1>1, <1>5, <1>6

\* write(), back from switch_full_sector().
LEMMA Write_SwitchedFullCalm ==
    ASSUME TypeInv, CalmInv, Write_SwitchedFull
    PROVE  CalmInv'
<1>1. /\ top.fn = "write" /\ top.pc = "switched_full" /\ flash' = flash /\ obj' = obj
      /\ Goto("header", top.x, top.y) \/ Return(FALSE)
  BY DEF Write_SwitchedFull, At
<1>2. ~obj.write_error /\ InUse /\ Safe /\ Len(stack) = 2
  BY <1>1, AtWrite
<1>3. InUse' /\ Safe' /\ ~obj'.write_error
  <2>1. \A s \in Sectors : Header(s)' = Header(s)
    BY <1>1, FlashSame
  <2> QED
    BY <1>1, <1>2, <2>1, DataSame DEF TypeInv
<1>4. FrameOK(Frame(top.fn, "header", top.x, top.y))
  BY <1>1, TopOK DEF FrameOK, Frame, FrameType, FunctionNames, Places
<1> QED
  BY <1>1, <1>2, <1>3, <1>4, SaveGoesOn

\* A block is programmed behind the header of a sector in use: no header changes.
LEMMA BlockKeeps ==
    ASSUME TypeInv, LogInv, CalmInv, top.fn = "write", top.pc \in {"header", "data", "valid"}
    PROVE  /\ ~OverHeader
           /\ \A b \in Block : ProgramBlock(b) => \A s \in Sectors : Header(s)' = Header(s)
<1>1. InUse
  BY AtWrite
<1>2. obj.write_offset >= SectorHdr /\ obj.write_offset \in Nat
  <2>1. Working
    BY Works DEF WorkFrame, WorkFns
  <2> QED
    BY <2>1, <1>1, Members DEF LogInv, OpenInv, Open, InUse, TypeInv
<1>3. ~OverHeader
  BY <1>2, Sizes DEF OverHeader
<1>4. ASSUME NEW b \in Block, ProgramBlock(b), NEW s \in Sectors PROVE Header(s)' = Header(s)
  <2>1. obj.write_offset \in Offsets
    BY AtBlock
  <2>2. /\ flash'[current].header = IF OverHeader THEN "BAD" ELSE flash[current].header
        /\ \A t \in Sectors : t # current => flash'[t] = flash[t]
    BY <1>4, <2>1, Programs DEF TypeInv, FlashOK
  <2> QED
    BY <2>2, <1>3 DEF Header
<1> QED
  BY <1>3, <1>4

\* write() has programmed a header or data, and goes on with the block.
LEMMA BlockGoesOn ==
    ASSUME TypeInv, CalmInv, top.fn = "write", NEW pc \in {"data", "valid"}, Goto(pc, top.x, top.y),
           top.pc \in {"header", "data"}, \A s \in Sectors : Header(s)' = Header(s),
           obj'.current_sector = obj.current_sector, obj'.write_offset = obj.write_offset,
           obj'.reserved_space = obj.reserved_space, obj'.write_error = obj.write_error
    PROVE  CalmInv'
<1>1. Shape /\ ~obj.write_error /\ InUse
  BY AtWrite
<1>2. InUse' /\ (Safe => Safe') /\ \A x : RestFits(x)' = RestFits(x)
  BY <1>1, DataSame DEF TypeInv
<1>3. FrameOK(Frame(top.fn, pc, top.x, top.y))
  BY AtBlock DEF FrameOK, Frame, FrameType, FunctionNames, Places
<1>4. PICK x, y, g : x = top.x /\ y = top.y /\ g = stack[2]
  OBVIOUS
<1>5. Goto(pc, x, y) /\ FrameOK(Frame(top.fn, pc, x, y)) /\ pc \in {"loop", "header", "data", "valid"}
  BY <1>3, <1>4
<1>6. CASE Len(stack) = 2
  <2>1. Safe'
    BY <1>2, <1>6, AtWrite
  <2> QED
    BY <1>1, <1>2, <1>5, <1>6, <2>1, SaveGoesOn
<1>7. CASE Len(stack) # 2
  <2>1. /\ Len(stack) > 2 /\ obj.reserved_space = 0
        /\ top.y = MaxWrite /\ top.x = stack[2].x /\ RestFits(top.x)
    BY <1>7, AtWrite
  <2>2. y = MaxWrite /\ x = g.x /\ RestFits(x)' /\ pc \in {"start", "header", "data", "valid"}
    BY <1>2, <1>4, <2>1
  <2> QED
    BY <1>1, <1>2, <1>4, <1>5, <1>7, <2>1, <2>2, RestGoesOn
<1> QED
  BY <1>6, <1>7

\* write(): the header of the block.
LEMMA Write_HeaderCalm ==
    ASSUME TypeInv, LogInv, CalmInv, Write_Header
    PROVE  CalmInv'
<1> DEFINE b == [Erased EXCEPT !.state = "WRITING", !.count = BlockCount(top.y)]
<1>1. top.fn = "write" /\ top.pc = "header" /\ obj' = obj /\ ProgramBlock(b)
  BY DEF Write_Header, At
<1>2. b \in Block
  <2>1. <<>> \in Seq(Value) /\ BlockCount(top.y) \in Nat
    BY <1>1, AtBlock
  <2> QED
    BY <2>1 DEF Block, Erased
<1> HIDE DEF b
<1>3. ~OverHeader /\ \A s \in Sectors : Header(s)' = Header(s)
  BY <1>1, <1>2, BlockKeeps
<1>4. Goto("data", top.x, top.y)
  BY <1>3 DEF Write_Header
<1> QED
  BY <1>1, <1>3, <1>4, BlockGoesOn

\* write(): the data of the block.
LEMMA Write_DataCalm ==
    ASSUME TypeInv, LogInv, CalmInv, Write_Data
    PROVE  CalmInv'
<1>1. top.fn = "write" /\ top.pc = "data" /\ flash' = flash
  BY DEF Write_Data, At
<1>2. /\ obj'.current_sector = obj.current_sector /\ obj'.write_offset = obj.write_offset
      /\ obj'.reserved_space = obj.reserved_space /\ obj'.write_error = obj.write_error
  BY DEF Write_Data, TypeInv, Object
<1>3. ~OverHeader /\ \A s \in Sectors : Header(s)' = Header(s)
  BY <1>1, BlockKeeps, FlashSame
<1>4. Goto("valid", top.x, top.y)
  BY <1>3 DEF Write_Data
<1> QED
  BY <1>1, <1>2, <1>3, <1>4, BlockGoesOn

\* A block of the caller's write() leaves the reserve.
LEMMA SafeAppend ==
    ASSUME TypeInv, Safe, Fits, \A s \in Sectors : Header(s)' = Header(s),
           obj'.current_sector = obj.current_sector, obj'.reserved_space = obj.reserved_space,
           NEW n \in Nat, n <= MaxWrite, obj'.write_offset = obj.write_offset + BlockHdr + n
    PROVE  Safe'
<1>1. current' = current /\ current \in Sectors /\ Other(current) \in Sectors
  BY Members DEF current, TypeInv
<1>2. Header(Other(current))' = Header(Other(current))
  BY <1>1 DEF Other, Header
<1>3. \A h : OtherIs(h)' = OtherIs(h)
  BY <1>2 DEF OtherIs
<1>4. obj.reserved_space # 0 => RestFits(0)'
  <2> SUFFICES ASSUME obj.reserved_space # 0 PROVE RestFits(0)'
    OBVIOUS
  <2>1. obj.reserved_space = ReserveSize /\ obj.write_offset \in Nat
    BY DEF TypeInv, Object
  <2> DEFINE w == obj.write_offset
  <2>2. w + BlockHdr + MaxWrite + ReserveSize <= SectorSize
    BY <2>1 DEF Fits
  <2>3. Rest(0) = ReserveSize /\ ReserveSize \in Nat
    BY RestAll
  <2>4. obj'.write_offset = w + BlockHdr + n /\ w \in Nat
    BY <2>1
  <2> HIDE DEF w
  <2>5. obj'.write_offset + ReserveSize <= SectorSize
    BY <2>2, <2>3, <2>4, Sizes
  <2> QED
    BY <2>3, <2>5 DEF RestFits
<1> QED
  BY <1>3, <1>4 DEF Safe

\* write(): the block is valid.
LEMMA Write_ValidCalm ==
    ASSUME TypeInv, LogInv, CalmInv, Write_Valid
    PROVE  CalmInv'
<1> DEFINE n == Bytes(BlockCount(top.y))
           n2 == n - (top.x % BlockSize)
           b == [state |-> "VALID", num |-> BlockNum(top.x), count |-> BlockCount(top.y), data |-> obj.chunk]
<1>1. /\ top.fn = "write" /\ top.pc = "valid" /\ ProgramBlock(b)
      /\ obj' = [obj EXCEPT !.write_offset = @ + BlockHdr + n, !.chunk = <<>>]
      /\ IF n2 > top.y THEN Return(TRUE) ELSE Goto("loop", top.x + n2, top.y - n2)
  BY DEF Write_Valid, At
<1>2. /\ top.x \in Nat /\ top.y \in Nat /\ top.x + top.y <= StorageSize /\ top.y > 0 /\ Fits
      /\ BlockCount(top.y) \in Nat /\ n \in Nat /\ n <= MaxWrite
  BY <1>1, AtBlock
<1>3. BlockNum(top.x) \in Nat /\ top.x % BlockSize \in Nat /\ top.x % BlockSize <= top.x
  BY <1>2, BlockInside
<1>4. b \in Block
  BY <1>2, <1>3, Members DEF Block, TypeInv
<1>5. /\ obj'.current_sector = obj.current_sector /\ obj'.reserved_space = obj.reserved_space
      /\ obj'.write_offset = obj.write_offset + BlockHdr + n /\ obj'.write_error = obj.write_error
  <2> HIDE DEF n
  <2> QED
    BY <1>1 DEF TypeInv, Object
<1> HIDE DEF b
<1>6. \A s \in Sectors : Header(s)' = Header(s)
  BY <1>1, <1>4, BlockKeeps
<1>7. Shape /\ ~obj.write_error /\ InUse /\ ~obj'.write_error
  BY <1>1, <1>5, AtWrite
<1>8. InUse'
  <2>1. current' = current /\ current \in Sectors
    BY <1>5, Members DEF current, TypeInv
  <2> QED
    BY <2>1, <1>6, <1>7 DEF InUse, Header
<1>9. CASE Len(stack) = 2
  <2>1. Safe'
    <3> HIDE DEF n
    <3>1. Safe
      BY <1>1, <1>9, AtWrite
    <3> QED
      BY <3>1, <1>2, <1>5, <1>6, SafeAppend
  <2>2. CASE n2 > top.y
    BY <1>1, <1>7, <1>8, <1>9, <2>1, <2>2, SaveGoesOn
  <2>3. CASE ~(n2 > top.y)
    <3> DEFINE r == top.x % BlockSize
               x == top.x
               y == top.y
    <3>1. x \in Nat /\ y \in Nat /\ x + y <= StorageSize /\ r \in Nat /\ r <= x /\ n \in Nat /\ ~(n - r > y)
      BY <1>2, <1>3, <2>3
    <3>2. Goto("loop", x + (n - r), y - (n - r)) /\ top.fn = "write"
      BY <1>1, <2>3
    <3> HIDE DEF r, x, y, n
    <3>3. x + (n - r) \in Nat /\ y - (n - r) \in Nat /\ (x + (n - r)) + (y - (n - r)) <= StorageSize
      BY <3>1, Sizes
    <3>4. FrameOK(Frame(top.fn, "loop", x + (n - r), y - (n - r)))
      BY <3>2, <3>3 DEF FrameOK, Frame, FrameType, FunctionNames, Places
    <3> QED
      BY <1>7, <1>8, <1>9, <2>1, <3>2, <3>4, SaveGoesOn
  <2> QED
    BY <2>2, <2>3
<1>10. CASE Len(stack) # 2
  <2>1. /\ Len(stack) > 2 /\ obj.reserved_space = 0
        /\ stack[2].x \in Nat /\ stack[2].x < StorageSize /\ stack[2].x % MaxWrite = 0
        /\ top.y = MaxWrite /\ top.x = stack[2].x /\ RestFits(top.x)
    BY <1>1, <1>10, AtWrite
  <2>2. PICK x \in Nat, g \in {stack[2]} : x = g.x /\ x = top.x /\ x < StorageSize /\ x % MaxWrite = 0 /\ g = stack[2]
    BY <2>1
  <2>3. n = MaxWrite /\ top.x % BlockSize = 0
    BY <2>1, <2>2, ChunkWhole
  <2>4. n2 = MaxWrite /\ ~(n2 > top.y) /\ top.y - n2 = 0 /\ top.x + n2 = x + MaxWrite
    <3>1. n2 = MaxWrite
      BY <2>3, Sizes
    <3> HIDE DEF n2
    <3> QED
      BY <3>1, <2>1, <2>2, Sizes
  <2>5. Goto("loop", x + MaxWrite, 0)
    <3> HIDE DEF n2
    <3>1. Goto("loop", top.x + n2, top.y - n2)
      BY <1>1, <2>4
    <3> QED
      BY <3>1, <2>4
  <2>6. x + MaxWrite \in Nat /\ x + MaxWrite <= StorageSize
    BY <2>2, NextChunk
  <2>7. FrameOK(Frame(top.fn, "loop", x + MaxWrite, 0))
    BY <2>6, <1>1 DEF FrameOK, Frame, FrameType, FunctionNames, Places
  <2>8. RestFits(x + MaxWrite)'
    <3>1. obj.write_offset + (BlockHdr + MaxWrite) + Rest(x + MaxWrite) <= SectorSize
      BY <2>1, <2>2, ChunkFits DEF TypeInv
    <3>2. obj'.write_offset = obj.write_offset + BlockHdr + MaxWrite /\ obj.write_offset \in Nat
      BY <1>5, <2>3, Members DEF TypeInv
    <3>3. obj.write_offset + BlockHdr + MaxWrite = obj.write_offset + (BlockHdr + MaxWrite)
      BY <3>2, Sizes
    <3> QED
      BY <3>1, <3>2, <3>3 DEF RestFits
  <2>9. PICK z, y : z = x + MaxWrite /\ y = 0
    OBVIOUS
  <2>10. /\ Goto("loop", z, y) /\ FrameOK(Frame(top.fn, "loop", z, y)) /\ RestFits(g.x + MaxWrite)' /\ obj'.reserved_space = 0
    BY <1>5, <2>1, <2>2, <2>5, <2>7, <2>8, <2>9
  <2> QED
    BY <1>1, <1>7, <1>8, <1>10, <2>1, <2>2, <2>9, <2>10, RestGoesOn
<1> QED
  BY <1>9, <1>10

\* A step that changes neither flash nor what the object says of the sectors.
LEMMA Keeps ==
    ASSUME TypeInv, flash' = flash, obj'.current_sector = obj.current_sector, obj'.write_offset = obj.write_offset
    PROVE  /\ InUse' = InUse /\ (\A h : OtherIs(h)' = OtherIs(h)) /\ (\A x : RestFits(x)' = RestFits(x))
           /\ obj'.reserved_space = obj.reserved_space => (Safe => Safe')
           /\ current' = current
<1>1. \A s \in Sectors : Header(s)' = Header(s)
  BY FlashSame
<1> QED
  BY <1>1, DataSame DEF TypeInv

\* write_all(): the loop.
LEMMA WriteAll_LoopCalm ==
    ASSUME Calm, TypeInv, CalmInv, WriteAll_Loop
    PROVE  CalmInv'
<1>1. /\ FrameOK(top) /\ top.fn = "write_all" /\ top.pc = "start" /\ top.x \in Nat /\ top.y \in Nat
      /\ top.x % MaxWrite = 0 /\ flash' = flash /\ obj' = obj
  BY TopOK DEF WriteAll_Loop, At, FrameOK
<1>2. Shape /\ ~obj.write_error /\ InUse /\ obj.reserved_space = 0 /\ RestFits(top.x)
  BY <1>1 DEF CalmInv, RestCalm
<1>3. InUse' /\ ~obj'.write_error /\ obj'.reserved_space = 0 /\ \A x : RestFits(x)' = RestFits(x)
  BY <1>1, <1>2, Keeps
<1>4. CASE top.x >= StorageSize /\ Return(TRUE)
  <2>1. Shape' /\ ret' /\ top' = stack[2]
    BY <1>1, <1>2, <1>4, ShapeReturn
  <2>2. \/ top'.fn = "init" /\ top'.pc = "rewritten"
        \/ top'.fn = "switch_full_sector" /\ top'.pc = "written"
    BY <1>1, <1>2, <2>1, Callers
  <2>3. user' = top'
    BY <2>2 DEF user
  <2>4. CASE top'.fn = "init" /\ top'.pc = "rewritten"
    <3>1. EraseCalm'
      BY <1>3, <2>1, <2>3, <2>4 DEF EraseCalm, At
    <3> QED
      BY <1>3, <2>1, <2>3, <2>4, <3>1, ToErase
  <2>5. CASE top'.fn = "switch_full_sector" /\ top'.pc = "written"
    <3>1. FullCalm'
      BY <1>3, <2>1, <2>3, <2>5 DEF FullCalm, At
    <3> QED
      BY <1>3, <2>1, <2>3, <2>5, <3>1, ToFull
  <2> QED
    BY <2>2, <2>4, <2>5
<1>5. CASE top.x < StorageSize /\ Goto("start", top.x + MaxWrite, 0)
  <2>1. PICK x \in Nat : x = top.x + MaxWrite /\ x % MaxWrite = 0
    BY <1>1, NextChunk
  <2>2. RestFits(x)'
    BY <1>1, <1>2, <1>3, <1>5, <2>1, ChunkFits DEF TypeInv
  <2>3. Goto("start", x, 0) /\ FrameOK(Frame(top.fn, "start", x, 0))
    BY <1>1, <1>5, <2>1 DEF FrameOK, Frame, FrameType, FunctionNames, Places
  <2>4. Shape' /\ top'.fn = "write_all" /\ top'.pc = "start" /\ top'.x = x
    BY <1>1, <1>2, <2>3, ShapeGoto
  <2>5. RestCalm'
    BY <1>3, <2>2, <2>4 DEF RestCalm, RestFits
  <2> QED
    BY <1>3, <2>4, <2>5, ToRest
<1>6. CASE top.x < StorageSize /\ Call("wrote", "write", top.x, MaxWrite)
  <2>1. top.x + MaxWrite <= StorageSize
    BY <1>1, <1>6, NextChunk
  <2>2. FrameOK(Frame("write", "start", top.x, MaxWrite)) /\ FrameOK(Frame(top.fn, "wrote", top.x, top.y))
    BY <2>1, <1>1, Sizes DEF FrameOK, Frame, FrameType, FunctionNames, Places
  <2>3. Awaits(Frame(top.fn, "wrote", top.x, top.y), "write")
    BY <1>1 DEF Frame, Awaits
  <2>4. PICK x : x = top.x /\ x < StorageSize /\ RestFits(x)'
    BY <1>2, <1>3, <1>6
  <2>5. /\ Shape' /\ Len(stack') = Len(stack) + 1 /\ top'.fn = "write" /\ top'.pc = "start" /\ top'.x = x
        /\ top'.y = MaxWrite /\ stack'[2].x = x
    BY <1>1, <1>2, <1>6, <2>2, <2>3, <2>4, ShapeCall
  <2>6. Len(stack') > 2
    <3>1. Len(stack) = 3 \/ Len(stack) = 4
      BY <1>1, <1>2, Callers
    <3> DEFINE n == Len(stack)
    <3>2. (n = 3 \/ n = 4) /\ Len(stack') = n + 1
      BY <3>1, <2>5
    <3> HIDE DEF n
    <3> QED
      BY <3>2
  <2>7. RestCalm'
    <3>1. RestFits(top.x)'
      BY <2>4, <2>5 DEF RestFits
    <3>2. top'.fn # "write_all" /\ stack'[2].x < StorageSize /\ top'.x = stack'[2].x
      BY <2>4, <2>5
    <3> QED
      BY <1>3, <2>5, <3>1, <3>2, Zenon DEF RestCalm
  <2> QED
    BY <1>3, <2>5, <2>6, <2>7, ToRest
<1> QED
  BY <1>4, <1>5, <1>6 DEF WriteAll_Loop

\* write_all(): write() has returned, with success.
LEMMA WriteAll_WroteCalm ==
    ASSUME TypeInv, CalmInv, WriteAll_Wrote
    PROVE  CalmInv'
<1>1. /\ FrameOK(top) /\ top.fn = "write_all" /\ top.pc = "wrote" /\ top.x \in Nat /\ top.y \in Nat
      /\ top.x % MaxWrite = 0 /\ flash' = flash /\ obj' = obj
  BY TopOK DEF WriteAll_Wrote, At, FrameOK
<1>2. /\ Shape /\ ~obj.write_error /\ InUse /\ obj.reserved_space = 0 /\ ret /\ top.x < StorageSize
      /\ RestFits(top.x + MaxWrite)
  BY <1>1 DEF CalmInv, RestCalm
<1>3. InUse' /\ ~obj'.write_error /\ obj'.reserved_space = 0 /\ \A x : RestFits(x)' = RestFits(x)
  BY <1>1, <1>2, Keeps
<1>4. PICK x \in Nat : x = top.x + MaxWrite /\ x % MaxWrite = 0
  BY <1>1, NextChunk
<1>5. Goto("start", x, 0) /\ FrameOK(Frame(top.fn, "start", x, 0)) /\ RestFits(x)'
  BY <1>1, <1>2, <1>3, <1>4 DEF FrameOK, Frame, FrameType, FunctionNames, Places, WriteAll_Wrote
<1>6. Shape' /\ top'.fn = "write_all" /\ top'.pc = "start" /\ top'.x = x
  BY <1>1, <1>2, <1>5, ShapeGoto
<1>7. RestCalm'
  BY <1>3, <1>5, <1>6 DEF RestCalm, RestFits
<1> QED
  BY <1>3, <1>6, <1>7, ToRest

\* switch_sectors(): it gives up with the reserve in use, or the current sector is full.
LEMMA SwitchSectors_StartCalm ==
    ASSUME TypeInv, CalmInv, SwitchSectors_Start
    PROVE  CalmInv'
<1>1. top.fn = "switch_sectors" /\ top.pc = "start"
  BY DEF SwitchSectors_Start, At
<1>2. Shape /\ ~obj.write_error /\ Safe /\ InUse /\ (stack[2].pc = "switched_full" => obj.reserved_space = 0)
  BY <1>1 DEF CalmInv, SwitchCalm
<1>3. Len(stack) = 3 /\ stack[2].fn = "write" /\ stack[2].pc \in {"switched", "switched_full"}
  BY <1>1, <1>2, Callers
<1>4. CASE obj.reserved_space # 0
  <2>1. Return(FALSE) /\ flash' = flash /\ obj' = obj
    BY <1>4 DEF SwitchSectors_Start
  <2>2. Shape' /\ Len(stack') = Len(stack) - 1 /\ top' = stack[2]
    BY <1>1, <1>2, <2>1, ShapeReturn
  <2>3. Len(stack') = 2 /\ top'.fn = "write" /\ top'.pc = "switched"
    BY <1>2, <1>3, <1>4, <2>2
  <2>4. InUse' /\ Safe' /\ ~obj'.write_error /\ obj'.reserved_space # 0
    BY <1>2, <1>4, <2>1, Keeps
  <2> QED
    BY <2>2, <2>3, <2>4, ToSave
<1>5. CASE obj.reserved_space = 0
  <2>1. OtherIs("AVAILABLE") /\ Header(current) = "IN_USE"
    BY <1>2, <1>5 DEF Safe, InUse
  <2>2. SetHeader(current, "FULL") /\ Goto("in_use", 0, 0) /\ obj' = obj
    BY <1>5, <2>1 DEF SwitchSectors_Start, OtherIs, Header
  <2>3. PICK c \in Sectors, d \in Sectors : c = current /\ d = Other(current) /\ c # d
    BY Members DEF TypeInv
  <2>4. Header(c)' = "FULL" /\ Header(d)' = "AVAILABLE"
    <3>1. Header(c)' = "FULL" /\ \A t \in Sectors : t # c => Header(t)' = Header(t)
      BY <2>2, <2>3, HeaderChanges DEF HeaderStates
    <3> QED
      BY <3>1, <2>1, <2>3 DEF OtherIs
  <2>5. current' = c /\ Other(current') = d
    BY <2>2, <2>3 DEF current
  <2>6. Header(current)' = "FULL" /\ OtherIs("AVAILABLE")' /\ obj'.reserved_space = 0 /\ ~obj'.write_error
    BY <1>2, <1>5, <2>2, <2>4, <2>5 DEF OtherIs, Header, Other
  <2>7. Shape' /\ top'.fn = "switch_sectors" /\ top'.pc = "in_use"
    BY <1>1, <1>2, <2>2, PlainFrame, ShapeGoto
  <2>8. SwitchCalm'
    BY <2>6, <2>7 DEF SwitchCalm, Safe
  <2> QED
    BY <2>6, <2>7, <2>8, ToSwitch
<1> QED
  BY <1>4, <1>5

\* switch_sectors(): the other sector is in use, and the reserve is kept in it.
LEMMA SwitchSectors_InUseCalm ==
    ASSUME TypeInv, CalmInv, SwitchSectors_InUse
    PROVE  CalmInv'
<1>1. top.fn = "switch_sectors" /\ top.pc = "in_use" /\ SetHeader(Other(current), "IN_USE") /\ Return(TRUE)
  BY DEF SwitchSectors_InUse, At
<1>2. Shape /\ ~obj.write_error /\ Header(current) = "FULL"
  BY <1>1 DEF CalmInv, SwitchCalm
<1>3. PICK c \in Sectors, d \in Sectors : c = current /\ d = Other(current) /\ c # d /\ c = Other(d)
  BY Members DEF TypeInv, Other, Sectors
<1>4. /\ obj'.current_sector = d /\ obj'.reserved_space = ReserveSize /\ obj'.write_offset = SectorHdr
      /\ obj'.write_error = obj.write_error
  BY <1>3 DEF SwitchSectors_InUse, TypeInv, Object
<1>5. Header(d)' = "IN_USE" /\ Header(c)' = "FULL"
  <2>1. Header(d)' = "IN_USE" /\ \A t \in Sectors : t # d => Header(t)' = Header(t)
    BY <1>1, <1>3, HeaderChanges DEF HeaderStates
  <2> QED
    BY <2>1, <1>2, <1>3
<1>6. current' = d /\ Other(current') = c
  BY <1>3, <1>4 DEF current
<1>7. InUse' /\ OtherIs("FULL")'
  BY <1>5, <1>6 DEF InUse, OtherIs, Header, Other
<1>8. RestFits(0)' /\ obj'.reserved_space # 0
  <2>1. Rest(0) = ReserveSize /\ ReserveSize \in Nat /\ ReserveSize > 0
    BY RestAll
  <2>2. SectorHdr + ReserveSize <= SectorSize
    BY <2>1, Reserve, Sizes
  <2> QED
    BY <2>1, <2>2, <1>4 DEF RestFits
<1>9. Safe'
  BY <1>7, <1>8 DEF Safe
<1>10. Shape' /\ Len(stack') = Len(stack) - 1 /\ ret' /\ top' = stack[2]
  BY <1>1, <1>2, ShapeReturn
<1>11. Len(stack') = 2 /\ top'.fn = "write" /\ top'.pc \in {"switched", "switched_full"}
  <2>1. Len(stack) = 3 /\ stack[2].fn = "write" /\ stack[2].pc \in {"switched", "switched_full"}
    BY <1>1, <1>2, Callers
  <2> QED
    BY <2>1, <1>10
<1> QED
  BY <1>2, <1>4, <1>7, <1>9, <1>10, <1>11, ToSave

\* switch_full_sector(): the reserve is given to write_all().
LEMMA SwitchFull_StartCalm ==
    ASSUME Calm, TypeInv, CalmInv, SwitchFull_Start
    PROVE  CalmInv'
<1>1. top.fn = "switch_full_sector" /\ top.pc = "start" /\ flash' = flash /\ Call("written", "write_all", 0, 0)
  BY DEF SwitchFull_Start, At
<1>2. /\ obj'.current_sector = obj.current_sector /\ obj'.write_offset = obj.write_offset
      /\ obj'.reserved_space = 0 /\ ~obj'.write_error
  BY DEF SwitchFull_Start, TypeInv, Object
<1>3. Shape /\ InUse /\ RestFits(0)
  <2>1. user = top
    BY <1>1 DEF user
  <2> QED
    BY <2>1, <1>1 DEF CalmInv, FullCalm
<1>4. InUse' /\ RestFits(0)'
  BY <1>1, <1>2, <1>3, Keeps
<1>5. FrameOK(Frame(top.fn, "written", top.x, top.y)) /\ Awaits(Frame(top.fn, "written", top.x, top.y), "write_all")
  BY <1>1, TopOK DEF FrameOK, Frame, FrameType, FunctionNames, Places, Awaits
<1>6. Shape' /\ top'.fn = "write_all" /\ top'.pc = "start" /\ top'.x = 0
  BY <1>1, <1>3, <1>5, PlainFrame, ShapeCall
<1>7. RestCalm'
  BY <1>2, <1>4, <1>6 DEF RestCalm, RestFits
<1> QED
  BY <1>2, <1>6, <1>7, ToRest

\* switch_full_sector(): write_all() has returned, with success.
LEMMA SwitchFull_WrittenCalm ==
    ASSUME Calm, TypeInv, CalmInv, SwitchFull_Written
    PROVE  CalmInv'
<1>1. top.fn = "switch_full_sector" /\ top.pc = "written" /\ flash' = flash /\ obj' = obj
  BY DEF SwitchFull_Written, At
<1>2. Shape /\ ~obj.write_error /\ InUse /\ obj.reserved_space = 0 /\ ret
  <2>1. user = top
    BY <1>1 DEF user
  <2> QED
    BY <2>1, <1>1 DEF CalmInv, FullCalm
<1>3. Call("erased", "erase_sector", Other(current), 0)
  BY <1>2 DEF SwitchFull_Written
<1>4. FrameOK(Frame(top.fn, "erased", top.x, top.y)) /\ Awaits(Frame(top.fn, "erased", top.x, top.y), "erase_sector")
  BY <1>1, TopOK DEF FrameOK, Frame, FrameType, FunctionNames, Places, Awaits
<1>5. FrameOK(Frame("erase_sector", "start", Other(current), 0))
  BY Members, PlainFrame DEF TypeInv
<1>6. /\ Shape' /\ top'.fn = "erase_sector" /\ stack'[2].fn = "switch_full_sector" /\ stack'[2].pc = "erased"
  BY <1>1, <1>2, <1>3, <1>4, <1>5, ShapeCall
<1>7. user' = stack'[2] /\ InUse'
  BY <1>1, <1>2, <1>6, Keeps DEF user
<1>8. FullCalm'
  BY <1>1, <1>2, <1>6, <1>7 DEF FullCalm, At
<1> QED
  BY <1>1, <1>2, <1>6, <1>7, <1>8, ToFull

\* switch_full_sector(): the other sector has been erased.
LEMMA SwitchFull_ErasedCalm ==
    ASSUME TypeInv, CalmInv, SwitchFull_Erased
    PROVE  CalmInv'
<1>1. top.fn = "switch_full_sector" /\ top.pc = "erased" /\ flash' = flash /\ obj' = obj
  BY DEF SwitchFull_Erased, At
<1>2. Shape /\ ~obj.write_error /\ InUse /\ obj.reserved_space = 0 /\ ret /\ OtherIs("AVAILABLE")
  <2>1. user = top
    BY <1>1 DEF user
  <2> QED
    BY <2>1, <1>1 DEF CalmInv, FullCalm, At
<1>3. TailCall("switch_sectors", 0, 0)
  BY <1>2 DEF SwitchFull_Erased
<1>4. Shape' /\ top'.fn = "switch_sectors" /\ top'.pc = "start"
  BY <1>1, <1>2, <1>3, PlainFrame, ShapeTailCall
<1>5. InUse' /\ OtherIs("AVAILABLE")'
  BY <1>1, <1>2, Keeps
<1>6. SwitchCalm'
  BY <1>1, <1>2, <1>4, <1>5 DEF SwitchCalm, Safe
<1> QED
  BY <1>1, <1>2, <1>4, <1>6, ToSwitch

-----------------------------------------------------------------------------
(* The reserve is kept: erase_sector(), erase_all() and the boot.          *)

\* The sector that is erased is the other one, for all but erase_all().
LEMMA ErasesOther ==
    ASSUME TypeInv, LogInv, CalmInv, top.fn = "erase_sector"
    PROVE  /\ Shape /\ ~obj.write_error /\ user = stack[2] /\ top.x \in Sectors
           /\ \/ /\ stack[2].fn = "init" /\ stack[2].pc = "erased" /\ top.x = Other(current) /\ InUse
                 /\ obj.reserved_space = 0 /\ top.x = stack[2].y /\ obj.states[top.x] = "FULL"
              \/ /\ stack[2].fn = "erase_all" /\ stack[2].pc \in {"erased0", "erased1"} /\ obj.reserved_space = 0
                 /\ stack[2].pc = "erased1" => top.x = 1
              \/ /\ stack[2].fn = "switch_full_sector" /\ stack[2].pc = "erased" /\ top.x = Other(current) /\ InUse
                 /\ obj.reserved_space = 0
<1>1. /\ user = stack[2] /\ top.x \in Sectors
      /\ \/ Formatting /\ stack[2].fn = "erase_all"
         \/ ~Formatting /\ top.x = Other(current)
  BY Eraser
<1>2. Shape /\ ~obj.write_error
  BY DEF CalmInv
<1>3. \/ stack[2].fn = "init" /\ stack[2].pc = "erased"
      \/ stack[2].fn = "erase_all" /\ stack[2].pc \in {"erased0", "erased1"}
      \/ stack[2].fn = "switch_full_sector" /\ stack[2].pc = "erased"
  BY <1>2, Callers
<1>4. CASE stack[2].fn = "init" /\ stack[2].pc = "erased"
  <2>1. top.x = Other(current)
    BY <1>1, <1>4 DEF Formatting
  <2>2. InUse /\ obj.reserved_space = 0 /\ top.x = stack[2].y /\ obj.states[top.x] = "FULL"
    BY <1>1, <1>4 DEF CalmInv, EraseCalm
  <2> QED
    BY <1>1, <1>2, <1>4, <2>1, <2>2
<1>5. CASE stack[2].fn = "erase_all" /\ stack[2].pc \in {"erased0", "erased1"}
  <2>1. Formatting
    BY <1>1, <1>5 DEF Formatting
  <2>2. obj.reserved_space = 0 /\ (stack[2].pc = "erased1" => top.x = 1)
    BY <1>1, <2>1 DEF CalmInv, FormatCalm, LogInv, FormatInv
  <2> QED
    BY <1>1, <1>2, <1>5, <2>2
<1>6. CASE stack[2].fn = "switch_full_sector" /\ stack[2].pc = "erased"
  <2>1. top.x = Other(current)
    BY <1>1, <1>6 DEF Formatting
  <2>2. InUse /\ obj.reserved_space = 0
    BY <1>1, <1>6 DEF CalmInv, FullCalm
  <2> QED
    BY <1>1, <1>2, <1>6, <2>1, <2>2
<1> QED
  BY <1>3, <1>4, <1>5, <1>6

\* The other sector gets a header, the current one stays in use.
LEMMA OtherGets ==
    ASSUME TypeInv, NEW d \in Sectors, d = Other(current), InUse, obj' = obj, NEW h,
           Header(d)' = h, \A t \in Sectors : t # d => Header(t)' = Header(t)
    PROVE  InUse' /\ OtherIs(h)' /\ current' = current /\ Other(current') = d
<1>1. PICK c \in Sectors : c = current /\ c # d
  BY Members DEF TypeInv
<1>2. current' = c /\ Other(current') = d
  BY <1>1 DEF current
<1>3. Header(c)' = "IN_USE"
  BY <1>1 DEF InUse
<1> QED
  BY <1>1, <1>2, <1>3 DEF InUse, OtherIs, Header, Other

\* erase_sector(): the sector is erased.
LEMMA EraseSector_EraseCalm ==
    ASSUME TypeInv, LogInv, CalmInv, EraseSector_Erase
    PROVE  CalmInv'
<1>0. top.fn = "erase_sector" /\ top.pc = "start" /\ obj' = obj
  BY DEF EraseSector_Erase, At
<1>1. PICK d \in Sectors : d = top.x
  BY <1>0, ErasesOther
<1>2. flash' = [flash EXCEPT ![d] = ErasedSector] /\ Goto("mark", d, 0) /\ FrameOK(Frame(top.fn, "mark", d, 0))
  BY <1>0, <1>1, PlainFrame DEF EraseSector_Erase
<1>3. Header(d)' = "BAD" /\ \A t \in Sectors : t # d => Header(t)' = Header(t)
  BY <1>2, SectorErased
<1>4. Shape /\ ~obj.write_error
  BY <1>0, ErasesOther
<1>5. Shape' /\ top'.fn = "erase_sector" /\ top'.pc = "mark" /\ top'.x = d /\ stack'[2] = stack[2]
  <2>1. /\ Shape' /\ top'.fn = "erase_sector" /\ top'.pc = "mark" /\ top'.x = d
        /\ Len(stack) > 1 => stack'[2] = stack[2]
    BY <1>0, <1>2, <1>4, ShapeGoto
  <2>2. Len(stack) > 1
    BY <1>0, Eraser
  <2> QED
    BY <2>1, <2>2
<1>6. user' = stack[2]
  BY <1>5 DEF user
<1>7. CASE /\ stack[2].fn = "init" /\ stack[2].pc = "erased" /\ top.x = Other(current) /\ InUse
           /\ obj.reserved_space = 0 /\ top.x = stack[2].y /\ obj.states[top.x] = "FULL"
  <2>1. InUse' /\ Other(current') = d /\ Other(current)' = d
    BY <1>0, <1>1, <1>3, <1>7, OtherGets DEF Other
  <2>2. d <= d
    BY DEF Sectors
  <2>3. EraseCalm'
    BY <1>0, <1>1, <1>5, <1>6, <1>7, <2>1, <2>2 DEF EraseCalm, At
  <2> QED
    BY <1>0, <1>4, <1>5, <1>6, <1>7, <2>3, ToErase
<1>8. CASE stack[2].fn = "erase_all" /\ obj.reserved_space = 0
  <2>1. FormatCalm'
    BY <1>0, <1>5, <1>8 DEF FormatCalm, At
  <2> QED
    BY <1>0, <1>4, <1>5, <1>6, <1>8, <2>1, ToFormatCalm
<1>9. CASE stack[2].fn = "switch_full_sector" /\ stack[2].pc = "erased" /\ top.x = Other(current) /\ InUse
           /\ obj.reserved_space = 0
  <2>1. InUse'
    BY <1>0, <1>1, <1>3, <1>9, OtherGets
  <2>2. FullCalm'
    BY <1>0, <1>5, <1>6, <1>9, <2>1 DEF FullCalm, At
  <2> QED
    BY <1>0, <1>4, <1>5, <1>6, <1>9, <2>2, ToFull
<1> QED
  BY <1>0, <1>7, <1>8, <1>9, ErasesOther

\* erase_sector(): the sector is available.
LEMMA EraseSector_MarkCalm ==
    ASSUME TypeInv, LogInv, CalmInv, EraseSector_Mark
    PROVE  CalmInv'
<1>0. top.fn = "erase_sector" /\ top.pc = "mark" /\ obj' = obj /\ Return(TRUE)
  BY DEF EraseSector_Mark, At
<1>1. PICK d \in Sectors : d = top.x
  BY <1>0, ErasesOther
<1>2. SetHeader(d, "AVAILABLE")
  BY <1>1 DEF EraseSector_Mark
<1>3. Header(d)' = "AVAILABLE" /\ \A t \in Sectors : t # d => Header(t)' = Header(t)
  BY <1>2, HeaderChanges DEF HeaderStates
<1>4. Shape /\ ~obj.write_error
  BY <1>0, ErasesOther
<1>5. Shape' /\ ret' /\ top' = stack[2]
  BY <1>0, <1>4, ShapeReturn
<1>6. CASE /\ stack[2].fn = "init" /\ stack[2].pc = "erased" /\ top.x = Other(current) /\ InUse
           /\ obj.reserved_space = 0
  <2>1. InUse' /\ OtherIs("AVAILABLE")'
    BY <1>0, <1>1, <1>3, <1>6, OtherGets
  <2>2. user' = top'
    BY <1>5, <1>6 DEF user
  <2>3. EraseCalm'
    BY <1>0, <1>5, <1>6, <2>1, <2>2 DEF EraseCalm, At
  <2> QED
    BY <1>0, <1>4, <1>5, <1>6, <2>2, <2>3, ToErase
<1>7. CASE stack[2].fn = "erase_all" /\ obj.reserved_space = 0 /\ (stack[2].pc = "erased1" => top.x = 1)
  <2>1. user' = top'
    BY <1>5, <1>7 DEF user
  <2>2. stack[2].pc = "erased1" => Header(1)' = "AVAILABLE"
    BY <1>1, <1>3, <1>7 DEF Header
  <2>3. FormatCalm'
    BY <1>0, <1>5, <1>7, <2>2 DEF FormatCalm, At
  <2> QED
    BY <1>0, <1>4, <1>5, <1>7, <2>1, <2>3, ToFormatCalm
<1>8. CASE stack[2].fn = "switch_full_sector" /\ stack[2].pc = "erased" /\ top.x = Other(current) /\ InUse
           /\ obj.reserved_space = 0
  <2>1. InUse' /\ OtherIs("AVAILABLE")'
    BY <1>0, <1>1, <1>3, <1>8, OtherGets
  <2>2. user' = top'
    BY <1>5, <1>8 DEF user
  <2>3. FullCalm'
    BY <1>0, <1>5, <1>8, <2>1, <2>2 DEF FullCalm, At
  <2> QED
    BY <1>0, <1>4, <1>5, <1>8, <2>2, <2>3, ToFull
<1> QED
  BY <1>0, <1>6, <1>7, <1>8, ErasesOther

\* erase_all() calls erase_sector().
LEMMA FormatCallsCalm ==
    ASSUME Calm, TypeInv, CalmInv, top.fn = "erase_all", NEW pc \in {"erased0", "erased1"}, NEW x \in Sectors,
           Call(pc, "erase_sector", x, 0), obj'.reserved_space = 0, ~obj'.write_error
    PROVE  CalmInv'
<1>1. FrameOK(Frame(top.fn, pc, top.x, top.y)) /\ Awaits(Frame(top.fn, pc, top.x, top.y), "erase_sector")
  BY TopOK DEF FrameOK, Frame, FrameType, FunctionNames, Places, Awaits
<1>2. Shape
  BY DEF CalmInv
<1>3. Shape' /\ top'.fn = "erase_sector" /\ stack'[2].fn = "erase_all"
  BY <1>1, <1>2, PlainFrame, ShapeCall
<1>4. user' = stack'[2]
  BY <1>3 DEF user
<1>5. FormatCalm'
  BY <1>3 DEF FormatCalm, At
<1> QED
  BY <1>3, <1>4, <1>5, ToFormatCalm

\* erase_all(): the first sector.
LEMMA EraseAll_StartCalm ==
    ASSUME Calm, TypeInv, CalmInv, EraseAll_Start
    PROVE  CalmInv'
<1>1. top.fn = "erase_all" /\ Call("erased0", "erase_sector", 0, 0)
  BY DEF EraseAll_Start, At
<1>2. Formatting
  BY <1>1 DEF Formatting, user
<1>3. obj'.reserved_space = obj.reserved_space /\ ~obj'.write_error
  BY DEF EraseAll_Start, TypeInv, Object
<1>4. obj.reserved_space = 0
  BY <1>2 DEF CalmInv, FormatCalm
<1> QED
  BY <1>1, <1>3, <1>4, FormatCallsCalm DEF Sectors

\* erase_all(): the second sector.
LEMMA EraseAll_SecondCalm ==
    ASSUME Calm, TypeInv, CalmInv, EraseAll_Second
    PROVE  CalmInv'
<1>1. top.fn = "erase_all" /\ top.pc = "erased0" /\ obj' = obj
  BY DEF EraseAll_Second, At
<1>2. Formatting
  BY <1>1 DEF Formatting, user
<1>3. obj.reserved_space = 0 /\ ~obj.write_error /\ ret
  BY <1>1, <1>2 DEF CalmInv, FormatCalm
<1>4. Call("erased1", "erase_sector", 1, 0)
  BY <1>3 DEF EraseAll_Second
<1> QED
  BY <1>1, <1>3, <1>4, FormatCallsCalm DEF Sectors

\* erase_all(): the first sector is in use.
LEMMA EraseAll_MarkCalm ==
    ASSUME TypeInv, LogInv, CalmInv, EraseAll_Mark
    PROVE  CalmInv'
<1>1. top.fn = "erase_all" /\ top.pc = "erased1" /\ obj' = obj
  BY DEF EraseAll_Mark, At
<1>2. Formatting /\ user = top
  BY <1>1 DEF Formatting, user
<1>3. Shape /\ obj.reserved_space = 0 /\ ~obj.write_error /\ ret /\ Header(1) = "AVAILABLE"
  BY <1>1, <1>2 DEF CalmInv, FormatCalm, At
<1>4. current = 0 /\ current' = 0 /\ 0 \in Sectors /\ 1 \in Sectors /\ Other(0) = 1
  BY <1>1, <1>2 DEF LogInv, FormatInv, Sectors, current, Other
<1>5. SetHeader(0, "IN_USE") /\ Return(TRUE)
  BY <1>3, <1>4 DEF EraseAll_Mark
<1>6. Header(0)' = "IN_USE" /\ Header(1)' = "AVAILABLE"
  <2>1. Header(0)' = "IN_USE" /\ \A t \in Sectors : t # 0 => Header(t)' = Header(t)
    BY <1>4, <1>5, HeaderChanges DEF HeaderStates
  <2> QED
    BY <2>1, <1>3, <1>4
<1>7. InUse' /\ Safe'
  BY <1>1, <1>3, <1>4, <1>6 DEF InUse, Safe, OtherIs, Header, Other
<1>8. Shape' /\ Len(stack') = Len(stack) - 1 /\ ret' /\ top' = stack[2]
  BY <1>1, <1>3, <1>5, ShapeReturn
<1>9. Len(stack') = 1 /\ top'.fn = "caller" /\ top'.pc = "booting"
  <2>1. Len(stack) = 2 /\ stack[2].fn = "caller" /\ stack[2].pc = "booting"
    BY <1>1, <1>3, Callers
  <2> QED
    BY <2>1, <1>8
<1> QED
  BY <1>1, <1>3, <1>7, <1>8, <1>9, ToSave

\* What a boot has found stays as it is while init() reads.
LEMMA OffKept ==
    ASSUME CalmInv, Off \/ Loading, flash' = flash, obj'.reserved_space = obj.reserved_space
    PROVE  OffCalm' /\ obj'.reserved_space = 0
<1>1. /\ obj.reserved_space = 0 /\ ~(Header(0) = "AVAILABLE" /\ Header(1) = "AVAILABLE")
      /\ \A s \in Sectors : Header(s) = "IN_USE" /\ Header(Other(s)) = "FULL" => Reserved(s)
  BY DEF CalmInv, OffCalm
<1>2. \A s : Header(s)' = Header(s)
  BY DEF Header
<1>3. \A s : Reserved(s) => Reserved(s)'
  BY DEF Reserved, Programmed, EndOf
<1> QED
  BY <1>1, <1>2, <1>3 DEF OffCalm

\* init() reads on, or formats.
LEMMA InitCalm ==
    ASSUME TypeInv, CalmInv, top.fn = "init", top.pc \in {"start", "load", "loaded"}, flash' = flash,
           obj'.reserved_space = obj.reserved_space, obj'.write_error = obj.write_error,
           \/ TailCall("erase_all", 0, 0)
           \/ \E pc \in {"load", "rewrite"} : \E x, y : Goto(pc, x, y) /\ FrameOK(Frame("init", pc, x, y))
    PROVE  CalmInv'
<1>1. Shape /\ ~obj.write_error /\ ~obj'.write_error
  BY DEF CalmInv
<1>2. OffCalm' /\ obj'.reserved_space = 0
  <2>1. Loading
    BY DEF Loading, user
  <2> QED
    BY <2>1, OffKept
<1>3. CASE TailCall("erase_all", 0, 0)
  <2>1. Shape' /\ top'.fn = "erase_all" /\ top'.pc = "start"
    BY <1>1, <1>3, PlainFrame, ShapeTailCall
  <2>2. user' = top'
    BY <2>1 DEF user
  <2>3. FormatCalm'
    BY <1>2, <2>1 DEF FormatCalm, At
  <2> QED
    BY <1>1, <2>1, <2>2, <2>3, ToFormatCalm
<1>4. CASE \E pc \in {"load", "rewrite"} : \E x, y : Goto(pc, x, y) /\ FrameOK(Frame("init", pc, x, y))
  <2>0. PICK pc \in {"load", "rewrite"} : \E x, y : Goto(pc, x, y) /\ FrameOK(Frame("init", pc, x, y))
    BY <1>4
  <2>1. PICK x, y : Goto(pc, x, y) /\ FrameOK(Frame("init", pc, x, y))
    BY <2>0
  <2>2. Shape' /\ top'.fn = "init" /\ top'.pc = pc
    BY <1>1, <2>1, ShapeGoto
  <2>3. user' = top'
    BY <2>2 DEF user
  <2> QED
    BY <1>1, <1>2, <2>1, <2>2, <2>3, ToLoad
<1> QED
  BY <1>3, <1>4

\* The caller calls init().
LEMMA BootCalm ==
    ASSUME Calm, TypeInv, CalmInv, Boot
    PROVE  CalmInv'
<1>1. top.fn = "caller" /\ top.pc = "off" /\ Call("booting", "init", 0, 0) /\ flash' = flash /\ obj' = obj
  BY DEF Boot, At
<1>2. Off /\ Shape /\ ~obj'.write_error
  BY <1>1 DEF Off, At, CalmInv
<1>3. FrameOK(Frame(top.fn, "booting", top.x, top.y)) /\ Awaits(Frame(top.fn, "booting", top.x, top.y), "init")
  BY <1>1, TopOK DEF FrameOK, Frame, FrameType, FunctionNames, Places, Awaits
<1>4. Shape' /\ top'.fn = "init" /\ top'.pc = "start"
  BY <1>1, <1>2, <1>3, PlainFrame, ShapeCall
<1>5. user' = top'
  BY <1>4 DEF user
<1> QED
  BY <1>1, <1>2, <1>4, <1>5, OffKept, ToLoad

\* init() reads the headers.
LEMMA Init_HeadersCalm ==
    ASSUME TypeInv, CalmInv, Init_Headers
    PROVE  CalmInv'
<1> DEFINE h == [i \in Sectors |-> flash[i].header]
<1>1. /\ top.fn = "init" /\ top.pc = "start" /\ flash' = flash
      /\ obj' = [obj EXCEPT !.mem_buffer = Cleared.mem_buffer, !.states = h]
      /\ TailCall("erase_all", 0, 0) \/ Goto("load", FirstSector(h), 0)
  BY DEF Init_Headers, At
<1>2. obj'.reserved_space = obj.reserved_space /\ obj'.write_error = obj.write_error
  BY <1>1 DEF TypeInv, Object
<1>3. FirstSector(h) \in Sectors
  BY DEF Sectors, FirstSector
<1> HIDE DEF h
<1>4. FrameOK(Frame("init", "load", FirstSector(h), 0))
  BY <1>3, InitFrame
<1> QED
  BY <1>1, <1>2, <1>4, InitCalm

\* init() looks at the next sector.
LEMMA Init_LoadCalm ==
    ASSUME Calm, TypeInv, CalmInv, Init_Load
    PROVE  CalmInv'
<1> DEFINE sector == (top.x + top.y) % 2
<1>1. top.fn = "init" /\ top.pc = "load" /\ top.x \in Sectors /\ top.y \in Nat /\ top.y <= 2 /\ flash' = flash /\ obj' = obj
  BY TopOK DEF Init_Load, At, FrameOK
<1>2. CASE Goto("rewrite", top.x, 0)
  BY <1>1, <1>2, InitFrame, InitCalm
<1>3. CASE top.y < 2 /\ Goto("load", top.x, top.y + 1)
  <2>1. top.y + 1 \in Nat /\ top.y + 1 <= 2
    BY <1>1, <1>3
  <2> QED
    BY <2>1, <1>1, <1>3, InitFrame, InitCalm
<1>4. CASE top.y < 2 /\ Call("loaded", "load_sector", sector, SectorHdr)
  <2>1. sector \in Sectors
    BY <1>1, <1>4, NextSector
  <2> HIDE DEF sector
  <2>2. FrameOK(Frame("load_sector", "start", sector, SectorHdr))
    BY <2>1, PlainFrame, Sizes
  <2>3. FrameOK(Frame(top.fn, "loaded", top.x, top.y)) /\ Awaits(Frame(top.fn, "loaded", top.x, top.y), "load_sector")
    BY <1>1, <1>4, InitFrame DEF Awaits, Frame
  <2>4. Shape /\ ~obj.write_error
    BY DEF CalmInv
  <2>5. Shape' /\ top'.fn = "load_sector" /\ stack'[2].fn = "init" /\ stack'[2].pc = "loaded"
    BY <1>1, <1>4, <2>2, <2>3, <2>4, ShapeCall
  <2>6. user' = stack'[2] /\ Loading
    BY <1>1, <2>5 DEF user, Loading
  <2> QED
    BY <1>1, <2>4, <2>5, <2>6, OffKept, ToLoad
<1> QED
  BY <1>2, <1>3, <1>4 DEF Init_Load

\* init() has read a sector.
LEMMA Init_LoadedCalm ==
    ASSUME TypeInv, CalmInv, Init_Loaded
    PROVE  CalmInv'
<1>1. /\ top.fn = "init" /\ top.pc = "loaded" /\ flash' = flash /\ obj' = obj
      /\ TailCall("erase_all", 0, 0) \/ Goto("load", top.x, top.y + 1)
  BY DEF Init_Loaded, At
<1>2. top.x \in Sectors /\ top.y \in Nat /\ top.y < 2
  BY <1>1, TopOK DEF FrameOK
<1>3. top.y + 1 \in Nat /\ top.y + 1 <= 2
  BY <1>2
<1>4. FrameOK(Frame("init", "load", top.x, top.y + 1))
  BY <1>2, <1>3, InitFrame
<1> QED
  BY <1>1, <1>4, InitCalm

\* load_sector(): one block.
LEMMA LoadSectorCalm ==
    ASSUME TypeInv, CalmInv, LoadSector
    PROVE  CalmInv'
<1> DEFINE b == flash[top.x].log[top.y]
           size == Bytes(b.count)
           end == top.y >= SectorSize - BlockHdr
           z == top.y + size + BlockHdr
<1>1. top.fn = "load_sector" /\ top.x \in Sectors /\ top.y \in Nat /\ flash' = flash
  BY TopOK DEF LoadSector, At, FrameOK
<1>2. /\ \/ \E v \in BOOLEAN : Return(v)
         \/ ~end /\ Goto("start", top.x, z)
      /\ \/ obj' = obj
         \/ \E m : obj' = [obj EXCEPT !.mem_buffer = m]
         \/ \E w : obj' = [obj EXCEPT !.write_offset = w]
  BY DEF LoadSector
<1>3. obj'.reserved_space = obj.reserved_space /\ obj'.write_error = obj.write_error
  BY <1>2 DEF TypeInv, Object
<1>4. Shape /\ ~obj'.write_error
  BY <1>3 DEF CalmInv
<1>5. Len(stack) = 3 /\ stack[2].fn = "init" /\ stack[2].pc = "loaded"
  BY <1>1, <1>4, Callers
<1>6. OffCalm'
  <2>1. Loading
    BY <1>1, <1>5 DEF Loading, user
  <2> QED
    BY <2>1, <1>1, <1>3, OffKept
<1>7. CASE \E v \in BOOLEAN : Return(v)
  <2>1. Shape' /\ top' = stack[2]
    BY <1>1, <1>4, <1>7, ShapeReturn
  <2>2. user' = top'
    BY <1>5, <2>1 DEF user
  <2> QED
    BY <1>4, <1>5, <1>6, <2>1, <2>2, ToLoad
<1>8. CASE ~end /\ Goto("start", top.x, z)
  <2>1. top.y < SectorSize - BlockHdr
    BY <1>1, <1>8, Sizes
  <2>2. size \in Nat
    BY <2>1, <1>1, BlockAt
  <2>3. z \in Nat
    <3> HIDE DEF size
    <3> QED
      BY <2>2, <1>1, Sizes
  <2> HIDE DEF z
  <2>4. FrameOK(Frame(top.fn, "start", top.x, z))
    BY <2>3, <1>1, PlainFrame
  <2>5. Shape' /\ top'.fn = "load_sector" /\ (Len(stack) > 1 => stack'[2] = stack[2])
    BY <1>1, <1>4, <1>8, <2>4, ShapeGoto
  <2>6. user' = stack[2]
    BY <1>5, <2>5 DEF user
  <2> QED
    BY <1>4, <1>5, <1>6, <2>5, <2>6, ToLoad
<1> QED
  BY <1>2, <1>7, <1>8

-----------------------------------------------------------------------------
(* The reserve is kept: the end of init(), the caller and the power supply. *)

\* init() has read the sectors: what it has to rewrite fits in the reserve.
LEMMA Init_RewriteCalm ==
    ASSUME Calm, TypeInv, LogInv, CalmInv, Init_Rewrite
    PROVE  CalmInv'
<1>1. /\ top.fn = "init" /\ top.pc = "rewrite" /\ flash' = flash
      /\ obj' = [obj EXCEPT !.write_error = FALSE, !.reserved_space = 0,
                            !.current_sector = IF obj.states[top.x] = "FULL" THEN Other(top.x) ELSE @]
      /\ IF obj.states[top.x] = "FULL" THEN Call("rewritten", "write_all", 0, 0) ELSE Goto("erase", top.x, 0)
  BY DEF Init_Rewrite, At
<1>2. /\ Known(top) /\ Read(top) /\ top.x \in Sectors /\ top.y \in Nat
      /\ \A s \in Sectors : Header(s) \in HeaderStates
  BY <1>1, IsReading
<1>3. PICK x \in Sectors, w \in Nat : x = top.x /\ w = obj.write_offset
  BY <1>2, Members DEF TypeInv
<1>4. /\ Other(x) \in Sectors
      /\ Header(x) = "FULL" => Header(Other(x)) = "IN_USE"
      /\ Header(x) # "FULL" => x = 0 /\ Header(0) \in {"AVAILABLE", "IN_USE"} /\ Header(1) = "AVAILABLE"
  <2>1. /\ BootPair /\ \A s \in Sectors : Header(s) \in HeaderStates /\ Header(s) # "BAD" /\ obj.states[s] = Header(s)
        /\ Header(0) = Header(1) => Header(0) = "AVAILABLE"
        /\ x = FirstSector(obj.states)
    BY <1>2, <1>3 DEF Known
  <2> QED
    BY <2>1, Order
<1>5. /\ obj'.reserved_space = 0 /\ obj'.write_offset = w /\ ~obj'.write_error
      /\ obj'.current_sector = IF obj.states[x] = "FULL" THEN Other(x) ELSE obj.current_sector
  BY <1>1, <1>3 DEF TypeInv, Object
<1>6. \A s \in Sectors : obj.states[s] = Header(s) /\ Header(s)' = Header(s) /\ (Header(s) = "IN_USE" => EndsAt(s, w))
  <2>1. \A s \in Sectors : Header(s) = "IN_USE" => EndsAt(s, w)
    BY <1>1, <1>2, <1>3 DEF Read
  <2> QED
    BY <2>1, <1>1, <1>2, FlashSame DEF Known
<1>7. /\ Shape /\ ~(Header(0) = "AVAILABLE" /\ Header(1) = "AVAILABLE")
      /\ \A s \in Sectors : Header(s) = "IN_USE" /\ Header(Other(s)) = "FULL" => Reserved(s)
  <2>1. Loading
    BY <1>1 DEF Loading, user
  <2> QED
    BY <2>1 DEF CalmInv, OffCalm
<1>8. CASE Header(x) = "FULL"
  <2>1. Call("rewritten", "write_all", 0, 0) /\ current' = Other(x)
    BY <1>1, <1>3, <1>5, <1>6, <1>8 DEF current
  <2>2. FrameOK(Frame("init", "rewritten", top.x, top.y)) /\ Awaits(Frame("init", "rewritten", top.x, top.y), "write_all")
    BY <1>2, InitFrame DEF Awaits, Frame
  <2>3. Shape' /\ top'.fn = "write_all" /\ top'.pc = "start" /\ top'.x = 0
    BY <1>1, <1>7, <2>1, <2>2, PlainFrame, ShapeCall
  <2>4. PICK c \in Sectors : c = Other(x) /\ Other(c) = x
    BY <1>4 DEF Other, Sectors
  <2>5. Header(c) = "IN_USE" /\ Header(c)' = "IN_USE" /\ EndsAt(c, w) /\ Reserved(c)
    BY <1>4, <1>6, <1>7, <1>8, <2>4
  <2>6. w + ReserveSize <= SectorSize
    <3>1. w = SectorHdr \/ \E p \in Programmed(c) : EndOf(c, p) = w
      BY <2>5 DEF EndsAt, Boundary
    <3>2. CASE w = SectorHdr
      BY <3>2, Reserve, Sizes
    <3>3. CASE \E p \in Programmed(c) : EndOf(c, p) = w
      BY <3>3, <2>5 DEF Reserved
    <3> QED
      BY <3>1, <3>2, <3>3
  <2>7. RestFits(0)'
    BY <2>6, <1>5, RestAll DEF RestFits
  <2>8. InUse'
    BY <2>1, <2>4, <2>5 DEF InUse, Header
  <2>9. RestCalm'
    BY <1>5, <2>3, <2>7, <2>8 DEF RestCalm, RestFits
  <2> QED
    BY <1>5, <2>3, <2>9, ToRest
<1>9. CASE Header(x) # "FULL"
  <2>1. Goto("erase", x, 0) /\ current' = 0 /\ x = 0
    BY <1>1, <1>2, <1>3, <1>4, <1>5, <1>6, <1>9 DEF current, Known
  <2>2. Header(0) = "IN_USE" /\ Header(1) = "AVAILABLE" /\ 0 \in Sectors /\ 1 \in Sectors /\ Other(0) = 1
    BY <1>4, <1>7, <1>9 DEF Sectors, Other
  <2>3. InUse' /\ OtherIs("AVAILABLE")'
    <3>1. Header(0)' = "IN_USE" /\ Header(1)' = "AVAILABLE"
      BY <2>2, <1>6
    <3> QED
      BY <3>1, <2>1, <2>2 DEF InUse, OtherIs, Header, Other
  <2>4. Shape' /\ top'.fn = "init" /\ top'.pc = "erase"
    BY <1>1, <1>7, <2>1, InitFrame, ShapeGoto
  <2>5. user' = top'
    BY <2>4 DEF user
  <2>6. EraseCalm'
    BY <1>5, <2>3, <2>4, <2>5 DEF EraseCalm, At
  <2> QED
    BY <1>5, <2>4, <2>5, <2>6, ToErase
<1> QED
  BY <1>8, <1>9

\* What the end of init() knows.
LEMMA AtErase ==
    ASSUME TypeInv, LogInv, CalmInv, top.fn = "init", top.pc \in {"rewritten", "erase", "erased"}
    PROVE  /\ Shape /\ ~obj.write_error /\ InUse /\ obj.reserved_space = 0 /\ user = top
           /\ top.pc = "rewritten" => ret /\ obj.states[Other(current)] = "FULL"
           /\ top.pc # "rewritten" => OtherIs("AVAILABLE") \/ (obj.states[Other(current)] = "FULL" /\ top.y <= Other(current))
           /\ top.pc = "erased" => ret /\ OtherIs("AVAILABLE")
           /\ \A s \in Sectors : obj.states[s] = "FULL" => s = Other(current)
           /\ top.x \in Sectors /\ top.y \in Nat
<1>1. user = top
  BY DEF user
<1>2. /\ Shape /\ ~obj.write_error /\ InUse /\ obj.reserved_space = 0
      /\ top.pc = "rewritten" => ret
      /\ top.pc # "rewritten" => OtherIs("AVAILABLE") \/ (obj.states[Other(current)] = "FULL" /\ top.y <= Other(current))
      /\ top.pc = "erased" => ret /\ OtherIs("AVAILABLE")
  BY <1>1 DEF CalmInv, EraseCalm, At
<1>3. Erasing /\ (top.pc = "rewritten" => Rewriting)
  BY InitAlone DEF Erasing, Rewriting, TypeInv
<1>4. (top.pc = "rewritten" => obj.states[Other(current)] = "FULL") /\ \A s \in Sectors : obj.states[s] = "FULL" => s = Other(current)
  BY <1>3 DEF LogInv, RewriteInv
<1>5. top.x \in Sectors /\ top.y \in Nat
  BY TopOK DEF FrameOK
<1> QED
  BY <1>1, <1>2, <1>4, <1>5

\* The end of init() goes on to the next sector.
LEMMA EraseGoesOn ==
    ASSUME TypeInv, LogInv, CalmInv, top.fn = "init", top.pc \in {"rewritten", "erase", "erased"}, flash' = flash, obj' = obj,
           NEW y \in Nat, y <= 2, Goto("erase", top.x, y),
           OtherIs("AVAILABLE") \/ (obj.states[Other(current)] = "FULL" /\ y <= Other(current))
    PROVE  CalmInv'
<1>1. Shape /\ ~obj.write_error /\ InUse /\ obj.reserved_space = 0 /\ top.x \in Sectors
  BY AtErase
<1>2. Shape' /\ top'.fn = "init" /\ top'.pc = "erase" /\ top'.y = y
  BY <1>1, InitFrame, ShapeGoto
<1>3. user' = top'
  BY <1>2 DEF user
<1>4. InUse' /\ OtherIs("AVAILABLE")' = OtherIs("AVAILABLE") /\ current' = current
  BY <1>1, Keeps
<1>5. Other(current)' = Other(current)
  BY <1>4 DEF Other
<1>6. EraseCalm'
  BY <1>1, <1>2, <1>3, <1>4, <1>5 DEF EraseCalm, At
<1> QED
  BY <1>1, <1>2, <1>3, <1>6, ToErase

\* write_all() has returned to init(), with success.
LEMMA Init_RewrittenCalm ==
    ASSUME TypeInv, LogInv, CalmInv, Init_Rewritten
    PROVE  CalmInv'
<1>1. top.fn = "init" /\ top.pc = "rewritten" /\ flash' = flash /\ obj' = obj
  BY DEF Init_Rewritten, At
<1>2. ret /\ obj.states[Other(current)] = "FULL"
  BY <1>1, AtErase
<1>3. Goto("erase", top.x, 0) /\ 0 <= Other(current)
  BY <1>2, Members DEF Init_Rewritten, TypeInv, Sectors
<1> QED
  BY <1>1, <1>2, <1>3, EraseGoesOn

\* init() erases the other sector, if it was full, and the store is open.
LEMMA Init_EraseCalm ==
    ASSUME Calm, TypeInv, LogInv, CalmInv, Init_Erase
    PROVE  CalmInv'
<1>1. top.fn = "init" /\ top.pc = "erase" /\ flash' = flash
  BY DEF Init_Erase, At
<1>2. /\ Shape /\ ~obj.write_error /\ InUse /\ obj.reserved_space = 0 /\ user = top
      /\ OtherIs("AVAILABLE") \/ (obj.states[Other(current)] = "FULL" /\ top.y <= Other(current))
      /\ \A s \in Sectors : obj.states[s] = "FULL" => s = Other(current)
      /\ top.x \in Sectors /\ top.y \in Nat
  BY <1>1, AtErase
<1>3. top.y <= 2 /\ Other(current) \in Sectors
  BY <1>1, TopOK, Members DEF FrameOK, TypeInv
<1>4. CASE top.y = 2
  <2>1. Return(TRUE) /\ obj' = [obj EXCEPT !.reserved_space = 0]
    BY <1>4 DEF Init_Erase
  <2>2. /\ obj'.current_sector = obj.current_sector /\ obj'.write_offset = obj.write_offset
        /\ obj'.reserved_space = 0 /\ ~obj'.write_error
    BY <1>2, <2>1 DEF TypeInv, Object
  <2>3. OtherIs("AVAILABLE")
    <3>1. ~(2 <= Other(current))
      BY <1>3 DEF Sectors
    <3> QED
      BY <3>1, <1>2, <1>4
  <2>4. InUse' /\ OtherIs("AVAILABLE")'
    BY <1>1, <1>2, <2>2, <2>3, Keeps
  <2>5. Shape' /\ Len(stack') = Len(stack) - 1 /\ ret' /\ top' = stack[2]
    BY <1>1, <1>2, <2>1, ShapeReturn
  <2>6. Len(stack') = 1 /\ top'.fn = "caller" /\ top'.pc = "booting"
    <3>1. Len(stack) = 2 /\ stack[2].fn = "caller" /\ stack[2].pc = "booting"
      BY <1>1, <1>2, Callers
    <3> QED
      BY <3>1, <2>5
  <2>7. Safe'
    BY <2>2, <2>4 DEF Safe
  <2> QED
    BY <2>2, <2>4, <2>5, <2>6, <2>7, ToSave
<1>5. CASE top.y # 2 /\ obj.states[top.y] = "FULL"
  <2>1. Call("erased", "erase_sector", top.y, 0) /\ obj' = obj
    BY <1>5 DEF Init_Erase
  <2>2. top.y < 2 /\ top.y \in Sectors
    BY <1>2, <1>3, <1>5 DEF Sectors
  <2>3. FrameOK(Frame("init", "erased", top.x, top.y)) /\ Awaits(Frame("init", "erased", top.x, top.y), "erase_sector")
        /\ FrameOK(Frame("erase_sector", "start", top.y, 0))
    BY <1>2, <2>2, InitFrame, PlainFrame DEF Awaits, Frame
  <2>4. PICK y : y = top.y
    OBVIOUS
  <2>5. /\ Shape' /\ top'.fn = "erase_sector" /\ top'.pc = "start" /\ top'.x = y
        /\ stack'[2].fn = "init" /\ stack'[2].pc = "erased" /\ stack'[2].y = y
    BY <1>1, <1>2, <2>1, <2>3, <2>4, ShapeCall
  <2>6. user' = stack'[2]
    BY <2>5 DEF user
  <2>7. InUse' /\ OtherIs("AVAILABLE")' = OtherIs("AVAILABLE") /\ current' = current
    BY <1>1, <1>2, <2>1, Keeps
  <2>8. Other(current)' = Other(current)
    BY <2>7 DEF Other
  <2>9. EraseCalm'
    BY <1>2, <1>5, <2>1, <2>4, <2>5, <2>6, <2>7, <2>8 DEF EraseCalm, At
  <2> QED
    BY <1>2, <2>1, <2>5, <2>6, <2>9, ToErase
<1>6. CASE top.y # 2 /\ obj.states[top.y] # "FULL"
  <2>1. Goto("erase", top.x, top.y + 1) /\ obj' = obj
    BY <1>6 DEF Init_Erase
  <2>2. top.y + 1 \in Nat /\ top.y + 1 <= 2
    BY <1>2, <1>3, <1>6
  <2>3. OtherIs("AVAILABLE") \/ (obj.states[Other(current)] = "FULL" /\ top.y + 1 <= Other(current))
    <3>1. CASE obj.states[Other(current)] = "FULL" /\ top.y <= Other(current)
      <4>1. top.y # Other(current)
        BY <1>6, <3>1
      <4> DEFINE o == Other(current)
      <4>2. o \in Nat /\ top.y <= o /\ top.y # o
        BY <1>3, <3>1, <4>1 DEF Sectors
      <4> HIDE DEF o
      <4>3. top.y + 1 <= o
        BY <4>2, <1>2
      <4> QED
        BY <4>3, <3>1 DEF o
    <3> QED
      BY <1>2, <3>1
  <2> QED
    BY <1>1, <2>1, <2>2, <2>3, EraseGoesOn
<1> QED
  BY <1>4, <1>5, <1>6

\* init(): the other sector has been erased.
LEMMA Init_ErasedCalm ==
    ASSUME TypeInv, LogInv, CalmInv, Init_Erased
    PROVE  CalmInv'
<1>1. top.fn = "init" /\ top.pc = "erased" /\ flash' = flash /\ obj' = obj
  BY DEF Init_Erased, At
<1>2. ret /\ OtherIs("AVAILABLE") /\ top.y \in Nat /\ top.y < 2
  BY <1>1, AtErase, TopOK DEF FrameOK
<1>3. Goto("erase", top.x, top.y + 1) /\ top.y + 1 \in Nat /\ top.y + 1 <= 2
  BY <1>2 DEF Init_Erased
<1> QED
  BY <1>1, <1>2, <1>3, EraseGoesOn

\* A step of the caller, between two calls.
LEMMA IdleCalm ==
    ASSUME TypeInv, CalmInv, top.fn = "caller", top.pc # "off", flash' = flash,
           obj'.current_sector = obj.current_sector, obj'.write_offset = obj.write_offset,
           obj'.reserved_space = obj.reserved_space, obj'.write_error = obj.write_error,
           \/ Len(stack') = 1 /\ top'.fn = "caller" /\ top'.pc = "idle"
           \/ Len(stack') = 2 /\ top'.fn = "write" /\ top'.pc = "start"
    PROVE  CalmInv'
<1>1. ~obj.write_error /\ InUse /\ Safe
  BY DEF CalmInv, SaveCalm
<1>2. InUse' /\ Safe'
  BY <1>1, Keeps
<1>3. Shape'
  BY DEF Shape
<1> QED
  BY <1>1, <1>2, <1>3, ToSave

\* init() has returned to the caller, with success.
LEMMA BootedCalm ==
    ASSUME TypeInv, TypeInv', CalmInv, Booted
    PROVE  CalmInv'
<1>1. /\ top.fn = "caller" /\ top.pc = "booting" /\ flash' = flash
      /\ stack' = Caller(IF ret THEN "idle" ELSE "panic") /\ obj' = [obj EXCEPT !.states = Cleared.states]
  BY DEF Booted, At
<1>2. ret
  BY <1>1 DEF CalmInv, SaveCalm
<1>3. top' = Frame("caller", "idle", 0, 0) /\ Len(stack') = 1
  BY <1>1, <1>2, CallerOK DEF TypeInv
<1>4. top'.fn = "caller" /\ top'.pc = "idle"
  BY <1>3 DEF Frame
<1>5. /\ obj'.current_sector = obj.current_sector /\ obj'.write_offset = obj.write_offset
      /\ obj'.reserved_space = obj.reserved_space /\ obj'.write_error = obj.write_error
  BY <1>1 DEF TypeInv, Object
<1> QED
  BY <1>1, <1>3, <1>4, <1>5, IdleCalm

\* The caller calls write().
LEMMA StoreCalm ==
    ASSUME TypeInv, CalmInv, NEW r \in Ranges, Store(r)
    PROVE  CalmInv'
<1> DEFINE f == Frame("write", "start", r[1], r[2])
           g == Frame("caller", "storing", r[1], r[2])
<1>1. top.fn = "caller" /\ top.pc = "idle" /\ flash' = flash /\ stack' = <<f, g>>
  BY DEF Store, At
<1>2. PICK m : obj' = [obj EXCEPT !.mem_buffer = m]
  BY DEF Store
<1>3. /\ obj'.current_sector = obj.current_sector /\ obj'.write_offset = obj.write_offset
      /\ obj'.reserved_space = obj.reserved_space /\ obj'.write_error = obj.write_error
  BY <1>2 DEF TypeInv, Object
<1>4. f.fn = "write" /\ f.pc = "start"
  BY DEF Frame
<1> HIDE DEF f, g
<1>5. top' = f /\ Len(stack') = 2
  BY <1>1 DEF top
<1> QED
  BY <1>1, <1>3, <1>4, <1>5, IdleCalm

\* write() has returned to the caller.
LEMMA StoredCalm ==
    ASSUME TypeInv, TypeInv', CalmInv, Stored
    PROVE  CalmInv'
<1>1. top.fn = "caller" /\ top.pc = "storing" /\ flash' = flash /\ obj' = obj /\ stack' = Caller("idle")
  BY DEF Stored, At
<1>2. top' = Frame("caller", "idle", 0, 0) /\ Len(stack') = 1
  BY <1>1, CallerOK DEF TypeInv
<1>3. top'.fn = "caller" /\ top'.pc = "idle"
  BY <1>2 DEF Frame
<1> QED
  BY <1>1, <1>2, <1>3, IdleCalm

\* Nothing that the reserve is about changes.
LEMMA SameCalm ==
    ASSUME CalmInv, UNCHANGED <<flash, obj, stack, ret>>
    PROVE  CalmInv'
<1>1. top' = top /\ user' = user /\ current' = current
  BY DEF top, user, current
<1>2. \A s : Header(s)' = Header(s) /\ Reserved(s)' = Reserved(s)
  BY DEF Header, Reserved, Programmed, EndOf
<1>3. /\ InUse' = InUse /\ (\A h : OtherIs(h)' = OtherIs(h)) /\ (\A x : RestFits(x)' = RestFits(x)) /\ Shape' = Shape
  BY <1>1 DEF InUse, OtherIs, RestFits, Rest, Header, Shape
<1>4. Safe' = Safe /\ Off' = Off /\ Loading' = Loading /\ Formatting' = Formatting
  BY <1>1, <1>3 DEF Safe, Off, Loading, Formatting, At
<1>5. OffCalm' /\ FormatCalm'
  BY <1>1, <1>2, <1>4 DEF CalmInv, OffCalm, FormatCalm, At
<1>6. EraseCalm' /\ SaveCalm' /\ SwitchCalm'
  BY <1>1, <1>2, <1>3, <1>4 DEF CalmInv, EraseCalm, SaveCalm, SwitchCalm, At, Header
<1>7. FullCalm'
  BY <1>1, <1>3 DEF CalmInv, FullCalm, At
<1>8. RestCalm'
  BY <1>1, <1>3 DEF CalmInv, RestCalm, RestFits
<1> QED
  BY <1>3, <1>5, <1>6, <1>7, <1>8 DEF CalmInv

\* The caller is idle when power fails: the reserve is in flash.
LEMMA PowerFailCalm ==
    ASSUME Calm, TypeInv, TypeInv', LogInv, CalmInv, PowerFail
    PROVE  CalmInv'
<1>1. FailPoint = "idle" /\ obj' = Cleared /\ stack' = Caller("off") /\ flash' = flash
  BY DEF PowerFail, Calm
<1>2. Shape
  BY DEF CalmInv
<1>3. top.fn = "caller" /\ top.pc = "idle"
  <2>1. top.pc \in {"idle", "panic"} \/ top.fn = "overflow"
    BY <1>1 DEF FailPoint
  <2>2. top.fn # "overflow"
    BY <1>2, Callers
  <2>3. top.pc \in {"idle", "panic"} => top.fn = "caller"
    BY <2>2, TopOK DEF FrameOK, FunctionNames
  <2> QED
    BY <2>1, <2>2, <2>3 DEF CalmInv, SaveCalm
<1>4. InUse /\ Safe
  BY <1>3 DEF CalmInv, SaveCalm
<1>5. PICK c \in Sectors, d \in Sectors, w \in Nat : c = current /\ d = Other(c) /\ w = obj.write_offset /\ c = Other(d)
  BY Members DEF TypeInv, Other, Sectors
<1>6. EndsAt(c, w)
  <2>1. Working /\ ~InBlock
    BY <1>3, Works DEF WorkFrame, InBlock
  <2> QED
    BY <2>1, <1>4, <1>5 DEF LogInv, OpenInv, Open, InUse
<1>7. Header(c) = "IN_USE" /\ (Header(d) = "FULL" => Reserved(c))
  <2>1. Header(c) = "IN_USE"
    BY <1>4, <1>5 DEF InUse
  <2>2. ASSUME Header(d) = "FULL" PROVE Reserved(c)
    <3>1. RestFits(0)
      BY <2>2, <1>4, <1>5 DEF Safe, OtherIs
    <3>2. w + ReserveSize <= SectorSize /\ ReserveSize \in Nat
      BY <3>1, <1>5, RestAll DEF RestFits
    <3>3. ASSUME NEW o \in Programmed(c) PROVE EndOf(c, o) + ReserveSize <= SectorSize
      <4> DEFINE e == EndOf(c, o)
      <4>1. e <= w /\ e \in Nat
        BY <1>6, <3>3, Ends DEF EndsAt, TypeInv
      <4> HIDE DEF e
      <4>2. e + ReserveSize <= SectorSize
        BY <4>1, <3>2, Sizes
      <4> QED
        BY <4>2 DEF e
    <3> QED
      BY <3>3 DEF Reserved
  <2> QED
    BY <2>1, <2>2
<1>8. top' = Frame("caller", "off", 0, 0) /\ Len(stack') = 1
  BY <1>1, CallerOK DEF TypeInv
<1>9. top'.fn = "caller" /\ top'.pc = "off"
  BY <1>8 DEF Frame
<1>10. Shape' /\ user' = top' /\ ~obj'.write_error /\ obj'.reserved_space = 0 /\ ~Formatting' /\ ~(Len(stack') > 2)
  <2>1. obj' = Cleared
    BY <1>1
  <2>2. ~obj'.write_error /\ obj'.reserved_space = 0
    BY <2>1 DEF Cleared
  <2>3. user' = top'
    BY <1>9 DEF user
  <2>4. ~Formatting'
    BY <2>3, <1>9 DEF Formatting
  <2>5. Shape'
    BY <1>8, <1>9 DEF Shape
  <2>6. ~(Len(stack') > 2)
    BY <1>8
  <2> QED
    BY <2>2, <2>3, <2>4, <2>5, <2>6
<1>11. OffCalm'
  <2>1. \A s \in Sectors : s = c \/ s = d
    BY <1>5 DEF Sectors, Other
  <2>2. \A s : Header(s)' = Header(s)
    BY <1>1 DEF Header
  <2>3. \A s : Reserved(s) => Reserved(s)'
    BY <1>1 DEF Reserved, Programmed, EndOf
  <2>4. ~(Header(0) = "AVAILABLE" /\ Header(1) = "AVAILABLE")
    BY <1>7, <1>5 DEF Sectors
  <2>5. ASSUME NEW s \in Sectors, Header(s) = "IN_USE", Header(Other(s)) = "FULL" PROVE Reserved(s)
    BY <2>1, <2>5, <1>5, <1>7
  <2> QED
    BY <2>2, <2>3, <2>4, <2>5, <1>10 DEF OffCalm
<1>12. SaveCalm'
  BY <1>9 DEF SaveCalm
<1> QED
  BY <1>9, <1>10, <1>11, <1>12, Zenon DEF CalmInv, FormatCalm, EraseCalm, SwitchCalm, FullCalm, RestCalm, At

\* Erased flash.
LEMMA InitIsCalm == Init => CalmInv
<1> SUFFICES ASSUME Init PROVE CalmInv
  OBVIOUS
<1>1. obj = Cleared /\ stack = <<Frame("caller", "off", 0, 0)>> /\ flash = [s \in Sectors |-> ErasedSector]
  BY DEF Init, Caller
<1>2. top.fn = "caller" /\ top.pc = "off" /\ user = top /\ Len(stack) = 1
  BY <1>1 DEF top, user, Frame
<1>3. \A s \in Sectors : Header(s) = "BAD"
  BY <1>1 DEF Header, ErasedSector
<1>4. Shape /\ ~obj.write_error /\ obj.reserved_space = 0 /\ ~Formatting /\ ~(Len(stack) > 2)
  BY <1>1, <1>2 DEF Shape, Cleared, Formatting
<1>5. OffCalm /\ SaveCalm
  BY <1>2, <1>3, <1>4 DEF OffCalm, SaveCalm, Sectors
<1> QED
  BY <1>2, <1>4, <1>5, Zenon DEF CalmInv, FormatCalm, EraseCalm, SwitchCalm, FullCalm, RestCalm, At

\* Every step of a calm store keeps the reserve.
LEMMA StepCalm ==
    ASSUME Calm, TypeInv, LogInv, CalmInv, [Next]_vars
    PROVE  CalmInv'
<1>1. TypeInv'
  BY StepTypes
<1>2. ~ReInitialise_Start /\ ~ReInitialise_Erased
  <2>1. top.fn # "re_initialise"
    BY Callers DEF CalmInv
  <2> QED
    BY <2>1 DEF ReInitialise_Start, ReInitialise_Erased, At
<1>3. ~Write_Fault /\ ~Write_Failed
  <2>1. ~Write_Fault
    BY DEF Calm, Write_Fault
  <2>2. top.fn = "write" => top.pc # "failed"
    BY AtWrite
  <2> QED
    BY <2>1, <2>2 DEF Write_Failed, At
<1>4. CASE Library
  BY <1>2, <1>4, Write_LoopCalm, Write_SwitchedCalm, Write_SwitchedFullCalm, Write_HeaderCalm, Write_DataCalm,
     Write_ValidCalm, WriteAll_LoopCalm, WriteAll_WroteCalm, SwitchSectors_StartCalm, SwitchSectors_InUseCalm,
     SwitchFull_StartCalm, SwitchFull_WrittenCalm, SwitchFull_ErasedCalm, EraseSector_EraseCalm,
     EraseSector_MarkCalm, EraseAll_StartCalm, EraseAll_SecondCalm, EraseAll_MarkCalm, LoadSectorCalm,
     Init_HeadersCalm, Init_LoadCalm, Init_LoadedCalm, Init_RewriteCalm,
     Init_RewrittenCalm, Init_EraseCalm, Init_ErasedCalm, Zenon DEF Library
<1>5. CASE Boot \/ Booted \/ Stored
  BY <1>1, <1>5, BootCalm, BootedCalm, StoredCalm
<1>6. CASE (\E r \in Ranges : Store(r)) \/ PowerFail
  BY <1>1, <1>6, StoreCalm, PowerFailCalm
<1>7. CASE ArmOrDisarm \/ UNCHANGED vars
  BY <1>7, SameCalm DEF ArmOrDisarm, vars
<1> QED
  BY <1>3, <1>4, <1>5, <1>6, <1>7 DEF Next, Thread

\* The invariant of the reserve.
THEOREM FlashReserve == ASSUME Calm PROVE Spec => []CalmInv
<1>1. LogSafe
  BY DEF Calm, LogSafe
<1>2. Init => TypeInv /\ LogInv /\ CalmInv
  BY InitTypes, InitLog, InitIsCalm
<1>3. (TypeInv /\ LogInv /\ CalmInv) /\ [Next]_vars => (TypeInv /\ LogInv /\ CalmInv)'
  BY <1>1, StepTypes, StepLog, StepCalm
<1> QED
  BY <1>2, <1>3, PTL DEF Spec

\* Below switch_sectors() there is only write() and its caller.
LEMMA CalmFits ==
    ASSUME TypeInv, CalmInv
    PROVE  RewriteFits
<1> SUFFICES ASSUME NEW i \in 1 .. Len(stack), NEW j \in 1 .. Len(stack), i < j,
                    stack[i].fn = "switch_sectors", stack[j].fn = "init"
             PROVE  FALSE
  BY DEF RewriteFits
<1>1. Shape
  BY DEF CalmInv
<1> DEFINE n == Len(stack)
<1>2. /\ n \in 1 .. 5 /\ \A k \in 1 .. n - 1 : Awaits(stack[k + 1], stack[k].fn)
      /\ stack[n].fn \in {"caller", "overflow"} /\ stack[1] = top
  BY <1>1, Callers, Top DEF TypeInv, StackOK, bottom
<1>3. \/ n = 1 \/ n = 2
      \/ n = 3 /\ top.fn \in {"load_sector", "erase_sector", "write_all"}
      \/ n = 3 /\ top.fn \in {"switch_sectors", "switch_full_sector"} /\ stack[2].fn = "write"
      \/ n = 4 /\ top.fn = "write" /\ stack[2].fn = "write_all" /\ stack[3].fn = "init"
      \/ n = 4 /\ top.fn \in {"write_all", "erase_sector"} /\ stack[2].fn = "switch_full_sector"
      \/ n = 5 /\ top.fn = "write" /\ stack[2].fn = "write_all" /\ stack[3].fn = "switch_full_sector"
  BY <1>1 DEF Shape
<1>4. i \in 1 .. n /\ j \in 1 .. n
  OBVIOUS
<1> HIDE DEF n
<1>5. i \in {1, 2, 3, 4} /\ i < n /\ j \in {2, 3, 4, 5} /\ j # n
  BY <1>2, <1>4
<1>6. Awaits(stack[i + 1], "switch_sectors")
  BY <1>2, <1>4, <1>5
<1>7. stack[i + 1].fn = "write" /\ stack[i + 1].pc \in {"switched", "switched_full"}
  BY <1>6 DEF Awaits
<1>8. i + 1 # j /\ i + 1 < j /\ i + 2 <= n /\ j < n
  BY <1>4, <1>5, <1>7, <1>2
<1>9. n \in {4, 5} /\ i \in {1, 2} /\ (i = 2 => n = 5)
  BY <1>8, <1>5, <1>2, <1>4
<1> QED
  BY <1>2, <1>3, <1>7, <1>9

\* write_all() of init() never runs out of room, so that it never gets to
\* switch_sectors(): for every size, where power fails only while the caller is idle,
\* flash does not refuse and the deepest call fits on the stack.
THEOREM FlashRewriteFits == ASSUME Calm PROVE Spec => []RewriteFits
<1>1. TypeInv /\ CalmInv => RewriteFits
  BY CalmFits
<1> QED
  BY <1>1, FlashTypes, FlashReserve, PTL
=============================================================================
