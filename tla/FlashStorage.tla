---------------------------- MODULE FlashStorage ----------------------------
(***************************************************************************)
(* AP_FlashStorage: a log-structured store of StorageSize bytes over two   *)
(* flash sectors (libraries/AP_FlashStorage).  One action is one flash     *)
(* operation, or the computation between two of them, of the function on   *)
(* top of the call stack; power may fail between any two actions.  A       *)
(* half-word program is atomic (stm32_flash_write), so a block header or a *)
(* state change of a sector header is written whole or not at all, and     *)
(* block data torn by a power failure stay behind a header in state        *)
(* WRITING.                                                                *)
(***************************************************************************)
EXTENDS Integers, Sequences

CONSTANTS StorageSize,   \* storage_size: bytes of mem_buffer
          BlockSize,     \* block_size
          MaxWrite,      \* max_write: bytes in the largest block written
          SectorSize,    \* flash_sector_size
          SectorHdr,     \* sizeof(struct sector_header)
          BlockHdr,      \* sizeof(struct block_header)
          Value,         \* byte values; a cleared buffer holds 0
          Ranges,        \* the <<offset, length>> pairs the caller saves
          StackLimit,    \* frames that fit on the storage thread's stack
          PowerFailAt,   \* when power may fail, see FailPoint
          ProgramFault   \* flash may refuse to program a block header

Addr == 0 .. StorageSize - 1

\* Mutant: the reserve forgets the block headers.
ReserveSize_NoHeaders == (StorageSize \div MaxWrite) * MaxWrite

\* reserve_size: amount of space needed to write full storage.
ReserveSize == (StorageSize \div MaxWrite) * (BlockHdr + MaxWrite) + MaxWrite

ASSUME SizeAssumption ==
    /\ {StorageSize, BlockSize, MaxWrite, SectorSize, SectorHdr, BlockHdr} \subseteq Nat \ {0}
    /\ MaxWrite % BlockSize = 0
    /\ StorageSize % MaxWrite = 0
    /\ SectorHdr + BlockHdr + MaxWrite + ReserveSize <= SectorSize

ASSUME CallerAssumption ==
    /\ 0 \in Value
    /\ \A r \in Ranges : r \in Nat \X Nat /\ r[2] > 0 /\ r[1] + r[2] <= StorageSize
    /\ StackLimit \in Nat \ {0, 1}
    /\ PowerFailAt \subseteq {"idle", "step", "formatted", "lone_sector_1", "marked_full", "erased"}
    /\ ProgramFault \in BOOLEAN

VARIABLES flash,    \* the two sectors
          obj,      \* the AP_FlashStorage object, mem_buffer and init's locals
          stack,    \* call stack, innermost frame first
          ret,      \* the value a function has just returned, FALSE otherwise
          armed,    \* hal.util->get_soft_armed()
          may       \* history: what DurableStore promises of each byte

vars == <<flash, obj, stack, ret, armed, may>>

-----------------------------------------------------------------------------
(* A sector is its header state and, for each offset, the block whose      *)
(* header was programmed there.                                            *)

Sectors == {0, 1}
Other(sector) == 1 - sector

\* "BAD": erased, torn or overwritten, the signature does not match.
HeaderStates == {"BAD", "AVAILABLE", "IN_USE", "FULL"}

Block == [state : {"AVAILABLE", "WRITING", "VALID"}, num : Nat, count : Nat, data : Seq(Value)]
Sector == [header : HeaderStates, log : [0 .. SectorSize - 1 -> Block]]

\* Erased flash reads as a block header in state AVAILABLE.
Erased == [state |-> "AVAILABLE", num |-> 0, count |-> 0, data |-> <<>>]
ErasedSector == [header |-> "BAD", log |-> [o \in 0 .. SectorSize - 1 |-> Erased]]

SetHeader(sector, state) == flash' = [flash EXCEPT ![sector].header = state]

\* The object is in static memory: all zero at power-up.
Object == [mem_buffer : [Addr -> Value], current_sector : Sectors, write_offset : Nat,
           reserved_space : {0, ReserveSize}, write_error : BOOLEAN,
           states : [Sectors -> HeaderStates], chunk : Seq(Value)]
Cleared == [mem_buffer |-> [a \in Addr |-> 0], current_sector |-> 0, write_offset |-> 0,
            reserved_space |-> 0, write_error |-> FALSE,
            states |-> [s \in Sectors |-> "BAD"], chunk |-> <<>>]

current == obj.current_sector
flash_erase_ok == ~armed

-----------------------------------------------------------------------------
(* The call stack: x and y are the parameters and loop variables of the    *)
(* function; the last frame is the caller of the library.                  *)

Frame(fn, pc, x, y) == [fn |-> fn, pc |-> pc, x |-> x, y |-> y]
Caller(pc) == <<Frame("caller", pc, 0, 0)>>

top == Head(stack)
At(fn, pc) == top.fn = fn /\ top.pc = pc

Goto(pc, x, y) == stack' = <<Frame(top.fn, pc, x, y)>> \o Tail(stack) /\ ret' = FALSE
Return(v) == stack' = Tail(stack) /\ ret' = v

\* Call fn(x, y) and continue at pc; one frame too many overruns the stack.
Call(pc, fn, x, y) ==
    /\ stack' = IF Len(stack) < StackLimit
                THEN <<Frame(fn, "start", x, y), Frame(top.fn, pc, top.x, top.y)>> \o Tail(stack)
                ELSE <<Frame("overflow", "start", 0, 0)>>
    /\ ret' = FALSE

\* return fn(x, y)
TailCall(fn, x, y) == stack' = <<Frame(fn, "start", x, y)>> \o Tail(stack) /\ ret' = FALSE

-----------------------------------------------------------------------------
(* write(offset = x, length = y): chunks of at most MaxWrite bytes, each   *)
(* one block: header in state WRITING, data, header in state VALID.        *)

Bytes(count) == count * BlockSize
BlockNum(offset) == offset \div BlockSize
BlockCount(length) ==
    ((IF length < MaxWrite THEN length ELSE MaxWrite) + BlockSize - 1) \div BlockSize

\* Mutant: the room for the block's data is forgotten.
NoRoom_HeaderOnly == obj.write_offset > SectorSize - (BlockHdr + obj.reserved_space)

NoRoom == obj.write_offset > SectorSize - (BlockHdr + MaxWrite + obj.reserved_space)

\* A block programmed over the sector header destroys the signature, and may or
\* may not pass the read-back check of stm32_flash_write.
OverHeader == obj.write_offset < SectorHdr
ProgramBlock(block) ==
    flash' = [flash EXCEPT ![current].log[obj.write_offset] = block,
                           ![current].header = IF OverHeader THEN "BAD" ELSE @]

Write_Loop ==
    /\ At("write", "start") \/ At("write", "loop")
    /\ IF top.pc = "start" /\ obj.write_error
       THEN Return(FALSE)
       ELSE \/ top.y = 0 /\ Return(TRUE)
            \/ top.y > 0 /\ NoRoom /\ Call("switched", "switch_sectors", 0, 0)
            \/ top.y > 0 /\ ~NoRoom /\ Goto("header", top.x, top.y)
    /\ UNCHANGED <<flash, obj>>

Write_Switched ==
    /\ At("write", "switched")
    /\ \/ ret /\ Goto("header", top.x, top.y)
       \/ ~ret /\ ~flash_erase_ok /\ Return(FALSE)
       \/ ~ret /\ flash_erase_ok /\ Call("switched_full", "switch_full_sector", 0, 0)
    /\ UNCHANGED <<flash, obj>>

Write_SwitchedFull ==
    /\ At("write", "switched_full")
    /\ IF ret THEN Goto("header", top.x, top.y) ELSE Return(FALSE)
    /\ UNCHANGED <<flash, obj>>

\* The number of a block is not read while it is in state WRITING.
Write_Header ==
    /\ At("write", "header")
    /\ ProgramBlock([Erased EXCEPT !.state = "WRITING", !.count = BlockCount(top.y)])
    /\ Goto("data", top.x, top.y) \/ (OverHeader /\ Return(FALSE))
    /\ UNCHANGED obj

\* Nobody reads data behind a WRITING header: the model keeps them in obj.chunk
\* until the block is valid.
Write_Data ==
    /\ At("write", "data")
    /\ obj' = [obj EXCEPT !.chunk = [i \in 1 .. Bytes(BlockCount(top.y)) |->
                                        obj.mem_buffer[Bytes(BlockNum(top.x)) + i - 1]]]
    /\ Goto("valid", top.x, top.y) \/ (OverHeader /\ Return(FALSE))
    /\ UNCHANGED flash

\* Mutant: write_offset skips the data but not the header.
Write_Valid_NoHeader ==
    /\ At("write", "valid")
    /\ LET nbytes == Bytes(BlockCount(top.y))
       IN  /\ ProgramBlock([state |-> "VALID", num |-> BlockNum(top.x),
                            count |-> BlockCount(top.y), data |-> obj.chunk])
           /\ obj' = [obj EXCEPT !.write_offset = @ + nbytes, !.chunk = <<>>]
           /\ Return(TRUE)

Write_Valid ==
    /\ At("write", "valid")
    /\ LET nbytes == Bytes(BlockCount(top.y))
           n2     == nbytes - (top.x % BlockSize)
       IN  /\ ProgramBlock([state |-> "VALID", num |-> BlockNum(top.x),
                            count |-> BlockCount(top.y), data |-> obj.chunk])
           /\ obj' = [obj EXCEPT !.write_offset = @ + BlockHdr + nbytes, !.chunk = <<>>]
           /\ IF n2 > top.y THEN Return(TRUE) ELSE Goto("loop", top.x + n2, top.y - n2)

\* write_all(), with loop variable ofs = x.
all_zero(ofs, size) == \A a \in ofs .. ofs + size - 1 : obj.mem_buffer[a] = 0

WriteAll_Loop ==
    /\ At("write_all", "start")
    /\ \/ top.x >= StorageSize /\ Return(TRUE)
       \/ /\ top.x < StorageSize
          /\ IF all_zero(top.x, MaxWrite) THEN Goto("start", top.x + MaxWrite, 0)
                                          ELSE Call("wrote", "write", top.x, MaxWrite)
    /\ UNCHANGED <<flash, obj>>

\* Mutant: the loop does not move on.
WriteAll_Wrote_NoStep ==
    /\ At("write_all", "wrote")
    /\ IF ret THEN Goto("start", top.x, 0) ELSE Return(FALSE)
    /\ UNCHANGED <<flash, obj>>

WriteAll_Wrote ==
    /\ At("write_all", "wrote")
    /\ IF ret THEN Goto("start", top.x + MaxWrite, 0) ELSE Return(FALSE)
    /\ UNCHANGED <<flash, obj>>

-----------------------------------------------------------------------------
(* switch_sectors(): early returns, then the current sector is marked FULL *)
(* and after it the other one IN_USE.                                      *)

SwitchSectors_Start ==
    /\ At("switch_sectors", "start")
    /\ \/ /\ obj.reserved_space # 0
          /\ Return(FALSE)
          /\ UNCHANGED <<flash, obj>>
       \/ /\ obj.reserved_space = 0
          /\ flash[Other(current)].header # "AVAILABLE"
          /\ obj' = [obj EXCEPT !.write_error = TRUE]
          /\ Return(FALSE)
          /\ UNCHANGED flash
       \/ /\ obj.reserved_space = 0
          /\ flash[Other(current)].header = "AVAILABLE"
          /\ IF flash[current].header = "BAD"
             THEN UNCHANGED flash /\ (Goto("in_use", 0, 0) \/ Return(FALSE))
             ELSE SetHeader(current, "FULL") /\ Goto("in_use", 0, 0)
          /\ UNCHANGED obj

SwitchSectors_InUse ==
    /\ At("switch_sectors", "in_use")
    /\ SetHeader(Other(current), "IN_USE")
    /\ obj' = [obj EXCEPT !.current_sector = Other(current), !.reserved_space = ReserveSize,
                          !.write_offset = SectorHdr]
    /\ Return(TRUE)

SwitchFull_Start ==
    /\ At("switch_full_sector", "start")
    /\ obj' = [obj EXCEPT !.write_error = FALSE, !.reserved_space = 0]
    /\ Call("written", "write_all", 0, 0)
    /\ UNCHANGED flash

SwitchFull_Written ==
    /\ At("switch_full_sector", "written")
    /\ IF ret THEN Call("erased", "erase_sector", Other(current), 0) ELSE Return(FALSE)
    /\ UNCHANGED <<flash, obj>>

SwitchFull_Erased ==
    /\ At("switch_full_sector", "erased")
    /\ IF ret THEN TailCall("switch_sectors", 0, 0) ELSE Return(FALSE)
    /\ UNCHANGED <<flash, obj>>

-----------------------------------------------------------------------------
(* erase_sector(sector = x), erase_all(), re_initialise()                  *)

EraseSector_Erase ==
    /\ At("erase_sector", "start")
    /\ flash' = [flash EXCEPT ![top.x] = ErasedSector]
    /\ Goto("mark", top.x, 0)
    /\ UNCHANGED obj

EraseSector_Mark ==
    /\ At("erase_sector", "mark")
    /\ SetHeader(top.x, "AVAILABLE")
    /\ Return(TRUE)
    /\ UNCHANGED obj

EraseAll_Start ==
    /\ At("erase_all", "start")
    /\ obj' = [obj EXCEPT !.write_error = FALSE, !.current_sector = 0, !.write_offset = SectorHdr]
    /\ Call("erased0", "erase_sector", 0, 0)
    /\ UNCHANGED flash

EraseAll_Second ==
    /\ At("erase_all", "erased0")
    /\ IF ret THEN Call("erased1", "erase_sector", 1, 0) ELSE Return(FALSE)
    /\ UNCHANGED <<flash, obj>>

EraseAll_Mark ==
    /\ At("erase_all", "erased1")
    /\ IF ret THEN SetHeader(current, "IN_USE") /\ Return(TRUE)
              ELSE UNCHANGED flash /\ Return(FALSE)
    /\ UNCHANGED obj

ReInitialise_Start ==
    /\ At("re_initialise", "start")
    /\ IF flash_erase_ok THEN Call("erased", "erase_all", 0, 0) ELSE Return(FALSE)
    /\ UNCHANGED <<flash, obj>>

\* Mutant: the image is not written back.
ReInitialise_Erased_NoWrite ==
    /\ At("re_initialise", "erased")
    /\ Return(ret)
    /\ UNCHANGED <<flash, obj>>

ReInitialise_Erased ==
    /\ At("re_initialise", "erased")
    /\ IF ret THEN TailCall("write_all", 0, 0) ELSE Return(FALSE)
    /\ UNCHANGED <<flash, obj>>

-----------------------------------------------------------------------------
(* load_sector(sector = x), with loop variable ofs = y: one block a step   *)

LoadSector ==
    /\ At("load_sector", "start")
    /\ LET block == flash[top.x].log[top.y]
           base  == Bytes(block.num)
           size  == Bytes(block.count)
           Skip  == Goto("start", top.x, top.y + size + BlockHdr)
           end   == top.y >= SectorSize - BlockHdr
       IN  \/ /\ end
              /\ obj' = [obj EXCEPT !.write_offset = top.y]
              /\ Return(TRUE)
           \/ /\ ~end /\ block.state = "AVAILABLE"
              /\ obj' = [obj EXCEPT !.write_offset = top.y]
              /\ Return(TRUE)
           \/ /\ ~end /\ block.state = "WRITING"
              /\ Skip
              /\ UNCHANGED obj
           \/ /\ ~end /\ block.state = "VALID"
              /\ IF base + size > StorageSize
                 THEN Return(FALSE) /\ UNCHANGED obj
                 ELSE /\ obj' = [obj EXCEPT !.mem_buffer = [a \in Addr |->
                                    IF base <= a /\ a < base + size
                                    THEN block.data[a - base + 1] ELSE @[a]]]
                      /\ Skip
    /\ UNCHANGED flash

-----------------------------------------------------------------------------
(* init(), with first_sector = x and the variable of its two loops = y     *)

\* Mutant: the newer sector is read before the older one.
FirstSector_Newest(s) ==
    IF s[1] = "IN_USE" \/ (s[0] = "AVAILABLE" /\ s[1] = "FULL") THEN 1 ELSE 0

\* Where to start reading, from two header states that are not both FULL.
FirstSector(s) ==
    IF s[1] = "FULL" \/ (s[0] = "AVAILABLE" /\ s[1] = "IN_USE") THEN 1 ELSE 0

Init_Headers ==
    /\ At("init", "start")
    /\ LET s == [i \in Sectors |-> flash[i].header]
       IN  /\ obj' = [obj EXCEPT !.mem_buffer = Cleared.mem_buffer, !.states = s]
           /\ IF \/ s[0] = "BAD" \/ s[1] = "BAD"
                 \/ s[0] = s[1] /\ s[0] # "AVAILABLE"
              THEN TailCall("erase_all", 0, 0)
              ELSE Goto("load", FirstSector(s), 0)
    /\ UNCHANGED flash

Init_Load ==
    /\ At("init", "load")
    /\ LET sector == (top.x + top.y) % 2
       IN  \/ top.y = 2 /\ Goto("rewrite", top.x, 0)
           \/ top.y < 2 /\ IF obj.states[sector] \in {"IN_USE", "FULL"}
                           THEN Call("loaded", "load_sector", sector, SectorHdr)
                           ELSE Goto("load", top.x, top.y + 1)
    /\ UNCHANGED <<flash, obj>>

Init_Loaded ==
    /\ At("init", "loaded")
    /\ IF ret THEN Goto("load", top.x, top.y + 1) ELSE TailCall("erase_all", 0, 0)
    /\ UNCHANGED <<flash, obj>>

\* Mutant: first_sector + 1 for first_sector ^ 1.
Init_Rewrite_PlusOne ==
    /\ At("init", "rewrite")
    /\ LET full == obj.states[top.x] = "FULL"
       IN  /\ obj' = [obj EXCEPT !.write_error = FALSE, !.reserved_space = 0,
                                 !.current_sector = IF full THEN top.x + 1 ELSE @]
           /\ IF full THEN Call("rewritten", "write_all", 0, 0) ELSE Goto("erase", top.x, 0)
    /\ UNCHANGED flash

\* If the first sector is full then write out all data so we can erase it.
Init_Rewrite ==
    /\ At("init", "rewrite")
    /\ LET full == obj.states[top.x] = "FULL"
       IN  /\ obj' = [obj EXCEPT !.write_error = FALSE, !.reserved_space = 0,
                                 !.current_sector = IF full THEN Other(top.x) ELSE @]
           /\ IF full THEN Call("rewritten", "write_all", 0, 0) ELSE Goto("erase", top.x, 0)
    /\ UNCHANGED flash

Init_Rewritten ==
    /\ At("init", "rewritten")
    /\ IF ret THEN Goto("erase", top.x, 0) ELSE TailCall("erase_all", 0, 0)
    /\ UNCHANGED <<flash, obj>>

\* Erase any sectors that were marked full when the headers were read.
Init_Erase ==
    /\ At("init", "erase")
    /\ IF top.y = 2
       THEN Return(TRUE) /\ obj' = [obj EXCEPT !.reserved_space = 0]
       ELSE /\ IF obj.states[top.y] = "FULL" THEN Call("erased", "erase_sector", top.y, 0)
                                             ELSE Goto("erase", top.x, top.y + 1)
            /\ UNCHANGED obj
    /\ UNCHANGED flash

Init_Erased ==
    /\ At("init", "erased")
    /\ IF ret THEN Goto("erase", top.x, top.y + 1) ELSE Return(FALSE)
    /\ UNCHANGED <<flash, obj>>

Library == /\ \/ Write_Loop \/ Write_Switched \/ Write_SwitchedFull
              \/ Write_Header \/ Write_Data \/ Write_Valid
              \/ WriteAll_Loop \/ WriteAll_Wrote
              \/ SwitchSectors_Start \/ SwitchSectors_InUse
              \/ SwitchFull_Start \/ SwitchFull_Written \/ SwitchFull_Erased
              \/ EraseSector_Erase \/ EraseSector_Mark
              \/ EraseAll_Start \/ EraseAll_Second \/ EraseAll_Mark
              \/ ReInitialise_Start \/ ReInitialise_Erased \/ LoadSector
              \/ Init_Headers \/ Init_Load \/ Init_Loaded \/ Init_Rewrite
              \/ Init_Rewritten \/ Init_Erase \/ Init_Erased
           /\ UNCHANGED <<armed, may>>

-----------------------------------------------------------------------------
(* The caller (AP_HAL_ChibiOS/Storage.cpp) and the power supply.           *)

Init == /\ flash = [s \in Sectors |-> ErasedSector]
        /\ obj = Cleared
        /\ stack = Caller("off")
        /\ ret = FALSE
        /\ armed = FALSE
        /\ may = [a \in Addr |-> {0}]

Boot == /\ At("caller", "off")
        /\ Call("booting", "init", 0, 0)
        /\ UNCHANGED <<flash, obj, armed, may>>

\* _flash_load: a failed init() is a panic.  The locals of init() are gone.
Booted == /\ At("caller", "booting")
          /\ stack' = Caller(IF ret THEN "idle" ELSE "panic") /\ ret' = FALSE
          /\ may' = IF ret THEN [a \in Addr |-> {obj.mem_buffer[a]}] ELSE may
          /\ obj' = [obj EXCEPT !.states = Cleared.states]
          /\ UNCHANGED <<flash, armed>>

InRange(a, offset, length) == offset <= a /\ a < offset + length

\* Put new bytes in mem_buffer and save them.
Store(r) ==
    /\ At("caller", "idle")
    /\ \E m \in [Addr -> Value] :
         /\ \A a \in Addr : ~InRange(a, r[1], r[2]) => m[a] = obj.mem_buffer[a]
         /\ obj' = [obj EXCEPT !.mem_buffer = m]
         /\ may' = [a \in Addr |-> IF InRange(a, r[1], r[2]) THEN may[a] \cup {m[a]} ELSE may[a]]
    /\ stack' = <<Frame("write", "start", r[1], r[2]), Frame("caller", "storing", r[1], r[2])>>
    /\ ret' = FALSE /\ UNCHANGED <<flash, armed>>

\* write() has returned: what it saved is durable from now on.
Stored == /\ At("caller", "storing")
          /\ stack' = Caller("idle") /\ ret' = FALSE
          /\ may' = IF ret
                    THEN [a \in Addr |-> IF InRange(a, top.x, top.y) THEN {obj.mem_buffer[a]} ELSE may[a]]
                    ELSE may
          /\ UNCHANGED <<flash, obj, armed>>

bottom == stack[Len(stack)]
Running == bottom.pc \in {"idle", "storing"}

\* A program of flash fails and changes nothing.  _flash_write_data starts afresh
\* if the vehicle is disarmed and it has not done so in the last five seconds.
Write_Fault ==
    /\ ProgramFault
    /\ bottom.pc = "storing" /\ At("write", "header")
    /\ \/ Return(FALSE) /\ UNCHANGED may
       \/ /\ flash_erase_ok
          /\ \A i \in 1 .. Len(stack) : stack[i].pc # "failed"
          /\ Call("failed", "re_initialise", 0, 0)
          /\ may' = [a \in Addr |-> Value]
    /\ UNCHANGED <<flash, obj, armed>>

\* re_initialise() has returned to the callback: write() fails all the same.
Write_Failed ==
    /\ At("write", "failed")
    /\ Return(FALSE)
    /\ may' = IF ret THEN [a \in Addr |-> {obj.mem_buffer[a]}] ELSE may
    /\ UNCHANGED <<flash, obj, armed>>

\* The main thread arms and disarms whatever the storage thread is doing.
ArmOrDisarm == /\ Running
               /\ armed' = ~armed
               /\ UNCHANGED <<flash, obj, stack, ret, may>>

\* What a power failure finds: the caller idle or the library at work, and four
\* pairs of sector headers that the next init() does not handle well.
FailPoint ==
    LET h == [s \in Sectors |-> flash[s].header]
    IN  CASE h[0] = "AVAILABLE" /\ h[1] = "AVAILABLE" -> "formatted"
          [] h[0] = "AVAILABLE" /\ h[1] = "IN_USE"    -> "lone_sector_1"
          [] \E s \in Sectors : h[s] = "FULL" /\ h[Other(s)] = "AVAILABLE" -> "marked_full"
          [] \E s \in Sectors : h[s] = "BAD" /\ h[Other(s)] \in {"IN_USE", "FULL"} -> "erased"
          [] OTHER -> IF top.pc \in {"idle", "panic"} \/ top.fn = "overflow" THEN "idle" ELSE "step"

PowerFail == /\ ~At("caller", "off")
             /\ FailPoint \in PowerFailAt
             /\ obj' = Cleared
             /\ stack' = Caller("off")
             /\ ret' = FALSE
             /\ armed' = FALSE
             /\ UNCHANGED <<flash, may>>

Thread == Library \/ Boot \/ Booted \/ Stored \/ Write_Fault \/ Write_Failed

Next == Thread \/ (\E r \in Ranges : Store(r)) \/ ArmOrDisarm \/ PowerFail

\* The storage thread is scheduled again and again: a call makes progress.
Spec == Init /\ [][Next]_vars /\ WF_vars(Thread)

-----------------------------------------------------------------------------
(* Properties.                                                             *)

FunctionNames == {"caller", "init", "load_sector", "write", "write_all", "switch_sectors",
              "switch_full_sector", "erase_sector", "erase_all", "re_initialise", "overflow"}
Places == {"off", "idle", "panic", "booting", "storing", "start", "loop", "switched", "switched_full",
           "failed", "header", "data", "valid", "wrote", "in_use", "written", "erased", "mark",
           "erased0", "erased1", "load", "loaded", "rewrite", "rewritten", "erase"}

\* Every variable stays in its domain; every frame is of a function of the library.
TypeOK ==
    /\ flash \in [Sectors -> Sector]
    /\ obj \in Object
    /\ stack \in Seq([fn : FunctionNames, pc : Places, x : Nat, y : Nat])
    /\ stack # <<>>
    /\ ret \in BOOLEAN
    /\ armed \in BOOLEAN
    /\ may \in [Addr -> SUBSET Value]

Programmed(s) == {o \in 0 .. SectorSize - 1 : flash[s].log[o].state # "AVAILABLE"}
EndOf(s, o) == o + BlockHdr + Bytes(flash[s].log[o].count)

\* FlashTest::flash_write panics on a program that reaches past the end of the
\* sector: write() never leaves such a block, whatever the recursion of write,
\* switch_full_sector and write_all has done to write_offset.
InBounds == \A s \in Sectors : \A o \in Programmed(s) : EndOf(s, o) <= SectorSize

\* load_sector follows the log from the sector header, block after block: in a
\* sector it reads, no block overlaps another one (flash is programmed once
\* between erases) and none lies behind a gap where the scan stops.
LogIsReadable ==
    \A s \in Sectors : flash[s].header \in {"IN_USE", "FULL"} =>
        \A o \in Programmed(s) :
            /\ \A p \in Programmed(s) : p > o => EndOf(s, o) <= p
            /\ o = SectorHdr \/ \E p \in Programmed(s) : EndOf(s, p) = o

\* "we need to reserve some space in next sector to ensure we can successfully
\* do a full write out on init()": the write_all() of init() never runs out of
\* room, so it never gets to switch_sectors().
RewriteFits == ~ \E i, j \in 1 .. Len(stack) :
                    i < j /\ stack[i].fn = "switch_sectors" /\ stack[j].fn = "init"

Abstract == INSTANCE DurableStore WITH
                up <- Running, mem <- IF Running THEN obj.mem_buffer ELSE Cleared.mem_buffer

\* The library is a DurableStore: an acknowledged save survives every later
\* power failure, an interrupted one leaves each byte old or new.
Durable == Abstract!Spec

\* Every boot ends with the store open, and every write() returns, although write(),
\* switch_full_sector() and write_all() call each other: their recursion ends, and
\* before the stack does.
CallsReturn == /\ (bottom.pc = "booting") ~> (bottom.pc = "idle")
               /\ (bottom.pc = "storing") ~> (bottom.pc = "idle")
=============================================================================
