--------------------------- MODULE StorageDriver ---------------------------
(***************************************************************************)
(* AP_HAL_ChibiOS/Storage: a write-behind image of the persistent storage. *)
(* The main thread reads and writes the image and marks lines dirty; the   *)
(* storage thread writes the first dirty line to the backend (FRAM, or     *)
(* AP_FlashStorage, here a store that keeps what it acknowledges: module   *)
(* FlashStorage).  The main thread has the higher priority and does not    *)
(* sleep inside read_block and write_block, so these are atomic and        *)
(* preempt the storage thread between any two accesses of _buffer and      *)
(* _dirty_mask.                                                            *)
(***************************************************************************)
EXTENDS Integers, FiniteSets, Sequences

CONSTANTS LineSize,    \* CH_STORAGE_LINE_SIZE
          NumLines,    \* CH_STORAGE_NUM_LINES
          WordBits,    \* bits in a word of Bitmask
          Value,       \* byte values; a cleared image holds 0
          Blocks,      \* the <<loc, n>> pairs the main thread accesses
          MaxWrites    \* bound on the changes of the image between power-ups

Size == LineSize * NumLines
Addr == 0 .. Size - 1
Line == 0 .. NumLines - 1

ASSUME SizeAssumption == {LineSize, NumLines, WordBits} \subseteq Nat \ {0}
ASSUME CallerAssumption ==
    /\ 0 \in Value
    /\ Blocks \subseteq Nat \X (Nat \ {0})
    /\ MaxWrites \in Nat

VARIABLES using_fram,   \* the board has FRAM: fram.init() finds it at every open
          initialised,  \* _initialised
          buffer,       \* _buffer
          dirty,        \* _dirty_mask: the lines whose bit is set
          stored,       \* what the backend holds
          thread,       \* the storage thread in _timer_tick()
          writes,       \* changes of the image since power-up, see MaxWrites
          wrote,        \* history: the bytes the caller has written since power-up
          raced         \* history: lines written while their bit was being cleared

vars == <<using_fram, initialised, buffer, dirty, stored, thread, writes, wrote, raced>>

Zeros == [a \in Addr |-> 0]
ThreadAt(pc, line, blk, word) == [pc |-> pc, line |-> line, blk |-> blk, word |-> word]
Sleeping == ThreadAt("sleep", 0, <<>>, {})

Word(line) == {l \in Line : l \div WordBits = line \div WordBits}
LineBytes(line) == line * LineSize .. (line + 1) * LineSize - 1

Init == /\ using_fram \in BOOLEAN
        /\ initialised = FALSE
        /\ buffer = Zeros
        /\ dirty = {}
        /\ stored = Zeros
        /\ thread = Sleeping
        /\ writes = 0
        /\ wrote = <<>>
        /\ raced = {}

-----------------------------------------------------------------------------
(* The main thread.                                                        *)

\* Mutant: the image is loaded again on every call.
Open_Again == [buffer |-> stored, dirty |-> {}]

\* _storage_open(): what it leaves of the image and the mask.  take(0) waits for the
\* bus for ever, so a read of FRAM does not fail.
Open == IF initialised THEN [buffer |-> buffer, dirty |-> dirty]
                       ELSE [buffer |-> stored, dirty |-> {}]

InBounds(b) == b[1] < Size - (b[2] - 1)

\* read_block(): the bytes it returns are those of buffer'.
ReadBlock(b) ==
    /\ InBounds(b)
    /\ initialised' = TRUE
    /\ buffer' = Open.buffer
    /\ dirty' = Open.dirty
    /\ UNCHANGED <<using_fram, stored, thread, writes, wrote, raced>>

\* Mutant: Bitmask::set does not check the bit number.
_mark_dirty_Unchecked(loc, length) == loc \div LineSize .. (loc + length) \div LineSize

\* _mark_dirty(): the lines up to that of the byte after the block; Bitmask::set
\* ignores a line that is out of range.
_mark_dirty(loc, length) == (loc \div LineSize .. (loc + length) \div LineSize) \cap Line

\* The lines whose new bytes the storage thread will miss: it has begun to copy
\* the line and will clear its bit, or it holds an older word of the mask.
Missed(lines) ==
    {l \in lines : \/ thread.pc \in {"copy", "program", "load", "store"} /\ l = thread.line
                   \/ thread.pc = "store" /\ l \in Word(thread.line)}

BytesOf(b) == b[1] .. b[1] + b[2] - 1
Put(f, b, data) ==
    [a \in DOMAIN f \cup BytesOf(b) |-> IF a \in BytesOf(b) THEN data[a - b[1] + 1] ELSE f[a]]
Same(b, data) == \A i \in 1 .. b[2] : data[i] = buffer[b[1] + i - 1]

\* write_block() of what the image already holds does nothing, not even open it:
\* the first access of all is a read, by AP_Param::setup().
WriteSame(b, data) ==
    /\ initialised
    /\ InBounds(b) /\ Same(b, data)
    /\ wrote' = Put(wrote, b, data)
    /\ UNCHANGED <<using_fram, initialised, buffer, dirty, stored, thread, writes, raced>>

WriteBlock(b, data) ==
    /\ initialised /\ writes < MaxWrites
    /\ InBounds(b) /\ ~Same(b, data)
    /\ LET lines == _mark_dirty(b[1], b[2])
       IN  /\ buffer' = Put(Open.buffer, b, data)
           /\ dirty' = Open.dirty \cup lines
           /\ raced' = (raced \ lines) \cup Missed(lines)
    /\ wrote' = Put(wrote, b, data)
    /\ writes' = writes + 1
    /\ UNCHANGED <<using_fram, initialised, stored, thread>>

Main == \E b \in Blocks : \/ ReadBlock(b)
                          \/ \E d \in [1 .. b[2] -> Value] : WriteSame(b, d) \/ WriteBlock(b, d)

-----------------------------------------------------------------------------
(* The storage thread.                                                     *)

TimerTick ==
    /\ thread.pc = "sleep"
    /\ initialised /\ dirty # {}
    /\ thread' = ThreadAt("copy", CHOOSE l \in dirty : \A k \in dirty : l <= k, <<>>, {})
    /\ UNCHANGED <<using_fram, initialised, buffer, dirty, stored, writes, wrote, raced>>

\* The backend reads the line byte by byte.
Copy ==
    /\ thread.pc = "copy"
    /\ LET blk == Append(thread.blk, buffer[thread.line * LineSize + Len(thread.blk)])
       IN  thread' = ThreadAt(IF Len(blk) = LineSize THEN "program" ELSE "copy", thread.line, blk, {})
    /\ UNCHANGED <<using_fram, initialised, buffer, dirty, stored, writes, wrote, raced>>

Overwritten(image, bytes) ==
    [a \in Addr |-> IF a \in bytes THEN thread.blk[a - thread.line * LineSize + 1] ELSE image[a]]

\* If it changes sectors on the way, flash saves the whole image besides the line.
Write_Ok ==
    /\ thread.pc = "program"
    /\ \/ stored' = Overwritten(stored, LineBytes(thread.line))
       \/ ~using_fram /\ stored' = Overwritten(buffer, LineBytes(thread.line))
    /\ thread' = ThreadAt("load", thread.line, <<>>, {})
    /\ UNCHANGED <<using_fram, initialised, buffer, dirty, writes, wrote, raced>>

\* Flash refuses the write and stores nothing, or has been re-initialised from the
\* image: the line stays dirty.
Write_Failed ==
    /\ thread.pc = "program" /\ ~using_fram
    /\ stored' \in {stored, buffer}
    /\ thread' = Sleeping
    /\ raced' = raced \ {thread.line}
    /\ UNCHANGED <<using_fram, initialised, buffer, dirty, writes, wrote>>

\* Bitmask::clear(): the word is loaded, and stored without the line's bit.
Clear_Load ==
    /\ thread.pc = "load"
    /\ thread' = ThreadAt("store", thread.line, <<>>, dirty \cap Word(thread.line))
    /\ UNCHANGED <<using_fram, initialised, buffer, dirty, stored, writes, wrote, raced>>

\* Mutant: the bit of the line is not cleared.
Clear_Store_Keep ==
    /\ thread.pc = "store"
    /\ dirty' = (dirty \ Word(thread.line)) \cup thread.word
    /\ thread' = Sleeping
    /\ UNCHANGED <<using_fram, initialised, buffer, stored, writes, wrote, raced>>

\* Mutant: the other lines of the word are cleared too.
Clear_Store_Word ==
    /\ thread.pc = "store"
    /\ dirty' = dirty \ Word(thread.line)
    /\ thread' = Sleeping
    /\ UNCHANGED <<using_fram, initialised, buffer, stored, writes, wrote, raced>>

Clear_Store ==
    /\ thread.pc = "store"
    /\ dirty' = (dirty \ Word(thread.line)) \cup (thread.word \ {thread.line})
    /\ thread' = Sleeping
    /\ UNCHANGED <<using_fram, initialised, buffer, stored, writes, wrote, raced>>

Tick == TimerTick \/ Copy \/ Write_Ok \/ Write_Failed \/ Clear_Load \/ Clear_Store

\* FRAM keeps the bytes it has received of a line; a block of flash is all or nothing.
PowerFail ==
    /\ \/ UNCHANGED stored
       \/ /\ using_fram /\ thread.pc \in {"copy", "program"}
          /\ \E n \in 1 .. Len(thread.blk) :
                stored' = Overwritten(stored, {thread.line * LineSize + i - 1 : i \in 1 .. n})
    /\ initialised' = FALSE
    /\ buffer' = Zeros
    /\ dirty' = {}
    /\ thread' = Sleeping
    /\ writes' = 0
    /\ wrote' = <<>>
    /\ raced' = {}
    /\ UNCHANGED using_fram

Next == Main \/ Tick \/ PowerFail

\* The storage thread runs every 10 ms, and the backend does not refuse for ever.
Spec == Init /\ [][Next]_vars /\ WF_vars(Tick) /\ SF_vars(Write_Ok)

-----------------------------------------------------------------------------
(* Properties.                                                             *)

\* Every variable stays in its domain.
TypeOK ==
    /\ using_fram \in BOOLEAN /\ initialised \in BOOLEAN
    /\ buffer \in [Addr -> Value] /\ stored \in [Addr -> Value]
    /\ dirty \subseteq Line /\ raced \subseteq Line
    /\ thread \in [pc : {"sleep", "copy", "program", "load", "store"}, line : Line,
                   blk : Seq(Value), word : SUBSET Line]
    /\ writes \in 0 .. MaxWrites
    /\ DOMAIN wrote \subseteq Addr

Unsaved(l) == \E a \in LineBytes(l) : buffer[a] # stored[a]

\* A line whose bytes are not in the backend is marked dirty, unless it was written
\* while the storage thread was saving it or clearing a bit of its mask word: the
\* two windows in which an update of _dirty_mask is lost are the only ones.
OnlyRacesLose == initialised => \A l \in Line : Unsaved(l) => l \in dirty \cup raced

\* "If we lose the race then the result is that a line is written more than once,
\* but it won't result in a line not being written."
NoLineUnwritten == initialised => \A l \in Line : Unsaved(l) => l \in dirty

\* read_block returns the bytes last given to write_block, whether the image was
\* open, or held the same bytes, or was loaded between the two calls.
ReadsLastWrite == \A a \in DOMAIN wrote : buffer[a] = wrote[a]

\* Once the caller leaves the image alone every dirty line is saved, although one
\* tick saves one line, a write may fail and the lowest line is always first.
Drained == \A l \in Line : initialised /\ l \in dirty ~> l \notin dirty
=============================================================================
