------------------------------ MODULE UrusUart ------------------------------
(***************************************************************************)
(* CoreUrusUARTDriver_Avr: a serial port with two rings shared, without a  *)
(* lock, by the main loop and the interrupt handlers.  A handler is one    *)
(* action (ISR_BLOCK); an action of the main loop is one access to a field *)
(* a handler may change.  Bytes are numbered in the order in which they    *)
(* enter a ring.                                                           *)
(***************************************************************************)
EXTENDS Integers, Sequences

CONSTANTS Size,       \* mask + 1, of both rings
          MaxBytes,   \* bound on the bytes put in each ring
          LeaveRoom   \* write(buffer, size) is called with size < txspace() only

ASSUME SizeAssumption == Size \in Nat \ {0, 1}
ASSUME CallerAssumption == MaxBytes \in Nat /\ LeaveRoom \in BOOLEAN

VARIABLES tx, rx,        \* _txBuffer, _rxBuffer: bytes, head, tail
          tx_in, tx_out, \* history: bytes put in the tx ring, bytes that left it
          rx_in, rx_out, \* the same of the rx ring
          udrie,         \* the data-ready interrupt is enabled (_portTxBits)
          open,          \* _open: the receive interrupt is enabled with it
          nonblocking,   \* _nonblocking_writes
          call           \* the call the main loop is in

txvars == <<tx, tx_in, tx_out, udrie>>
rxvars == <<rx, rx_in, rx_out>>
vars == <<txvars, rxvars, open, nonblocking, call>>

Index == 0 .. Size - 1
Ring(bytes, head, tail) == [bytes |-> bytes, head |-> head, tail |-> tail]
Used(r) == (r.head - r.tail) % Size
\* Mutant: the mask is forgotten.
After_NoWrap(i) == i + 1
After(i) == (i + 1) % Size
NewRing == Ring([i \in Index |-> 0], 0, 0)

\* A call: where it is, its size, and how many of its bytes are in the ring.
CallAt(pc, size, done) == [pc |-> pc, size |-> size, done |-> done]
NoCall == CallAt("none", 0, 0)
Goto(pc, size, done) == call' = CallAt(pc, size, done)

Init == /\ tx = NewRing /\ rx = NewRing
        /\ tx_in = 0 /\ tx_out = 0
        /\ rx_in = 0 /\ rx_out = 0
        /\ udrie = FALSE
        /\ open = FALSE
        /\ nonblocking = FALSE
        /\ call = NoCall

-----------------------------------------------------------------------------
(* The main loop: opening, closing, reading.                               *)

\* begin() masks the interrupts and empties the rings, new or kept; without memory
\* for them the port stays closed.  end() frees them.
Begin ==
    /\ call = NoCall
    /\ open' \in BOOLEAN
    /\ tx' = NewRing /\ rx' = NewRing
    /\ udrie' = FALSE
    /\ tx_out' = tx_in /\ rx_out' = rx_in
    /\ UNCHANGED <<tx_in, rx_in, nonblocking, call>>

End ==
    /\ call = NoCall /\ open
    /\ open' = FALSE
    /\ tx' = NewRing /\ rx' = NewRing
    /\ udrie' = FALSE
    /\ tx_out' = tx_in /\ rx_out' = rx_in
    /\ UNCHANGED <<tx_in, rx_in, nonblocking, call>>

SetBlocking ==
    /\ call = NoCall
    /\ nonblocking' = ~nonblocking
    /\ UNCHANGED <<txvars, rxvars, open, call>>

\* read() of the byte at the tail.
Read ==
    /\ call = NoCall
    /\ open /\ rx.head # rx.tail
    /\ rx' = Ring(rx.bytes, rx.head, After(rx.tail))
    /\ rx_out' = rx_out + 1
    /\ UNCHANGED <<txvars, rx_in, open, nonblocking, call>>

\* flush(): head of the rx ring, then tail of the tx ring.  Each is assigned from
\* the field that the handler leaves alone.
Flush_Rx ==
    /\ call = NoCall
    /\ rx' = Ring(rx.bytes, rx.tail, rx.tail)
    /\ rx_out' = rx_in
    /\ Goto("flush", 0, 0)
    /\ UNCHANGED <<txvars, rx_in, open, nonblocking>>

Flush_Tx ==
    /\ call.pc = "flush"
    /\ tx' = Ring(tx.bytes, tx.head, tx.head)
    /\ tx_out' = tx_in
    /\ call' = NoCall
    /\ UNCHANGED <<rxvars, tx_in, udrie, open, nonblocking>>

-----------------------------------------------------------------------------
(* The main loop: writing.                                                 *)

txspace == Size - Used(tx)

\* write(c): without room it drops the byte or waits, as the port is set.
WriteByte ==
    /\ call = NoCall /\ open /\ tx_in < MaxBytes
    /\ nonblocking => After(tx.head) # tx.tail
    /\ Goto("wait", 1, 0)
    /\ UNCHANGED <<txvars, rxvars, open, nonblocking>>

Wait ==
    /\ call.pc = "wait"
    /\ After(tx.head) # tx.tail
    /\ Goto("copy", 1, 0)
    /\ UNCHANGED <<txvars, rxvars, open, nonblocking>>

\* write(buffer, size) of a port that does not block: "throw away remainder if too
\* much data".  (A port that blocks gets one write(c) after another.)
WriteBuffer(size) ==
    /\ call = NoCall /\ open /\ nonblocking
    /\ tx_in + size <= MaxBytes
    /\ LeaveRoom => size < txspace
    /\ Goto("branch", IF size > txspace THEN txspace ELSE size, 0)
    /\ UNCHANGED <<txvars, rxvars, open, nonblocking>>

\* Mutant: head is moved before the bytes are in place.
Branch_HeadFirst ==
    /\ call.pc = "branch"
    /\ tx' = Ring(tx.bytes, (tx.head + call.size) % Size, tx.tail)
    /\ tx_in' = tx_in + call.size
    /\ Goto("enable", 0, 0)
    /\ UNCHANGED <<tx_out, udrie, rxvars, open, nonblocking>>

\* One memcpy up to the tail, or one up to the end and one from the start.
Branch ==
    /\ call.pc = "branch"
    /\ LET n == Size - tx.head
       IN  Goto("copy", call.size, IF tx.tail > tx.head \/ n > call.size THEN 0 ELSE call.size - n)
    /\ UNCHANGED <<txvars, rxvars, open, nonblocking>>

\* call.done counts the bytes left for the second memcpy.
Part == call.size - call.done

Copy ==
    /\ call.pc = "copy"
    /\ tx' = Ring([i \in Index |-> IF (i - tx.head) % Size < Part
                                   THEN tx_in + 1 + ((i - tx.head) % Size) ELSE tx.bytes[i]],
                  tx.head, tx.tail)
    /\ Goto("head", call.size, call.done)
    /\ UNCHANGED <<tx_in, tx_out, udrie, rxvars, open, nonblocking>>

MoveHead ==
    /\ call.pc = "head"
    /\ tx' = Ring(tx.bytes, (tx.head + Part) % Size, tx.tail)
    /\ tx_in' = tx_in + Part
    /\ IF call.done > 0 THEN Goto("copy", call.done, 0) ELSE Goto("enable", 0, 0)
    /\ UNCHANGED <<tx_out, udrie, rxvars, open, nonblocking>>

Enable ==
    /\ call.pc = "enable"
    /\ udrie' = TRUE
    /\ call' = NoCall
    /\ UNCHANGED <<tx, tx_in, tx_out, rxvars, open, nonblocking>>

-----------------------------------------------------------------------------
(* The interrupt handlers.                                                 *)

\* Mutant: the interrupt is disabled after every byte.
TxIsr_OneByte ==
    /\ udrie
    /\ IF tx.tail # tx.head
       THEN /\ tx' = Ring(tx.bytes, tx.head, After(tx.tail))
            /\ tx_out' = tx_out + 1
       ELSE UNCHANGED <<tx, tx_out>>
    /\ udrie' = FALSE
    /\ UNCHANGED <<tx_in, rxvars, open, nonblocking, call>>

\* The transmitter is ready: send the byte at the tail, or disable the interrupt.
TxIsr ==
    /\ udrie
    /\ \/ /\ tx.tail # tx.head
          /\ tx' = Ring(tx.bytes, tx.head, After(tx.tail))
          /\ tx_out' = tx_out + 1
          /\ UNCHANGED udrie
       \/ /\ tx.tail = tx.head
          /\ udrie' = FALSE
          /\ UNCHANGED <<tx, tx_out>>
    /\ UNCHANGED <<tx_in, rxvars, open, nonblocking, call>>

\* Mutant: a full ring is not noticed.
RxIsr_NoCheck ==
    /\ open /\ rx_in < MaxBytes
    /\ rx' = Ring([rx.bytes EXCEPT ![rx.head] = rx_in + 1], After(rx.head), rx.tail)
    /\ rx_in' = rx_in + 1
    /\ UNCHANGED <<txvars, rx_out, open, nonblocking, call>>

\* A byte has arrived; it is dropped if the ring is full.
RxIsr ==
    /\ open /\ rx_in < MaxBytes
    /\ After(rx.head) # rx.tail
    /\ rx' = Ring([rx.bytes EXCEPT ![rx.head] = rx_in + 1], After(rx.head), rx.tail)
    /\ rx_in' = rx_in + 1
    /\ UNCHANGED <<txvars, rx_out, open, nonblocking, call>>

-----------------------------------------------------------------------------
Write == \/ Wait \/ Branch \/ Copy \/ MoveHead \/ Enable \/ Flush_Tx

Next == \/ Begin \/ End \/ SetBlocking \/ Read \/ Flush_Rx \/ WriteByte \/ Write
        \/ \E n \in 1 .. Size : WriteBuffer(n)
        \/ TxIsr \/ RxIsr

\* The processor runs, and an enabled interrupt is served.
Spec == Init /\ [][Next]_vars /\ WF_vars(Write) /\ WF_vars(TxIsr)

-----------------------------------------------------------------------------
(* Properties.                                                             *)

\* Every variable stays in its domain: head and tail never leave the ring.
TypeOK ==
    /\ \A r \in {tx, rx} : r \in [bytes : [Index -> 0 .. MaxBytes], head : Index, tail : Index]
    /\ {tx_in, tx_out, rx_in, rx_out} \subseteq 0 .. MaxBytes
    /\ udrie \in BOOLEAN /\ open \in BOOLEAN /\ nonblocking \in BOOLEAN
    /\ call \in [pc : {"none", "flush", "wait", "branch", "copy", "head", "enable"},
                 size : 0 .. Size, done : 0 .. Size]

\* The ring holds exactly the bytes that went in and did not come out, in order.
InOrder(r, in, out) ==
    /\ Used(r) = in - out
    /\ \A k \in 1 .. Used(r) : r.bytes[(r.tail + k - 1) % Size] = out + k

\* Every byte the driver accepted for sending is in the ring, in its place, until
\* the handler takes it: only the "remainder" of a write is thrown away.
TxInOrder == InOrder(tx, tx_in, tx_out)

\* Every byte received is there, in its place, until it is read or flushed.
RxInOrder == InOrder(rx, rx_in, rx_out)

\* No byte is left behind in the ring with the data-ready interrupt off, so a write
\* that waits for room gets it.
TxDrains == tx.head # tx.tail ~> tx.head = tx.tail
=============================================================================
