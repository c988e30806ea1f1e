---------------------------- MODULE DurableStore ----------------------------
(***************************************************************************)
(* What a persistent block store promises its caller: AP_FlashStorage seen *)
(* from outside.  The caller changes bytes of a memory image and asks for  *)
(* them to be saved; power may fail at any moment; after a restart every   *)
(* byte holds a value the caller may rely on.  may[a] is the set of values *)
(* that byte a is allowed to have after the next restart: a save that was  *)
(* acknowledged leaves exactly one, a save in progress leaves the old and  *)
(* the new ones.                                                           *)
(***************************************************************************)
EXTENDS Integers

CONSTANTS Addr,      \* byte addresses of the image
          Value      \* byte values, 0 among them

VARIABLES up,        \* the store has been opened since the last power-up
          mem,       \* the caller's image, all zero while the store is closed
          may        \* may[a]: values byte a may have after the next restart

vars == <<up, mem, may>>

Zeros == [a \in Addr |-> 0]

Init == /\ up = FALSE
        /\ mem = Zeros
        /\ may = [a \in Addr |-> {0}]

\* Opening the store restores, byte by byte, one of the values promised.
Open == /\ ~up
        /\ up' = TRUE
        /\ mem' \in [Addr -> Value]
        /\ \A a \in Addr : mem'[a] \in may[a]
        /\ may' = [a \in Addr |-> {mem'[a]}]

\* New bytes are put in some places of the image and a save of them begins.
Store == /\ up
         /\ \E A \in SUBSET Addr :
              /\ mem' \in [Addr -> Value]
              /\ \A a \in Addr \ A : mem'[a] = mem[a]
              /\ may' = [a \in Addr |-> IF a \in A THEN may[a] \cup {mem'[a]} ELSE may[a]]
         /\ UNCHANGED up

\* The save of some places is acknowledged: they are durable from now on.
Ack == /\ up
       /\ \E A \in SUBSET Addr :
            may' = [a \in Addr |-> IF a \in A THEN {mem[a]} ELSE may[a]]
       /\ UNCHANGED <<up, mem>>

\* The caller gives up the stored copy and has the image written afresh:
\* nothing is promised until that is acknowledged.
Reformat == /\ up
            /\ may' = [a \in Addr |-> Value]
            /\ UNCHANGED <<up, mem>>

\* Power failure.
Fail == /\ up
        /\ up' = FALSE
        /\ mem' = Zeros
        /\ UNCHANGED may

Next == Open \/ Store \/ Ack \/ Reformat \/ Fail

Spec == Init /\ [][Next]_vars
=============================================================================
