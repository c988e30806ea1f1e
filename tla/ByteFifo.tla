------------------------------ MODULE ByteFifo ------------------------------
(***************************************************************************)
(* What a ByteBuffer promises the thread that writes it and the thread     *)
(* that reads it: a bounded first-in first-out queue of bytes.             *)
(***************************************************************************)
EXTENDS Integers, Sequences

CONSTANTS Byte, Capacity

VARIABLES offered, \* the bytes the writer's current call wants to add
          queue,   \* bytes added and not yet taken
          taken    \* the bytes the last call took

vars == <<offered, queue, taken>>

Init == offered = <<>> /\ queue = <<>> /\ taken = <<>>

\* The writer makes a call.
Offer == /\ offered = <<>>
         /\ offered' \in Seq(Byte)
         /\ UNCHANGED <<queue, taken>>

\* Some of what was offered is added at the end, never beyond the capacity.
Put == /\ \E k \in 0 .. Len(offered) : queue' = queue \o SubSeq(offered, 1, k)
       /\ Len(queue') <= Capacity
       /\ offered' = <<>>
       /\ UNCHANGED taken

\* The reader takes the k oldest bytes.
Take == \E k \in 0 .. Len(queue) :
           /\ taken' = SubSeq(queue, 1, k)
           /\ queue' = SubSeq(queue, k + 1, Len(queue))
           /\ UNCHANGED offered

\* The reader replaces the bytes at the front.
Update == /\ queue' \in Seq(Byte)
          /\ Len(queue') = Len(queue)
          /\ UNCHANGED <<offered, taken>>

Clear == queue' = <<>> /\ taken' = <<>> /\ UNCHANGED offered

Next == Offer \/ Put \/ Take \/ Update \/ Clear

Spec == Init /\ [][Next]_vars
=============================================================================
