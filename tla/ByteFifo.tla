------------------------------ MODULE ByteFifo ------------------------------
(***************************************************************************)
(* What an interrupt-driven console input promises its reader: a FIFO of   *)
(* at most Capacity bytes that drops a byte only when it is full.          *)
(***************************************************************************)
EXTENDS Integers, Sequences

CONSTANTS Byte, Capacity

VARIABLE fifo

Init == fifo = <<>>

Put(b) == Len(fifo) < Capacity /\ fifo' = Append(fifo, b)
Get    == fifo # <<>> /\ fifo' = Tail(fifo)

Next == Get \/ \E b \in Byte : Put(b)

Spec == Init /\ [][Next]_fifo
=============================================================================
