-------------------------------- MODULE Fifo --------------------------------
(***************************************************************************)
(* What a pipe promises: a bounded first-in first-out queue of bytes.      *)
(***************************************************************************)
EXTENDS Naturals, Sequences

CONSTANTS Byte, Capacity

VARIABLES q,    \* the bytes in the pipe, the oldest first
          out   \* the byte delivered last

fifoVars == <<q, out>>

Put(b) ==
    /\ Len(q) < Capacity
    /\ q' = Append(q, b)
    /\ UNCHANGED out

Get ==
    /\ q # <<>>
    /\ out' = Head(q)
    /\ q' = Tail(q)

FifoNext == Get \/ \E b \in Byte : Put(b)

FifoInit == q = <<>> /\ out \in Byte

FifoSpec == FifoInit /\ [][FifoNext]_fifoVars
=============================================================================
