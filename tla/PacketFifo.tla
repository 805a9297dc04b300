----------------------------- MODULE PacketFifo -----------------------------
(***************************************************************************)
(* What a jitter buffer promises to the thread that plays packets: a FIFO  *)
(* of at most Capacity packets, and one more packet, held, that was taken  *)
(* from its front and that nothing touches until the next one is taken.    *)
(* It is the abstract specification that JitterBuffer implements.          *)
(***************************************************************************)
EXTENDS Integers, Sequences

CONSTANTS
  Capacity,  \* how many packets can wait in the queue
  Packet,    \* the packets
  NoPacket   \* held before the first packet is taken

VARIABLES queue, held

fifoVars == <<queue, held>>

FifoInit == queue = <<>> /\ held = NoPacket

Put(p) ==
  /\ Len(queue) < Capacity
  /\ queue' = Append(queue, p)
  /\ held' = held

Take ==
  /\ queue # <<>>
  /\ held' = Head(queue)
  /\ queue' = Tail(queue)

FifoNext == Take \/ \E p \in Packet : Put(p)

FifoSpec == FifoInit /\ [][FifoNext]_fifoVars
=============================================================================
