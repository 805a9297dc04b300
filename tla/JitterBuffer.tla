---------------------------- MODULE JitterBuffer ----------------------------
(***************************************************************************)
(* The ring of packet buffers of the native receive path                   *)
(* (app/src/main/cpp/AudioStream.cpp, class JitterBuffer), used by one     *)
(* thread, the Receiver, through getPacketFromJB.                          *)
(*                                                                         *)
(* The buffer saves a copy by handing out its own memory twice:            *)
(* obtainBuffer returns the slot a datagram is received into, and popFront *)
(* returns the slot decode() reads.  One slot, just before the head, is    *)
(* therefore kept in reserve: it is the one decode() is still reading.     *)
(*                                                                         *)
(* The bytes of a slot and its mLength entry are one value, the packet     *)
(* that was received into it.                                              *)
(***************************************************************************)
EXTENDS Integers, Sequences

CONSTANTS
  SIZE,      \* number of slots, 6 in the code
  Packet,    \* what recv() can put in a slot
  NoPacket   \* the content of a slot nothing was received into

ASSUME SizeAssumption == SIZE \in Nat /\ SIZE >= 2
ASSUME NoPacketAssumption == NoPacket \notin Packet

VARIABLES
  mBuffer,   \* the slots
  mHead,     \* the slot popFront returns next
  mTail,     \* the slot the next packet is received into
  lent       \* the slot popFront returned last: *buffer in decode()

jbVars == <<mBuffer, mHead, mTail, lent>>

Slot == 0 .. SIZE - 1
NULL == -1

Successor(i) == IF i + 1 = SIZE THEN 0 ELSE i + 1
ReservedHead == IF mHead = 0 THEN SIZE - 1 ELSE mHead - 1

-----------------------------------------------------------------------------
\* The operations.

\* Mutant: the reserved slot of head 0 is not wrapped to the last slot.
NoWrap_obtainBuffer == IF mTail = mHead - 1 THEN NULL ELSE mTail

\* Mutant: two slots are kept free instead of one.
Cautious_obtainBuffer ==
  IF mTail = ReservedHead \/ Successor(mTail) = ReservedHead THEN NULL ELSE mTail

obtainBuffer == IF mTail = ReservedHead THEN NULL ELSE mTail

empty == mHead = mTail

JBInit ==
  /\ mBuffer = [i \in Slot |-> NoPacket]
  /\ mHead = 0
  /\ mTail = 0
  /\ lent = NULL

\* recv() writes p into the slot of obtainBuffer and pushBack publishes it.
Fill(p) ==
  /\ obtainBuffer # NULL
  /\ mBuffer' = [mBuffer EXCEPT ![obtainBuffer] = p]
  /\ mTail' = Successor(mTail)
  /\ UNCHANGED <<mHead, lent>>

\* Mutant: the head advances before its slot is handed out.
EarlyAdvance_popFront ==
  /\ ~empty
  /\ lent' = Successor(mHead)
  /\ mHead' = Successor(mHead)
  /\ UNCHANGED <<mBuffer, mTail>>

popFront ==
  /\ ~empty
  /\ lent' = mHead
  /\ mHead' = Successor(mHead)
  /\ UNCHANGED <<mBuffer, mTail>>

JBNext == popFront \/ \E p \in Packet : Fill(p)

JBSpec == JBInit /\ [][JBNext]_jbVars

-----------------------------------------------------------------------------
\* The content of the ring, and what it has to be.

Count == IF mHead <= mTail THEN mTail - mHead ELSE mTail - mHead + SIZE

\* The slot that is i places after the head.
SlotAt(i) == IF mHead + i < SIZE THEN mHead + i ELSE mHead + i - SIZE

Queued == [i \in 1 .. Count |-> mBuffer[SlotAt(i - 1)]]

Held == IF lent = NULL THEN NoPacket ELSE mBuffer[lent]

\* The cursors stay inside the ring and every slot holds a packet or nothing.
TypeOK ==
  /\ mBuffer \in [Slot -> Packet \cup {NoPacket}]
  /\ mHead \in Slot
  /\ mTail \in Slot
  /\ lent \in Slot \cup {NULL}

\* Every queued slot holds a packet that was received into it, and the slot
\* that decode() is reading is outside the queue: obtainBuffer can neither
\* hand it out for recv() nor count it as free.
LentIsReserved ==
  /\ lent # NULL => lent = ReservedHead
  /\ \A i \in 0 .. Count - 1 : SlotAt(i) # lent /\ mBuffer[SlotAt(i)] \in Packet

\* The ring refuses a packet exactly when SIZE - 1 packets wait: the cursors
\* never make a full ring look empty, and only the reserved slot is lost.
RefusesOnlyWhenFull == obtainBuffer = NULL <=> Count = SIZE - 1

\* The ring, its two cursors and the lent slot implement the FIFO with one
\* held packet: packets come out in the order they went in, none twice, and
\* filling the ring never changes the packet decode() is reading.
Fifo == INSTANCE PacketFifo
          WITH Capacity <- SIZE - 1, queue <- Queued, held <- Held

ImplementsFifo == Fifo!FifoSpec
=============================================================================
