------------------------- MODULE JitterBufferProofs -------------------------
(***************************************************************************)
(* JitterBuffer is correct for every SIZE >= 2 and every set of packets:   *)
(* its invariants hold and it implements PacketFifo.                       *)
(***************************************************************************)
EXTENDS JitterBuffer, SequenceTheorems, TLAPS

\* The inductive invariant.
JBInv == TypeOK /\ LentIsReserved

LEMMA CursorArithmetic ==
  ASSUME TypeOK
  PROVE  /\ Successor(mHead) \in Slot
         /\ Successor(mTail) \in Slot
         /\ ReservedHead \in Slot
         /\ Count \in 0 .. SIZE - 1
         /\ \A i \in 0 .. SIZE - 1 : SlotAt(i) \in Slot
  BY SizeAssumption DEF TypeOK, Slot, Successor, ReservedHead, Count, SlotAt

\* The ring refuses a packet exactly when SIZE - 1 packets wait in it.
LEMMA RefusesLemma ==
  ASSUME TypeOK
  PROVE  RefusesOnlyWhenFull
  BY SizeAssumption DEF TypeOK, RefusesOnlyWhenFull, obtainBuffer, ReservedHead,
     Count, Slot, NULL

LEMMA FillStep ==
  ASSUME JBInv, NEW p \in Packet, Fill(p)
  PROVE  /\ JBInv'
         /\ Count < SIZE - 1
         /\ Count' = Count + 1
         /\ mTail = SlotAt(Count)
         /\ \A i \in 0 .. SIZE - 1 : SlotAt(i)' = SlotAt(i)
         /\ \A i \in 0 .. Count - 1 : SlotAt(i) # mTail
         /\ lent # mTail
<1> USE SizeAssumption
<1>1. TypeOK /\ LentIsReserved /\ mTail # ReservedHead /\ obtainBuffer = mTail
  BY DEF JBInv, Fill, obtainBuffer
<1>2. mBuffer' = [mBuffer EXCEPT ![mTail] = p] /\ mTail' = Successor(mTail)
      /\ mHead' = mHead /\ lent' = lent
  BY <1>1 DEF Fill
<1>3. TypeOK'
  BY <1>1, <1>2, CursorArithmetic DEF TypeOK
<1>4. Count < SIZE - 1 /\ Count' = Count + 1 /\ mTail = SlotAt(Count)
  BY <1>1, <1>2 DEF TypeOK, Count, SlotAt, ReservedHead, Successor, Slot
<1>5. /\ \A i \in 0 .. SIZE - 1 : SlotAt(i)' = SlotAt(i)
      /\ \A i \in 0 .. Count - 1 : SlotAt(i) # mTail
  BY <1>1, <1>2 DEF TypeOK, Count, SlotAt, Slot
<1>6. lent # mTail
  BY <1>1 DEF LentIsReserved, TypeOK, Slot, NULL
<1>7. LentIsReserved'
  <2>1. (lent # NULL => lent = ReservedHead)'
    BY <1>1, <1>2 DEF LentIsReserved, ReservedHead
  <2>2. ASSUME NEW i \in 0 .. Count
        PROVE  SlotAt(i) # lent /\ mBuffer'[SlotAt(i)] \in Packet
    <3>1. CASE i = Count
      BY <3>1, <1>1, <1>2, <1>4, <1>6 DEF TypeOK
    <3>2. CASE i # Count
      <4>1. i \in 0 .. Count - 1 /\ SlotAt(i) \in Slot
        BY <3>2, <1>1, CursorArithmetic
      <4>2. SlotAt(i) # mTail /\ SlotAt(i) # lent /\ mBuffer[SlotAt(i)] \in Packet
        BY <4>1, <1>1, <1>5 DEF LentIsReserved
      <4> QED
        BY <4>1, <4>2, <1>1, <1>2 DEF TypeOK
    <3> QED
      BY <3>1, <3>2
  <2>3. Count \in 0 .. SIZE - 1
    BY <1>1, CursorArithmetic
  <2>4. \A i \in 0 .. Count' - 1 : SlotAt(i)' # lent' /\ mBuffer'[SlotAt(i)'] \in Packet
    BY <2>2, <2>3, <1>2, <1>4, <1>5
  <2> QED
    BY <2>1, <2>4 DEF LentIsReserved
<1> QED
  BY <1>3, <1>4, <1>5, <1>6, <1>7 DEF JBInv

LEMMA PopStep ==
  ASSUME JBInv, popFront
  PROVE  /\ JBInv'
         /\ Count > 0
         /\ Count' = Count - 1
         /\ mHead = SlotAt(0)
         /\ \A i \in 0 .. SIZE - 2 : SlotAt(i)' = SlotAt(i + 1)
<1> USE SizeAssumption
<1>1. TypeOK /\ LentIsReserved /\ mHead # mTail
  BY DEF JBInv, popFront, empty
<1>2. mHead' = Successor(mHead) /\ lent' = mHead /\ mBuffer' = mBuffer /\ mTail' = mTail
  BY DEF popFront
<1>3. TypeOK'
  BY <1>1, <1>2, CursorArithmetic DEF TypeOK
<1>4. Count > 0 /\ Count' = Count - 1 /\ mHead = SlotAt(0)
  BY <1>1, <1>2 DEF TypeOK, Count, SlotAt, Successor, Slot
<1>5. \A i \in 0 .. SIZE - 2 : SlotAt(i)' = SlotAt(i + 1)
  BY <1>1, <1>2 DEF TypeOK, SlotAt, Successor, Slot
<1>6. LentIsReserved'
  <2>1. (lent # NULL => lent = ReservedHead)'
    BY <1>1, <1>2 DEF TypeOK, ReservedHead, Successor, Slot
  <2>2. Count \in 0 .. SIZE - 1
    BY <1>1, CursorArithmetic
  <2>3. ASSUME NEW i \in 0 .. Count - 2
        PROVE  SlotAt(i)' # lent' /\ mBuffer'[SlotAt(i)'] \in Packet
    <3>1. SlotAt(i)' = SlotAt(i + 1) /\ i + 1 \in 0 .. Count - 1
      BY <2>2, <1>5
    <3>2. SlotAt(i + 1) # mHead
      BY <2>2, <1>1, <3>1 DEF TypeOK, SlotAt, Slot
    <3> QED
      BY <3>1, <3>2, <1>1, <1>2 DEF LentIsReserved
  <2>4. \A i \in 0 .. Count' - 1 : SlotAt(i)' # lent' /\ mBuffer'[SlotAt(i)'] \in Packet
    BY <2>2, <2>3, <1>4
  <2> QED
    BY <2>1, <2>4 DEF LentIsReserved
<1> QED
  BY <1>3, <1>4, <1>5, <1>6 DEF JBInv

LEMMA JBInvInit == JBInit => JBInv
  BY SizeAssumption DEF JBInit, JBInv, TypeOK, LentIsReserved, Count, Slot, NULL

LEMMA JBInvStep == JBInv /\ [JBNext]_jbVars => JBInv'
<1> SUFFICES ASSUME JBInv, [JBNext]_jbVars PROVE JBInv'
  OBVIOUS
<1>1. CASE popFront
  BY <1>1, PopStep
<1>2. ASSUME NEW p \in Packet, Fill(p) PROVE JBInv'
  BY <1>2, FillStep
<1>3. CASE UNCHANGED jbVars
  BY <1>3 DEF jbVars, JBInv, TypeOK, LentIsReserved, ReservedHead, Count, SlotAt
<1> QED
  BY <1>1, <1>2, <1>3 DEF JBNext

\* The cursors stay inside the ring and every slot holds a packet or nothing.
THEOREM JitterBufferTypeOK == JBSpec => []TypeOK
<1>1. JBInv => TypeOK
  BY DEF JBInv
<1> QED
  BY <1>1, JBInvInit, JBInvStep, PTL DEF JBSpec

\* The slot decode() reads is never among the queued ones, so a datagram is
\* never received over the packet being played (obtainBuffer's reserve).
THEOREM LentSlotReserved == JBSpec => []LentIsReserved
<1>1. JBInv => LentIsReserved
  BY DEF JBInv
<1> QED
  BY <1>1, JBInvInit, JBInvStep, PTL DEF JBSpec

\* obtainBuffer refuses a packet exactly when SIZE - 1 packets wait.
THEOREM FullIsExact == JBSpec => []RefusesOnlyWhenFull
  BY JitterBufferTypeOK, RefusesLemma, PTL

-----------------------------------------------------------------------------
(***************************************************************************)
(* Refinement.                                                             *)
(***************************************************************************)

LEMMA QueuedIsSeq ==
  ASSUME JBInv
  PROVE  /\ Queued \in Seq(Packet)
         /\ Len(Queued) = Count
         /\ \A i \in 1 .. Count : Queued[i] = mBuffer[SlotAt(i - 1)]
<1>1. Count \in Nat
  BY CursorArithmetic, SizeAssumption DEF JBInv
<1>2. \A i \in 1 .. Count : mBuffer[SlotAt(i - 1)] \in Packet
  BY <1>1 DEF JBInv, LentIsReserved
<1> QED
  BY <1>1, <1>2 DEF Queued

LEMMA FifoInitStep == JBInit => Fifo!FifoInit
<1> SUFFICES ASSUME JBInit PROVE Fifo!FifoInit
  OBVIOUS
<1>1. Count = 0
  BY SizeAssumption DEF JBInit, Count
<1>2. JBInv
  BY JBInvInit
<1>3. Queued = <<>>
  BY <1>1, <1>2, QueuedIsSeq, EmptySeq
<1> QED
  BY <1>3 DEF JBInit, Fifo!FifoInit, Held

LEMMA FillIsPut ==
  ASSUME JBInv, NEW p \in Packet, Fill(p)
  PROVE  Fifo!Put(p)
<1>1. JBInv' /\ Count < SIZE - 1 /\ Count' = Count + 1 /\ mTail = SlotAt(Count)
      /\ (\A i \in 0 .. SIZE - 1 : SlotAt(i)' = SlotAt(i))
      /\ (\A i \in 0 .. Count - 1 : SlotAt(i) # mTail) /\ lent # mTail
  BY FillStep
<1>2. Queued \in Seq(Packet) /\ Len(Queued) = Count
      /\ \A i \in 1 .. Count : Queued[i] = mBuffer[SlotAt(i - 1)]
  BY QueuedIsSeq
<1>3. Queued' \in Seq(Packet) /\ Len(Queued') = Count + 1
      /\ \A i \in 1 .. Count + 1 : Queued'[i] = mBuffer'[SlotAt(i - 1)']
  <2>1. (Queued \in Seq(Packet) /\ Len(Queued) = Count
         /\ \A i \in 1 .. Count : Queued[i] = mBuffer[SlotAt(i - 1)])'
    BY <1>1, QueuedIsSeq, PTL
  <2> QED
    BY <2>1, <1>1
<1>4. TypeOK /\ Count \in 0 .. SIZE - 1 /\ mTail \in Slot
      /\ \A i \in 0 .. SIZE - 1 : SlotAt(i) \in Slot
  BY CursorArithmetic DEF JBInv, TypeOK
<1>5. mBuffer' = [mBuffer EXCEPT ![mTail] = p] /\ lent' = lent
  BY DEF Fill, obtainBuffer
<1>6. ASSUME NEW i \in 1 .. Count + 1
      PROVE  Queued'[i] = Append(Queued, p)[i]
  <2>1. CASE i = Count + 1
    <3>1. Queued'[i] = mBuffer'[mTail]
      BY <2>1, <1>1, <1>3, <1>4, SizeAssumption
    <3>2. mBuffer'[mTail] = p
      BY <1>4, <1>5 DEF TypeOK
    <3> QED
      BY <2>1, <3>1, <3>2, <1>2, AppendProperties
  <2>2. CASE i # Count + 1
    <3>1. i \in 1 .. Count /\ i - 1 \in 0 .. Count - 1 /\ i - 1 \in 0 .. SIZE - 1
      BY <2>2, <1>4, SizeAssumption
    <3>2. Queued'[i] = mBuffer'[SlotAt(i - 1)]
      BY <3>1, <1>1, <1>3
    <3>3. mBuffer'[SlotAt(i - 1)] = mBuffer[SlotAt(i - 1)]
      BY <3>1, <1>1, <1>4, <1>5 DEF TypeOK
    <3> QED
      BY <3>1, <3>2, <3>3, <1>2, AppendProperties
  <2> QED
    BY <2>1, <2>2
<1>7. Append(Queued, p) \in Seq(Packet) /\ Len(Append(Queued, p)) = Count + 1
  BY <1>2, AppendProperties
<1>8. Queued' = Append(Queued, p)
  BY <1>3, <1>6, <1>7, SeqEqual
<1>9. Held' = Held
  BY <1>1, <1>4, <1>5 DEF Held, TypeOK
<1> QED
  BY <1>1, <1>2, <1>8, <1>9 DEF Fifo!Put

LEMMA PopIsTake ==
  ASSUME JBInv, popFront
  PROVE  Fifo!Take
<1>1. JBInv' /\ Count > 0 /\ Count' = Count - 1 /\ mHead = SlotAt(0)
      /\ \A i \in 0 .. SIZE - 2 : SlotAt(i)' = SlotAt(i + 1)
  BY PopStep
<1>2. Queued \in Seq(Packet) /\ Len(Queued) = Count
      /\ \A i \in 1 .. Count : Queued[i] = mBuffer[SlotAt(i - 1)]
  BY QueuedIsSeq
<1>3. Queued' \in Seq(Packet) /\ Len(Queued') = Count - 1
      /\ \A i \in 1 .. Count - 1 : Queued'[i] = mBuffer'[SlotAt(i - 1)']
  <2>1. (Queued \in Seq(Packet) /\ Len(Queued) = Count
         /\ \A i \in 1 .. Count : Queued[i] = mBuffer[SlotAt(i - 1)])'
    BY <1>1, QueuedIsSeq, PTL
  <2> QED
    BY <2>1, <1>1
<1>4. TypeOK /\ Count \in 1 .. SIZE - 1
  BY <1>1, CursorArithmetic, SizeAssumption DEF JBInv
<1>5. mBuffer' = mBuffer /\ lent' = mHead
  BY DEF popFront
<1>6. Queued # <<>>
  BY <1>2, <1>4, EmptySeq
<1>7. Tail(Queued) \in Seq(Packet) /\ Len(Tail(Queued)) = Count - 1
      /\ \A i \in 1 .. Count - 1 : Tail(Queued)[i] = Queued[i + 1]
  BY <1>2, <1>6, HeadTailProperties
<1>8. ASSUME NEW i \in 1 .. Count - 1
      PROVE  Queued'[i] = Tail(Queued)[i]
  <2>1. i - 1 \in 0 .. SIZE - 2 /\ i + 1 \in 1 .. Count /\ (i - 1) + 1 = i
        /\ (i + 1) - 1 = i
    BY <1>4, SizeAssumption
  <2>2. Queued'[i] = mBuffer[SlotAt(i)]
    BY <2>1, <1>1, <1>3, <1>5
  <2>3. Queued[i + 1] = mBuffer[SlotAt(i)]
    BY <2>1, <1>2
  <2> QED
    BY <2>2, <2>3, <1>7
<1>9. Queued' = Tail(Queued)
  BY <1>3, <1>7, <1>8, SeqEqual
<1>10. Held' = Head(Queued)
  <2>1. Head(Queued) = Queued[1]
    BY <1>2, <1>6
  <2>2. Queued[1] = mBuffer[mHead]
    BY <1>1, <1>2, <1>4
  <2> QED
    BY <2>1, <2>2, <1>4, <1>5 DEF Held, TypeOK, Slot, NULL
<1> QED
  BY <1>6, <1>9, <1>10 DEF Fifo!Take

LEMMA FifoStep == JBInv /\ [JBNext]_jbVars => [Fifo!FifoNext]_(Fifo!fifoVars)
<1> SUFFICES ASSUME JBInv, [JBNext]_jbVars
             PROVE  [Fifo!FifoNext]_(Fifo!fifoVars)
  OBVIOUS
<1>1. CASE popFront
  BY <1>1, PopIsTake DEF Fifo!FifoNext
<1>2. ASSUME NEW p \in Packet, Fill(p)
      PROVE  [Fifo!FifoNext]_(Fifo!fifoVars)
  BY <1>2, FillIsPut DEF Fifo!FifoNext
<1>3. CASE UNCHANGED jbVars
  <2>1. UNCHANGED <<Queued, Held>>
    BY <1>3 DEF jbVars, Queued, Held, Count, SlotAt
  <2> QED
    BY <2>1 DEF Fifo!fifoVars
<1> QED
  BY <1>1, <1>2, <1>3 DEF JBNext

\* The ring implements the FIFO with one held packet: whatever the order of
\* fills and pops, packets are played in the order they were received, none
\* twice, and the packet being played is not overwritten.
THEOREM RingImplementsFifo == JBSpec => ImplementsFifo
<1>1. JBSpec => []JBInv
  BY JBInvInit, JBInvStep, PTL DEF JBSpec
<1>2. JBSpec => Fifo!FifoInit
  BY FifoInitStep DEF JBSpec
<1> QED
  BY <1>1, <1>2, FifoStep, PTL DEF JBSpec, ImplementsFifo, Fifo!FifoSpec
=============================================================================
