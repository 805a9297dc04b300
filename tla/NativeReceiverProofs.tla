------------------------ MODULE NativeReceiverProofs ------------------------
(***************************************************************************)
(* The native receive path, for any sizes of the jitter buffer and of the  *)
(* socket's queue and any numbers of datagrams, starts and failures.       *)
(*                                                                         *)
(* 1. The ring is the FIFO of JitterBufferProofs inside the receiver too.  *)
(* 2. Each step is a step of LossyStream or none, so datagrams are played  *)
(*    in the order of arrival (ReceiverImplementsStream).                  *)
(* 3. From that order: what waits is sorted, so the drain loop drops only  *)
(*    what arrived last (ReceiverDropsTheLatest), and what leaves a place  *)
(*    is not left behind there (ReceiverForgetsNothing).                   *)
(***************************************************************************)
EXTENDS NativeReceiver, SequenceTheorems, FiniteSetTheorems, TLAPS

JBProofs == INSTANCE JitterBufferProofs
              WITH Packet <- Datagram, NoPacket <- NoDatagram

StreamProofs == INSTANCE LossyStreamProofs
                  WITH PacketItems <- 1, MaxSkip <- 1, last <- arrivals,
                       pending <- Numbers(InDecode \o JB!Queued \o sock),
                       played <- Numbers(played)

\* The invariant of the ring.
Ring == JB!TypeOK /\ JB!LentIsReserved

\* decode() has a packet.
Working == pc \in {"drain", "check", "write"}

WorkInv ==
  /\ Ring
  /\ sock \in Seq(Datagram) /\ played \in Seq(Datagram)
  /\ arrivals \in 0 .. MaxArrivals
  /\ Working => JB!Held \in Datagram

\* What the stream calls pending, the packet of decode() first.
Waiting == InDecode \o JB!Queued \o sock

\* What a step does to the stream: nothing; it loses a datagram; it plays the first
\* one; one arrives and is taken in or not.
Same == Waiting' = Waiting /\ UNCHANGED <<played, arrivals>>

Lost ==
  \E s \in Seq(Datagram), u \in Seq(Datagram) :
    /\ u # <<>> /\ Waiting = s \o u /\ Waiting' = s \o Tail(u)
    /\ UNCHANGED <<played, arrivals>>

PlayedFirst ==
  /\ Waiting # <<>> /\ played' = Append(played, Head(Waiting))
  /\ Waiting' = Tail(Waiting) /\ UNCHANGED arrivals

Arrived ==
  /\ arrivals' = arrivals + 1 /\ UNCHANGED played
  /\ \/ Waiting' = Waiting
     \/ \E d \in Datagram : d.id = arrivals + 1 /\ Waiting' = Append(Waiting, d)

\* Exactly one of six.
OneOf(a, b, c, d, e, f) ==
  \/ a /\ ~b /\ ~c /\ ~d /\ ~e /\ ~f
  \/ ~a /\ b /\ ~c /\ ~d /\ ~e /\ ~f
  \/ ~a /\ ~b /\ c /\ ~d /\ ~e /\ ~f
  \/ ~a /\ ~b /\ ~c /\ d /\ ~e /\ ~f
  \/ ~a /\ ~b /\ ~c /\ ~d /\ e /\ ~f
  \/ ~a /\ ~b /\ ~c /\ ~d /\ ~e /\ f

\* The places that are sequences, as sets.
InSock == ToSet(sock)
InRing == ToSet(JB!Queued)
Held == ToSet(InDecode)
Heard == ToSet(played)

Everywhere ==
  accepted \cup InSock \cup InRing \cup Held \cup Heard \cup discarded \cup dropped

\* NothingVanishes, and that a number yet to come is nowhere.
PlaceInv ==
  /\ \A d \in accepted : d.kind # "blank" =>
       OneOf(d \in InSock, d \in InRing, d \in Held, d \in Heard, d \in discarded,
             d \in dropped)
  /\ \A d \in Everywhere : d.id \in Int /\ d.id <= arrivals

-----------------------------------------------------------------------------
\* The ring inside the receiver: JitterBufferProofs says what its two operations do.
LEMMA NoDatagramOutside == NoDatagram \notin Datagram
  BY DEF NoDatagram, Datagram

LEMMA Cursors ==
  /\ Ring <=> JBProofs!JBInv
  /\ JB!Queued = JBProofs!Queued /\ JB!Held = JBProofs!Held
<1>1. JB!Count = JBProofs!Count
  BY DEF JB!Count, JBProofs!Count
<1>2. \A i : JB!SlotAt(i) = JBProofs!SlotAt(i)
  BY DEF JB!SlotAt, JBProofs!SlotAt
<1>3. JB!Held = JBProofs!Held
  BY DEF JB!Held, JBProofs!Held, JB!NULL, JBProofs!NULL
<1>4. JB!Queued = JBProofs!Queued
  BY <1>1, <1>2 DEF JB!Queued, JBProofs!Queued
<1>5. JB!TypeOK <=> JBProofs!TypeOK
  BY DEF JB!TypeOK, JBProofs!TypeOK, JB!Slot, JBProofs!Slot, JB!NULL, JBProofs!NULL
<1>6. JB!LentIsReserved <=> JBProofs!LentIsReserved
  BY <1>1, <1>2
  DEF JB!LentIsReserved, JBProofs!LentIsReserved, JB!ReservedHead, JBProofs!ReservedHead,
      JB!NULL, JBProofs!NULL
<1> QED
  BY <1>3, <1>4, <1>5, <1>6 DEF Ring, JBProofs!JBInv

LEMMA RingQueue ==
  ASSUME Ring
  PROVE  JB!Queued \in Seq(Datagram) /\ Len(JB!Queued) = JB!Count
<1>1. JB!Count = JBProofs!Count
  BY DEF JB!Count, JBProofs!Count
<1> QED
  BY <1>1, Cursors, JBProofs!QueuedIsSeq, ReceiverAssumption, NoDatagramOutside

LEMMA RingStays ==
  ASSUME UNCHANGED jbVars
  PROVE  UNCHANGED <<JB!Queued, JB!Held>> /\ (Ring => Ring')
  BY DEF jbVars, Ring, JB!Queued, JB!Held, JB!TypeOK, JB!LentIsReserved, JB!Count,
         JB!SlotAt, JB!ReservedHead

LEMMA RingFill ==
  ASSUME Ring, NEW d \in Datagram, JB!Fill(d)
  PROVE  Ring' /\ JB!Queued' = Append(JB!Queued, d) /\ JB!Held' = JB!Held
<1>1. JBProofs!JBInv /\ JBProofs!Fill(d)
  BY Cursors
  DEF JBProofs!Fill, JB!Fill, JB!obtainBuffer, JBProofs!obtainBuffer, JB!NULL, JBProofs!NULL,
      JB!ReservedHead, JBProofs!ReservedHead, JB!Successor, JBProofs!Successor
<1>2. JBProofs!JBInv'
  BY <1>1, JBProofs!FillStep, ReceiverAssumption, NoDatagramOutside
<1>3. JBProofs!Queued' = Append(JBProofs!Queued, d) /\ JBProofs!Held' = JBProofs!Held
  BY <1>1, JBProofs!FillIsPut, ReceiverAssumption, NoDatagramOutside DEF JBProofs!Fifo!Put
<1>4. (/\ Ring <=> JBProofs!JBInv
       /\ JB!Queued = JBProofs!Queued /\ JB!Held = JBProofs!Held)'
  BY Cursors, PTL
<1> QED
  BY <1>2, <1>3, <1>4, Cursors

LEMMA RingPop ==
  ASSUME Ring, JB!popFront
  PROVE  /\ Ring' /\ JB!Queued # <<>>
         /\ JB!Queued' = Tail(JB!Queued) /\ JB!Held' = Head(JB!Queued)
<1>1. JBProofs!JBInv /\ JBProofs!popFront
  BY Cursors
  DEF JBProofs!popFront, JB!popFront, JB!empty, JBProofs!empty, JB!Successor,
      JBProofs!Successor
<1>2. JBProofs!JBInv'
  BY <1>1, JBProofs!PopStep, ReceiverAssumption, NoDatagramOutside
<1>3. /\ JBProofs!Queued # <<>>
      /\ JBProofs!Queued' = Tail(JBProofs!Queued) /\ JBProofs!Held' = Head(JBProofs!Queued)
  BY <1>1, JBProofs!PopIsTake, ReceiverAssumption, NoDatagramOutside DEF JBProofs!Fifo!Take
<1>4. (/\ Ring <=> JBProofs!JBInv
       /\ JB!Queued = JBProofs!Queued /\ JB!Held = JBProofs!Held)'
  BY Cursors, PTL
<1> QED
  BY <1>2, <1>3, <1>4, Cursors

-----------------------------------------------------------------------------
\* Sequences: the head moves from one to the end of the one before, or goes.
LEMMA Split ==
  ASSUME NEW S, NEW s \in Seq(S), s # <<>>
  PROVE  Head(s) \in S /\ Tail(s) \in Seq(S) /\ s = <<Head(s)>> \o Tail(s)
<1>1. Head(s) \in S /\ Tail(s) \in Seq(S)
  BY HeadTailProperties
<1> DEFINE t == <<Head(s)>> \o Tail(s)
<1>2. t \in Seq(S) /\ Len(t) = Len(s) /\ \A i \in 1 .. Len(t) : t[i] = s[i]
  BY <1>1, EmptySeq
<1> HIDE DEF t
<1>3. t = s
  BY <1>2, SeqEqual
<1> QED
  BY <1>1, <1>3 DEF t

LEMMA Passing ==
  ASSUME NEW S, NEW t \in Seq(S), NEW u \in Seq(S), u # <<>>
  PROVE  Append(t, Head(u)) \o Tail(u) = t \o u
<1>1. Head(u) \in S /\ Tail(u) \in Seq(S) /\ u = <<Head(u)>> \o Tail(u)
  BY Split
<1>2. Append(t, Head(u)) = t \o <<Head(u)>>
  BY <1>1, AppendIsConcat
<1>3. <<Head(u)>> \in Seq(S)
  BY <1>1
<1>4. (t \o <<Head(u)>>) \o Tail(u) = t \o (<<Head(u)>> \o Tail(u))
  BY <1>1, <1>3, ConcatAssociative
<1> QED
  BY <1>1, <1>2, <1>4

LEMMA First ==
  ASSUME NEW S, NEW x \in S, NEW t \in Seq(S)
  PROVE  /\ <<x>> \o t \in Seq(S) /\ <<x>> \o t # <<>>
         /\ Head(<<x>> \o t) = x /\ Tail(<<x>> \o t) = t
<1> DEFINE s == <<x>> \o t
<1>1. <<x>> \in Seq(S) /\ Len(<<x>>) = 1
  OBVIOUS
<1>2. s \in Seq(S) /\ Len(s) = 1 + Len(t) /\ s[1] = x /\ \A i \in 1 .. Len(t) : s[i + 1] = t[i]
  BY <1>1, ConcatProperties, LenProperties
<1> HIDE DEF s
<1>3. s # <<>> /\ Head(s) = x
  BY <1>2, LenProperties
<1>4. Tail(s) \in Seq(S) /\ Len(Tail(s)) = Len(t) /\ \A i \in 1 .. Len(t) : Tail(s)[i] = t[i]
  BY <1>2, <1>3, HeadTailProperties, LenProperties
<1>5. Tail(s) = t
  BY <1>4, SeqEqual
<1> QED
  BY <1>2, <1>3, <1>5 DEF s

\* The numbers of datagrams.
LEMMA Numbered ==
  ASSUME NEW s \in Seq(Datagram)
  PROVE  /\ Numbers(s) \in Seq(Nat) /\ Len(Numbers(s)) = Len(s)
         /\ \A i \in 1 .. Len(s) : Numbers(s)[i] = s[i].id
<1>1. \A i \in 1 .. Len(s) : s[i].id \in Nat
  <2>1. \A i \in 1 .. Len(s) : s[i] \in Datagram
    BY ElementOfSeq
  <2> QED
    BY <2>1 DEF Datagram
<1> QED
  BY <1>1, LenProperties DEF Numbers

LEMMA NumbersConcat ==
  ASSUME NEW s \in Seq(Datagram), NEW t \in Seq(Datagram)
  PROVE  Numbers(s \o t) = Numbers(s) \o Numbers(t)
<1> DEFINE a == Numbers(s)
           b == Numbers(t)
           c == Numbers(s \o t)
<1>1. /\ s \o t \in Seq(Datagram) /\ Len(s \o t) = Len(s) + Len(t)
      /\ \A i \in 1 .. Len(s) + Len(t) :
           (s \o t)[i] = IF i <= Len(s) THEN s[i] ELSE t[i - Len(s)]
      /\ Len(s) \in Nat /\ Len(t) \in Nat
  BY ConcatProperties, LenProperties
<1>2. /\ a \in Seq(Nat) /\ Len(a) = Len(s) /\ \A i \in 1 .. Len(s) : a[i] = s[i].id
  BY Numbered
<1>3. /\ b \in Seq(Nat) /\ Len(b) = Len(t) /\ \A i \in 1 .. Len(t) : b[i] = t[i].id
  BY Numbered
<1>4. /\ c \in Seq(Nat) /\ Len(c) = Len(s) + Len(t)
      /\ \A i \in 1 .. Len(s) + Len(t) : c[i] = (s \o t)[i].id
  BY <1>1, Numbered
<1> HIDE DEF a, b, c
<1>5. /\ a \o b \in Seq(Nat) /\ Len(a \o b) = Len(s) + Len(t)
      /\ \A i \in 1 .. Len(s) + Len(t) :
           (a \o b)[i] = IF i <= Len(s) THEN a[i] ELSE b[i - Len(s)]
  BY <1>2, <1>3, ConcatProperties
<1>6. ASSUME NEW i \in 1 .. Len(c)
      PROVE  c[i] = (a \o b)[i]
  <2>1. CASE i <= Len(s)
    <3>1. i \in 1 .. Len(s)
      BY <2>1
    <3> QED
      BY <2>1, <3>1, <1>1, <1>2, <1>4, <1>5
  <2>2. CASE ~(i <= Len(s))
    <3>1. i - Len(s) \in 1 .. Len(t)
      BY <2>2, <1>1, <1>4
    <3> QED
      BY <2>2, <3>1, <1>1, <1>3, <1>4, <1>5
  <2> QED
    BY <2>1, <2>2
<1>7. c = a \o b
  BY <1>4, <1>5, <1>6, SeqEqual
<1> QED
  BY <1>7 DEF a, b, c

LEMMA NumbersOne ==
  ASSUME NEW d \in Datagram
  PROVE  Numbers(<<d>>) = <<d.id>> /\ d.id \in Nat
BY DEF Numbers, Datagram

\* A part of a sequence, and what is on both sides of one element.
LEMMA Part ==
  ASSUME NEW S, NEW s \in Seq(S), NEW a \in Nat, NEW b \in a .. Len(s)
  PROVE  /\ SubSeq(s, a + 1, b) \in Seq(S) /\ Len(SubSeq(s, a + 1, b)) = b - a
         /\ \A i \in 1 .. b - a : SubSeq(s, a + 1, b)[i] = s[a + i]
  OBVIOUS

LEMMA Rest ==
  ASSUME NEW s \in Seq(Nat), NEW a \in 0 .. Len(s)
  PROVE  /\ SubSeq(s, a + 1, Len(s)) \in Seq(Nat)
         /\ Len(SubSeq(s, a + 1, Len(s))) = Len(s) - a
         /\ \A i \in 1 .. Len(s) - a : SubSeq(s, a + 1, Len(s))[i] = s[a + i]
  BY Part

LEMMA Cut ==
  ASSUME NEW a \in Seq(Nat), NEW x \in Nat, NEW b \in Seq(Nat), NEW n,
         n = a \o (<<x>> \o b)
  PROVE  /\ n \in Seq(Nat) /\ Len(a) + 1 \in 1 .. Len(n)
         /\ SubSeq(n, 1, Len(a)) = a /\ SubSeq(n, Len(a) + 2, Len(n)) = b
<1> DEFINE t == <<x>> \o b
           p == SubSeq(n, 1, Len(a))
           q == SubSeq(n, Len(a) + 2, Len(n))
<1>1. <<x>> \in Seq(Nat) /\ Len(<<x>>) = 1 /\ Len(a) \in Nat /\ Len(b) \in Nat
  BY LenProperties
<1>2. /\ t \in Seq(Nat) /\ Len(t) = 1 + Len(b)
      /\ \A i \in 1 .. Len(b) : t[1 + i] = b[i]
  <2>1. \A i \in 1 .. 1 + Len(b) : t[i] = IF i <= 1 THEN <<x>>[i] ELSE b[i - 1]
    BY <1>1, ConcatProperties
  <2>2. t \in Seq(Nat) /\ Len(t) = 1 + Len(b)
    BY <1>1, ConcatProperties
  <2> QED
    BY <2>1, <2>2, <1>1
<1> HIDE DEF t
<1>3. /\ n \in Seq(Nat) /\ Len(n) = Len(a) + Len(t)
      /\ \A i \in 1 .. Len(a) + Len(t) : n[i] = IF i <= Len(a) THEN a[i] ELSE t[i - Len(a)]
  BY <1>2, ConcatProperties DEF t
<1>4. \A i \in 1 .. Len(b) : n[Len(a) + 1 + i] = b[i]
  <2> SUFFICES ASSUME NEW i \in 1 .. Len(b)
               PROVE  n[Len(a) + 1 + i] = b[i]
    OBVIOUS
  <2>1. /\ Len(a) + 1 + i \in 1 .. Len(a) + Len(t) /\ ~(Len(a) + 1 + i <= Len(a))
        /\ (Len(a) + 1 + i) - Len(a) = 1 + i
    <3>1. Len(a) \in Nat /\ Len(b) \in Nat /\ Len(t) = 1 + Len(b)
      BY <1>1, <1>2
    <3> QED
      BY <3>1
  <2> QED
    BY <2>1, <1>2, <1>3
<1>5. p = a
  <2>1. /\ p \in Seq(Nat) /\ Len(p) = Len(a)
        /\ \A i \in 1 .. Len(a) : p[i] = n[i]
    BY <1>1, <1>2, <1>3, Part
  <2> HIDE DEF p
  <2>2. \A i \in 1 .. Len(p) : p[i] = a[i]
    BY <2>1, <1>1, <1>2, <1>3
  <2> QED
    BY <2>1, <2>2, SeqEqual
<1>6. q = b
  <2>1. Len(n) = Len(a) + 1 + Len(b)
    BY <1>1, <1>2, <1>3
  <2>2. /\ q \in Seq(Nat) /\ Len(q) = Len(b)
        /\ \A i \in 1 .. Len(b) : q[i] = n[Len(a) + 1 + i]
    <3> DEFINE c == Len(a) + 1
    <3>1. c \in Nat /\ Len(n) \in c .. Len(n) /\ Len(n) - c = Len(b) /\ c + 1 = Len(a) + 2
      BY <2>1, <1>1
    <3> HIDE DEF c
    <3>2. /\ SubSeq(n, c + 1, Len(n)) \in Seq(Nat) /\ Len(SubSeq(n, c + 1, Len(n))) = Len(n) - c
          /\ \A i \in 1 .. Len(n) - c : SubSeq(n, c + 1, Len(n))[i] = n[c + i]
      <4>1. n \in Seq(Nat)
        BY <1>3
      <4>2. c \in 0 .. Len(n)
        BY <3>1
      <4> QED
        BY <4>1, <4>2, Rest
    <3> QED
      BY <3>1, <3>2 DEF c
  <2> HIDE DEF q
  <2>3. \A i \in 1 .. Len(q) : q[i] = b[i]
    BY <2>2, <1>4
  <2> QED
    BY <2>2, <2>3, SeqEqual
<1>7. Len(a) + 1 \in 1 .. Len(n)
  BY <1>1, <1>2, <1>3
<1> QED
  BY <1>3, <1>5, <1>6, <1>7

\* In numbers, the steps of LossyStream: to lose one, to play the first, to take in one
\* or none.
LEMMA LoseOne ==
  ASSUME NEW s \in Seq(Datagram), NEW u \in Seq(Datagram), u # <<>>
  PROVE  LET n == Numbers(s \o u)
             k == Len(s) + 1
         IN  /\ k \in 1 .. Len(n)
             /\ Numbers(s \o Tail(u)) = SubSeq(n, 1, k - 1) \o SubSeq(n, k + 1, Len(n))
<1> DEFINE a == Numbers(s)
           x == Head(u).id
           b == Numbers(Tail(u))
           n == Numbers(s \o u)
<1>1. Head(u) \in Datagram /\ Tail(u) \in Seq(Datagram) /\ u = <<Head(u)>> \o Tail(u)
  BY Split
<1>2. <<Head(u)>> \in Seq(Datagram)
  BY <1>1
<1>3. /\ a \in Seq(Nat) /\ Len(a) = Len(s) /\ Len(s) \in Nat /\ b \in Seq(Nat) /\ x \in Nat
  BY <1>1, Numbered, NumbersOne, LenProperties
<1>4. Numbers(s \o Tail(u)) = a \o b
  BY <1>1, NumbersConcat
<1>5. n = a \o (<<x>> \o b)
  <2>1. u \in Seq(Datagram) /\ Numbers(u) = Numbers(<<Head(u)>>) \o b
    BY <1>1, <1>2, NumbersConcat
  <2>2. Numbers(<<Head(u)>>) = <<x>>
    BY <1>1, NumbersOne
  <2>3. n = a \o Numbers(u)
    BY NumbersConcat
  <2> QED
    BY <2>1, <2>2, <2>3
<1> HIDE DEF a, b, n, x
<1>6. /\ Len(a) + 1 \in 1 .. Len(n)
      /\ SubSeq(n, 1, Len(a)) = a /\ SubSeq(n, Len(a) + 2, Len(n)) = b
  BY <1>3, <1>5, Cut
<1>7. (Len(s) + 1) - 1 = Len(s) /\ (Len(s) + 1) + 1 = Len(s) + 2
  BY <1>3
<1> QED
  BY <1>3, <1>4, <1>6, <1>7 DEF n

LEMMA PlayOne ==
  ASSUME NEW p \in Seq(Datagram), NEW r \in Seq(Datagram), r # <<>>
  PROVE  LET n == Numbers(r)
         IN  /\ 1 \in 1 .. Len(n)
             /\ Numbers(Append(p, Head(r))) = Numbers(p) \o SubSeq(n, 1, 1)
             /\ Numbers(Tail(r)) = SubSeq(n, 1 + 1, Len(n))
<1> DEFINE x == Head(r).id
           b == Numbers(Tail(r))
           n == Numbers(r)
<1>1. Head(r) \in Datagram /\ Tail(r) \in Seq(Datagram) /\ r = <<Head(r)>> \o Tail(r)
  BY Split
<1>2. x \in Nat /\ b \in Seq(Nat) /\ Numbers(<<Head(r)>>) = <<x>>
      /\ <<Head(r)>> \in Seq(Datagram)
  <2>1. b \in Seq(Nat)
    BY <1>1, Numbered
  <2>2. x \in Nat /\ Numbers(<<Head(r)>>) = <<x>>
    BY <1>1, NumbersOne
  <2> QED
    BY <1>1, <2>1, <2>2
<1>3. n = <<x>> \o b
  BY <1>1, <1>2, NumbersConcat
<1>4. Numbers(Append(p, Head(r))) = Numbers(p) \o <<x>>
  <2>1. Append(p, Head(r)) = p \o <<Head(r)>>
    BY <1>1, AppendIsConcat
  <2> QED
    BY <2>1, <1>2, NumbersConcat
<1> HIDE DEF x, b, n
<1>5. n = <<>> \o (<<x>> \o b) /\ <<>> \in Seq(Nat) /\ Len(<<>>) = 0
  <2>1. <<x>> \o b \in Seq(Nat)
    BY <1>2, First
  <2> QED
    BY <1>3, <2>1, ConcatEmptySeq
<1>6. n \in Seq(Nat) /\ 0 + 1 \in 1 .. Len(n) /\ SubSeq(n, 0 + 2, Len(n)) = b
  BY <1>2, <1>5, Cut
<1>7. Head(n) = x /\ n # <<>>
  BY <1>2, <1>3, First
<1>8. SubSeq(n, 1, 1) = <<x>>
  <2>1. n[1] = x /\ 1 \in 1 .. Len(n)
    BY <1>6, <1>7
  <2>2. 0 \in Nat /\ 1 \in 0 .. Len(n)
    BY <2>1
  <2>3. /\ SubSeq(n, 1, 1) \in Seq(Nat) /\ Len(SubSeq(n, 1, 1)) = 1
        /\ SubSeq(n, 1, 1)[1] = x
    BY <2>1, <2>2, <1>6, Part
  <2>4. <<x>> \in Seq(Nat) /\ Len(<<x>>) = 1 /\ <<x>>[1] = x
    BY <1>2
  <2>5. Len(SubSeq(n, 1, 1)) = Len(<<x>>)
        /\ \A i \in 1 .. Len(SubSeq(n, 1, 1)) : SubSeq(n, 1, 1)[i] = <<x>>[i]
    <3>1. \A i \in 1 .. 1 : i = 1
      OBVIOUS
    <3> QED
      BY <3>1, <2>3, <2>4
  <2> QED
    BY <2>3, <2>4, <2>5, SeqEqual
<1>9. 1 \in 1 .. Len(n) /\ SubSeq(n, 1 + 1, Len(n)) = b
  BY <1>6
<1> QED
  BY <1>4, <1>8, <1>9 DEF b, n

LEMMA TakeOne ==
  ASSUME NEW r \in Seq(Datagram), NEW d \in Datagram, NEW n, n = d.id - 1
  PROVE  Numbers(Append(r, d)) = Numbers(r) \o [k \in 1 .. 1 |-> n + 0 + k]
<1>1. Numbers(<<d>>) = <<d.id>> /\ d.id \in Nat /\ <<d>> \in Seq(Datagram)
  BY NumbersOne
<1>2. [k \in 1 .. 1 |-> n + 0 + k] = <<d.id>>
  <2> DEFINE f == [k \in 1 .. 1 |-> n + 0 + k]
  <2>1. f \in Seq(Nat) /\ Len(f) = 1 /\ f[1] = d.id
    BY <1>1
  <2> HIDE DEF f
  <2>2. <<d.id>> \in Seq(Nat) /\ Len(<<d.id>>) = 1 /\ <<d.id>>[1] = d.id
    BY <1>1
  <2>3. \A i \in 1 .. 1 : i = 1
    OBVIOUS
  <2>4. f = <<d.id>>
    BY <2>1, <2>2, <2>3, SeqEqual
  <2> QED
    BY <2>4 DEF f
<1>3. Append(r, d) = r \o <<d>>
  BY AppendIsConcat
<1> QED
  BY <1>1, <1>2, <1>3, NumbersConcat

LEMMA TakeNone ==
  ASSUME NEW r \in Seq(Datagram), NEW n
  PROVE  Numbers(r) = Numbers(r) \o [k \in 1 .. 0 |-> n + 1 + k]
<1>1. [k \in 1 .. 0 |-> n + 1 + k] = <<>>
  OBVIOUS
<1> QED
  BY <1>1, Numbered, ConcatEmptySeq

-----------------------------------------------------------------------------
\* The steps of the receiver.  decode() holds one packet or none.
LEMMA InDecodeIs ==
  ASSUME WorkInv
  PROVE  /\ Working => InDecode = <<JB!Held>>
         /\ ~Working => InDecode = <<>>
         /\ InDecode \in Seq(Datagram) /\ JB!Queued \in Seq(Datagram)
         /\ InDecode \o JB!Queued \in Seq(Datagram) /\ Waiting \in Seq(Datagram)
<1>1. /\ Working => InDecode = <<JB!Held>>
      /\ ~Working => InDecode = <<>>
  BY DEF Working, InDecode
<1>2. InDecode \in Seq(Datagram)
  <2>1. CASE Working
    <3>1. JB!Held \in Datagram
      BY <2>1 DEF WorkInv
    <3>2. <<JB!Held>> \in Seq(Datagram)
      BY <3>1
    <3> QED
      BY <1>1, <2>1, <3>2
  <2>2. CASE ~Working
    BY <1>1, <2>2
  <2> QED
    BY <2>1, <2>2
<1>3. JB!Queued \in Seq(Datagram)
  BY RingQueue DEF WorkInv
<1> QED
  BY <1>1, <1>2, <1>3, ConcatProperties DEF WorkInv, Waiting

\* A step that leaves all datagrams where they are.
LEMMA QuietStep ==
  ASSUME WorkInv, UNCHANGED <<jbVars, sock, played, arrivals>>, Working' = Working
  PROVE  WorkInv' /\ Same
<1>1. UNCHANGED <<JB!Queued, JB!Held>> /\ Ring'
  BY RingStays DEF WorkInv
<1>2. InDecode' = InDecode
  BY <1>1 DEF InDecode, Working
<1> QED
  BY <1>1, <1>2 DEF WorkInv, Same, Waiting

Quiet ==
  \/ TakeDeadline \/ ClockFails \/ Get \/ CheckDeadline \/ RecvTimeout \/ RecvFails
  \/ Fail \/ Loop
  \/ StartReceiving \/ StopReceiving \/ StopReturns \/ DeadlinePasses

LEMMA QuietIsQuiet ==
  ASSUME Quiet \/ UNCHANGED vars
  PROVE  UNCHANGED <<jbVars, sock, played, arrivals>> /\ Working' = Working
<1>1. CASE Quiet
  BY <1>1 DEF Quiet, TakeDeadline, ClockFails, Get, CheckDeadline, RecvTimeout, RecvFails, Fail, Loop,
     StartReceiving, StopReceiving, StopReturns, DeadlinePasses, Working, netVars, history
<1>2. CASE UNCHANGED vars
  BY <1>2 DEF vars, netVars, history, Working
<1> QED
  BY <1>1, <1>2

\* recv() moves a datagram from the queue into the ring, or loses a blank one.
LEMMA RecvStep ==
  ASSUME WorkInv, Recv
  PROVE  /\ WorkInv'
         /\ Head(sock).kind # "blank" => Same
         /\ Head(sock).kind = "blank" =>
              \E s \in Seq(Datagram), u \in Seq(Datagram) :
                /\ u # <<>> /\ Waiting = s \o u /\ Waiting' = s \o Tail(u)
                /\ UNCHANGED <<played, arrivals>>
<1>1. /\ sock # <<>> /\ sock' = Tail(sock) /\ ~Working /\ ~Working'
      /\ UNCHANGED <<played, arrivals>>
  BY DEF Recv, Working, netVars, history
<1>2. Head(sock) \in Datagram /\ sock' \in Seq(Datagram)
  BY <1>1, Split DEF WorkInv
<1>3. InDecode = <<>> /\ InDecode' = <<>> /\ JB!Queued \in Seq(Datagram)
  BY <1>1, InDecodeIs DEF InDecode, Working
<1>4. CASE Head(sock).kind # "blank"
  <2>1. JB!Fill(Head(sock))
    BY <1>4 DEF Recv
  <2>2. Ring' /\ JB!Queued' = Append(JB!Queued, Head(sock))
    BY <2>1, <1>2, RingFill DEF WorkInv
  <2>3. JB!Queued' \in Seq(Datagram)
    BY <2>2, <1>2, <1>3, AppendProperties
  <2>4. JB!Queued' \o sock' = JB!Queued \o sock
    BY <2>2, <1>1, <1>3, Passing DEF WorkInv
  <2>5. Waiting' = Waiting
    BY <2>3, <2>4, <1>3, ConcatEmptySeq DEF Waiting
  <2> QED
    BY <2>2, <2>5, <1>1, <1>2, <1>4 DEF WorkInv, Same
<1>5. CASE Head(sock).kind = "blank"
  <2>1. Ring' /\ JB!Queued' = JB!Queued
    BY <1>5, RingStays DEF Recv, WorkInv
  <2>2. Waiting = JB!Queued \o sock /\ Waiting' = JB!Queued \o Tail(sock)
    BY <2>1, <1>1, <1>3, ConcatEmptySeq DEF Waiting
  <2> QED
    BY <2>1, <2>2, <1>1, <1>2, <1>3, <1>5 DEF WorkInv
<1> QED
  BY <1>4, <1>5

\* popFront moves one from the ring to decode().
LEMMA PopStep ==
  ASSUME WorkInv, Pop
  PROVE  WorkInv' /\ Same
<1>1. /\ ~Working /\ Working' /\ JB!popFront /\ UNCHANGED <<sock, played, arrivals>>
  BY DEF Pop, Working, netVars, history
<1>2. /\ Ring' /\ JB!Queued # <<>>
      /\ JB!Queued' = Tail(JB!Queued) /\ JB!Held' = Head(JB!Queued)
  BY <1>1, RingPop DEF WorkInv
<1>3. InDecode = <<>> /\ InDecode' = <<Head(JB!Queued)>> /\ JB!Queued \in Seq(Datagram)
  BY <1>1, <1>2, InDecodeIs DEF InDecode, Working
<1>4. /\ Head(JB!Queued) \in Datagram
      /\ JB!Queued = <<Head(JB!Queued)>> \o Tail(JB!Queued)
  BY <1>2, <1>3, Split
<1>5. Waiting' = Waiting
  BY <1>1, <1>2, <1>3, <1>4, ConcatEmptySeq DEF Waiting
<1> QED
  BY <1>1, <1>2, <1>4, <1>5 DEF WorkInv, Same

\* A turn of the drain loop does as recv() does, or drops one.
LEMMA DrainStep ==
  ASSUME WorkInv, Drain
  PROVE  /\ WorkInv'
         /\ \/ Same
            \/ \E s \in Seq(Datagram), u \in Seq(Datagram) :
                 /\ u # <<>> /\ Waiting = s \o u /\ Waiting' = s \o Tail(u)
                 /\ UNCHANGED <<played, arrivals>>
<1>1. /\ Working /\ Working' /\ UNCHANGED <<played, arrivals>>
  BY DEF Drain, Working, netVars
<1>2. CASE sock = <<>>
  <2>1. UNCHANGED jbVars /\ UNCHANGED sock
    BY <1>2 DEF Drain
  <2> QED
    BY <2>1, <1>1, QuietStep
<1>3. CASE sock # <<>>
  <2>1. sock' = Tail(sock)
    BY <1>3 DEF Drain
  <2>2. Head(sock) \in Datagram /\ sock' \in Seq(Datagram)
    BY <2>1, <1>3, Split DEF WorkInv
  <2>3. /\ InDecode = <<JB!Held>> /\ InDecode' = <<JB!Held'>> /\ JB!Held \in Datagram
        /\ InDecode \in Seq(Datagram) /\ JB!Queued \in Seq(Datagram)
        /\ InDecode \o JB!Queued \in Seq(Datagram)
    BY <1>1, InDecodeIs DEF InDecode, Working, WorkInv
  <2>4. CASE UNCHANGED jbVars
    <3>1. Ring' /\ JB!Queued' = JB!Queued /\ JB!Held' = JB!Held
      BY <2>4, RingStays DEF WorkInv
    <3>2. Waiting = (InDecode \o JB!Queued) \o sock
          /\ Waiting' = (InDecode \o JB!Queued) \o Tail(sock)
      BY <3>1, <2>1, <2>3 DEF Waiting
    <3> QED
      BY <3>1, <3>2, <2>2, <2>3, <1>1, <1>3 DEF WorkInv
  <2>5. CASE JB!Fill(Head(sock))
    <3>1. Ring' /\ JB!Queued' = Append(JB!Queued, Head(sock)) /\ JB!Held' = JB!Held
      BY <2>2, <2>5, RingFill DEF WorkInv
    <3>2. JB!Queued' \in Seq(Datagram)
      BY <3>1, <2>2, <2>3, AppendProperties
    <3>3. JB!Queued' \o sock' = JB!Queued \o sock
      BY <3>1, <2>1, <2>3, <1>3, Passing DEF WorkInv
    <3>4. (InDecode \o JB!Queued') \o sock' = InDecode \o (JB!Queued' \o sock')
      BY <3>2, <2>2, <2>3, ConcatAssociative
    <3>5. (InDecode \o JB!Queued) \o sock = InDecode \o (JB!Queued \o sock)
      BY <2>3, ConcatAssociative DEF WorkInv
    <3>6. Waiting' = Waiting
      BY <3>1, <3>3, <3>4, <3>5, <2>3 DEF Waiting
    <3> QED
      BY <3>1, <3>6, <2>2, <2>3, <1>1 DEF WorkInv, Same
  <2> QED
    BY <2>4, <2>5, <1>3 DEF Drain
<1> QED
  BY <1>2, <1>3

\* decode() is done with its packet.
Done ==
  /\ Working /\ ~Working'
  /\ UNCHANGED <<jbVars, sock, arrivals>>

LEMMA DoneStep ==
  ASSUME WorkInv, Done, played' \in Seq(Datagram)
  PROVE  /\ WorkInv'
         /\ Waiting # <<>> /\ JB!Held = Head(Waiting) /\ Waiting' = Tail(Waiting)
<1>1. Ring' /\ JB!Queued' = JB!Queued
  BY RingStays DEF Done, WorkInv
<1>2. /\ InDecode = <<JB!Held>> /\ InDecode' = <<>> /\ JB!Held \in Datagram
      /\ InDecode \in Seq(Datagram)
      /\ JB!Queued \in Seq(Datagram) /\ sock \in Seq(Datagram) /\ sock' = sock
  BY InDecodeIs DEF Done, InDecode, Working, WorkInv
<1> DEFINE rest == JB!Queued \o sock
<1>3. rest \in Seq(Datagram)
  BY <1>2, ConcatProperties
<1>4. Waiting = <<JB!Held>> \o rest
  BY <1>2, ConcatAssociative DEF Waiting
<1>5. Waiting' = rest
  BY <1>1, <1>2, ConcatEmptySeq DEF Waiting
<1>6. WorkInv'
  BY <1>1, <1>2 DEF Done, WorkInv
<1> HIDE DEF rest
<1> QED
  BY <1>2, <1>3, <1>4, <1>5, <1>6, First

LEMMA LostFirst ==
  ASSUME WorkInv, Done, UNCHANGED <<played, arrivals>>
  PROVE  WorkInv' /\ Lost
<1>1. played' \in Seq(Datagram)
  BY DEF WorkInv
<1>2. /\ WorkInv'
      /\ Waiting # <<>> /\ Waiting' = Tail(Waiting)
  BY <1>1, DoneStep
<1>3. Waiting \in Seq(Datagram) /\ <<>> \in Seq(Datagram)
  BY InDecodeIs
<1>4. Waiting = <<>> \o Waiting /\ Tail(Waiting) = <<>> \o Tail(Waiting)
  <2>1. Tail(Waiting) \in Seq(Datagram)
    BY <1>2, <1>3, HeadTailProperties
  <2> QED
    BY <2>1, <1>3, ConcatEmptySeq
<1> QED
  BY <1>2, <1>3, <1>4 DEF Lost

\* A datagram arrives, or passes by a full queue.
LEMMA ArriveStep ==
  ASSUME WorkInv, NEW kind \in Kind, Arrive(kind)
  PROVE  /\ WorkInv'
         /\ arrivals' = arrivals + 1 /\ UNCHANGED played
         /\ \/ Waiting' = Append(Waiting, [id |-> arrivals + 1, kind |-> kind])
            \/ Waiting' = Waiting
<1> DEFINE d == [id |-> arrivals + 1, kind |-> kind]
<1>1. /\ UNCHANGED <<jbVars, pc, played>> /\ arrivals' = arrivals + 1
      /\ sock' = Append(sock, d) \/ sock' = sock
      /\ arrivals' \in 0 .. MaxArrivals /\ d \in Datagram
  BY ReceiverAssumption DEF Arrive, history, WorkInv, Datagram
<1> HIDE DEF d
<1>2. Ring' /\ JB!Queued' = JB!Queued /\ JB!Held' = JB!Held
  BY <1>1, RingStays DEF WorkInv
<1>3. InDecode' = InDecode /\ Working' = Working /\ InDecode \o JB!Queued \in Seq(Datagram)
  BY <1>1, <1>2, InDecodeIs DEF InDecode, Working
<1>4. sock \in Seq(Datagram) /\ sock' \in Seq(Datagram)
  BY <1>1, AppendProperties DEF WorkInv
<1>5. CASE sock' = sock
  BY <1>1, <1>2, <1>3, <1>5 DEF WorkInv, Waiting
<1>6. CASE sock' = Append(sock, d)
  <2> DEFINE before == InDecode \o JB!Queued
  <2>1. before \in Seq(Datagram) /\ Waiting = before \o sock /\ Waiting' = before \o sock'
    BY <1>2, <1>3 DEF Waiting
  <2> HIDE DEF before
  <2>2. sock' = sock \o <<d>> /\ <<d>> \in Seq(Datagram)
    BY <1>1, <1>4, <1>6, AppendIsConcat
  <2>3. before \o (sock \o <<d>>) = (before \o sock) \o <<d>>
    BY <2>1, <2>2, <1>4, ConcatAssociative
  <2>4. Append(before \o sock, d) = (before \o sock) \o <<d>>
    <3>1. before \o sock \in Seq(Datagram)
      BY <2>1, <1>4, ConcatProperties
    <3> QED
      BY <3>1, <1>1, AppendIsConcat
  <2>5. Waiting' = Append(Waiting, d)
    BY <2>1, <2>2, <2>3, <2>4
  <2> QED
    BY <2>5, <1>1, <1>2, <1>3, <1>4 DEF WorkInv, d
<1> QED
  BY <1>1, <1>5, <1>6

-----------------------------------------------------------------------------
\* The invariant.
LEMMA WorkInit == Init => WorkInv
<1> SUFFICES ASSUME Init
             PROVE  WorkInv
  OBVIOUS
<1>1. JB!TypeOK /\ JB!LentIsReserved
  BY ReceiverAssumption
  DEF Init, JB!JBInit, JB!TypeOK, JB!LentIsReserved, JB!Count, JB!Slot, JB!NULL
<1>2. sock = <<>> /\ played = <<>> /\ arrivals = 0 /\ ~Working
  BY DEF Init, Working
<1> QED
  BY <1>1, <1>2, ReceiverAssumption DEF WorkInv, Ring

\* Each step keeps the invariant and is one of four for the stream.
LEMMA Steps ==
  ASSUME WorkInv, [Next]_vars
  PROVE  WorkInv' /\ (Same \/ Lost \/ PlayedFirst \/ Arrived)
<1>1. CASE Quiet \/ UNCHANGED vars
  BY <1>1, QuietIsQuiet, QuietStep
<1>2. CASE Recv
  BY <1>2, RecvStep DEF Lost
<1>3. CASE Pop
  BY <1>3, PopStep
<1>4. CASE Drain
  BY <1>4, DrainStep DEF Lost
<1>5. CASE Check
  <2>1. CASE JB!Held.kind = "audio"
    <3>1. UNCHANGED <<jbVars, sock, played, arrivals>> /\ Working' = Working
      BY <1>5, <2>1 DEF Check, Working, netVars
    <3> QED
      BY <3>1, QuietStep
  <2>2. CASE JB!Held.kind # "audio"
    <3>1. Done /\ UNCHANGED <<played, arrivals>>
      BY <1>5, <2>2 DEF Check, Done, Working, netVars
    <3> QED
      BY <3>1, LostFirst
  <2> QED
    BY <2>1, <2>2
<1>6. CASE Write
  <2>1. Done /\ played' = Append(played, JB!Held) /\ UNCHANGED arrivals
    BY <1>6 DEF Write, Done, Working, netVars
  <2>2. JB!Held \in Datagram /\ played \in Seq(Datagram)
    BY <2>1 DEF WorkInv, Done
  <2>3. played' \in Seq(Datagram)
    BY <2>1, <2>2, AppendProperties
  <2> QED
    BY <2>1, <2>3, DoneStep DEF PlayedFirst
<1>7. CASE WriteFails
  <2>1. Done /\ UNCHANGED <<played, arrivals>>
    BY <1>7 DEF WriteFails, Done, Working, netVars
  <2> QED
    BY <2>1, LostFirst
<1>8. ASSUME NEW kind \in Kind, Arrive(kind)
      PROVE  WorkInv' /\ Arrived
  <2> DEFINE d == [id |-> arrivals + 1, kind |-> kind]
  <2>1. WorkInv' /\ arrivals' = arrivals + 1 /\ UNCHANGED played
    BY <1>8, ArriveStep
  <2>2. d \in Datagram /\ d.id = arrivals + 1
    BY <1>8, ReceiverAssumption DEF Arrive, WorkInv, Datagram
  <2>3. Waiting' = Append(Waiting, d) \/ Waiting' = Waiting
    BY <1>8, ArriveStep
  <2> HIDE DEF d
  <2> QED
    BY <2>1, <2>2, <2>3 DEF Arrived
<1> QED
  BY <1>1, <1>2, <1>3, <1>4, <1>5, <1>6, <1>7, <1>8 DEF Next, Thread, Quiet

LEMMA WorkInvInvariant == Spec => []WorkInv
<1>1. WorkInv /\ [Next]_vars => WorkInv'
  BY Steps
<1> QED
  BY <1>1, WorkInit, PTL DEF Spec

\* Which are steps of LossyStream.
LEMMA StreamStep ==
  ASSUME WorkInv, Same \/ Lost \/ PlayedFirst \/ Arrived
  PROVE  [Stream!StreamNext]_(Stream!streamVars)
<1> DEFINE n == Numbers(Waiting)
<1>0. Waiting \in Seq(Datagram) /\ played \in Seq(Datagram) /\ arrivals \in Nat
  BY InDecodeIs, ReceiverAssumption DEF WorkInv
<1>1. CASE Same
  BY <1>1 DEF Same, Waiting, Stream!streamVars
<1>2. CASE Lost
  <2>1. PICK s \in Seq(Datagram), u \in Seq(Datagram) :
          /\ u # <<>> /\ Waiting = s \o u /\ Waiting' = s \o Tail(u)
          /\ UNCHANGED <<played, arrivals>>
    BY <1>2 DEF Lost
  <2> DEFINE k == Len(s) + 1
  <2>2. /\ k \in 1 .. Len(n)
        /\ Numbers(Waiting') = SubSeq(n, 1, k - 1) \o SubSeq(n, k + 1, Len(n))
    BY <2>1, LoseOne
  <2> HIDE DEF k, n
  <2>3. Stream!Lose(k, k)
    BY <2>1, <2>2 DEF Stream!Lose, Waiting, n
  <2>4. k \in k .. Len(n)
    BY <2>2
  <2>5. Stream!StreamNext
    BY <2>2, <2>3, <2>4 DEF Stream!StreamNext, Waiting, n
  <2> QED
    BY <2>5
<1>3. CASE PlayedFirst
  <2>1. /\ 1 \in 1 .. Len(n)
        /\ Numbers(played') = Numbers(played) \o SubSeq(n, 1, 1)
        /\ Numbers(Waiting') = SubSeq(n, 1 + 1, Len(n))
    BY <1>0, <1>3, PlayOne DEF PlayedFirst
  <2> HIDE DEF n
  <2>2. Stream!Play(1)
    BY <2>1, <1>3 DEF Stream!Play, PlayedFirst, Waiting, n
  <2>3. Stream!StreamNext
    BY <2>1, <2>2 DEF Stream!StreamNext, Waiting, n
  <2> QED
    BY <2>3
<1>4. CASE Arrived
  <2> HIDE DEF n
  <2>1. CASE Waiting' = Waiting
    <3>1. n = n \o [k \in 1 .. 0 |-> arrivals + 1 + k]
      BY <1>0, TakeNone DEF n
    <3>2. Stream!TakeIn(1, 0)
      BY <2>1, <3>1, <1>0, <1>4 DEF Arrived, Stream!TakeIn, Waiting, n
    <3>3. Stream!StreamNext
      BY <3>2 DEF Stream!StreamNext
    <3> QED
      BY <3>3
  <2>2. ASSUME NEW d \in Datagram, d.id = arrivals + 1, Waiting' = Append(Waiting, d)
        PROVE  Stream!StreamNext
    <3>1. Numbers(Waiting') = n \o [k \in 1 .. 1 |-> arrivals + 0 + k]
      <4>1. d.id - 1 = arrivals
        BY <2>2, <1>0
      <4> QED
        BY <2>2, <4>1, <1>0, TakeOne DEF n
    <3>2. Stream!TakeIn(0, 1)
      BY <2>2, <3>1, <1>0, <1>4 DEF Arrived, Stream!TakeIn, Waiting, n
    <3> QED
      BY <3>2 DEF Stream!StreamNext
  <2> QED
    BY <2>1, <2>2, <1>4 DEF Arrived
<1> QED
  BY <1>1, <1>2, <1>3, <1>4

\* From the kernel's queue to the AudioTrack the receiver is a stream that may lose
\* datagrams and neither repeats nor reorders them, for every size of the ring and of the
\* queue, restarts included (getPacketFromJB() and decode() of AudioStream.cpp).
THEOREM ReceiverImplementsStream == Spec => ImplementsStream
<1>1. Init => Stream!StreamInit
  BY DEF Init, Stream!StreamInit, JB!JBInit, JB!Queued, JB!Count, InDecode, Numbers
<1>2. WorkInv /\ [Next]_vars => [Stream!StreamNext]_(Stream!streamVars)
  BY Steps, StreamStep
<1> QED
  BY <1>1, <1>2, WorkInvInvariant, PTL DEF Spec, ImplementsStream, Stream!StreamSpec

\* And so the numbers of what was played and of what waits increase.
LEMMA ReceiverInOrder == Spec => []Stream!InOrder
<1>1. Stream!StreamInit => StreamProofs!StreamInit
  BY DEF Stream!StreamInit, StreamProofs!StreamInit
<1>2. [Stream!StreamNext]_(Stream!streamVars)
        => [StreamProofs!StreamNext]_(StreamProofs!streamVars)
  BY DEF Stream!StreamNext, StreamProofs!StreamNext, Stream!streamVars, StreamProofs!streamVars,
         Stream!TakeIn, StreamProofs!TakeIn, Stream!Play, StreamProofs!Play,
         Stream!Lose, StreamProofs!Lose
<1>3. StreamProofs!StreamSpec => []StreamProofs!InOrder
  BY StreamProofs!StreamInOrder
<1>4. StreamProofs!InOrder => Stream!InOrder
  BY DEF StreamProofs!InOrder, Stream!InOrder
<1> QED
  BY <1>1, <1>2, <1>3, <1>4, ReceiverImplementsStream, PTL
  DEF ImplementsStream, Stream!StreamSpec, StreamProofs!StreamSpec

-----------------------------------------------------------------------------
\* The order of arrival, place by place.
LEMMA Ordered ==
  ASSUME WorkInv, Stream!InOrder
  PROVE  /\ \A i, j \in 1 .. Len(sock) : i < j => sock[i].id < sock[j].id
         /\ \A i, j \in 1 .. Len(JB!Queued) : i < j => JB!Queued[i].id < JB!Queued[j].id
         /\ Working => \A i \in 1 .. Len(JB!Queued) : JB!Held.id < JB!Queued[i].id
         /\ \A i \in 1 .. Len(JB!Queued), j \in 1 .. Len(sock) : JB!Queued[i].id < sock[j].id
<1> DEFINE p == Numbers(played)
           w == Numbers(Waiting)
           l == Len(InDecode)
           q == Len(JB!Queued)
           s == Len(sock)
<1>1. /\ InDecode \in Seq(Datagram) /\ JB!Queued \in Seq(Datagram)
      /\ InDecode \o JB!Queued \in Seq(Datagram) /\ Waiting \in Seq(Datagram)
      /\ sock \in Seq(Datagram) /\ played \in Seq(Datagram)
      /\ l \in Nat /\ q \in Nat /\ s \in Nat
  BY InDecodeIs, LenProperties DEF WorkInv
<1>2. /\ p \in Seq(Nat) /\ w \in Seq(Nat) /\ Len(p) \in Nat
      /\ Len(w) = Len(Waiting) /\ \A i \in 1 .. Len(w) : w[i] = Waiting[i].id
  BY <1>1, Numbered, LenProperties
<1>3. Stream!InOrder <=> \A i, j \in DOMAIN (p \o w) : i < j => (p \o w)[i] < (p \o w)[j]
  BY DEF Stream!InOrder, Waiting
<1> HIDE DEF p, w
<1>4. \A i, j \in 1 .. Len(w) : i < j => w[i] < w[j]
  <2> SUFFICES ASSUME NEW i \in 1 .. Len(w), NEW j \in 1 .. Len(w), i < j
               PROVE  w[i] < w[j]
    OBVIOUS
  <2>1. /\ DOMAIN (p \o w) = 1 .. Len(p) + Len(w) /\ Len(w) \in Nat
        /\ \A k \in 1 .. Len(p) + Len(w) :
             (p \o w)[k] = IF k <= Len(p) THEN p[k] ELSE w[k - Len(p)]
    <3>1. /\ p \o w \in Seq(Nat) /\ Len(p \o w) = Len(p) + Len(w)
          /\ \A k \in 1 .. Len(p) + Len(w) :
               (p \o w)[k] = IF k <= Len(p) THEN p[k] ELSE w[k - Len(p)]
      BY <1>2, ConcatProperties
    <3>2. DOMAIN (p \o w) = 1 .. Len(p \o w) /\ Len(w) \in Nat
      BY <3>1, <1>2, LenProperties
    <3> QED
      BY <3>1, <3>2
  <2> DEFINE a == Len(p) + i
             b == Len(p) + j
  <2>2. /\ a \in 1 .. Len(p) + Len(w) /\ b \in 1 .. Len(p) + Len(w) /\ a < b
        /\ ~(a <= Len(p)) /\ ~(b <= Len(p)) /\ a - Len(p) = i /\ b - Len(p) = j
    BY <1>2, <2>1
  <2> HIDE DEF a, b
  <2> QED
    BY <2>1, <2>2, <1>3
<1>5. /\ Len(Waiting) = l + q + s
      /\ \A k \in 1 .. q : Waiting[l + k] = JB!Queued[k]
      /\ \A k \in 1 .. s : Waiting[(l + q) + k] = sock[k]
      /\ \A k \in 1 .. l : Waiting[k] = InDecode[k]
  <2>1. /\ Len(InDecode \o JB!Queued) = l + q
        /\ \A k \in 1 .. l + q : (InDecode \o JB!Queued)[k]
                                   = IF k <= l THEN InDecode[k] ELSE JB!Queued[k - l]
    BY <1>1, ConcatProperties
  <2>2. /\ Len(Waiting) = l + q + s
        /\ \A k \in 1 .. l + q + s :
             Waiting[k] = IF k <= l + q THEN (InDecode \o JB!Queued)[k] ELSE sock[k - (l + q)]
    BY <1>1, <2>1, ConcatProperties DEF Waiting
  <2> HIDE DEF l, q, s
  <2>3. ASSUME NEW k \in 1 .. q
        PROVE  Waiting[l + k] = JB!Queued[k]
    <3>1. /\ l + k \in 1 .. l + q + s /\ l + k \in 1 .. l + q /\ l + k <= l + q
          /\ ~(l + k <= l) /\ (l + k) - l = k
      BY <1>1
    <3> QED
      BY <2>1, <2>2, <3>1
  <2>4. ASSUME NEW k \in 1 .. s
        PROVE  Waiting[(l + q) + k] = sock[k]
    <3>1. /\ (l + q) + k \in 1 .. l + q + s
          /\ ~((l + q) + k <= l + q) /\ ((l + q) + k) - (l + q) = k
      BY <1>1
    <3> QED
      BY <2>2, <3>1
  <2>5. ASSUME NEW k \in 1 .. l
        PROVE  Waiting[k] = InDecode[k]
    <3>1. k \in 1 .. l + q + s /\ k \in 1 .. l + q /\ k <= l + q /\ k <= l
      BY <1>1
    <3> QED
      BY <2>1, <2>2, <3>1
  <2> QED
    BY <2>2, <2>3, <2>4, <2>5
<1>6. Working => l = 1 /\ InDecode[1] = JB!Held
  BY InDecodeIs
<1> HIDE DEF l, q, s
<1>7. ASSUME NEW i \in 1 .. l + q + s, NEW j \in 1 .. l + q + s, i < j
      PROVE  Waiting[i].id < Waiting[j].id
  BY <1>2, <1>4, <1>5, <1>7
<1>8. \A i, j \in 1 .. s : i < j => sock[i].id < sock[j].id
  <2> SUFFICES ASSUME NEW i \in 1 .. s, NEW j \in 1 .. s, i < j
               PROVE  sock[i].id < sock[j].id
    OBVIOUS
  <2>1. /\ (l + q) + i \in 1 .. l + q + s /\ (l + q) + j \in 1 .. l + q + s
        /\ (l + q) + i < (l + q) + j
    BY <1>1
  <2>2. Waiting[(l + q) + i].id < Waiting[(l + q) + j].id
    BY <2>1, <1>7
  <2> QED
    BY <2>2, <1>5
<1>9. \A i, j \in 1 .. q : i < j => JB!Queued[i].id < JB!Queued[j].id
  <2> SUFFICES ASSUME NEW i \in 1 .. q, NEW j \in 1 .. q, i < j
               PROVE  JB!Queued[i].id < JB!Queued[j].id
    OBVIOUS
  <2>1. l + i \in 1 .. l + q + s /\ l + j \in 1 .. l + q + s /\ l + i < l + j
    BY <1>1
  <2>2. Waiting[l + i].id < Waiting[l + j].id
    BY <2>1, <1>7
  <2> QED
    BY <2>2, <1>5
<1>10. Working => \A i \in 1 .. q : JB!Held.id < JB!Queued[i].id
  <2> SUFFICES ASSUME Working, NEW i \in 1 .. q
               PROVE  JB!Held.id < JB!Queued[i].id
    OBVIOUS
  <2>1. 1 \in 1 .. l + q + s /\ l + i \in 1 .. l + q + s /\ 1 < l + i /\ 1 \in 1 .. l
    BY <1>1, <1>6
  <2>2. Waiting[1].id < Waiting[l + i].id
    BY <2>1, <1>7
  <2> QED
    BY <2>1, <2>2, <1>5, <1>6
<1>11. \A i \in 1 .. q, j \in 1 .. s : JB!Queued[i].id < sock[j].id
  <2> SUFFICES ASSUME NEW i \in 1 .. q, NEW j \in 1 .. s
               PROVE  JB!Queued[i].id < sock[j].id
    OBVIOUS
  <2>1. l + i \in 1 .. l + q + s /\ (l + q) + j \in 1 .. l + q + s /\ l + i < (l + q) + j
    BY <1>1
  <2>2. Waiting[l + i].id < Waiting[(l + q) + j].id
    BY <2>1, <1>7
  <2> QED
    BY <2>2, <1>5
<1> QED
  BY <1>8, <1>9, <1>10, <1>11 DEF q, s

\* A datagram is dropped by a turn of the drain loop that finds no slot.
LEMMA DropStep ==
  ASSUME WorkInv, Stream!InOrder, Next, NEW d \in dropped', d \notin dropped
  PROVE  /\ Len(JB!Queued) = SIZE - 1
         /\ \A i \in DOMAIN JB!Queued : JB!Held.id < JB!Queued[i].id /\ JB!Queued[i].id < d.id
<1>1. Drain
  BY DEF Next, Thread, TakeDeadline, ClockFails, Get, CheckDeadline, RecvTimeout, Recv, RecvFails, Pop, Check,
     Write, WriteFails, Fail, Loop, StartReceiving, StopReceiving, StopReturns, DeadlinePasses,
     Arrive, history
<1>2. /\ sock # <<>> /\ JB!obtainBuffer = JB!NULL /\ dropped' = dropped \cup {Head(sock)}
      /\ Working
  BY <1>1 DEF Drain, Working
<1>3. d = sock[1] /\ 1 \in 1 .. Len(sock)
  BY <1>2, EmptySeq DEF WorkInv
<1>4. JB!Queued \in Seq(Datagram) /\ Len(JB!Queued) = JB!Count
  BY RingQueue DEF WorkInv
<1>5. JB!Count = SIZE - 1
  BY <1>2, ReceiverAssumption
  DEF WorkInv, Ring, JB!TypeOK, JB!Count, JB!obtainBuffer, JB!ReservedHead, JB!Slot, JB!NULL
<1>6. DOMAIN JB!Queued = 1 .. Len(JB!Queued)
  BY <1>4, LenProperties
<1> QED
  BY <1>2, <1>3, <1>4, <1>5, <1>6, Ordered

\* The drain loop of getPacketFromJB() drops only when SIZE - 1 datagrams wait that all
\* arrived after the one being decoded and before the one that is dropped.
THEOREM ReceiverDropsTheLatest == Spec => DropsTheLatest
<1>1. WorkInv /\ Stream!InOrder /\ [Next]_vars =>
        [\A d \in dropped' \ dropped :
           /\ Len(JB!Queued) = SIZE - 1
           /\ \A i \in DOMAIN JB!Queued : JB!Held.id < JB!Queued[i].id
                                        /\ JB!Queued[i].id < d.id]_vars
  BY DropStep
<1> QED
  BY <1>1, WorkInvInvariant, ReceiverInOrder, PTL DEF Spec, DropsTheLatest

-----------------------------------------------------------------------------
\* The first of a sequence, and the rest.
LEMMA Elements ==
  ASSUME NEW S, NEW s \in Seq(S)
  PROVE  /\ \A x \in S : ToSet(Append(s, x)) = ToSet(s) \cup {x}
         /\ s # <<>> => ToSet(s) = {Head(s)} \cup ToSet(Tail(s))
         /\ ToSet(s) = {s[i] : i \in 1 .. Len(s)}
<1>1. ToSet(s) = {s[i] : i \in 1 .. Len(s)} /\ Len(s) \in Nat
  BY LenProperties DEF ToSet
<1>2. ASSUME NEW x \in S
      PROVE  ToSet(Append(s, x)) = ToSet(s) \cup {x}
  <2> DEFINE t == Append(s, x)
  <2>1. /\ t \in Seq(S) /\ Len(t) = Len(s) + 1 /\ t[Len(s) + 1] = x
        /\ \A i \in 1 .. Len(s) : t[i] = s[i]
    BY AppendProperties
  <2>2. ToSet(t) = {t[i] : i \in 1 .. Len(s) + 1}
    BY <2>1, LenProperties DEF ToSet
  <2> HIDE DEF t
  <2>3. \A i \in 1 .. Len(s) + 1 : i \in 1 .. Len(s) \/ i = Len(s) + 1
    BY <1>1
  <2>4. Len(s) + 1 \in 1 .. Len(s) + 1 /\ \A i \in 1 .. Len(s) : i \in 1 .. Len(s) + 1
    BY <1>1
  <2>5. ToSet(t) \subseteq ToSet(s) \cup {x}
    BY <2>1, <2>2, <2>3, <1>1
  <2>6. ToSet(s) \cup {x} \subseteq ToSet(t)
    BY <2>1, <2>2, <2>4, <1>1
  <2> QED
    BY <2>5, <2>6 DEF t
<1>3. ASSUME s # <<>>
      PROVE  ToSet(s) = {Head(s)} \cup ToSet(Tail(s))
  <2> DEFINE t == Tail(s)
  <2>1. /\ t \in Seq(S) /\ Len(t) = Len(s) - 1 /\ Head(s) = s[1] /\ Len(s) # 0
        /\ \A i \in 1 .. Len(s) - 1 : t[i] = s[i + 1]
    BY <1>3, HeadTailProperties, EmptySeq
  <2>2. ToSet(t) = {t[i] : i \in 1 .. Len(s) - 1}
    BY <2>1, LenProperties DEF ToSet
  <2> HIDE DEF t
  <2>3. 1 \in 1 .. Len(s) /\ \A i \in 1 .. Len(s) - 1 : i + 1 \in 1 .. Len(s)
    BY <1>1, <2>1
  <2>4. \A i \in 1 .. Len(s) : i = 1 \/ (i - 1 \in 1 .. Len(s) - 1 /\ (i - 1) + 1 = i)
    BY <1>1
  <2>5. {Head(s)} \cup ToSet(t) \subseteq ToSet(s)
    BY <2>1, <2>2, <2>3, <1>1
  <2>6. ASSUME NEW i \in 1 .. Len(s)
        PROVE  s[i] \in {Head(s)} \cup ToSet(t)
    <3>1. CASE i = 1
      BY <3>1, <2>1
    <3>2. CASE i # 1
      <4>1. t[i - 1] = s[i] /\ i - 1 \in 1 .. Len(s) - 1
        BY <3>2, <2>1, <2>4
      <4> QED
        BY <4>1, <2>2
    <3> QED
      BY <3>1, <3>2
  <2> QED
    BY <2>5, <2>6, <1>1 DEF t
<1> QED
  BY <1>1, <1>2, <1>3

LEMMA Singles ==
  /\ ToSet(<<>>) = {}
  /\ \A x : ToSet(<<x>>) = {x}
  BY DEF ToSet

\* In a sequence of increasing numbers the head does not come again.
LEMMA HeadOnce ==
  ASSUME NEW s \in Seq(Datagram), s # <<>>,
         \A i, j \in 1 .. Len(s) : i < j => s[i].id < s[j].id
  PROVE  Head(s) \notin ToSet(Tail(s))
<1>1. /\ Tail(s) \in Seq(Datagram) /\ Len(Tail(s)) = Len(s) - 1 /\ Head(s) = s[1]
      /\ \A i \in 1 .. Len(s) - 1 : Tail(s)[i] = s[i + 1]
      /\ Len(s) \in Nat /\ s[1] \in Datagram
  BY HeadTailProperties, LenProperties
<1>2. ToSet(Tail(s)) = {Tail(s)[i] : i \in 1 .. Len(s) - 1}
  BY <1>1, LenProperties DEF ToSet
<1>3. ASSUME NEW i \in 1 .. Len(s) - 1, Tail(s)[i] = Head(s)
      PROVE  FALSE
  <2>1. s[1].id < s[i + 1].id /\ s[i + 1] = s[1]
    BY <1>1, <1>3
  <2>2. s[1].id \in Int
    BY <1>1 DEF Datagram
  <2> QED
    BY <2>1, <2>2
<1> QED
  BY <1>2, <1>3

\* One of six, counted.
LEMMA OneIsOne ==
  ASSUME NEW d,
         OneOf(d \in InSock, d \in InRing, d \in Held, d \in Heard, d \in discarded, d \in dropped)
  PROVE  Cardinality({i \in 1 .. 6 : Places(d)[i]}) = 1
<1> DEFINE P == Places(d)
<1>1. /\ P[1] <=> d \in InSock
      /\ P[2] <=> d \in InRing
      /\ P[3] <=> d \in Held
      /\ P[4] <=> d \in Heard
      /\ P[5] <=> d \in discarded
      /\ P[6] <=> d \in dropped
  BY DEF Places, InSock, InRing, Held, Heard
<1> HIDE DEF P
<1>2. OneOf(P[1], P[2], P[3], P[4], P[5], P[6])
  BY <1>1 DEF OneOf
<1>3. 1 .. 6 = {1, 2, 3, 4, 5, 6}
  OBVIOUS
<1>4. \E k \in 1 .. 6 : {i \in 1 .. 6 : P[i]} = {k}
  <2>1. \E k \in {1, 2, 3, 4, 5, 6} : \A i \in {1, 2, 3, 4, 5, 6} : P[i] <=> i = k
    BY <1>2 DEF OneOf
  <2> QED
    BY <2>1, <1>3
<1>5. \A k : Cardinality({k}) = 1
  BY FS_Singleton
<1> QED
  BY <1>4, <1>5 DEF P

LEMMA PlacesMean == PlaceInv => NothingVanishes
  BY OneIsOne DEF PlaceInv, NothingVanishes

\* A step that changes none of the places.
AllPlaces == <<InSock, InRing, Held, Heard, discarded, dropped>>

LEMMA StaysStep ==
  ASSUME PlaceInv, UNCHANGED <<accepted, arrivals>>, UNCHANGED AllPlaces
  PROVE  PlaceInv'
  BY DEF PlaceInv, Everywhere, AllPlaces

\* The head of the kernel queue leaves it, for the ring, for the dropped, or for nowhere.
LEMMA LeavesSock ==
  ASSUME WorkInv, PlaceInv, Stream!InOrder, sock # <<>>, sock' = Tail(sock),
         UNCHANGED <<accepted, arrivals, Held, Heard, discarded>>,
         \/ Head(sock).kind = "blank" /\ UNCHANGED <<InRing, dropped>>
         \/ InRing' = InRing \cup {Head(sock)} /\ UNCHANGED dropped
         \/ dropped' = dropped \cup {Head(sock)} /\ UNCHANGED InRing
  PROVE  PlaceInv'
<1> DEFINE h == Head(sock)
<1>1. sock \in Seq(Datagram) /\ \A i, j \in 1 .. Len(sock) : i < j => sock[i].id < sock[j].id
  BY Ordered DEF WorkInv
<1>2. InSock = {h} \cup InSock' /\ h \notin InSock'
  BY <1>1, Elements, HeadOnce DEF InSock
<1> HIDE DEF h
<1>3. CASE h.kind = "blank" /\ UNCHANGED <<InRing, dropped>>
  BY <1>2, <1>3 DEF PlaceInv, Everywhere, OneOf
<1>4. CASE InRing' = InRing \cup {h} /\ UNCHANGED dropped
  BY <1>2, <1>4 DEF PlaceInv, Everywhere, OneOf
<1>5. CASE dropped' = dropped \cup {h} /\ UNCHANGED InRing
  BY <1>2, <1>5 DEF PlaceInv, Everywhere, OneOf
<1> QED
  BY <1>3, <1>4, <1>5 DEF h

\* What the operations of the ring move.
LEMMA FillMoves ==
  ASSUME WorkInv, sock # <<>>, JB!Fill(Head(sock)), Working' = Working
  PROVE  InRing' = InRing \cup {Head(sock)} /\ UNCHANGED Held
<1>1. Head(sock) \in Datagram /\ JB!Queued \in Seq(Datagram)
  BY Split, InDecodeIs DEF WorkInv
<1>2. JB!Queued' = Append(JB!Queued, Head(sock)) /\ JB!Held' = JB!Held
  BY <1>1, RingFill DEF WorkInv
<1> QED
  BY <1>1, <1>2, Elements DEF InRing, Held, InDecode, Working

LEMMA RingUnmoved ==
  ASSUME UNCHANGED jbVars, Working' = Working
  PROVE  UNCHANGED <<InRing, Held>>
  BY RingStays DEF InRing, Held, InDecode, Working

\* popFront moves the packet out of the ring, where there was no other of it.
LEMMA PopMoves ==
  ASSUME WorkInv, PlaceInv, Stream!InOrder, Pop
  PROVE  PlaceInv'
<1> DEFINE h == Head(JB!Queued)
<1>1. /\ ~Working /\ Working' /\ JB!popFront
      /\ UNCHANGED <<sock, played, arrivals, accepted, discarded, dropped>>
  BY DEF Pop, Working, netVars, history
<1>2. /\ JB!Queued # <<>> /\ JB!Queued' = Tail(JB!Queued) /\ JB!Held' = h
      /\ JB!Queued \in Seq(Datagram)
  BY <1>1, RingPop, InDecodeIs DEF WorkInv
<1>3. InRing = {h} \cup InRing' /\ h \notin InRing'
  BY <1>2, Elements, HeadOnce, Ordered DEF InRing
<1> HIDE DEF h
<1>4. Held = {} /\ Held' = {h}
  <2>1. InDecode = <<>> /\ InDecode' = <<h>>
    BY <1>1, <1>2 DEF InDecode, Working
  <2> QED
    BY <2>1, Singles DEF Held
<1>5. UNCHANGED <<InSock, Heard>>
  BY <1>1 DEF InSock, Heard
<1> QED
  BY <1>1, <1>3, <1>4, <1>5 DEF PlaceInv, Everywhere, OneOf

\* decode() is done: the packet was played or is discarded.
LEMMA DoneMoves ==
  ASSUME WorkInv, PlaceInv, Done, UNCHANGED <<accepted, dropped>>,
         \/ played' = Append(played, JB!Held) /\ UNCHANGED discarded
         \/ discarded' = discarded \cup {JB!Held} /\ UNCHANGED played
  PROVE  PlaceInv'
<1> DEFINE h == JB!Held
<1>1. h \in Datagram /\ played \in Seq(Datagram)
  BY DEF WorkInv, Done
<1>2. Held = {h} /\ Held' = {}
  <2>1. InDecode = <<h>> /\ InDecode' = <<>>
    BY DEF InDecode, Working, Done
  <2> QED
    BY <2>1, Singles DEF Held
<1> HIDE DEF h
<1>3. UNCHANGED <<InSock, InRing, arrivals>>
  BY RingStays DEF Done, InSock, InRing
<1>4. CASE played' = Append(played, h) /\ UNCHANGED discarded
  <2>1. Heard' = Heard \cup {h}
    BY <1>1, <1>4, Elements DEF Heard
  <2> QED
    BY <2>1, <1>2, <1>3, <1>4 DEF PlaceInv, Everywhere, OneOf
<1>5. CASE discarded' = discarded \cup {h} /\ UNCHANGED played
  <2>1. UNCHANGED Heard
    BY <1>5 DEF Heard
  <2> QED
    BY <2>1, <1>2, <1>3, <1>5 DEF PlaceInv, Everywhere, OneOf
<1> QED
  BY <1>4, <1>5 DEF h

\* What arrives was nowhere before.
LEMMA ArriveMoves ==
  ASSUME WorkInv, PlaceInv, NEW kind \in Kind, Arrive(kind)
  PROVE  PlaceInv'
<1> DEFINE d == [id |-> arrivals + 1, kind |-> kind]
<1>1. /\ UNCHANGED <<jbVars, pc, played, discarded, dropped>> /\ arrivals' = arrivals + 1
      /\ \/ sock' = Append(sock, d) /\ accepted' = accepted \cup {d}
         \/ UNCHANGED <<sock, accepted>>
      /\ d \in Datagram /\ d.id = arrivals + 1 /\ arrivals \in Nat
  BY ReceiverAssumption DEF Arrive, history, WorkInv, Datagram
<1> HIDE DEF d
<1>2. UNCHANGED <<InRing, Held, Heard>>
  BY <1>1, RingUnmoved DEF Working, Heard
<1>3. \/ InSock' = InSock \cup {d} /\ accepted' = accepted \cup {d}
      \/ UNCHANGED <<InSock, accepted>>
  <2>1. sock \in Seq(Datagram)
    BY DEF WorkInv
  <2>2. ToSet(Append(sock, d)) = ToSet(sock) \cup {d}
    BY <2>1, <1>1, Elements
  <2>3. CASE sock' = Append(sock, d) /\ accepted' = accepted \cup {d}
    BY <2>2, <2>3 DEF InSock
  <2>4. CASE UNCHANGED <<sock, accepted>>
    BY <2>4 DEF InSock
  <2> QED
    BY <2>3, <2>4, <1>1
<1>4. \A e \in Everywhere : e.id <= arrivals
  BY DEF PlaceInv
<1>5. d \notin Everywhere
  BY <1>1, <1>4
<1>6. \A e \in Everywhere : e.id <= arrivals'
  <2> SUFFICES ASSUME NEW e \in Everywhere
               PROVE  e.id <= arrivals'
    OBVIOUS
  <2>1. e.id \in Int
    BY DEF PlaceInv
  <2> QED
    BY <2>1, <1>1, <1>4
<1>7. CASE UNCHANGED <<InSock, accepted>>
  BY <1>1, <1>2, <1>6, <1>7 DEF PlaceInv, Everywhere, OneOf
<1>8. CASE InSock' = InSock \cup {d} /\ accepted' = accepted \cup {d}
  <2>1. \A e \in accepted' : e.kind # "blank" =>
         OneOf(e \in InSock', e \in InRing', e \in Held', e \in Heard', e \in discarded',
               e \in dropped')
    BY <1>1, <1>2, <1>5, <1>8 DEF PlaceInv, Everywhere, OneOf
  <2>2. d.id <= arrivals'
    BY <1>1
  <2> QED
    BY <2>1, <2>2, <1>1, <1>2, <1>6, <1>8 DEF PlaceInv, Everywhere
<1> QED
  BY <1>3, <1>7, <1>8

\* Each step moves a datagram from one place to another, or none.
LEMMA PlaceStep ==
  ASSUME WorkInv, PlaceInv, Stream!InOrder, [Next]_vars
  PROVE  PlaceInv'
<1>1. CASE Quiet \/ UNCHANGED vars
  <2>1. UNCHANGED <<jbVars, sock, played, arrivals>> /\ Working' = Working
    BY <1>1, QuietIsQuiet
  <2>2. UNCHANGED <<accepted, discarded, dropped>>
    BY <1>1 DEF Quiet, TakeDeadline, ClockFails, Get, CheckDeadline, RecvTimeout, RecvFails, Fail, Loop,
       StartReceiving, StopReceiving, StopReturns, DeadlinePasses, vars, netVars, history
  <2> QED
    BY <2>1, <2>2, RingUnmoved, StaysStep DEF AllPlaces, InSock, Heard
<1>2. CASE Recv
  <2>1. /\ sock # <<>> /\ sock' = Tail(sock) /\ Working' = Working
        /\ UNCHANGED <<accepted, arrivals, played, discarded, dropped>>
    BY <1>2 DEF Recv, Working, netVars, history
  <2>2. CASE Head(sock).kind = "blank"
    <3>1. UNCHANGED <<InRing, Held>>
      BY <1>2, <2>1, <2>2, RingUnmoved DEF Recv
    <3> QED
      BY <2>1, <2>2, <3>1, LeavesSock DEF Heard
  <2>3. CASE JB!Fill(Head(sock))
    <3>1. InRing' = InRing \cup {Head(sock)} /\ UNCHANGED Held
      BY <2>1, <2>3, FillMoves
    <3> QED
      BY <2>1, <3>1, LeavesSock DEF Heard
  <2> QED
    BY <1>2, <2>2, <2>3 DEF Recv
<1>3. CASE Pop
  BY <1>3, PopMoves
<1>4. CASE Drain
  <2>1. /\ Working /\ Working'
        /\ UNCHANGED <<accepted, arrivals, played, discarded>>
    BY <1>4 DEF Drain, Working, netVars
  <2>2. CASE sock = <<>>
    <3>1. UNCHANGED <<jbVars, sock, dropped>>
      BY <1>4, <2>2 DEF Drain
    <3> QED
      BY <2>1, <3>1, RingUnmoved, StaysStep DEF AllPlaces, InSock, Heard
  <2>3. CASE sock # <<>> /\ UNCHANGED jbVars
    <3>1. UNCHANGED <<InRing, Held>> /\ sock' = Tail(sock)
      BY <1>4, <2>1, <2>3, RingUnmoved DEF Drain
    <3>2. \/ Head(sock).kind = "blank" /\ UNCHANGED dropped
          \/ dropped' = dropped \cup {Head(sock)}
          \/ JB!Fill(Head(sock))
      BY <1>4, <2>3 DEF Drain
    <3>3. ~JB!Fill(Head(sock))
      BY <2>3, ReceiverAssumption
      DEF WorkInv, Ring, JB!TypeOK, JB!Fill, JB!Slot, JB!Successor, jbVars
    <3> QED
      BY <2>1, <2>3, <3>1, <3>2, <3>3, LeavesSock DEF Heard
  <2>4. CASE sock # <<>> /\ JB!Fill(Head(sock)) /\ UNCHANGED dropped
    <3>1. InRing' = InRing \cup {Head(sock)} /\ UNCHANGED Held /\ sock' = Tail(sock)
      BY <1>4, <2>1, <2>4, FillMoves DEF Drain
    <3> QED
      BY <2>1, <2>4, <3>1, LeavesSock DEF Heard
  <2> QED
    BY <1>4, <2>2, <2>3, <2>4 DEF Drain
<1>5. CASE Check
  <2>1. CASE JB!Held.kind = "audio"
    <3>1. /\ UNCHANGED <<jbVars, sock, played, arrivals>> /\ Working' = Working
          /\ UNCHANGED <<accepted, discarded, dropped>>
      BY <1>5, <2>1 DEF Check, Working, netVars
    <3> QED
      BY <3>1, RingUnmoved, StaysStep DEF AllPlaces, InSock, Heard
  <2>2. CASE JB!Held.kind # "audio"
    <3>1. /\ Done /\ UNCHANGED <<accepted, played, dropped>>
          /\ discarded' = discarded \cup {JB!Held}
      BY <1>5, <2>2 DEF Check, Done, Working, netVars
    <3> QED
      BY <3>1, DoneMoves
  <2> QED
    BY <2>1, <2>2
<1>6. CASE Write
  <2>1. Done /\ UNCHANGED <<accepted, discarded, dropped>> /\ played' = Append(played, JB!Held)
    BY <1>6 DEF Write, Done, Working, netVars
  <2> QED
    BY <2>1, DoneMoves
<1>7. CASE WriteFails
  <2>1. /\ Done /\ UNCHANGED <<accepted, played, dropped>>
        /\ discarded' = discarded \cup {JB!Held}
    BY <1>7 DEF WriteFails, Done, Working, netVars
  <2> QED
    BY <2>1, DoneMoves
<1>8. ASSUME NEW kind \in Kind, Arrive(kind)
      PROVE  PlaceInv'
  BY <1>8, ArriveMoves
<1> QED
  BY <1>1, <1>2, <1>3, <1>4, <1>5, <1>6, <1>7, <1>8 DEF Next, Thread, Quiet

\* No datagram that the kernel queued is forgotten or duplicated by recv(), the ring, the
\* drain loop and decode(), for every size: it is in exactly one place.
THEOREM ReceiverForgetsNothing == Spec => []NothingVanishes
<1>1. Init => PlaceInv
  <2> SUFFICES ASSUME Init
               PROVE  PlaceInv
    OBVIOUS
  <2>1. /\ accepted = {} /\ discarded = {} /\ dropped = {}
        /\ InDecode = <<>> /\ sock = <<>> /\ played = <<>>
    BY DEF Init, InDecode
  <2>2. JB!Queued = <<>>
    BY DEF Init, JB!JBInit, JB!Queued, JB!Count
  <2> QED
    BY <2>1, <2>2, Singles DEF PlaceInv, Everywhere, InSock, InRing, Held, Heard
<1>2. WorkInv /\ Stream!InOrder /\ PlaceInv /\ [Next]_vars => PlaceInv'
  BY PlaceStep
<1> QED
  BY <1>1, <1>2, PlacesMean, WorkInvInvariant, ReceiverInOrder, PTL DEF Spec
=============================================================================
