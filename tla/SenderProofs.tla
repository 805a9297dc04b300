--------------------------- MODULE SenderProofs ----------------------------
(***************************************************************************)
(* What the far end hears of digits and audio, for every frame size, every *)
(* rate, every width of the two counters and every value they start at:    *)
(* a digit is one event, the timestamps count samples, and no digit goes   *)
(* over into another session; and for every frame, every width of the      *)
(* clock and every start of it, that the packets are paced.                *)
(***************************************************************************)
EXTENDS DtmfSender, SendPacing, FiniteSetTheorems, SequenceTheorems, TLAPS

-----------------------------------------------------------------------------
\* Arithmetic of counters that wrap.

\* What the operator % says of integers, for counters that wrap.
LEMMA Residue ==
  ASSUME NEW a \in Int, NEW m \in Nat \ {0}
  PROVE  a % m \in 0 .. m - 1 /\ \E q \in Int : a = m * q + (a % m)
<1>1. a = m * (a \div m) + (a % m) /\ a \div m \in Int
  OBVIOUS
<1>2. a % m \in 0 .. m - 1
  OBVIOUS
<1> QED BY <1>1, <1>2

LEMMA SmallMultiple ==
  ASSUME NEW m \in Nat \ {0}, NEW x \in Int, -m < m * x, m * x < m
  PROVE  x = 0
<1>1. CASE x >= 1
  <2>1. m * x >= m * 1
    BY <1>1, Z3
  <2> QED BY <2>1, <1>1
<1>2. CASE x <= -1
  <2>1. m * x <= m * (-1)
    BY <1>2, Z3
  <2> QED BY <2>1, <1>2
<1> QED BY <1>1, <1>2

LEMMA ResidueIsUnique ==
  ASSUME NEW m \in Nat \ {0}, NEW r \in 0 .. m - 1, NEW s \in 0 .. m - 1,
         NEW p \in Int, NEW q \in Int, m * p + r = m * q + s
  PROVE  r = s
<1>1. p - q \in Int /\ m * (p - q) = s - r
  OBVIOUS
<1>2. p - q = 0
  BY <1>1, SmallMultiple
<1> QED BY <1>1, <1>2

\* Two integers have one residue when they differ by a multiple of the modulus.
LEMMA Congruent ==
  ASSUME NEW m \in Nat \ {0}, NEW a \in Int, NEW b \in Int
  PROVE  a % m = b % m <=> \E q \in Int : a = b + m * q
<1> DEFINE r == a % m
           s == b % m
<1>0. r \in 0 .. m - 1 /\ s \in 0 .. m - 1
  BY Residue
<1>1. PICK p \in Int : a = m * p + r
  BY Residue
<1>2. PICK q \in Int : b = m * q + s
  BY Residue
<1> HIDE DEF r, s
<1>3. ASSUME r = s
      PROVE  \E k \in Int : a = b + m * k
  <2>1. a = b + m * (p - q) /\ p - q \in Int
    BY <1>0, <1>1, <1>2, <1>3
  <2> QED BY <2>1
<1>4. ASSUME NEW k \in Int, a = b + m * k
      PROVE  r = s
  <2>1. m * p + r = m * (q + k) + s /\ q + k \in Int
    BY <1>0, <1>1, <1>2, <1>4
  <2> QED BY <2>1, <1>0, ResidueIsUnique
<1> QED BY <1>3, <1>4 DEF r, s

\* A counter that wraps at each step wraps as it would at the end.
LEMMA ResidueOfSum ==
  ASSUME NEW m \in Nat \ {0}, NEW a \in Int, NEW b \in Int
  PROVE  ((a % m) + b) % m = (a + b) % m
<1> DEFINE r == a % m
<1>0. r \in Int
  BY Residue
<1>1. PICK q \in Int : a = m * q + r
  BY Residue
<1> HIDE DEF r
<1> DEFINE x == a + b
           y == r + b
<1>2. x \in Int /\ y \in Int /\ x = y + m * q
  BY <1>0, <1>1
<1> HIDE DEF x, y
<1>3. x % m = y % m
  BY <1>2, Congruent
<1> QED BY <1>3 DEF r, x, y

LEMMA ResidueOfSmall ==
  ASSUME NEW m \in Nat \ {0}, NEW a \in 0 .. m - 1
  PROVE  a = (a + 0) % m
OBVIOUS

\* What is one further on is one more after it.
LEMMA OneMore ==
  ASSUME NEW a \in Int, NEW b \in Int, NEW c \in Int
  PROVE  (a + (b - c)) + 1 = a + (b + 1 - c)
OBVIOUS

LEMMA ResidueAdd ==
  ASSUME NEW m \in Nat \ {0}, NEW a \in Int, NEW b \in Int, NEW c \in Int,
         a % m = b % m
  PROVE  (a + c) % m = (b + c) % m
<1>1. PICK q \in Int : a = b + m * q
  BY Congruent
<1> DEFINE x == a + c
           y == b + c
<1>2. x \in Int /\ y \in Int /\ x = y + m * q
  BY <1>1
<1> HIDE DEF x, y
<1>3. x % m = y % m
  BY <1>2, Congruent
<1> QED BY <1>3 DEF x, y

\* Two numbers that differ by a multiple are as far from a third one.
LEMMA ResidueOfDistance ==
  ASSUME NEW m \in Nat \ {0}, NEW a \in Int, NEW b \in Int, NEW c \in Int,
         (a - b) % m = 0
  PROVE  (b - c) % m = (a - c) % m
<1> DEFINE d == a - b
<1>1. d \in Int /\ d % m = 0
  OBVIOUS
<1> HIDE DEF d
<1>2. PICK q \in Int : d = m * q
  <2>1. PICK q \in Int : d = m * q + (d % m)
    BY <1>1, Residue
  <2> QED BY <1>1, <2>1
<1> DEFINE x == a - c
           y == b - c
<1>3. x \in Int /\ y \in Int /\ x = y + m * q
  BY <1>2 DEF d
<1> HIDE DEF x, y
<1>4. x % m = y % m
  BY <1>3, Congruent
<1> QED BY <1>4 DEF x, y

\* What is left of a number after its residue is a multiple of the modulus.
LEMMA ResidueTaken ==
  ASSUME NEW m \in Nat \ {0}, NEW a \in Int, NEW b \in Int
  PROVE  (a - (((a - b) % m) + b)) % m = 0
<1> DEFINE r == (a - b) % m
<1>0. r \in Int /\ a - b \in Int
  BY Residue
<1>1. PICK q \in Int : a - b = m * q + r
  BY <1>0, Residue
<1> HIDE DEF r
<1> DEFINE x == a - (r + b)
<1>2. x \in Int /\ x = 0 + m * q
  BY <1>0, <1>1
<1> HIDE DEF x
<1>3. x % m = 0 % m
  BY <1>2, Congruent
<1>4. 0 % m = 0
  OBVIOUS
<1> QED BY <1>3, <1>4 DEF r, x

-----------------------------------------------------------------------------
\* The inductive invariant.

WireTypes ==
  /\ mLocalSequence \in 0 .. SeqMod - 1 /\ mLocalTimestamp \in 0 .. TsMod - 1
  /\ mNextDtmfEvent \in Nat \cup {NONE} /\ mDtmfEvent \in Nat \cup {NONE}
  /\ mDtmfDuration \in Nat
  /\ at \in {"idle", "try", "retry", "set"}
  /\ pc \in {"dead", "read", "lock", "take", "send", "turn", "failed"}
  /\ starts \in Nat /\ digits \in Nat /\ frames \in Nat
  /\ accepted \in Seq([digit : Nat, session : Nat])
  /\ sent \in Seq([digit : Nat \cup {NONE}, seq : 0 .. SeqMod - 1,
                   ts : 0 .. TsMod - 1, dur : Nat, session : Nat])

\* Frames that have a number and no packet yet.
Numbered == IF pc \in {"lock", "take", "send"} THEN 1 ELSE 0

Last == sent[Len(sent)]

\* A call of sendDtmf() brings a digit that nobody has seen before.
DigitsAreNew ==
  /\ mNextDtmfEvent <= digits /\ mDtmfEvent <= digits
  /\ \A i \in DOMAIN sent : sent[i].digit <= digits
  /\ at # "idle" =>
       /\ mNextDtmfEvent < digits /\ mDtmfEvent < digits
       /\ \A i \in DOMAIN sent : sent[i].digit < digits

\* The digit that waits is newer than the one being sent, and that one than those
\* sent before it.
DigitsGoOut ==
  /\ mNextDtmfEvent # NONE => mDtmfEvent < mNextDtmfEvent
  /\ \A i \in DOMAIN sent :
       /\ mNextDtmfEvent # NONE => sent[i].digit < mNextDtmfEvent
       /\ mDtmfEvent # NONE => sent[i].digit <= mDtmfEvent
       /\ mDtmfEvent # NONE /\ mDtmfDuration = 0 => sent[i].digit < mDtmfEvent

\* The last packet is of the digit being sent, and the next one will continue it.
EventGoesOn ==
  mDtmfEvent # NONE /\ mDtmfDuration # 0 =>
    /\ sent # <<>>
    /\ Last.digit = mDtmfEvent
    /\ Last.dur = mDtmfDuration
    /\ mDtmfDuration = SampleCount * Cardinality(EventSoFar(Len(sent)))
    /\ mLocalSequence = (Last.seq + Numbered) % SeqMod
    /\ Last.ts = (mLocalTimestamp - Numbered * SampleCount - mDtmfDuration) % TsMod

\* Since a packet both counters have moved by the same number of frames.
PacketsOnClock ==
  \A i \in DOMAIN sent : \E n \in Len(sent) - i + Numbered .. frames :
    /\ mLocalSequence = (sent[i].seq + n) % SeqMod
    /\ (mLocalTimestamp - FrameTime(i)) % TsMod = (n * SampleCount) % TsMod

\* A digit on its way was accepted in the session that is running.
DigitsAreOfSession ==
  \A d \in {mNextDtmfEvent, mDtmfEvent} \ {NONE} :
    \E k \in DOMAIN accepted : accepted[k] = [digit |-> d, session |-> starts]

EventInv == WireTypes /\ DigitsAreNew /\ DigitsGoOut /\ EventGoesOn /\ OneEventPerDigit

ClockInv == PacketsOnClock /\ SampleClock

SessionInv == WireTypes /\ DigitsAreOfSession /\ DigitsStayInSession

-----------------------------------------------------------------------------
LEMMA WireInit ==
  ASSUME Init
  PROVE  EventInv /\ ClockInv /\ SessionInv
<1> USE ClockAssumption
<1>1. WireTypes
  BY DEF Init, WireTypes, NONE
<1>2. DOMAIN sent = {} /\ mNextDtmfEvent = NONE /\ mDtmfEvent = NONE /\ at = "idle"
      /\ digits = 0
  BY DEF Init
<1>3. DigitsAreNew /\ DigitsGoOut /\ EventGoesOn /\ OneEventPerDigit
  BY <1>2 DEF DigitsAreNew, DigitsGoOut, EventGoesOn, OneEventPerDigit, NONE
<1>4. PacketsOnClock /\ SampleClock
  BY <1>2 DEF PacketsOnClock, SampleClock
<1>5. DigitsAreOfSession /\ DigitsStayInSession
  BY <1>2 DEF DigitsAreOfSession, DigitsStayInSession
<1> QED BY <1>1, <1>3, <1>4, <1>5 DEF EventInv, ClockInv, SessionInv

LEMMA WireTypesStep ==
  ASSUME WireTypes, [Next]_vars
  PROVE  WireTypes'
<1> USE FrameAssumption, ClockAssumption DEF WireTypes
<1>1. CASE StartSending
  BY <1>1 DEF StartSending, clock
<1>2. CASE StopSending \/ SendDtmf \/ TryLock \/ StopReturns \/ LockDtmf \/ Fail \/ Turn
  <2>1. CASE StopSending \/ StopReturns
    BY <2>1 DEF StopSending, StopReturns, clock, event
  <2>2. CASE SendDtmf
    BY <2>2 DEF SendDtmf, clock, event, session
  <2>3. CASE TryLock
    BY <2>3 DEF TryLock, clock, event, session
  <2>4. CASE LockDtmf \/ Fail \/ Turn
    BY <2>4 DEF LockDtmf, Fail, Turn, clock, event, session
  <2> QED BY <1>2, <2>1, <2>2, <2>3, <2>4
<1>3. CASE SetDigit
  <2>1. [digit |-> digits, session |-> starts] \in [digit : Nat, session : Nat]
    OBVIOUS
  <2>2. accepted' \in Seq([digit : Nat, session : Nat])
    BY <1>3, <2>1, AppendProperties DEF SetDigit
  <2> QED BY <1>3, <2>2 DEF SetDigit, clock, event, session
<1>4. CASE ReadFrame
  <2>1. /\ (mLocalSequence + 1) % SeqMod \in 0 .. SeqMod - 1
        /\ (mLocalTimestamp + SampleCount) % TsMod \in 0 .. TsMod - 1
    OBVIOUS
  <2>2. /\ frames' \in Nat /\ pc' \in {"failed", "lock"}
        /\ UNCHANGED <<mNextDtmfEvent, event, at, starts, digits, accepted, sent>>
    BY <1>4 DEF ReadFrame, clock, session
  <2>3. mLocalSequence' \in 0 .. SeqMod - 1 /\ mLocalTimestamp' \in 0 .. TsMod - 1
    BY <1>4, <2>1 DEF ReadFrame, clock
  <2> QED BY <2>2, <2>3 DEF event
<1>5. CASE TakeDigit
  BY <1>5 DEF TakeDigit, clock, event, session
<1>6. CASE SendDigit
  <2> DEFINE duration == mDtmfDuration + SampleCount
             p == Packet(mDtmfEvent, (mLocalTimestamp - duration) % TsMod,
                         WireDuration(duration))
  <2>1. duration \in Nat /\ WireDuration(duration) \in Nat
    BY DEF WireDuration
  <2>2. (mLocalTimestamp - duration) % TsMod \in 0 .. TsMod - 1
    BY <2>1
  <2>3. p \in [digit : Nat \cup {NONE}, seq : 0 .. SeqMod - 1,
               ts : 0 .. TsMod - 1, dur : Nat, session : Nat]
    BY <2>1, <2>2 DEF Packet
  <2>4. sent' = Append(sent, p) /\ mDtmfDuration' = duration
        /\ mDtmfEvent' \in {NONE, mDtmfEvent} /\ pc' = "turn"
        /\ UNCHANGED <<clock, mNextDtmfEvent, session, at, digits, frames, accepted>>
    BY <1>6 DEF SendDigit
  <2> HIDE DEF duration, p
  <2> QED BY <2>1, <2>3, <2>4, AppendProperties DEF clock, session
<1>7. CASE SendAudio
  <2> DEFINE p == Packet(NONE, mLocalTimestamp, 0)
  <2>1. p \in [digit : Nat \cup {NONE}, seq : 0 .. SeqMod - 1,
               ts : 0 .. TsMod - 1, dur : Nat, session : Nat]
    BY DEF Packet
  <2>2. sent' \in {sent, Append(sent, p)} /\ pc' \in {"turn", "failed"}
        /\ UNCHANGED <<clock, event, mNextDtmfEvent, session, at, digits, frames, accepted>>
    BY <1>7 DEF SendAudio
  <2> HIDE DEF p
  <2> DEFINE Packets == [digit : Nat \cup {NONE}, seq : 0 .. SeqMod - 1,
                         ts : 0 .. TsMod - 1, dur : Nat, session : Nat]
  <2>3. sent \in Seq(Packets) /\ p \in Packets
    BY <2>1
  <2> HIDE DEF Packets
  <2>4. Append(sent, p) \in Seq(Packets)
    BY <2>3, AppendProperties
  <2>5. sent' \in Seq([digit : Nat \cup {NONE}, seq : 0 .. SeqMod - 1,
                      ts : 0 .. TsMod - 1, dur : Nat, session : Nat])
    BY <2>2, <2>3, <2>4 DEF Packets
  <2> QED BY <2>2, <2>5 DEF clock, event, session
<1>8. CASE UNCHANGED vars
  BY <1>8 DEF vars, clock, event, session
<1> QED BY <1>1, <1>2, <1>3, <1>4, <1>5, <1>6, <1>7, <1>8 DEF Next, App, Thread

-----------------------------------------------------------------------------
\* Facts about the packets sent.

LEMMA SentIsSequence ==
  ASSUME WireTypes
  PROVE  /\ Len(sent) \in Nat /\ DOMAIN sent = 1 .. Len(sent)
         /\ sent # <<>> => Len(sent) >= 1
         /\ \A i \in DOMAIN sent :
              /\ sent[i].digit \in Nat \cup {NONE} /\ sent[i].seq \in 0 .. SeqMod - 1
              /\ sent[i].ts \in 0 .. TsMod - 1 /\ sent[i].dur \in Nat
<1> DEFINE Packets == [digit : Nat \cup {NONE}, seq : 0 .. SeqMod - 1,
                       ts : 0 .. TsMod - 1, dur : Nat, session : Nat]
<1>1. sent \in Seq(Packets)
  BY DEF WireTypes
<1> HIDE DEF Packets
<1>2. Len(sent) \in Nat /\ DOMAIN sent = 1 .. Len(sent)
  BY <1>1
<1>3. sent # <<>> => Len(sent) >= 1
  BY <1>1, <1>2, EmptySeq
<1>4. \A i \in DOMAIN sent : sent[i] \in Packets
  BY <1>1, ElementOfSeq
<1> QED BY <1>2, <1>3, <1>4 DEF Packets

LEMMA EventSize ==
  ASSUME WireTypes, NEW i \in DOMAIN sent
  PROVE  /\ IsFiniteSet(EventSoFar(i)) /\ Cardinality(EventSoFar(i)) \in Nat
         /\ FrameTime(i) \in Int
<1>1. i \in Nat /\ sent[i].ts \in Int
  BY SentIsSequence, ClockAssumption
<1>2. IsFiniteSet(1 .. i)
  BY <1>1, FS_Interval
<1>3. IsFiniteSet(EventSoFar(i))
  <2>1. EventSoFar(i) \in SUBSET (1 .. i)
    BY DEF EventSoFar
  <2> QED BY <1>2, <2>1, FS_Subset
<1>4. Cardinality(EventSoFar(i)) \in Nat
  BY <1>3, FS_CardinalityType
<1>5. SampleCount * Cardinality(EventSoFar(i)) \in Int
  BY <1>4, FrameAssumption
<1> QED BY <1>1, <1>3, <1>4, <1>5 DEF FrameTime

LEMMA AppendElements ==
  ASSUME NEW S, NEW s \in Seq(S), NEW e
  PROVE  /\ Len(s) \in Nat /\ Len(Append(s, e)) = Len(s) + 1
         /\ DOMAIN s = 1 .. Len(s) /\ DOMAIN Append(s, e) = 1 .. Len(s) + 1
         /\ Append(s, e)[Len(s) + 1] = e
         /\ \A i \in 1 .. Len(s) : Append(s, e)[i] = s[i]
OBVIOUS

\* A packet is added after the others, which stay what they were.
LEMMA SentGrows ==
  ASSUME WireTypes, WireTypes', NEW p, sent' = Append(sent, p)
  PROVE  /\ Len(sent) \in Nat /\ Len(sent') = Len(sent) + 1
         /\ DOMAIN sent = 1 .. Len(sent) /\ DOMAIN sent' = 1 .. Len(sent) + 1
         /\ sent'[Len(sent) + 1] = p
         /\ \A i \in DOMAIN sent :
              /\ i \in DOMAIN sent' /\ sent'[i] = sent[i]
              /\ EventSoFar(i)' = EventSoFar(i)
              /\ FrameTime(i)' = FrameTime(i)
<1>1. /\ Len(sent) \in Nat /\ Len(sent') = Len(sent) + 1
      /\ DOMAIN sent = 1 .. Len(sent) /\ DOMAIN sent' = 1 .. Len(sent) + 1
      /\ sent'[Len(sent) + 1] = p
      /\ \A i \in 1 .. Len(sent) : sent'[i] = sent[i]
  <2> DEFINE S == [digit : Nat \cup {NONE}, seq : 0 .. SeqMod - 1,
                   ts : 0 .. TsMod - 1, dur : Nat, session : Nat]
  <2>1. sent \in Seq(S)
    BY DEF WireTypes
  <2> HIDE DEF S
  <2> QED BY <2>1, AppendElements
<1>2. ASSUME NEW i \in DOMAIN sent
      PROVE  EventSoFar(i)' = EventSoFar(i)
  BY <1>1 DEF EventSoFar
<1>3. ASSUME NEW i \in DOMAIN sent
      PROVE  FrameTime(i)' = FrameTime(i)
  BY <1>1, <1>2 DEF FrameTime
<1> QED BY <1>1, <1>2, <1>3

\* The first packet of a digit makes an event of one packet.
LEMMA EventBegins ==
  ASSUME WireTypes, WireTypes', NEW p, sent' = Append(sent, p),
         \A i \in DOMAIN sent : sent[i].digit # p.digit
  PROVE  Cardinality(EventSoFar(Len(sent)))' = 1
<1> DEFINE L == Len(sent)
<1>1. L \in Nat /\ Len(sent)' = L + 1 /\ DOMAIN sent = 1 .. L /\ sent'[L + 1] = p
      /\ \A i \in 1 .. L : sent'[i] = sent[i]
  BY SentGrows
<1>2. EventSoFar(Len(sent))' = {k \in 1 .. L + 1 : sent'[k].digit = p.digit}
  BY <1>1 DEF EventSoFar
<1>3. EventSoFar(Len(sent))' = {L + 1}
  BY <1>1, <1>2
<1> QED BY <1>3, FS_Singleton

\* One more packet of the digit of the last one makes its event one longer.
LEMMA EventGrows ==
  ASSUME WireTypes, WireTypes', NEW p, sent' = Append(sent, p), sent # <<>>,
         Last.digit = p.digit
  PROVE  Cardinality(EventSoFar(Len(sent)))' = Cardinality(EventSoFar(Len(sent))) + 1
<1> DEFINE L == Len(sent)
<1>1. L \in Nat \ {0} /\ Len(sent)' = L + 1 /\ DOMAIN sent = 1 .. L /\ sent'[L + 1] = p
      /\ \A i \in 1 .. L : sent'[i] = sent[i]
  BY SentGrows, SentIsSequence
<1>2. EventSoFar(Len(sent))' = {k \in 1 .. L + 1 : sent'[k].digit = p.digit}
  BY <1>1 DEF EventSoFar
<1>3. EventSoFar(L) = {k \in 1 .. L : sent[k].digit = p.digit}
  BY DEF EventSoFar, Last
<1>4. EventSoFar(Len(sent))' = EventSoFar(L) \cup {L + 1} /\ L + 1 \notin EventSoFar(L)
  BY <1>1, <1>2, <1>3
<1>5. IsFiniteSet(EventSoFar(L))
  BY <1>1, EventSize
<1> QED BY <1>4, <1>5, FS_AddElement

-----------------------------------------------------------------------------
\* One digit, one event.

\* Calls, locks and the turns of the thread move neither digits nor clocks.
Quiet ==
  /\ UNCHANGED <<clock, mNextDtmfEvent, event, starts, frames, accepted, sent>>
  /\ Numbered' = Numbered

LEMMA QuietActions ==
  ASSUME StopSending \/ SendDtmf \/ TryLock \/ StopReturns \/ LockDtmf \/ Fail \/ Turn
         \/ UNCHANGED vars
  PROVE  Quiet
BY DEF StopSending, SendDtmf, TryLock, StopReturns, LockDtmf, Fail, Turn, vars, session,
   Quiet, Numbered

LEMMA QuietEvents ==
  ASSUME EventInv, Quiet, DigitsAreNew'
  PROVE  DigitsGoOut' /\ EventGoesOn' /\ OneEventPerDigit'
<1> USE DEF EventInv, Quiet, clock, event
<1>1. DigitsGoOut'
  BY DEF DigitsGoOut
<1>2. EventGoesOn'
  BY DEF EventGoesOn, Last, EventSoFar
<1>3. OneEventPerDigit'
  BY DEF OneEventPerDigit
<1> QED BY <1>1, <1>2, <1>3

\* A packet of audio, or the next packet of an event, keeps what was said of the
\* packets before it.
LEMMA OneMorePacket ==
  ASSUME WireTypes, WireTypes', OneEventPerDigit, NEW p, sent' = Append(sent, p),
         \A i \in DOMAIN sent : sent[i].digit # NONE /\ p.digit # NONE =>
           /\ sent[i].digit <= p.digit
           /\ sent[i].digit = p.digit =>
                /\ \A k \in i .. Len(sent) : sent[k].digit = p.digit
                /\ p.seq = (sent[i].seq + (Len(sent) + 1 - i)) % SeqMod
                /\ p.ts = sent[i].ts
                /\ sent[i].dur < p.dur
  PROVE  OneEventPerDigit'
<1> DEFINE L == Len(sent)
<1>1. L \in Nat /\ DOMAIN sent = 1 .. L /\ DOMAIN sent' = 1 .. L + 1 /\ sent'[L + 1] = p
      /\ \A i \in 1 .. L : sent'[i] = sent[i]
  BY SentGrows
<1> SUFFICES ASSUME NEW i \in DOMAIN sent', NEW j \in DOMAIN sent',
                    i < j, sent'[i].digit # NONE, sent'[j].digit # NONE
             PROVE  /\ sent'[i].digit <= sent'[j].digit
                    /\ sent'[i].digit = sent'[j].digit =>
                         /\ \A k \in i .. j : sent'[k].digit = sent'[i].digit
                         /\ sent'[j].seq = (sent'[i].seq + (j - i)) % SeqMod
                         /\ sent'[j].ts = sent'[i].ts
                         /\ sent'[i].dur < sent'[j].dur
  BY DEF OneEventPerDigit
<1>2. i \in 1 .. L /\ sent'[i] = sent[i]
  BY <1>1
<1>3. CASE j \in 1 .. L
  <2>1. sent'[j] = sent[j] /\ \A k \in i .. j : sent'[k] = sent[k]
    BY <1>1, <1>2, <1>3
  <2> QED BY <1>1, <1>2, <1>3, <2>1 DEF OneEventPerDigit
<1>4. CASE j = L + 1
  <2>1. sent'[j] = p /\ \A k \in i .. L : sent'[k] = sent[k]
    BY <1>1, <1>2, <1>4
  <2> QED BY <1>1, <1>2, <1>4, <2>1
<1> QED BY <1>1, <1>3, <1>4

LEMMA SendAudioEvents ==
  ASSUME EventInv, WireTypes', SendAudio
  PROVE  DigitsAreNew' /\ DigitsGoOut' /\ EventGoesOn' /\ OneEventPerDigit'
<1> DEFINE p == Packet(NONE, mLocalTimestamp, 0)
<1>1. /\ sent' \in {sent, Append(sent, p)} /\ p.digit = NONE
      /\ mDtmfEvent = NONE /\ mDtmfEvent' = NONE
      /\ UNCHANGED <<mNextDtmfEvent, digits, at>>
  BY DEF SendAudio, event, Packet
<1> HIDE DEF p
<1>2. EventGoesOn'
  BY <1>1 DEF EventGoesOn
<1>3. CASE sent' = sent
  <2>1. DigitsAreNew'
    BY <1>1, <1>3 DEF EventInv, DigitsAreNew
  <2>2. DigitsGoOut'
    BY <1>1, <1>3 DEF EventInv, DigitsGoOut
  <2>3. OneEventPerDigit'
    BY <1>3 DEF EventInv, OneEventPerDigit
  <2> QED BY <1>2, <2>1, <2>2, <2>3
<1>4. CASE sent' = Append(sent, p)
  <2>1. \A i \in DOMAIN sent' :
          \/ sent'[i].digit = NONE
          \/ i \in DOMAIN sent /\ sent'[i] = sent[i]
    BY <1>1, <1>4, SentGrows DEF EventInv
  <2>2. digits' \in Nat /\ mNextDtmfEvent' \in Nat \cup {NONE}
    BY DEF WireTypes
  <2>3. DigitsAreNew'
    BY <1>1, <2>1, <2>2 DEF EventInv, DigitsAreNew, NONE
  <2>4. DigitsGoOut'
    BY <1>1, <2>1, <2>2 DEF EventInv, DigitsGoOut, NONE
  <2>5. OneEventPerDigit'
    BY <1>1, <1>4, OneMorePacket DEF EventInv
  <2> QED BY <1>2, <2>3, <2>4, <2>5
<1> QED BY <1>1, <1>3, <1>4

LEMMA SendDigitEvents ==
  ASSUME EventInv, WireTypes', SendDigit
  PROVE  /\ DigitsAreNew' /\ DigitsGoOut' /\ EventGoesOn' /\ OneEventPerDigit'
         /\ mDtmfDuration' = SampleCount * Cardinality(EventSoFar(Len(sent)))'
<1> DEFINE L == Len(sent)
           duration == mDtmfDuration + SampleCount
           p == Packet(mDtmfEvent, (mLocalTimestamp - duration) % TsMod,
                       WireDuration(duration))
<1>1. /\ mDtmfEvent \in Nat /\ Numbered = 1 /\ Numbered' = 0
      /\ sent' = Append(sent, p)
      /\ mDtmfDuration' = duration
      /\ mDtmfEvent' = IF LastsEnough(duration) THEN NONE ELSE mDtmfEvent
      /\ UNCHANGED <<mLocalSequence, mLocalTimestamp, mNextDtmfEvent, digits, at>>
  BY DEF SendDigit, EventInv, WireTypes, Numbered, clock
<1>2. /\ mDtmfDuration \in Nat /\ duration \in Nat /\ duration > mDtmfDuration
      /\ mLocalTimestamp \in Int /\ mLocalSequence \in 0 .. SeqMod - 1 /\ SampleCount \in Nat
      /\ digits \in Nat /\ mNextDtmfEvent \in Nat \cup {NONE}
  BY FrameAssumption, ClockAssumption DEF EventInv, WireTypes
<1>3. /\ p.digit = mDtmfEvent /\ p.seq = mLocalSequence
      /\ p.ts = (mLocalTimestamp - duration) % TsMod /\ p.dur = WireDuration(duration)
  BY DEF Packet
<1>4. WireDuration(duration) \in Nat /\ WireDuration(duration) >= duration
      /\ (~LastsEnough(duration) => WireDuration(duration) = duration)
  BY <1>2 DEF WireDuration
<1> HIDE DEF duration, p
<1>5. /\ L \in Nat /\ DOMAIN sent = 1 .. L /\ Len(sent)' = L + 1 /\ DOMAIN sent' = 1 .. L + 1
      /\ sent'[L + 1] = p /\ \A i \in 1 .. L : sent'[i] = sent[i]
  BY <1>1, SentGrows DEF EventInv
<1>6. \A i \in 1 .. L : sent[i].digit \in Nat \cup {NONE} /\ sent[i].digit <= mDtmfEvent
  BY <1>1, <1>5, SentIsSequence DEF EventInv, DigitsGoOut, NONE
<1>7. DigitsAreNew'
  BY <1>1, <1>2, <1>3, <1>5 DEF EventInv, DigitsAreNew, NONE
<1>8. DigitsGoOut'
  <2>1. mNextDtmfEvent # NONE => mDtmfEvent < mNextDtmfEvent
    BY DEF EventInv, DigitsGoOut
  <2>2. (mNextDtmfEvent # NONE => mDtmfEvent < mNextDtmfEvent)'
    BY <1>1, <1>2, <2>1 DEF NONE
  <2>3. ASSUME NEW i \in DOMAIN sent'
        PROVE  /\ mNextDtmfEvent # NONE => sent'[i].digit < mNextDtmfEvent
               /\ sent'[i].digit <= mDtmfEvent
    BY <1>1, <1>2, <1>3, <1>5, <1>6, <2>1 DEF NONE
  <2>4. mDtmfDuration' # 0
    BY <1>1, <1>2
  <2> QED BY <1>1, <2>2, <2>3, <2>4 DEF DigitsGoOut
<1>9. ASSUME mDtmfDuration = 0
      PROVE  /\ duration = SampleCount * Cardinality(EventSoFar(Len(sent)))'
             /\ OneEventPerDigit'
  <2>1. \A i \in DOMAIN sent : sent[i].digit < mDtmfEvent
    BY <1>1, <1>9 DEF EventInv, DigitsGoOut, NONE
  <2>2. \A i \in DOMAIN sent : sent[i].digit # p.digit /\ sent[i].digit <= p.digit
    BY <1>1, <1>3, <1>5, <1>6, <2>1 DEF NONE
  <2>3. OneEventPerDigit'
    BY <1>1, <2>2, OneMorePacket DEF EventInv
  <2>4. Cardinality(EventSoFar(Len(sent)))' = 1
    BY <1>1, <2>2, EventBegins DEF EventInv
  <2>5. duration = SampleCount * Cardinality(EventSoFar(Len(sent)))'
    BY <1>2, <1>9, <2>4 DEF duration
  <2> QED BY <2>3, <2>5
<1>10. ASSUME mDtmfDuration # 0
      PROVE  /\ duration = SampleCount * Cardinality(EventSoFar(Len(sent)))'
             /\ OneEventPerDigit'
  <2>1. /\ sent # <<>> /\ Last.digit = mDtmfEvent /\ Last.dur = mDtmfDuration
        /\ mDtmfDuration = SampleCount * Cardinality(EventSoFar(L))
        /\ mLocalSequence = (Last.seq + 1) % SeqMod
        /\ Last.ts = (mLocalTimestamp - 1 * SampleCount - mDtmfDuration) % TsMod
    BY <1>1, <1>10 DEF EventInv, EventGoesOn, NONE
  <2>2. L \in 1 .. L /\ Last = sent[L]
    BY <1>5, <2>1, SentIsSequence DEF EventInv, Last
  <2>3. Last.ts = p.ts
    <3>1. mLocalTimestamp - 1 * SampleCount - mDtmfDuration = mLocalTimestamp - duration
      BY <1>2 DEF duration
    <3> QED BY <1>3, <2>1, <3>1
  <2>4. duration = SampleCount * Cardinality(EventSoFar(Len(sent)))'
    <3>1. Cardinality(EventSoFar(Len(sent)))' = Cardinality(EventSoFar(L)) + 1
      BY <1>1, <1>3, <2>1, EventGrows DEF EventInv
    <3>2. Cardinality(EventSoFar(L)) \in Nat
      BY <1>5, <2>2, EventSize DEF EventInv
    <3> QED BY <1>2, <2>1, <3>1, <3>2 DEF duration
  <2>5. ASSUME NEW i \in 1 .. L, sent[i].digit = mDtmfEvent
        PROVE  /\ \A k \in i .. L : sent[k].digit = mDtmfEvent
               /\ p.seq = (sent[i].seq + (L + 1 - i)) % SeqMod
               /\ p.ts = sent[i].ts
               /\ sent[i].dur < p.dur
    <3>1. /\ sent[i].seq \in Int /\ sent[i].dur \in Nat /\ SeqMod \in Nat \ {0}
          /\ i \in Int /\ L \in Int /\ p.dur \in Nat
      BY <1>3, <1>4, <1>5, <2>5, SentIsSequence, ClockAssumption DEF EventInv
    <3>2. Last.dur \in Nat /\ Last.dur < p.dur
      BY <1>2, <1>3, <1>4, <2>1
    <3>3. CASE i = L
      <4>1. \A k \in i .. L : k = L
        BY <3>1, <3>3
      <4>2. L + 1 - i = 1
        BY <1>5, <3>3
      <4> QED BY <1>3, <2>1, <2>2, <2>3, <2>5, <3>2, <3>3, <4>1, <4>2
    <3>4. CASE i < L
      <4>1. /\ \A k \in i .. L : sent[k].digit = sent[i].digit
            /\ Last.seq = (sent[i].seq + (L - i)) % SeqMod
            /\ Last.ts = sent[i].ts /\ sent[i].dur < Last.dur
        <5>1. /\ i \in DOMAIN sent /\ L \in DOMAIN sent /\ i < L
              /\ sent[i].digit # NONE /\ sent[L].digit # NONE
              /\ sent[i].digit = sent[L].digit
          BY <1>1, <1>5, <2>1, <2>2, <2>5, <3>4 DEF NONE
        <5>2. OneEventPerDigit
          BY DEF EventInv
        <5> HIDE DEF L
        <5> QED BY <2>2, <5>1, <5>2 DEF OneEventPerDigit
      <4>2. p.seq = (((sent[i].seq + (L - i)) % SeqMod) + 1) % SeqMod
        BY <1>3, <2>1, <4>1
      <4>3. p.seq = ((sent[i].seq + (L - i)) + 1) % SeqMod
        <5> DEFINE a == sent[i].seq + (L - i)
        <5>1. a \in Int /\ 1 \in Int /\ SeqMod \in Nat \ {0}
          BY <3>1
        <5> HIDE DEF a
        <5>2. ((a % SeqMod) + 1) % SeqMod = (a + 1) % SeqMod
          BY <5>1, ResidueOfSum, Zenon
        <5> QED BY <4>2, <5>2 DEF a
      <4>4. (sent[i].seq + (L - i)) + 1 = sent[i].seq + (L + 1 - i)
        BY <3>1, OneMore, Zenon
      <4>5. sent[i].dur < p.dur
        <5>1. sent[i].dur < Last.dur
          BY <4>1
        <5>2. sent[i].dur \in Nat /\ p.dur \in Nat
          BY <3>1
        <5> QED BY <3>2, <5>1, <5>2
      <4> QED BY <2>3, <2>5, <4>1, <4>3, <4>4, <4>5
    <3> QED BY <2>5, <3>1, <3>3, <3>4
  <2>6. OneEventPerDigit'
    <3>1. \A i \in DOMAIN sent : sent[i].digit # NONE /\ p.digit # NONE =>
            /\ sent[i].digit <= p.digit
            /\ sent[i].digit = p.digit =>
                 /\ \A k \in i .. Len(sent) : sent[k].digit = p.digit
                 /\ p.seq = (sent[i].seq + (Len(sent) + 1 - i)) % SeqMod
                 /\ p.ts = sent[i].ts
                 /\ sent[i].dur < p.dur
      BY <1>3, <1>5, <1>6, <2>5
    <3> QED BY <1>1, <3>1, OneMorePacket DEF EventInv
  <2> QED BY <2>4, <2>6
<1>11. duration = SampleCount * Cardinality(EventSoFar(Len(sent)))' /\ OneEventPerDigit'
  BY <1>2, <1>9, <1>10
<1>12. EventGoesOn'
  <2> SUFFICES ASSUME mDtmfEvent' # NONE
               PROVE  /\ sent' # <<>> /\ Last'.digit = mDtmfEvent'
                      /\ Last'.dur = mDtmfDuration'
                      /\ mDtmfDuration' = SampleCount * Cardinality(EventSoFar(Len(sent)))'
                      /\ mLocalSequence' = (Last'.seq + Numbered') % SeqMod
                      /\ Last'.ts = (mLocalTimestamp' - Numbered' * SampleCount
                                     - mDtmfDuration') % TsMod
    BY DEF EventGoesOn
  <2>1. mDtmfEvent' = mDtmfEvent /\ ~LastsEnough(duration)
    BY <1>1
  <2>2. sent' # <<>> /\ Last' = p
    BY <1>5 DEF Last
  <2>3. mLocalSequence = (mLocalSequence + 0) % SeqMod
    BY <1>2, ClockAssumption
  <2>4. mLocalTimestamp - duration = mLocalTimestamp - 0 * SampleCount - duration
    BY <1>2
  <2> QED BY <1>1, <1>3, <1>4, <1>11, <2>1, <2>2, <2>3, <2>4
<1> QED BY <1>1, <1>7, <1>8, <1>11, <1>12

LEMMA ReadFrameEvents ==
  ASSUME EventInv, WireTypes', ReadFrame
  PROVE  EventGoesOn'
<1>1. /\ Numbered = 0
      /\ UNCHANGED <<mDtmfEvent, mDtmfDuration, sent>>
  BY DEF ReadFrame, Numbered, event
<1>2. CASE pc' = "failed" /\ UNCHANGED clock
  <2>1. Numbered' = 0 /\ UNCHANGED <<mLocalSequence, mLocalTimestamp>>
    BY <1>2 DEF clock, Numbered
  <2> QED BY <1>1, <2>1 DEF EventInv, EventGoesOn, Last, EventSoFar
<1>3. CASE /\ pc' = "lock"
           /\ mLocalSequence' = (mLocalSequence + 1) % SeqMod
           /\ mLocalTimestamp' = (mLocalTimestamp + SampleCount) % TsMod
  <2> SUFFICES ASSUME mDtmfEvent # NONE, mDtmfDuration # 0
               PROVE  EventGoesOn'
    BY <1>1 DEF EventGoesOn
  <2> DEFINE q == Last.seq + 0
             t == mLocalTimestamp + SampleCount
             back == -SampleCount - mDtmfDuration
  <2>1. /\ sent # <<>> /\ Last.digit = mDtmfEvent /\ Last.dur = mDtmfDuration
        /\ mDtmfDuration = SampleCount * Cardinality(EventSoFar(Len(sent)))
        /\ mLocalSequence = q % SeqMod
        /\ Last.ts = (mLocalTimestamp - 0 * SampleCount - mDtmfDuration) % TsMod
    BY <1>1 DEF EventInv, EventGoesOn
  <2>2. /\ Last.seq \in Int /\ mLocalTimestamp \in Int /\ SampleCount \in Int
        /\ mDtmfDuration \in Int /\ SeqMod \in Nat \ {0} /\ TsMod \in Nat \ {0}
    <3>1. Len(sent) \in DOMAIN sent
      BY <2>1, SentIsSequence DEF EventInv
    <3>2. Last.seq \in Int
      BY <3>1, SentIsSequence, ClockAssumption DEF EventInv, Last
    <3> QED BY <3>2, FrameAssumption, ClockAssumption DEF EventInv, WireTypes
  <2>3. q \in Int /\ t \in Int /\ back \in Int /\ 1 \in Int /\ Numbered' = 1
    BY <1>3, <2>2 DEF Numbered
  <2>4. t + back = mLocalTimestamp - 0 * SampleCount - mDtmfDuration /\ q + 1 = Last.seq + 1
    BY <2>2
  <2> HIDE DEF q, t, back
  <2>5. ((q % SeqMod) + 1) % SeqMod = (q + 1) % SeqMod
    BY <2>2, <2>3, ResidueOfSum, Zenon
  <2>6. ((t % TsMod) + back) % TsMod = (t + back) % TsMod
    BY <2>2, <2>3, ResidueOfSum, Zenon
  <2>7. mLocalSequence' = (Last.seq + 1) % SeqMod
    BY <1>3, <2>1, <2>4, <2>5
  <2>8. mLocalTimestamp' = t % TsMod
    BY <1>3 DEF t
  <2>9. (mLocalTimestamp' - 1 * SampleCount - mDtmfDuration) = (t % TsMod) + back
    BY <2>2, <2>3, <2>8, Residue DEF back
  <2>10. Last.ts = (mLocalTimestamp' - 1 * SampleCount - mDtmfDuration) % TsMod
    BY <2>1, <2>4, <2>6, <2>9
  <2>11. /\ UNCHANGED <<mDtmfEvent, mDtmfDuration, sent, Last>>
         /\ EventSoFar(Len(sent))' = EventSoFar(Len(sent))
    BY <1>1 DEF Last, EventSoFar
  <2> QED BY <2>1, <2>3, <2>7, <2>10, <2>11 DEF EventGoesOn
<1> QED BY <1>2, <1>3 DEF ReadFrame

LEMMA EventStep ==
  ASSUME EventInv, [Next]_vars
  PROVE  EventInv'
<1>1. WireTypes'
  BY WireTypesStep DEF EventInv
<1>2. CASE StopSending \/ SendDtmf \/ TryLock \/ StopReturns \/ LockDtmf \/ Fail \/ Turn
           \/ UNCHANGED vars
  <2>1. Quiet
    BY <1>2, QuietActions
  <2>2. digits' >= digits /\ (at' # "idle" => at # "idle" \/ digits' > digits)
    BY <1>2 DEF StopSending, SendDtmf, TryLock, StopReturns, LockDtmf, Fail, Turn, vars,
       session, EventInv, WireTypes
  <2>3. /\ UNCHANGED <<mNextDtmfEvent, mDtmfEvent, sent>> /\ digits \in Nat /\ digits' \in Nat
        /\ mNextDtmfEvent \in Int /\ mDtmfEvent \in Int
        /\ \A i \in DOMAIN sent : sent[i].digit \in Int
    <3>1. digits \in Nat /\ digits' \in Nat /\ mNextDtmfEvent \in Int /\ mDtmfEvent \in Int
      BY <1>1 DEF EventInv, WireTypes, NONE
    <3>2. \A i \in DOMAIN sent : sent[i].digit \in Int
      BY SentIsSequence DEF EventInv, NONE
    <3> QED BY <2>1, <3>1, <3>2 DEF Quiet, event
  <2>4. DigitsAreNew'
    BY <2>2, <2>3 DEF EventInv, DigitsAreNew
  <2> QED BY <1>1, <2>1, <2>4, QuietEvents DEF EventInv
<1>3. CASE StartSending
  <2>1. mNextDtmfEvent' = NONE /\ mDtmfEvent' = NONE /\ UNCHANGED <<sent, digits, at>>
    BY <1>3 DEF StartSending
  <2>2. DigitsAreNew'
    BY <1>1, <2>1 DEF EventInv, DigitsAreNew, WireTypes, NONE
  <2>3. DigitsGoOut' /\ EventGoesOn'
    BY <2>1 DEF DigitsGoOut, EventGoesOn
  <2>4. OneEventPerDigit'
    BY <2>1 DEF EventInv, OneEventPerDigit
  <2> QED BY <1>1, <2>2, <2>3, <2>4 DEF EventInv
<1>4. CASE SetDigit
  <2>1. /\ at = "set" /\ at' = "idle" /\ mNextDtmfEvent' = digits
        /\ UNCHANGED <<clock, mDtmfEvent, mDtmfDuration, sent, digits, pc>>
    BY <1>4 DEF SetDigit, event
  <2>2. DigitsAreNew'
    BY <1>1, <2>1 DEF EventInv, DigitsAreNew, WireTypes
  <2>3. mDtmfEvent < digits /\ \A i \in DOMAIN sent : sent[i].digit < digits
    BY <2>1 DEF EventInv, DigitsAreNew
  <2>4. DigitsGoOut'
    BY <2>1, <2>3 DEF EventInv, DigitsGoOut
  <2>5. EventGoesOn'
    BY <2>1 DEF EventInv, EventGoesOn, Last, EventSoFar, Numbered, clock
  <2>6. OneEventPerDigit'
    BY <2>1 DEF EventInv, OneEventPerDigit
  <2> QED BY <1>1, <2>2, <2>4, <2>5, <2>6 DEF EventInv
<1>5. CASE ReadFrame
  <2>1. UNCHANGED <<mNextDtmfEvent, mDtmfEvent, mDtmfDuration, digits, at, sent>>
    BY <1>5 DEF ReadFrame, event
  <2>2. DigitsAreNew' /\ DigitsGoOut'
    BY <2>1 DEF EventInv, DigitsAreNew, DigitsGoOut
  <2>3. OneEventPerDigit'
    BY <2>1 DEF EventInv, OneEventPerDigit
  <2> QED BY <1>1, <1>5, <2>2, <2>3, ReadFrameEvents DEF EventInv
<1>6. CASE TakeDigit
  <2>1. /\ Numbered' = Numbered /\ mNextDtmfEvent' = NONE
        /\ UNCHANGED <<clock, digits, at, sent>>
    BY <1>6 DEF TakeDigit, Numbered
  <2>2. \/ mNextDtmfEvent # NONE /\ mDtmfEvent' = mNextDtmfEvent /\ mDtmfDuration' = 0
        \/ UNCHANGED event
    BY <1>6 DEF TakeDigit
  <2>3. DigitsAreNew'
    BY <1>1, <2>1, <2>2 DEF EventInv, DigitsAreNew, WireTypes, NONE, event
  <2>4. DigitsGoOut'
    <3>1. \A i \in DOMAIN sent : sent[i].digit \in Nat \cup {NONE}
      BY SentIsSequence DEF EventInv
    <3>2. CASE UNCHANGED event
      BY <2>1, <3>2 DEF EventInv, DigitsGoOut, event
    <3>3. CASE mNextDtmfEvent # NONE /\ mDtmfEvent' = mNextDtmfEvent /\ mDtmfDuration' = 0
      <4>1. \A i \in DOMAIN sent : sent[i].digit < mNextDtmfEvent
        BY <3>3 DEF EventInv, DigitsGoOut
      <4>2. mNextDtmfEvent \in Nat
        BY <3>3 DEF EventInv, WireTypes
      <4>3. \A i \in DOMAIN sent : sent[i].digit <= mNextDtmfEvent
        BY <3>1, <4>1, <4>2 DEF NONE
      <4> QED BY <2>1, <3>3, <4>1, <4>3 DEF DigitsGoOut
    <3> QED BY <2>2, <3>2, <3>3
  <2>5. EventGoesOn'
    BY <2>1, <2>2 DEF EventInv, EventGoesOn, Last, EventSoFar, clock, event
  <2>6. OneEventPerDigit'
    BY <2>1 DEF EventInv, OneEventPerDigit
  <2> QED BY <1>1, <2>3, <2>4, <2>5, <2>6 DEF EventInv
<1>7. CASE SendDigit
  BY <1>1, <1>7, SendDigitEvents DEF EventInv
<1>8. CASE SendAudio
  BY <1>1, <1>8, SendAudioEvents DEF EventInv
<1> QED
  BY <1>2, <1>3, <1>4, <1>5, <1>6, <1>7, <1>8 DEF Next, App, Thread

-----------------------------------------------------------------------------
\* The clock of the packets.

LEMMA PacketOnClock ==
  ASSUME EventInv, ClockInv, WireTypes', NEW p, sent' = Append(sent, p),
         p.seq = mLocalSequence, Numbered = 1, Numbered' = 0,
         UNCHANGED <<mLocalSequence, mLocalTimestamp, frames>>,
         FrameTime(Len(sent))' \in Int,
         (mLocalTimestamp - FrameTime(Len(sent))') % TsMod = 0
  PROVE  ClockInv'
<1>0. PICK L \in Nat : L = Len(sent)
  BY SentIsSequence DEF EventInv
<1>1. /\ L \in Nat /\ DOMAIN sent = 1 .. L /\ DOMAIN sent' = 1 .. L + 1 /\ Len(sent)' = L + 1
      /\ sent'[L + 1] = p
      /\ \A i \in 1 .. L : sent'[i] = sent[i] /\ FrameTime(i)' = FrameTime(i)
  BY <1>0, SentGrows DEF EventInv
<1>2. /\ mLocalTimestamp \in Int /\ mLocalSequence \in 0 .. SeqMod - 1 /\ frames \in Nat
      /\ SampleCount \in Int /\ SeqMod \in Nat \ {0} /\ TsMod \in Nat \ {0}
  BY FrameAssumption, ClockAssumption DEF EventInv, WireTypes
<1>3. \A i \in 1 .. L : FrameTime(i) \in Int
  BY <1>1, EventSize DEF EventInv
<1>4. PICK F \in Int : F = FrameTime(L + 1)' /\ (mLocalTimestamp - F) % TsMod = 0
  <2>1. FrameTime(Len(sent))' = FrameTime(L + 1)'
    BY <1>1 DEF FrameTime, EventSoFar
  <2> QED BY <2>1
<1>5. ASSUME NEW i \in 1 .. L
      PROVE  \E n \in L + 1 - i .. frames :
               /\ mLocalSequence = (sent[i].seq + n) % SeqMod
               /\ (mLocalTimestamp - FrameTime(i)) % TsMod = (n * SampleCount) % TsMod
  <2>1. i \in DOMAIN sent
    BY <1>1, <1>5
  <2>2. PICK n \in Len(sent) - i + Numbered .. frames :
               /\ mLocalSequence = (sent[i].seq + n) % SeqMod
               /\ (mLocalTimestamp - FrameTime(i)) % TsMod = (n * SampleCount) % TsMod
    BY <2>1 DEF ClockInv, PacketsOnClock
  <2>3. n \in L + 1 - i .. frames
    BY <1>0, <1>1, <1>5, <2>2
  <2> QED BY <2>2, <2>3
<1>6. ASSUME NEW i \in 1 .. L
      PROVE  (F - FrameTime(i)) % TsMod = (mLocalTimestamp - FrameTime(i)) % TsMod
  <2>1. FrameTime(i) \in Int
    BY <1>3, <1>6
  <2>2. /\ mLocalTimestamp \in Int /\ F \in Int /\ TsMod \in Nat \ {0}
        /\ (mLocalTimestamp - F) % TsMod = 0
    BY <1>2, <1>4
  <2> QED BY <2>1, <2>2, ResidueOfDistance, Zenon
<1>7. ASSUME NEW i \in 1 .. L + 1
      PROVE  \E n \in L + 1 - i .. frames :
               /\ mLocalSequence = (sent'[i].seq + n) % SeqMod
               /\ (mLocalTimestamp - FrameTime(i)') % TsMod = (n * SampleCount) % TsMod
  <2>1. CASE i \in 1 .. L
    <3>1. sent'[i] = sent[i] /\ FrameTime(i)' = FrameTime(i)
      BY <1>1, <2>1, Zenon
    <3>2. PICK n \in L + 1 - i .. frames :
               /\ mLocalSequence = (sent[i].seq + n) % SeqMod
               /\ (mLocalTimestamp - FrameTime(i)) % TsMod = (n * SampleCount) % TsMod
      BY <1>5, <2>1, Zenon
    <3> QED BY <3>1, <3>2, Zenon
  <2>2. CASE i = L + 1
    <3>1. 0 \in L + 1 - i .. frames
      BY <1>1, <1>2, <2>2
    <3>2. mLocalSequence = (sent'[i].seq + 0) % SeqMod
      <4>1. sent'[i].seq = mLocalSequence
        BY <1>1, <2>2, Zenon
      <4> QED BY <1>2, <4>1, ResidueOfSmall, Zenon
    <3>3. (mLocalTimestamp - FrameTime(i)') % TsMod = (0 * SampleCount) % TsMod
      BY <1>2, <1>4, <2>2
    <3> QED BY <3>1, <3>2, <3>3
  <2> QED BY <1>1, <1>7, <2>1, <2>2
<1>8. PacketsOnClock'
  <2>1. \A i \in 1 .. L + 1 : Len(sent)' - i + Numbered' = L + 1 - i
    BY <1>1
  <2>2. DOMAIN sent' = 1 .. L + 1
    BY <1>1
  <2> QED BY <1>7, <2>1, <2>2, SMTT(30) DEF PacketsOnClock
<1>9. ASSUME NEW i \in 1 .. L + 1, NEW j \in 1 .. L + 1, i < j
      PROVE  \E n \in j - i .. frames :
               /\ sent'[j].seq = (sent'[i].seq + n) % SeqMod
               /\ (FrameTime(j)' - FrameTime(i)') % TsMod = (n * SampleCount) % TsMod
  <2>1. i \in 1 .. L
    BY <1>1, <1>9
  <2>2. CASE j \in 1 .. L
    <3>1. i \in DOMAIN sent /\ j \in DOMAIN sent
      BY <1>1, <2>1, <2>2
    <3>2. PICK n \in j - i .. frames :
             /\ sent[j].seq = (sent[i].seq + n) % SeqMod
             /\ (FrameTime(j) - FrameTime(i)) % TsMod = (n * SampleCount) % TsMod
      BY <1>9, <3>1 DEF ClockInv, SampleClock
    <3> QED BY <1>1, <2>1, <2>2, <3>2
  <2>3. CASE j = L + 1
    <3>1. PICK n \in L + 1 - i .. frames :
             /\ mLocalSequence = (sent[i].seq + n) % SeqMod
             /\ (mLocalTimestamp - FrameTime(i)) % TsMod = (n * SampleCount) % TsMod
      BY <1>5, <2>1
    <3>2. (F - FrameTime(i)) % TsMod = (n * SampleCount) % TsMod
      BY <1>6, <2>1, <3>1
    <3> QED BY <1>1, <1>4, <2>1, <2>3, <3>1, <3>2
  <2> QED BY <1>1, <1>9, <2>2, <2>3
<1>10. SampleClock'
  <2>1. DOMAIN sent' = 1 .. L + 1 /\ frames' = frames
    BY <1>1
  <2>2. ASSUME NEW i \in DOMAIN sent', NEW j \in DOMAIN sent', i < j
        PROVE  \E n \in j - i .. frames' :
                 /\ sent'[j].seq = (sent'[i].seq + n) % SeqMod
                 /\ (FrameTime(j)' - FrameTime(i)') % TsMod = (n * SampleCount) % TsMod
    <3>1. i \in 1 .. L + 1 /\ j \in 1 .. L + 1 /\ i < j
      BY <2>1, <2>2
    <3>2. PICK n \in j - i .. frames :
             /\ sent'[j].seq = (sent'[i].seq + n) % SeqMod
             /\ (FrameTime(j)' - FrameTime(i)') % TsMod = (n * SampleCount) % TsMod
      BY <1>9, <3>1, Zenon
    <3> QED BY <2>1, <3>2
  <2> QED BY <2>2 DEF SampleClock
<1> QED BY <1>8, <1>10 DEF ClockInv

LEMMA SendDigitClock ==
  ASSUME EventInv, ClockInv, WireTypes', SendDigit
  PROVE  ClockInv'
<1> DEFINE duration == mDtmfDuration + SampleCount
           p == Packet(mDtmfEvent, (mLocalTimestamp - duration) % TsMod,
                       WireDuration(duration))
<1>1. /\ mDtmfEvent \in Nat /\ Numbered = 1 /\ Numbered' = 0
      /\ sent' = Append(sent, p) /\ mDtmfDuration' = duration
      /\ UNCHANGED <<mLocalSequence, mLocalTimestamp, frames>>
  BY DEF SendDigit, EventInv, WireTypes, Numbered, clock
<1>2. p.digit = mDtmfEvent /\ p.seq = mLocalSequence
      /\ p.ts = (mLocalTimestamp - duration) % TsMod
  BY DEF Packet
<1>3. mLocalTimestamp \in Int /\ duration \in Int /\ TsMod \in Nat \ {0}
  BY FrameAssumption, ClockAssumption DEF EventInv, WireTypes
<1>4. duration = SampleCount * Cardinality(EventSoFar(Len(sent)))'
  BY <1>1, SendDigitEvents
<1> HIDE DEF duration, p
<1>5. Len(sent)' = Len(sent) + 1 /\ sent'[Len(sent)'] = p
  BY <1>1, SentGrows DEF EventInv
<1>6. FrameTime(Len(sent))' = ((mLocalTimestamp - duration) % TsMod) + duration
  BY <1>1, <1>2, <1>4, <1>5 DEF FrameTime, NONE
<1>7. (mLocalTimestamp - FrameTime(Len(sent))') % TsMod = 0
  BY <1>3, <1>6, ResidueTaken
<1>8. FrameTime(Len(sent))' \in Int
  <2>1. mLocalTimestamp - duration \in Int
    BY <1>3
  <2>2. (mLocalTimestamp - duration) % TsMod \in Int
    BY <1>3, <2>1
  <2> QED BY <1>3, <1>6, <2>2
<1> QED BY <1>1, <1>2, <1>7, <1>8, PacketOnClock

LEMMA SendAudioClock ==
  ASSUME EventInv, ClockInv, WireTypes', SendAudio
  PROVE  ClockInv'
<1> DEFINE p == Packet(NONE, mLocalTimestamp, 0)
<1>1. /\ sent' \in {sent, Append(sent, p)} /\ Numbered = 1 /\ Numbered' = 0
      /\ UNCHANGED <<mLocalSequence, mLocalTimestamp, frames>>
  BY DEF SendAudio, Numbered, clock
<1>2. p.digit = NONE /\ p.seq = mLocalSequence /\ p.ts = mLocalTimestamp
  BY DEF Packet
<1>3. mLocalTimestamp \in Int /\ TsMod \in Nat \ {0} /\ frames \in Nat /\ Len(sent) \in Nat
  BY ClockAssumption, SentIsSequence DEF EventInv, WireTypes
<1> HIDE DEF p
<1>4. CASE sent' = sent
  <2>1. \A i : FrameTime(i)' = FrameTime(i)
    BY <1>4 DEF FrameTime, EventSoFar
  <2>2. SampleClock'
    BY <1>1, <1>4, <2>1 DEF ClockInv, SampleClock
  <2>3. ASSUME NEW i \in DOMAIN sent
        PROVE  \E n \in Len(sent) - i + 0 .. frames :
                 /\ mLocalSequence = (sent[i].seq + n) % SeqMod
                 /\ (mLocalTimestamp - FrameTime(i)) % TsMod = (n * SampleCount) % TsMod
    <3>1. PICK n \in Len(sent) - i + 1 .. frames :
             /\ mLocalSequence = (sent[i].seq + n) % SeqMod
             /\ (mLocalTimestamp - FrameTime(i)) % TsMod = (n * SampleCount) % TsMod
      BY <1>1, <2>3 DEF ClockInv, PacketsOnClock
    <3>2. i \in Int
      BY <2>3, SentIsSequence DEF EventInv
    <3>3. n \in Len(sent) - i + 0 .. frames
      BY <1>3, <3>1, <3>2
    <3> QED BY <3>1, <3>3
  <2>4. PacketsOnClock'
    BY <1>1, <1>4, <2>1, <2>3 DEF PacketsOnClock
  <2> QED BY <2>2, <2>4 DEF ClockInv
<1>5. CASE sent' = Append(sent, p)
  <2>1. Len(sent)' = Len(sent) + 1 /\ sent'[Len(sent)'] = p
    BY <1>5, SentGrows DEF EventInv
  <2>2. FrameTime(Len(sent))' = mLocalTimestamp
    BY <1>2, <2>1 DEF FrameTime
  <2>3. (mLocalTimestamp - FrameTime(Len(sent))') % TsMod = 0
    BY <1>3, <2>2
  <2> QED BY <1>1, <1>2, <1>3, <1>5, <2>2, <2>3, PacketOnClock
<1> QED BY <1>1, <1>4, <1>5

\* The next frame moves both counters by one frame.
LEMMA ReadFrameClock ==
  ASSUME EventInv, ClockInv, ReadFrame
  PROVE  ClockInv'
<1>1. /\ Numbered = 0 /\ frames \in Nat /\ frames' = frames + 1 /\ UNCHANGED sent
  BY DEF ReadFrame, Numbered, EventInv, WireTypes
<1>2. \A i : FrameTime(i)' = FrameTime(i)
  BY <1>1 DEF FrameTime, EventSoFar
<1>3. /\ mLocalTimestamp \in Int /\ SampleCount \in Int
      /\ SeqMod \in Nat \ {0} /\ TsMod \in Nat \ {0}
  BY FrameAssumption, ClockAssumption DEF EventInv, WireTypes
<1>4. SampleClock'
  <2>1. \A m \in Int : m .. frames \subseteq m .. frames'
    BY <1>1
  <2>2. \A i \in DOMAIN sent : i \in Int
    BY SentIsSequence DEF EventInv
  <2>3. \A i, j \in DOMAIN sent : j - i .. frames \subseteq j - i .. frames'
    BY <2>1, <2>2
  <2> QED BY <1>1, <1>2, <2>3 DEF ClockInv, SampleClock
<1>5. ASSUME NEW i \in DOMAIN sent
      PROVE  \E n \in Len(sent) - i + Numbered' .. frames' :
               /\ mLocalSequence' = (sent[i].seq + n) % SeqMod
               /\ (mLocalTimestamp' - FrameTime(i)) % TsMod = (n * SampleCount) % TsMod
  <2>1. /\ i \in Int /\ sent[i].seq \in Int /\ FrameTime(i) \in Int /\ Len(sent) \in Int
    BY <1>3, <1>5, SentIsSequence, EventSize DEF EventInv
  <2>2. PICK n \in Len(sent) - i + 0 .. frames :
               /\ mLocalSequence = (sent[i].seq + n) % SeqMod
               /\ (mLocalTimestamp - FrameTime(i)) % TsMod = (n * SampleCount) % TsMod
    BY <1>1, <1>5 DEF ClockInv, PacketsOnClock
  <2>3. CASE pc' = "failed" /\ UNCHANGED clock
    <3>1. Numbered' = 0 /\ UNCHANGED <<mLocalSequence, mLocalTimestamp>>
      BY <2>3 DEF Numbered, clock
    <3>2. n \in Len(sent) - i + Numbered' .. frames'
      BY <1>1, <2>1, <2>2, <3>1
    <3> QED BY <2>2, <3>1, <3>2
  <2>4. CASE /\ pc' = "lock"
             /\ mLocalSequence' = (mLocalSequence + 1) % SeqMod
             /\ mLocalTimestamp' = (mLocalTimestamp + SampleCount) % TsMod
    <3> DEFINE q == sent[i].seq + n
               t == mLocalTimestamp + SampleCount
               back == 0 - FrameTime(i)
               d == mLocalTimestamp - FrameTime(i)
               e == n * SampleCount
    <3>1. /\ q \in Int /\ t \in Int /\ back \in Int /\ d \in Int /\ e \in Int /\ 1 \in Int
          /\ n \in Int
      <4>1. n \in Int
        BY <1>1, <2>1, <2>2
      <4> QED BY <1>3, <2>1, <4>1
    <3>2. /\ q + 1 = sent[i].seq + (n + 1) /\ t + back = d + SampleCount
          /\ e + SampleCount = (n + 1) * SampleCount
      <4>1. q + 1 = sent[i].seq + (n + 1)
        <5>1. sent[i].seq \in Int /\ n \in Int
          BY <2>1, <3>1
        <5> QED BY <5>1
      <4>2. t + back = d + SampleCount
        BY <1>3, <2>1
      <4>3. e + SampleCount = (n + 1) * SampleCount
        <5>1. \A k, c \in Int : k * c + c = (k + 1) * c
          OBVIOUS
        <5> QED BY <1>3, <3>1, <5>1, Zenon
      <4> QED BY <4>1, <4>2, <4>3
    <3>3. mLocalSequence = q % SeqMod /\ d % TsMod = e % TsMod /\ mLocalTimestamp' = t % TsMod
      BY <2>2, <2>4
    <3>4. mLocalTimestamp' - FrameTime(i) = (t % TsMod) + back
      <4>1. t % TsMod \in Int
        BY <1>3, <3>1, Residue
      <4> QED BY <2>1, <3>3, <4>1
    <3> HIDE DEF q, t, back, d, e
    <3>5. ((q % SeqMod) + 1) % SeqMod = (q + 1) % SeqMod
      BY <1>3, <3>1, ResidueOfSum, Zenon
    <3>6. ((t % TsMod) + back) % TsMod = (t + back) % TsMod
      BY <1>3, <3>1, ResidueOfSum, Zenon
    <3>7. (d + SampleCount) % TsMod = (e + SampleCount) % TsMod
      <4>1. /\ d \in Int /\ e \in Int /\ SampleCount \in Int /\ TsMod \in Nat \ {0}
            /\ d % TsMod = e % TsMod
        BY <1>3, <3>1, <3>3
      <4> QED BY <4>1, ResidueAdd, Zenon
    <3>8. mLocalSequence' = (sent[i].seq + (n + 1)) % SeqMod
      BY <2>4, <3>2, <3>3, <3>5
    <3>9. (mLocalTimestamp' - FrameTime(i)) % TsMod = ((n + 1) * SampleCount) % TsMod
      BY <3>2, <3>4, <3>6, <3>7
    <3>10. n + 1 \in Len(sent) - i + Numbered' .. frames'
      <4>1. Numbered' = 1
        BY <2>4 DEF Numbered
      <4> QED BY <1>1, <2>1, <2>2, <4>1
    <3> QED BY <3>8, <3>9, <3>10
  <2> QED BY <2>3, <2>4 DEF ReadFrame
<1>6. PacketsOnClock'
  BY <1>1, <1>2, <1>5 DEF PacketsOnClock
<1> QED BY <1>4, <1>6 DEF ClockInv

LEMMA ClockStep ==
  ASSUME EventInv, ClockInv, [Next]_vars
  PROVE  ClockInv'
<1>1. WireTypes'
  BY WireTypesStep DEF EventInv
<1>2. ASSUME UNCHANGED <<clock, frames, sent>>, Numbered' = Numbered
      PROVE  ClockInv'
  <2>1. \A i : FrameTime(i)' = FrameTime(i)
    BY <1>2 DEF FrameTime, EventSoFar
  <2>2. SampleClock'
    BY <1>2, <2>1 DEF ClockInv, SampleClock
  <2>3. PacketsOnClock'
    BY <1>2, <2>1 DEF ClockInv, PacketsOnClock, clock
  <2> QED BY <2>2, <2>3 DEF ClockInv
<1>3. CASE StopSending \/ SendDtmf \/ TryLock \/ StopReturns \/ LockDtmf \/ Fail \/ Turn
           \/ UNCHANGED vars
  BY <1>2, <1>3, QuietActions DEF Quiet
<1>4. CASE StartSending
  BY <1>2, <1>4 DEF StartSending, Numbered
<1>5. CASE SetDigit
  BY <1>2, <1>5 DEF SetDigit, Numbered
<1>6. CASE TakeDigit
  BY <1>2, <1>6 DEF TakeDigit, Numbered
<1>7. CASE ReadFrame
  BY <1>7, ReadFrameClock
<1>8. CASE SendDigit
  BY <1>1, <1>8, SendDigitClock
<1>9. CASE SendAudio
  BY <1>1, <1>9, SendAudioClock
<1> QED
  BY <1>3, <1>4, <1>5, <1>6, <1>7, <1>8, <1>9 DEF Next, App, Thread

-----------------------------------------------------------------------------
\* Digits and sessions.

LEMMA SessionStep ==
  ASSUME SessionInv, [Next]_vars
  PROVE  SessionInv'
<1>1. WireTypes'
  BY WireTypesStep DEF SessionInv
<1>2. ASSUME UNCHANGED <<starts, accepted, sent>>,
             mNextDtmfEvent' \in {mNextDtmfEvent, NONE},
             mDtmfEvent' \in {mDtmfEvent, mNextDtmfEvent, NONE}
      PROVE  DigitsAreOfSession' /\ DigitsStayInSession'
  BY <1>2 DEF SessionInv, DigitsAreOfSession, DigitsStayInSession
<1>3. CASE StopSending \/ SendDtmf \/ TryLock \/ StopReturns \/ LockDtmf \/ Fail \/ Turn
           \/ UNCHANGED vars
  BY <1>1, <1>2, <1>3, QuietActions DEF Quiet, event, SessionInv
<1>4. CASE ReadFrame
  BY <1>1, <1>2, <1>4 DEF ReadFrame, event, session, SessionInv
<1>5. CASE TakeDigit
  BY <1>1, <1>2, <1>5 DEF TakeDigit, event, session, SessionInv
<1>6. CASE StartSending
  BY <1>1, <1>6 DEF StartSending, SessionInv, DigitsAreOfSession, DigitsStayInSession
<1>7. CASE SetDigit
  <2> DEFINE a == [digit |-> digits, session |-> starts]
             K == Len(accepted)
  <2>1. /\ mNextDtmfEvent' = digits /\ accepted' = Append(accepted, a)
        /\ UNCHANGED <<mDtmfEvent, starts, sent>>
    BY <1>7 DEF SetDigit, event, session
  <2>2. K \in Nat /\ DOMAIN accepted = 1 .. K /\ DOMAIN accepted' = 1 .. K + 1
        /\ accepted'[K + 1] = a /\ \A k \in 1 .. K : accepted'[k] = accepted[k]
    BY <2>1 DEF SessionInv, WireTypes
  <2>3. \A k \in DOMAIN accepted : k \in DOMAIN accepted' /\ accepted'[k] = accepted[k]
    BY <2>2
  <2>4. DigitsStayInSession'
    BY <2>1, <2>3 DEF SessionInv, DigitsStayInSession
  <2>5. K + 1 \in DOMAIN accepted'
    BY <2>2
  <2>6. DigitsAreOfSession'
    BY <2>1, <2>2, <2>3, <2>5 DEF SessionInv, DigitsAreOfSession
  <2> QED BY <1>1, <2>4, <2>6 DEF SessionInv
<1>8. ASSUME NEW p, p.session = starts, p.digit \in {mDtmfEvent, NONE},
             sent' \in {sent, Append(sent, p)}, mDtmfEvent' \in {mDtmfEvent, NONE},
             UNCHANGED <<mNextDtmfEvent, starts, accepted>>
      PROVE  DigitsAreOfSession' /\ DigitsStayInSession'
  <2>1. DigitsAreOfSession'
    BY <1>8 DEF SessionInv, DigitsAreOfSession
  <2>2. \A i \in DOMAIN sent' : \/ i \in DOMAIN sent /\ sent'[i] = sent[i]
                                \/ sent'[i] = p
    <3>1. CASE sent' = sent
      BY <3>1
    <3>2. CASE sent' = Append(sent, p)
      BY <1>1, <3>2, SentGrows DEF SessionInv
    <3> QED BY <1>8, <3>1, <3>2
  <2>3. p.digit # NONE => \E k \in DOMAIN accepted :
                            accepted[k] = [digit |-> p.digit, session |-> p.session]
    BY <1>8 DEF SessionInv, DigitsAreOfSession
  <2>4. DigitsStayInSession'
    BY <1>8, <2>2, <2>3 DEF SessionInv, DigitsStayInSession
  <2> QED BY <2>1, <2>4
<1>9. CASE SendDigit
  <2> DEFINE duration == mDtmfDuration + SampleCount
             p == Packet(mDtmfEvent, (mLocalTimestamp - duration) % TsMod,
                         WireDuration(duration))
  <2>1. p.session = starts /\ p.digit = mDtmfEvent
    BY DEF Packet
  <2>2. /\ sent' = Append(sent, p) /\ mDtmfEvent' \in {mDtmfEvent, NONE}
        /\ UNCHANGED <<mNextDtmfEvent, starts, accepted>>
    BY <1>9 DEF SendDigit, session
  <2> HIDE DEF p
  <2> QED BY <1>1, <1>8, <2>1, <2>2 DEF SessionInv
<1>10. CASE SendAudio
  <2> DEFINE p == Packet(NONE, mLocalTimestamp, 0)
  <2>1. p.session = starts /\ p.digit = NONE
    BY DEF Packet
  <2>2. /\ sent' \in {sent, Append(sent, p)} /\ mDtmfEvent' = mDtmfEvent
        /\ UNCHANGED <<mNextDtmfEvent, starts, accepted>>
    BY <1>10 DEF SendAudio, session, event
  <2> HIDE DEF p
  <2> QED BY <1>1, <1>8, <2>1, <2>2 DEF SessionInv
<1> QED
  BY <1>1, <1>3, <1>4, <1>5, <1>6, <1>7, <1>9, <1>10 DEF Next, App, Thread, SessionInv

-----------------------------------------------------------------------------
\* A digit is one event for the far end, in the order of the calls of sendDtmf(),
\* however the calls and encode() interleave and wherever the counters wrap.
THEOREM DigitIsOneEvent == Spec => []OneEventPerDigit
<1>1. Init => EventInv
  BY WireInit
<1>2. EventInv /\ [Next]_vars => EventInv'
  BY EventStep
<1>3. EventInv => OneEventPerDigit
  BY DEF EventInv
<1> QED BY <1>1, <1>2, <1>3, PTL DEF Spec

\* The timestamps of all packets count samples: those of digits, of audio, after
\* failed frames and after restarts.
THEOREM TimestampsCountSamples == Spec => []SampleClock
<1>1. Init => EventInv /\ ClockInv
  BY WireInit
<1>2. EventInv /\ [Next]_vars => EventInv'
  BY EventStep
<1>3. EventInv /\ ClockInv /\ [Next]_vars => ClockInv'
  BY ClockStep
<1>4. ClockInv => SampleClock
  BY DEF ClockInv
<1> QED BY <1>1, <1>2, <1>3, <1>4, PTL DEF Spec

\* encode() sends a digit only in the session in which sendDtmf() accepted it.
THEOREM NoDigitOutlivesItsSession == Spec => []DigitsStayInSession
<1>1. Init => SessionInv
  BY WireInit
<1>2. SessionInv /\ [Next]_vars => SessionInv'
  BY SessionStep
<1>3. SessionInv => DigitsStayInSession
  BY DEF SessionInv
<1> QED BY <1>1, <1>2, <1>3, PTL DEF Spec

-----------------------------------------------------------------------------
\* The pacing of the packets.

\* What NeverEarly allows: a packet per mInterval, one for each time the clock was set,
\* and what the Sender was late after it had looked at the clock.
Allowed == mInterval * (1 + jumps) + slip

\* How far the 32-bit clock is past mTimer.
Elapsed == (wall - mTimer) % Word

PacingTypes ==
  /\ wall \in 0 .. Word - 1 /\ mTimer \in 0 .. Word - 1
  /\ phase \in 0 .. FrameTicks - 1
  /\ stage \in {"read", "pace", "sleep", "send"}
  /\ queue \in Nat /\ rest \in Nat /\ late \in Nat /\ slip \in Nat
  /\ jumps \in Nat /\ events \in Nat /\ debt \in Nat
  /\ stage \in {"read", "send"} => rest = 0
  /\ stage = "pace" => rest <= 1
  /\ stage = "sleep" => rest < mInterval

\* The clock tells how much of the debt was leaked since mTimer.
Tracks(owed) == Elapsed <= mInterval /\ owed + Elapsed <= Allowed

\* Until the Sender looks at the clock, it may send a packet at once, or the clock will
\* tell it to wait.
BeforeLook ==
  stage \in {"read", "pace"} =>
    \/ debt + mInterval <= Allowed
    \/ Tracks(debt) /\ (stage = "pace" => Elapsed + rest >= 1)

\* Then the packet may be sent after the rest, and the next one as above; a clock that
\* was set meanwhile says nothing, but allows one more.
AfterLook ==
  stage \in {"sleep", "send"} =>
    \/ debt + 2 * mInterval - rest <= Allowed /\ 2 * mInterval <= Allowed
    \/ rest > 0 /\ Elapsed + rest = Word /\ debt + mInterval - rest <= Allowed
    \/ rest = 0 /\ Tracks(debt + mInterval)

DebtInv == PacingTypes /\ BeforeLook /\ AfterLook

\* Ticks recorded and not read, and those until the Sender is done with a packet.
Behind == queue * FrameTicks + phase + rest

BacklogInv ==
  PacingTypes /\ Behind <= late + slip + (IF stage = "pace" THEN 1 ELSE FrameTicks)

-----------------------------------------------------------------------------
\* An interval is less than a frame, and half of the clock is longer than both.
LEMMA IntervalFits ==
  /\ mInterval \in Nat /\ mInterval < FrameTicks /\ FrameTicks \in Nat \ {0}
  /\ Word \in Nat /\ Word > 2 * mInterval /\ Word > 4 * FrameTicks
  /\ Word \div 2 \in Nat /\ mInterval < Word \div 2 /\ mInterval < Word - Word \div 2
BY PacingAssumption DEF mInterval

LEMMA ResidueIs ==
  ASSUME NEW m \in Nat \ {0}, NEW n \in Int, NEW q \in Int, NEW r \in 0 .. m - 1,
         n = m * q + r
  PROVE  n % m = r
<1>1. PICK p \in Int : n = m * p + (n % m)
  BY Residue
<1>2. n % m \in 0 .. m - 1
  BY Residue
<1> DEFINE s == n % m
<1> HIDE DEF s
<1>3. s \in 0 .. m - 1 /\ m * p + s = m * q + r
  BY <1>1, <1>2 DEF s
<1>4. s = r
  BY <1>3, ResidueIsUnique
<1> QED
  BY <1>4 DEF s

\* The residue of a number that is out of the range by less than the modulus.
LEMMA NearResidue ==
  ASSUME NEW m \in Nat \ {0}, NEW n \in Int
  PROVE  /\ n \in 0 .. m - 1 => n % m = n
         /\ n \in m .. 2 * m - 1 => n % m = n - m
         /\ n \in -m .. -1 => n % m = n + m
<1>1. ASSUME n \in 0 .. m - 1
      PROVE  n % m = n
  BY <1>1
<1>2. ASSUME n \in m .. 2 * m - 1
      PROVE  n % m = n - m
  <2> DEFINE r == n - m
             q == 1
  <2>1. q \in Int /\ r \in 0 .. m - 1 /\ n = m * q + r
    BY <1>2
  <2> HIDE DEF r, q
  <2> QED
    BY <2>1, ResidueIs DEF r
<1>3. ASSUME n \in -m .. -1
      PROVE  n % m = n + m
  <2> DEFINE r == n + m
             q == -1
  <2>1. q \in Int /\ r \in 0 .. m - 1 /\ n = m * q + r
    BY <1>3
  <2> HIDE DEF r, q
  <2> QED
    BY <2>1, ResidueIs DEF r
<1> QED
  BY <1>1, <1>2, <1>3

\* The difference of two times, and that of a later one.
LEMMA DifferenceIs ==
  ASSUME NEW m \in Nat \ {0}, NEW a \in 0 .. m - 1, NEW b \in 0 .. m - 1
  PROVE  (a - b) % m = IF b <= a THEN a - b ELSE a - b + m
<1> DEFINE n == a - b
<1>1. n \in Int /\ (b <= a => n \in 0 .. m - 1) /\ (~(b <= a) => n \in -m .. -1)
  OBVIOUS
<1> HIDE DEF n
<1>2. n % m = IF b <= a THEN n ELSE n + m
  BY <1>1, NearResidue
<1> QED
  BY <1>2 DEF n

LEMMA SuccessorIs ==
  ASSUME NEW m \in Nat \ {0}, NEW a \in 0 .. m - 1
  PROVE  (a + 1) % m = IF a + 1 = m THEN 0 ELSE a + 1
<1> DEFINE n == a + 1
<1>1. n \in Int /\ (n = m => n \in m .. 2 * m - 1) /\ (n # m => n \in 0 .. m - 1)
  OBVIOUS
<1> HIDE DEF n
<1>2. n % m = IF n = m THEN n - m ELSE n
  BY <1>1, NearResidue
<1> QED
  BY <1>1, <1>2 DEF n

LEMMA ElapsedIs ==
  ASSUME PacingTypes
  PROVE  /\ Elapsed \in 0 .. Word - 1
         /\ Elapsed = IF mTimer <= wall THEN wall - mTimer ELSE wall - mTimer + Word
BY IntervalFits, DifferenceIs DEF PacingTypes, Elapsed

\* A tick later the clock is one further from mTimer, until it wraps.
LEMMA ElapsedGrows ==
  ASSUME PacingTypes, wall' = (wall + 1) % Word, mTimer' = mTimer
  PROVE  /\ wall' \in 0 .. Word - 1
         /\ Elapsed' = IF Elapsed = Word - 1 THEN 0 ELSE Elapsed + 1
<1>1. wall' = IF wall + 1 = Word THEN 0 ELSE wall + 1
  BY IntervalFits, SuccessorIs DEF PacingTypes
<1>2. wall' \in 0 .. Word - 1
  BY <1>1, IntervalFits DEF PacingTypes
<1>3. Elapsed' = IF mTimer <= wall' THEN wall' - mTimer ELSE wall' - mTimer + Word
  <2>1. (wall' - mTimer) % Word
          = IF mTimer <= wall' THEN wall' - mTimer ELSE wall' - mTimer + Word
    BY <1>2, IntervalFits, DifferenceIs DEF PacingTypes
  <2> QED
    BY <2>1 DEF Elapsed
<1> QED
  BY <1>1, <1>2, <1>3, ElapsedIs, IntervalFits DEF PacingTypes

\* The difference as the Sender reads it, and the time it sets.
LEMMA IntervalIs ==
  ASSUME PacingTypes
  PROVE  /\ interval \in Int
         /\ interval = IF Elapsed < Word - Word \div 2 THEN Elapsed ELSE Elapsed - Word
<1> DEFINE h == Word \div 2
<1>1. h \in Nat /\ 0 < h /\ h < Word /\ Word \in Nat \ {0}
  BY IntervalFits
<1> HIDE DEF h
<1> DEFINE n == wall - mTimer + h
<1>2. n \in Int /\ wall - mTimer \in Int
  BY <1>1 DEF PacingTypes
<1>3. interval = (n % Word) - h
  BY DEF interval, h
<1>4. PICK e \in 0 .. Word - 1 :
        e = Elapsed /\ (wall - mTimer = e \/ wall - mTimer = e - Word)
  <2>1. Elapsed \in 0 .. Word - 1
    BY ElapsedIs
  <2>2. wall - mTimer = Elapsed \/ wall - mTimer = Elapsed - Word
    BY <1>1, <2>1, ElapsedIs DEF PacingTypes
  <2> QED
    BY <2>1, <2>2, Zenon
<1> HIDE DEF n
<1>0. /\ n \in 0 .. Word - 1 => n % Word = n
      /\ n \in Word .. 2 * Word - 1 => n % Word = n - Word
      /\ n \in -Word .. -1 => n % Word = n + Word
  BY <1>1, <1>2, NearResidue, Zenon
<1>5. n % Word = IF e + h < Word THEN e + h ELSE e + h - Word
  <2>1. n = e + h \/ n = e + h - Word
    BY <1>4, <1>1, <1>2 DEF n
  <2>2. CASE n = e + h
    <3>1. (e + h < Word => n \in 0 .. Word - 1) /\ (~(e + h < Word) => n \in Word .. 2 * Word - 1)
      BY <1>1, <1>4, <2>2
    <3> QED
      BY <1>0, <1>1, <1>2, <1>4, <2>2, <3>1
  <2>3. CASE n = e + h - Word
    <3>1. (e + h < Word => n \in -Word .. -1) /\ (~(e + h < Word) => n \in 0 .. Word - 1)
      BY <1>1, <1>4, <2>3
    <3> QED
      BY <1>0, <1>1, <1>2, <1>4, <2>3, <3>1
  <2> QED
    BY <2>1, <2>2, <2>3
<1>6. interval = IF e < Word - h THEN e ELSE e - Word
  BY <1>1, <1>3, <1>4, <1>5
<1> QED
  BY <1>1, <1>4, <1>6 DEF h

-----------------------------------------------------------------------------
LEMMA PacingStart ==
  ASSUME PacingInit
  PROVE  DebtInv /\ BacklogInv
<1> USE IntervalFits DEF PacingInit
<1>1. PacingTypes
  BY DEF PacingTypes
<1>2. debt + mInterval <= Allowed
  BY DEF Allowed
<1>3. BeforeLook /\ AfterLook
  BY <1>2 DEF BeforeLook, AfterLook
<1>4. Behind <= late + slip + FrameTicks
  BY DEF Behind
<1> QED
  BY <1>1, <1>3, <1>4 DEF DebtInv, BacklogInv

LEMMA AdvancedTimer ==
  ASSUME PacingTypes, NEW by \in Int, AdvanceTimer(by)
  PROVE  mTimer' \in 0 .. Word - 1
BY IntervalFits, Residue DEF PacingTypes, AdvanceTimer

LEMMA PacingTypesStep ==
  ASSUME PacingTypes, [PacingNext]_pacingVars
  PROVE  PacingTypes'
<1> USE IntervalFits DEF PacingTypes, timeVars
<1>1. CASE ReadAudio
  BY <1>1 DEF ReadAudio
<1>2. CASE ReadDigit
  BY <1>2 DEF ReadDigit
<1>3. CASE PaceEarly
  <2>1. interval \in Int /\ 0 < interval /\ interval < mInterval
    BY <1>3, IntervalIs DEF PaceEarly
  <2>2. mTimer' \in 0 .. Word - 1
    BY <1>3, AdvancedTimer DEF PaceEarly
  <2> QED
    BY <1>3, <2>1, <2>2 DEF PaceEarly
<1>4. CASE PaceLate
  <2>1. mTimer' \in 0 .. Word - 1
    BY <1>4, IntervalIs, AdvancedTimer DEF PaceLate
  <2> QED
    BY <1>4, <2>1 DEF PaceLate
<1>5. CASE Send
  BY <1>5 DEF Send
<1>6. CASE Tick
  <2>1. wall' \in 0 .. Word - 1
    BY <1>6, ElapsedGrows DEF Tick
  <2>2. phase' \in 0 .. FrameTicks - 1
    <3>1. phase' = IF phase + 1 = FrameTicks THEN 0 ELSE phase + 1
      BY <1>6, SuccessorIs DEF Tick
    <3> QED
      BY <3>1
  <2>3. late' \in Nat /\ slip' \in Nat
    BY <1>6 DEF Tick
  <2>4. rest' = (IF rest = 0 THEN 0 ELSE rest - 1) /\ debt' \in Nat /\ queue' \in Nat
        /\ UNCHANGED <<stage, mTimer, jumps, events>>
    BY <1>6 DEF Tick
  <2> QED
    BY <2>1, <2>2, <2>3, <2>4
<1>7. CASE SetClock
  BY <1>7 DEF SetClock
<1>8. CASE UNCHANGED pacingVars
  BY <1>8 DEF pacingVars
<1> QED
  BY <1>1, <1>2, <1>3, <1>4, <1>5, <1>6, <1>7, <1>8 DEF PacingNext, Sender

LEMMA Packets ==
  ASSUME NEW m \in Nat, NEW j \in Nat
  PROVE  /\ m * (1 + j) \in Nat /\ m <= m * (1 + j)
         /\ j # 0 => 2 * m <= m * (1 + j)
         /\ m * (1 + (j + 1)) = m * (1 + j) + m
<1>1. m * (1 + j) = m + m * j /\ m * j \in Nat /\ m * (1 + (j + 1)) = m + m * j + m
  OBVIOUS
<1>2. j # 0 => m <= m * j
  <2> SUFFICES ASSUME j # 0
               PROVE  m <= m * j
    OBVIOUS
  <2>1. j - 1 \in Nat /\ m * j = m * (j - 1) + m
    OBVIOUS
  <2>2. m * (j - 1) \in Nat
    BY <2>1
  <2> QED
    BY <2>1, <2>2
<1> QED
  BY <1>1, <1>2

\* Each time the clock is set, a packet more is allowed.
LEMMA AllowedGrows ==
  ASSUME PacingTypes, PacingTypes'
  PROVE  /\ Allowed \in Nat /\ mInterval <= Allowed
         /\ jumps # 0 => 2 * mInterval <= Allowed
         /\ jumps' = jumps => Allowed' = Allowed + slip' - slip
         /\ jumps' = jumps + 1 /\ slip' = slip => Allowed' = Allowed + mInterval
<1> DEFINE M == mInterval
           credit == M * (1 + jumps)
<1>1. M \in Nat /\ jumps \in Nat /\ slip \in Nat /\ slip' \in Nat
  BY IntervalFits DEF PacingTypes
<1>2. Allowed = credit + slip
  BY DEF Allowed
<1>3. jumps' = jumps => Allowed' = credit + slip'
  BY DEF Allowed
<1>4. jumps' = jumps + 1 => Allowed' = M * (1 + (jumps + 1)) + slip'
  BY DEF Allowed
<1>5. /\ credit \in Nat /\ M <= credit /\ (jumps # 0 => 2 * M <= credit)
      /\ M * (1 + (jumps + 1)) = credit + M
  <2> HIDE DEF M
  <2> QED
    BY <1>1, Packets
<1> HIDE DEF M, credit
<1>6. jumps' = jumps + 1 => Allowed' = credit + M + slip'
  BY <1>4, <1>5
<1> QED
  BY <1>1, <1>2, <1>3, <1>5, <1>6 DEF M

\* Where the clock is after mTimer was set, from what the Sender had read.
LEMMA TimerMoves ==
  ASSUME PacingTypes, NEW by \in Int, AdvanceTimer(by), wall' = wall,
         NEW r \in 0 .. Word - 1, \E q \in Int : interval - by = Word * q + r
  PROVE  Elapsed' = r
<1> DEFINE x == mTimer + by
<1>1. /\ Word \in Nat \ {0} /\ wall \in Int /\ mTimer \in Int /\ interval \in Int
      /\ x \in Int /\ r \in Int
  BY IntervalFits, IntervalIs DEF PacingTypes
<1>2. PICK timer \in Int : timer = mTimer'
  BY AdvancedTimer
<1>3. PICK q \in Int : interval - by = Word * q + r
  OBVIOUS
<1>4. PICK j \in Int : x = Word * j + timer
  <2>1. timer = x % Word
    BY <1>2 DEF AdvanceTimer
  <2> HIDE DEF x
  <2> QED
    BY <1>1, <2>1, Residue
<1>5. PICK k \in Int : wall - mTimer = interval + Word * k
  <2>1. /\ Elapsed \in Int
        /\ Elapsed = wall - mTimer \/ Elapsed = wall - mTimer + Word
        /\ interval = Elapsed \/ interval = Elapsed - Word
    BY <1>1, ElapsedIs, IntervalIs
  <2>2. \/ wall - mTimer = interval + Word * 0
        \/ wall - mTimer = interval + Word * 1
        \/ wall - mTimer = interval + Word * (-1)
    BY <1>1, <2>1
  <2> QED
    BY <2>2
<1>6. wall - timer = Word * (q + k + j) + r
  <2>1. PICK a \in Int, b \in Int, c \in Int :
          a = Word * q /\ b = Word * k /\ c = Word * j
    BY <1>1
  <2>2. Word * (q + k + j) = a + b + c
    BY <1>1, <2>1
  <2>3. wall - timer = a + b + c + r
    <3>1. interval - by = a + r
      BY <1>3, <2>1, Zenon
    <3>2. wall - mTimer = interval + b
      BY <1>5, <2>1, Zenon
    <3>3. mTimer + by = c + timer
      BY <1>4, <2>1, Zenon
    <3>4. /\ wall \in Int /\ mTimer \in Int /\ timer \in Int /\ interval \in Int
          /\ by \in Int /\ a \in Int /\ b \in Int /\ c \in Int /\ r \in Int
      BY <1>1, <1>2, <2>1
    <3>5. PICK w \in Int, t \in Int, i \in Int, d \in Int :
            w = wall /\ t = mTimer /\ i = interval /\ d = by
      BY <3>4, Zenon
    <3>6. i - d = a + r /\ w - t = i + b /\ t + d = c + timer
      BY <3>1, <3>2, <3>3, <3>5, Zenon
    <3>7. w - timer = a + b + c + r
      BY <3>4, <3>6
    <3> QED
      BY <3>5, <3>7, Zenon
  <2> QED
    BY <2>2, <2>3
<1> DEFINE n == wall - timer
           t == q + k + j
<1>7. n \in Int /\ t \in Int /\ n = Word * t + r
  BY <1>1, <1>6
<1>8. Elapsed' = n % Word
  BY <1>2 DEF Elapsed
<1> HIDE DEF n, t
<1> QED
  BY <1>1, <1>7, <1>8, ResidueIs

\* The Sender.
LEMMA SenderPays ==
  ASSUME DebtInv, PacingTypes', Sender
  PROVE  DebtInv'
<1> DEFINE M == mInterval
           E == Elapsed
           A == Allowed
<1>1. /\ M \in Nat /\ A \in Nat /\ M <= A /\ Word \in Nat \ {0} /\ Word > 2 * M
      /\ M < Word - Word \div 2 /\ E \in 0 .. Word - 1
      /\ debt \in Nat /\ rest \in Nat /\ M' = M /\ wall \in 0 .. Word - 1
  BY IntervalFits, AllowedGrows, ElapsedIs DEF DebtInv, PacingTypes, mInterval
<1>2. A' = A /\ wall' = wall
  <2>1. slip \in Nat /\ slip' = slip /\ jumps' = jumps /\ wall' = wall
    BY DEF Sender, ReadAudio, ReadDigit, PaceEarly, PaceLate, Send, timeVars,
           DebtInv, PacingTypes
  <2> QED
    BY <2>1 DEF Allowed, mInterval
<1>3. mTimer' = mTimer => E' = E
  BY <1>2 DEF Elapsed
<1>4. /\ stage \in {"read", "pace"} =>
           \/ debt + M <= A
           \/ E <= M /\ debt + E <= A /\ (stage = "pace" => E + rest >= 1)
      /\ stage \in {"sleep", "send"} =>
           \/ debt + 2 * M - rest <= A /\ 2 * M <= A
           \/ rest > 0 /\ E + rest = Word /\ debt + M - rest <= A
           \/ rest = 0 /\ E <= M /\ debt + M + E <= A
  BY DEF DebtInv, BeforeLook, AfterLook, Tracks
<1>5. SUFFICES
        /\ stage' \in {"read", "pace"} =>
             \/ debt' + M <= A
             \/ E' <= M /\ debt' + E' <= A /\ (stage' = "pace" => E' + rest' >= 1)
        /\ stage' \in {"sleep", "send"} =>
             \/ debt' + 2 * M - rest' <= A /\ 2 * M <= A
             \/ rest' > 0 /\ E' + rest' = Word /\ debt' + M - rest' <= A
             \/ rest' = 0 /\ E' <= M /\ debt' + M + E' <= A
  BY <1>1, <1>2 DEF DebtInv, BeforeLook, AfterLook, Tracks
<1>6. CASE ReadAudio
  <2>1. /\ stage = "read" /\ stage' = "pace" /\ rest' = 1 /\ mTimer' = mTimer /\ debt' = debt
    BY <1>6 DEF ReadAudio
  <2> HIDE DEF M, E, A
  <2> QED
    BY <1>1, <1>3, <1>4, <2>1
<1>7. CASE ReadDigit
  <2>1. /\ stage = "read" /\ stage' = "read" /\ mTimer' = mTimer /\ debt' = debt
    BY <1>7 DEF ReadDigit
  <2> HIDE DEF M, E, A
  <2> QED
    BY <1>1, <1>3, <1>4, <2>1
<1>8. CASE PaceEarly
  <2>1. /\ stage = "pace" /\ rest = 0 /\ stage' = "sleep" /\ debt' = debt
        /\ rest' = M - interval /\ mTimer' = (mTimer + M) % Word
        /\ 0 < interval /\ interval < M
    BY <1>8 DEF PaceEarly, AdvanceTimer
  <2>2. interval \in Int /\ (E <= M => interval = E)
    BY <1>1, IntervalIs DEF DebtInv
  <2>3. debt + M - rest' <= A /\ rest' > 0
    <3> HIDE DEF M, E, A
    <3> QED
      BY <1>1, <1>4, <2>1, <2>2
  <2>4. E' + rest' = Word
    <3>1. /\ Word - rest' \in 0 .. Word - 1 /\ interval - M = Word * (-1) + (Word - rest')
          /\ M \in Int /\ -1 \in Int
      BY <1>1, <2>1, <2>2
    <3>2. PacingTypes /\ AdvanceTimer(M)
      BY <2>1 DEF DebtInv, AdvanceTimer
    <3>3. E' = Word - rest'
      BY <1>2, <3>1, <3>2, TimerMoves
    <3> QED
      BY <1>1, <2>1, <2>2, <3>3
  <2> HIDE DEF M, E, A
  <2> QED
    BY <2>1, <2>3, <2>4
<1>9. CASE PaceLate
  <2>1. /\ stage = "pace" /\ rest = 0 /\ stage' = "send" /\ debt' = debt /\ rest' = 0
        /\ mTimer' = (mTimer + interval) % Word
        /\ interval \notin 1 .. M - 1
    BY <1>9 DEF PaceLate, AdvanceTimer
  <2>2. interval \in Int /\ (E <= M => interval = E)
    BY <1>1, IntervalIs DEF DebtInv
  <2>3. debt + M <= A
    <3> HIDE DEF M, E, A
    <3> QED
      BY <1>1, <1>4, <2>1, <2>2
  <2>4. E' = 0
    <3>1. 0 \in 0 .. Word - 1 /\ interval - interval = Word * 0 + 0 /\ 0 \in Int
      BY <1>1, <2>2
    <3>2. PacingTypes /\ AdvanceTimer(interval)
      BY <2>1 DEF DebtInv, AdvanceTimer
    <3> QED
      BY <1>2, <2>2, <3>1, <3>2, TimerMoves
  <2> HIDE DEF M, E, A
  <2> QED
    BY <1>1, <2>1, <2>3, <2>4
<1>10. CASE Send
  <2>1. /\ stage \in {"sleep", "send"} /\ rest = 0 /\ debt' = debt + M
        /\ stage' = "read" /\ mTimer' = mTimer
    BY <1>10 DEF Send
  <2> HIDE DEF M, E, A
  <2> QED
    BY <1>1, <1>3, <1>4, <2>1
<1> QED
  BY <1>6, <1>7, <1>8, <1>9, <1>10 DEF Sender

\* Time goes on: what is not spent leaks, and to be late after the look at the clock is
\* allowed for.
LEMMA TickPays ==
  ASSUME DebtInv, PacingTypes', Tick
  PROVE  DebtInv'
<1> DEFINE M == mInterval
           E == Elapsed
           A == Allowed
<1>0. PICK A2, E2, r2, d2, z2 :
        A2 = A' /\ E2 = E' /\ r2 = rest' /\ d2 = debt' /\ z2 = slip'
  OBVIOUS
<1>1. /\ M \in Nat /\ A \in Nat /\ M <= A /\ Word \in Nat \ {0} /\ Word > M + 1
      /\ E \in 0 .. Word - 1 /\ M' = M
      /\ debt \in Nat /\ rest \in Nat /\ slip \in Nat /\ z2 \in Nat
      /\ rest > 0 => stage \notin {"read", "send"}
      /\ stage \in {"read", "pace", "sleep", "send"}
  BY <1>0, IntervalFits, AllowedGrows, ElapsedIs DEF DebtInv, PacingTypes, mInterval
<1>2. /\ stage' = stage /\ mTimer' = mTimer /\ jumps' = jumps
      /\ r2 = IF rest = 0 THEN 0 ELSE rest - 1
      /\ d2 = IF debt = 0 THEN 0 ELSE debt - 1
      /\ z2 = slip \/ z2 = slip + 1
      /\ rest = 0 /\ stage \in {"sleep", "send"} => z2 = slip + 1
  BY <1>0 DEF Tick, Waits
<1>3. A2 = A + z2 - slip
  BY <1>0, <1>2, AllowedGrows DEF DebtInv
<1>4. E2 = IF E = Word - 1 THEN 0 ELSE E + 1
  BY <1>0, ElapsedGrows DEF DebtInv, Tick
<1>5. /\ stage \in {"read", "pace"} =>
           \/ debt + M <= A
           \/ E <= M /\ debt + E <= A /\ (stage = "pace" => E + rest >= 1)
      /\ stage \in {"sleep", "send"} =>
           \/ debt + 2 * M - rest <= A /\ 2 * M <= A
           \/ rest > 0 /\ E + rest = Word /\ debt + M - rest <= A
           \/ rest = 0 /\ E <= M /\ debt + M + E <= A
  BY DEF DebtInv, BeforeLook, AfterLook, Tracks
<1>6. SUFFICES
        /\ stage \in {"read", "pace"} =>
             \/ d2 + M <= A2
             \/ E2 <= M /\ d2 + E2 <= A2 /\ (stage = "pace" => E2 + r2 >= 1)
        /\ stage \in {"sleep", "send"} =>
             \/ d2 + 2 * M - r2 <= A2 /\ 2 * M <= A2
             \/ r2 > 0 /\ E2 + r2 = Word /\ d2 + M - r2 <= A2
             \/ r2 = 0 /\ E2 <= M /\ d2 + M + E2 <= A2
  BY <1>0, <1>1, <1>2 DEF DebtInv, BeforeLook, AfterLook, Tracks
<1> HIDE DEF M, E, A
<1>7. CASE stage \in {"read", "pace"}
  <2>1. A2 \in Nat /\ A2 >= A
    BY <1>1, <1>2, <1>3
  <2>2. CASE debt + M <= A \/ debt = 0
    BY <1>1, <1>2, <1>7, <2>1, <2>2
  <2>3. CASE ~(debt + M <= A) /\ debt # 0
    <3>1. E < M /\ debt + E <= A /\ (stage = "pace" => E + rest >= 1)
      BY <1>1, <1>5, <1>7, <2>3
    <3>2. E2 = E + 1 /\ d2 = debt - 1
      BY <1>1, <1>2, <1>4, <2>3, <3>1
    <3>3. E2 <= M /\ d2 + E2 <= A2 /\ E2 + r2 >= 1
      BY <1>1, <1>2, <2>1, <3>1, <3>2
    <3> QED
      BY <1>7, <3>3
  <2> QED
    BY <2>2, <2>3
<1>8. CASE stage \in {"sleep", "send"} /\ rest > 0
  <2>1. A2 \in Nat /\ A2 >= A /\ r2 = rest - 1
    BY <1>1, <1>2, <1>3, <1>8
  <2>2. CASE debt + 2 * M - rest <= A /\ 2 * M <= A
    <3>1. d2 + 2 * M - r2 <= A2 /\ 2 * M <= A2
      BY <1>1, <1>2, <1>8, <2>1, <2>2
    <3> QED
      BY <1>8, <3>1
  <2>3. CASE E + rest = Word /\ debt + M - rest <= A
    <3>1. d2 + M - r2 <= A2
      BY <1>1, <1>2, <1>8, <2>1, <2>3
    <3>2. E2 = (IF r2 = 0 THEN 0 ELSE E + 1) /\ E + 1 + r2 = Word
      BY <1>1, <1>4, <1>8, <2>1, <2>3
    <3> QED
      BY <1>1, <1>2, <1>8, <2>1, <3>1, <3>2
  <2> QED
    BY <1>5, <1>8, <2>2, <2>3
<1>9. CASE stage \in {"sleep", "send"} /\ rest = 0
  <2>1. A2 = A + 1 /\ r2 = 0
    BY <1>1, <1>2, <1>3, <1>9
  <2>2. CASE debt + 2 * M <= A /\ 2 * M <= A
    <3>1. d2 + 2 * M - r2 <= A2 /\ 2 * M <= A2
      BY <1>1, <1>2, <2>1, <2>2
    <3> QED
      BY <1>9, <3>1
  <2>3. CASE E <= M /\ debt + M + E <= A
    <3>1. E2 = E + 1 /\ d2 + M + E2 <= A2
      BY <1>1, <1>2, <1>4, <2>1, <2>3
    <3>2. CASE E < M
      BY <1>1, <1>9, <2>1, <3>1, <3>2
    <3>3. CASE E = M
      <4>1. d2 + 2 * M - r2 <= A2 /\ 2 * M <= A2
        BY <1>1, <1>2, <2>1, <2>3, <3>3
      <4> QED
        BY <1>9, <4>1
    <3> QED
      BY <1>1, <2>3, <3>2, <3>3
  <2> QED
    BY <1>1, <1>5, <1>9, <2>2, <2>3
<1> QED
  BY <1>1, <1>7, <1>8, <1>9

\* The clock says nothing any more, and one more is allowed.
LEMMA SetClockPays ==
  ASSUME DebtInv, PacingTypes', SetClock
  PROVE  DebtInv'
<1> DEFINE M == mInterval
           E == Elapsed
           A == Allowed
<1>1. /\ M \in Nat /\ A \in Nat /\ M <= A /\ E \in Nat /\ M' = M
      /\ debt \in Nat /\ rest \in Nat
      /\ rest > 0 => stage \notin {"read", "send"}
      /\ stage = "sleep" => rest < M
  BY IntervalFits, AllowedGrows, ElapsedIs DEF DebtInv, PacingTypes, mInterval
<1>2. /\ UNCHANGED <<stage, rest, debt>> /\ A' = A + M
  BY AllowedGrows DEF DebtInv, SetClock
<1>3. /\ stage \in {"read", "pace"} => debt <= A
      /\ stage \in {"sleep", "send"} => debt + M - rest <= A
  <2>1. /\ stage \in {"read", "pace"} => debt + M <= A \/ debt + E <= A
        /\ stage \in {"sleep", "send"} =>
             \/ debt + 2 * M - rest <= A
             \/ debt + M - rest <= A
             \/ rest = 0 /\ debt + M + E <= A
    BY DEF DebtInv, BeforeLook, AfterLook, Tracks
  <2> HIDE DEF M, E, A
  <2> QED
    BY <1>1, <2>1
<1>4. SUFFICES
        /\ stage \in {"read", "pace"} => debt + M <= A + M
        /\ stage \in {"sleep", "send"} => debt + 2 * M - rest <= A + M /\ 2 * M <= A + M
  BY <1>1, <1>2 DEF DebtInv, BeforeLook, AfterLook
<1> HIDE DEF M, E, A
<1> QED
  BY <1>1, <1>3

\* Audio leaves at no more than a packet per mInterval over any stretch of a session, but
\* for a packet for each time the clock was set and for the ticks the Sender was late
\* after its look: for every length of a frame, every width of the clock, and however
\* late the Sender is.
THEOREM AudioIsPaced == PacingSpec => []NeverEarly
<1>1. PacingInit => DebtInv
  BY PacingStart
<1>2. DebtInv /\ [PacingNext]_pacingVars => DebtInv'
  <2> SUFFICES ASSUME DebtInv, [PacingNext]_pacingVars
               PROVE  DebtInv'
    OBVIOUS
  <2>1. PacingTypes'
    BY PacingTypesStep DEF DebtInv
  <2>2. CASE UNCHANGED pacingVars
    BY <2>1, <2>2
       DEF pacingVars, timeVars, DebtInv, BeforeLook, AfterLook, Tracks, Elapsed, Allowed,
           mInterval
  <2> QED
    BY <2>1, <2>2, SenderPays, TickPays, SetClockPays DEF PacingNext
<1>3. DebtInv => NeverEarly
  <2> SUFFICES ASSUME DebtInv
               PROVE  debt <= Allowed
    BY DEF NeverEarly, Allowed
  <2> DEFINE M == mInterval
             E == Elapsed
             A == Allowed
  <2>1. /\ M \in Nat /\ E \in Nat /\ debt \in Nat /\ rest \in Nat /\ A \in Int
        /\ stage \in {"read", "pace", "sleep", "send"}
        /\ stage = "send" => rest = 0
        /\ stage = "sleep" => rest < M
    BY IntervalFits, ElapsedIs DEF DebtInv, PacingTypes, Allowed
  <2>2. /\ stage \in {"read", "pace"} => debt + M <= A \/ debt + E <= A
        /\ stage \in {"sleep", "send"} =>
             \/ debt + 2 * M - rest <= A
             \/ debt + M - rest <= A
             \/ rest = 0 /\ debt + M + E <= A
    BY DEF DebtInv, BeforeLook, AfterLook, Tracks
  <2>3. debt <= A
    <3> HIDE DEF M, E, A
    <3> QED
      BY <2>1, <2>2
  <2> QED
    BY <2>3
<1> QED
  BY <1>1, <1>2, <1>3, PTL DEF PacingSpec

-----------------------------------------------------------------------------
\* A packet takes no longer than a frame, but for the ticks the Sender is late.
LEMMA SenderKeepsUp ==
  ASSUME BacklogInv, PacingTypes', Sender
  PROVE  BacklogInv'
<1> DEFINE Q == queue * FrameTicks
<1>1. /\ FrameTicks \in Nat \ {0} /\ mInterval \in Nat /\ mInterval < FrameTicks
      /\ queue \in Nat /\ phase \in Nat /\ rest \in Nat /\ late \in Nat /\ slip \in Nat
      /\ stage = "read" => rest = 0
  BY IntervalFits DEF BacklogInv, PacingTypes
<1>2. /\ Q \in Nat
      /\ queue' = queue => Q' = Q
      /\ queue' = queue - 1 => Q' = Q - FrameTicks
  BY <1>1
<1>3. Q + phase + rest <= late + slip + (IF stage = "pace" THEN 1 ELSE FrameTicks)
  BY DEF BacklogInv, Behind
<1>4. UNCHANGED <<phase, late, slip>>
  BY DEF Sender, ReadAudio, ReadDigit, PaceEarly, PaceLate, Send, timeVars
<1>5. SUFFICES Q' + phase + rest' <= late + slip + (IF stage' = "pace" THEN 1 ELSE FrameTicks)
  BY <1>4 DEF BacklogInv, Behind
<1> HIDE DEF Q
<1>6. CASE ReadAudio
  BY <1>1, <1>2, <1>3, <1>6 DEF ReadAudio
<1>7. CASE ReadDigit
  BY <1>1, <1>2, <1>3, <1>7 DEF ReadDigit
<1>8. CASE PaceEarly
  <2>1. interval \in Int
    BY IntervalIs DEF BacklogInv
  <2> QED
    BY <1>1, <1>2, <1>3, <1>8, <2>1 DEF PaceEarly
<1>9. CASE PaceLate
  BY <1>1, <1>2, <1>3, <1>9 DEF PaceLate
<1>10. CASE Send
  BY <1>1, <1>2, <1>3, <1>10 DEF Send
<1> QED
  BY <1>6, <1>7, <1>8, <1>9, <1>10 DEF Sender

LEMMA TickKeepsUp ==
  ASSUME BacklogInv, PacingTypes', Tick
  PROVE  BacklogInv'
<1> DEFINE Q == queue * FrameTicks
<1>0. PICK Q2, p2, r2, l2, z2 :
        Q2 = Q' /\ p2 = phase' /\ r2 = rest' /\ l2 = late' /\ z2 = slip'
  OBVIOUS
<1>1. /\ FrameTicks \in Nat \ {0} /\ queue \in Nat /\ phase \in 0 .. FrameTicks - 1
      /\ rest \in Nat /\ late \in Nat /\ slip \in Nat
      /\ stage = "read" => rest = 0
  BY IntervalFits DEF BacklogInv, PacingTypes
<1>2. p2 = IF phase + 1 = FrameTicks THEN 0 ELSE phase + 1
  BY <1>0, <1>1, SuccessorIs DEF Tick
<1>3. Q2 + p2 = Q + phase + 1 /\ Q \in Nat /\ Q2 \in Nat
  <2>1. (queue + 1) * FrameTicks = Q + FrameTicks /\ Q \in Nat
    BY <1>1
  <2>2. queue' = IF p2 = 0 THEN queue + 1 ELSE queue
    BY <1>0 DEF Tick
  <2> QED
    BY <1>0, <1>1, <1>2, <2>1, <2>2
<1>4. Q + phase + rest <= late + slip + (IF stage = "pace" THEN 1 ELSE FrameTicks)
  BY DEF BacklogInv, Behind
<1>5. queue = 0 => Q = 0
  BY <1>1
<1>6. SUFFICES Q2 + p2 + r2 <= l2 + z2 + (IF stage = "pace" THEN 1 ELSE FrameTicks)
  BY <1>0 DEF BacklogInv, Behind, Tick
<1> HIDE DEF Q
<1>7. r2 = IF rest = 0 THEN 0 ELSE rest - 1
  BY <1>0 DEF Tick
<1>8. CASE Waits
  <2>1. l2 = late /\ z2 = slip
    BY <1>0, <1>8 DEF Tick
  <2>2. CASE rest > 0
    BY <1>1, <1>3, <1>4, <1>7, <2>1, <2>2
  <2>3. CASE rest = 0
    <3>1. stage = "read" /\ Q = 0
      BY <1>5, <1>8, <2>3 DEF Waits
    <3> QED
      BY <1>1, <1>3, <1>7, <2>1, <2>3, <3>1
  <2> QED
    BY <1>1, <2>2, <2>3
<1>9. CASE ~Waits
  <2>1. l2 + z2 = late + slip + 1 /\ rest = 0
    BY <1>0, <1>1, <1>9 DEF Tick, Waits
  <2> QED
    BY <1>1, <1>3, <1>4, <1>7, <2>1
<1> QED
  BY <1>8, <1>9

\* The sleeps of encode() keep no frame of the microphone waiting: those that wait,
\* besides the last one, were recorded while the thread was late, whatever the clock is
\* set to.
THEOREM PacingKeepsUp == PacingSpec => []NoBacklog
<1>1. PacingInit => BacklogInv
  BY PacingStart
<1>2. BacklogInv /\ [PacingNext]_pacingVars => BacklogInv'
  <2> SUFFICES ASSUME BacklogInv, [PacingNext]_pacingVars
               PROVE  BacklogInv'
    OBVIOUS
  <2>1. PacingTypes'
    BY PacingTypesStep DEF BacklogInv
  <2>2. CASE UNCHANGED pacingVars \/ SetClock
    BY <2>1, <2>2 DEF pacingVars, timeVars, SetClock, BacklogInv, Behind
  <2> QED
    BY <2>1, <2>2, SenderKeepsUp, TickKeepsUp DEF PacingNext
<1>3. BacklogInv => NoBacklog
  <2> SUFFICES ASSUME BacklogInv
               PROVE  NoBacklog
    OBVIOUS
  <2>1. /\ queue * FrameTicks \in Nat /\ phase \in Nat /\ rest \in Nat
        /\ late \in Nat /\ slip \in Nat /\ FrameTicks \in Nat \ {0}
    BY IntervalFits DEF BacklogInv, PacingTypes
  <2>2. queue * FrameTicks + phase + rest
          <= late + slip + (IF stage = "pace" THEN 1 ELSE FrameTicks)
    BY DEF BacklogInv, Behind
  <2> QED
    BY <2>1, <2>2 DEF NoBacklog
<1> QED
  BY <1>1, <1>2, <1>3, PTL DEF PacingSpec
====
