----------------------------- MODULE RtpSender -----------------------------
(***************************************************************************)
(* What a RecordTask of the Java engine puts on the wire: the inner class  *)
(* RtpSender of media/AudioStreamerImpl.java and the header that           *)
(* media/RtpPacket.java keeps, byte by byte, in a buffer that is used for  *)
(* every datagram, those of audio and those of a digit.  The microphone    *)
(* says a sample of G711 in each frame.  Muted frames, which leave no      *)
(* trace here, and the end of the task by an IOException are in TxSession. *)
(***************************************************************************)
EXTENDS G711

CONSTANTS
  mFrameSize,
  mCodecId,
  Random,     \* what sRandom may give, some of the 64-bit numbers
  MaxFrames,  \* bound
  MaxOdd      \* bound: digits and reads of an odd count, together

ASSUME RtpAssumption ==
  /\ {mFrameSize, MaxFrames, MaxOdd} \subseteq Nat /\ mFrameSize >= 4
  /\ mCodecId \in 0 .. 127 \ {101}
  /\ Random \subseteq Int

VARIABLES
  header,       \* the first 12 bytes of RtpPacket.packet
  packetLength,
  payload,      \* what the rest of the buffer holds: audio, event or end
  mSequence,
  mTimeStamp,
  pc,           \* packets of the digit that are still to be sent
  odd,          \* what was used of MaxOdd
  wire          \* history: the last datagram

vars == <<sample, header, packetLength, payload, mSequence, mTimeStamp, pc, odd,
          wire>>

-----------------------------------------------------------------------------
\* RtpPacket.

Byte(n) == n % 256

\* Mutant: the number is not shifted.
Unshifted_set(h, n, begin, length) ==
  [i \in DOMAIN h |-> IF i \in begin .. begin + length - 1 THEN Byte(n) ELSE h[i]]

\* The low bytes of a number, the highest of them first.
set(h, n, begin, length) ==
  [i \in DOMAIN h |->
     IF i \in begin .. begin + length - 1
       THEN Byte(n \div 256^(begin + length - 1 - i)) ELSE h[i]]

get(h, begin, length) ==
  LET upTo[i \in begin - 1 .. begin + length - 1] ==
        IF i < begin THEN 0 ELSE 256 * upTo[i - 1] + h[i]
  IN  upTo[begin + length - 1]

setVersion(h, v) == [h EXCEPT ![0] = (@ % 64) + 64 * (v % 4)]
getVersion(h) == h[0] \div 64
getCscrCount(h) == h[0] % 16

\* Mutant: the old type is not cleared.
Sticky_setPayloadType(h, pt) == [h EXCEPT ![1] = @ | (pt % 128)]

\* The marker, the upper bit, stays.
setPayloadType(h, pt) == [h EXCEPT ![1] = 128 * (@ \div 128) + (pt % 128)]
getPayloadType(h) == h[1] % 128

setSequenceNumber(h, sn) == set(h, sn, 2, 2)
getSequenceNumber(h) == get(h, 2, 2)
setTimestamp(h, timestamp) == set(h, timestamp, 4, 4)
setSscr(h, ssrc) == set(h, ssrc, 8, 4)

\* The 32 bits of the timestamp as a signed number, and those of the source apart:
\* TLC has no larger numbers.
getTimestamp(h) ==
  (IF h[4] < 128 THEN h[4] ELSE h[4] - 256) * 2^24 + get(h, 5, 3)
getSscr(h) == <<get(h, 8, 2), get(h, 10, 2)>>

getHeaderLength(h) == 12 + 4 * getCscrCount(h)

\* A new RtpPacket, about an empty buffer.
RtpPacket(number, ssrc) ==
  setSscr(setSequenceNumber(setPayloadType(setVersion([i \in 0 .. 11 |-> 0], 2), 15),
                            number), ssrc)

-----------------------------------------------------------------------------
\* RtpSender.

\* What read() may return besides a full frame: half of it, or an error.
OddCounts == {mFrameSize \div 2, -3}

Init ==
  /\ FirstSample
  /\ \E number, ssrc \in Random : header = setPayloadType(RtpPacket(number, ssrc), mCodecId)
  /\ packetLength = 0 /\ payload = "audio"
  /\ mSequence = 0 /\ mTimeStamp = 0
  /\ pc = 0 /\ odd = 0
  /\ wire = <<>>

\* A datagram as long as packetLength says, whose payload was read with this count.
Datagram(count) ==
  wire' = [header |-> header', length |-> packetLength', payload |-> payload',
           count |-> count]

\* A frame is read, encoded into the buffer and sent; read() may give less than a
\* frame, or the number of an error.
send(count) ==
  /\ pc = 0 /\ mSequence < MaxFrames
  /\ odd' = IF count = mFrameSize THEN odd ELSE odd + 1
  /\ odd' <= MaxOdd
  /\ NextSample
  /\ payload' = IF count > 0 THEN "audio" ELSE payload
  /\ mTimeStamp' = mTimeStamp + count
  /\ mSequence' = mSequence + 1
  /\ header' = setTimestamp(setPayloadType(setSequenceNumber(header, mSequence),
                                           mCodecId), mTimeStamp')
  /\ packetLength' = getHeaderLength(header) + count
  /\ Datagram(count)
  /\ UNCHANGED pc

\* The next packet of a digit, with what changes before the first three and before
\* the last three of them: the time, and the bit that ends the event.
DigitPacket(number, lasts, event) ==
  /\ mTimeStamp' = mTimeStamp + lasts
  /\ payload' = event
  /\ mSequence' = mSequence + 1
  /\ header' = setSequenceNumber(setTimestamp(setPayloadType(header, 101), mTimeStamp'),
                                 mSequence)
  /\ pc' = 6 - number
  /\ Datagram(4)
  /\ UNCHANGED sample

\* A digit is asked for after a frame.
sendDtmf ==
  /\ pc = 0 /\ wire # <<>> /\ odd < MaxOdd
  /\ odd' = odd + 1
  /\ packetLength' = getHeaderLength(header) + 4
  /\ DigitPacket(1, 160, "event")

SendDigit ==
  /\ pc > 0
  /\ UNCHANGED <<packetLength, odd>>
  /\ LET number == 7 - pc
     IN  DigitPacket(number, IF number = 4 THEN 480 ELSE 0,
                     IF number < 4 THEN "event" ELSE "end")

Next ==
  \/ \E count \in OddCounts \cup {mFrameSize} : send(count)
  \/ sendDtmf \/ SendDigit

Spec == Init /\ [][Next]_vars

-----------------------------------------------------------------------------
\* Each datagram follows the one before, audio or digit, full or not: one further in
\* the sequence, which wraps at 16 bits, from the same source, and not earlier unless
\* read() gave an error.
InSequence ==
  [][wire # <<>> =>
       /\ getSequenceNumber(wire'.header) = ((getSequenceNumber(wire.header) + 1) % 65536)
       /\ getSscr(wire'.header) = getSscr(wire.header)
       /\ wire'.count >= 0 =>
            getTimestamp(wire'.header) >= getTimestamp(wire.header)]_wire

\* The header tells what the datagram carries, though buffer and header are those of
\* all datagrams before: the type is that of the bytes that are sent, a digit is its
\* four bytes and audio as many as were encoded.
DescribesPayload ==
  wire # <<>> =>
    /\ getVersion(wire.header) = 2
    /\ wire.length = 12 + wire.count
    /\ wire.count > 0 =>
         getPayloadType(wire.header) = (IF wire.payload = "audio" THEN mCodecId ELSE 101)
=============================================================================
