----------------------------- MODULE DtmfSender -----------------------------
(***************************************************************************)
(* Digits and audio on the wire (app/src/main/cpp/AudioStream.cpp):        *)
(* sendDtmf(), called by the application, leaves a digit in mNextDtmfEvent;*)
(* encode(), called by the Sender thread for each frame of samples, takes  *)
(* it and sends, instead of audio, one packet per frame until the digit    *)
(* has lasted about 200 ms.  mDtmfLock protects mNextDtmfEvent alone.      *)
(*                                                                         *)
(* A digit is the number of the sendDtmf() call that sent it, so that two  *)
(* equal digits are told apart.  A packet is what its RTP header says, the *)
(* digit and duration of its payload, and the session that sent it.        *)
(***************************************************************************)
EXTENDS Integers, Sequences, FiniteSets

CONSTANTS
  SampleRate,   \* samples per second
  SampleCount,  \* samples in a frame
  SeqMod,       \* sequence numbers, 2^16 in the code
  TsMod,        \* timestamps, 2^32 in the code
  FirstSequences, FirstTimestamps,   \* where they may start: random in the code
  MaxDigits,    \* bound: calls of sendDtmf()
  MaxFrames,    \* bound: frames read from the microphone
  MaxStarts     \* bound: calls of startSending()

ASSUME FrameAssumption ==
  /\ SampleCount \in Nat \ {0}
  /\ SampleRate \in Nat /\ SampleRate > SampleCount

ASSUME ClockAssumption ==
  /\ {SeqMod, TsMod} \subseteq Nat \ {0}
  /\ FirstSequences \subseteq 0 .. SeqMod - 1
  /\ FirstTimestamps \subseteq 0 .. TsMod - 1

VARIABLES
  mLocalSequence, mLocalTimestamp,
  mNextDtmfEvent,   \* the digit sendDtmf() left, or NONE
  mDtmfEvent,       \* the digit being sent, or NONE
  mDtmfDuration,    \* for how many samples it has been sent
  mDtmfLock,        \* who holds the lock: "app", "encode" or "free"
  active,           \* ~mRecord.stopped()
  exitPending,      \* stopSending() waits for the thread
  pc,               \* where the Sender is; "dead" when there is none
  at,               \* where sendDtmf() is; "idle" when not called
  starts, digits, frames,   \* calls and frames so far
  accepted,         \* history: per digit sendDtmf() accepted, its session
  sent              \* history: the packets sent

NONE == -1

clock == <<mLocalSequence, mLocalTimestamp>>
event == <<mDtmfEvent, mDtmfDuration>>
session == <<active, exitPending, starts>>
vars == <<clock, mNextDtmfEvent, event, mDtmfLock, session, pc, at, digits,
          frames, accepted, sent>>

Init ==
  /\ mLocalSequence \in FirstSequences /\ mLocalTimestamp \in FirstTimestamps
  /\ mNextDtmfEvent = NONE /\ mDtmfEvent = NONE /\ mDtmfDuration = 0
  /\ mDtmfLock = "free"
  /\ active = FALSE /\ exitPending = FALSE
  /\ pc = "dead" /\ at = "idle"
  /\ starts = 0 /\ digits = 0 /\ frames = 0
  /\ accepted = <<>> /\ sent = <<>>

-----------------------------------------------------------------------------
\* The application.  The calls are synchronized on the Java stream.

\* Mutant: a digit the last session left is kept.
Keeping_StartSending ==
  /\ at = "idle" /\ ~active /\ ~exitPending /\ pc = "dead" /\ starts < MaxStarts
  /\ starts' = starts + 1 /\ active' = TRUE /\ pc' = "read"
  /\ mDtmfEvent' = NONE
  /\ UNCHANGED <<clock, mNextDtmfEvent, mDtmfDuration, mDtmfLock, exitPending, at,
                 digits, frames, accepted, sent>>

\* startSending() of a stopped stream whose thread has ended.
StartSending ==
  /\ at = "idle" /\ ~active /\ ~exitPending /\ pc = "dead" /\ starts < MaxStarts
  /\ starts' = starts + 1 /\ active' = TRUE /\ pc' = "read"
  /\ mNextDtmfEvent' = NONE /\ mDtmfEvent' = NONE
  /\ UNCHANGED <<clock, mDtmfDuration, mDtmfLock, exitPending, at, digits, frames,
                 accepted, sent>>

StopSending ==
  /\ at = "idle" /\ active /\ ~exitPending
  /\ exitPending' = TRUE
  /\ UNCHANGED <<clock, mNextDtmfEvent, event, mDtmfLock, active, starts, pc, at,
                 digits, frames, accepted, sent>>

StopReturns ==
  /\ exitPending /\ pc = "dead"
  /\ exitPending' = FALSE /\ active' = FALSE
  /\ UNCHANGED <<clock, mNextDtmfEvent, event, mDtmfLock, starts, pc, at, digits,
                 frames, accepted, sent>>

\* sendDtmf() of a stream that is not stopped; of another one it fails.
SendDtmf ==
  /\ at = "idle" /\ active /\ ~exitPending /\ digits < MaxDigits
  /\ digits' = digits + 1
  /\ at' = "try"
  /\ UNCHANGED <<clock, mNextDtmfEvent, event, mDtmfLock, session, pc, frames,
                 accepted, sent>>

\* pthread_mutex_trylock(), and once more after two intervals if it failed.
TryLock ==
  /\ at \in {"try", "retry"}
  /\ IF mDtmfLock = "free"
       THEN mDtmfLock' = "app" /\ at' = "set"
       ELSE UNCHANGED mDtmfLock /\ at' = IF at = "try" THEN "retry" ELSE "idle"
  /\ UNCHANGED <<clock, mNextDtmfEvent, event, session, pc, digits, frames,
                 accepted, sent>>

SetDigit ==
  /\ at = "set"
  /\ mNextDtmfEvent' = digits
  /\ mDtmfLock' = "free" /\ at' = "idle"
  /\ accepted' = Append(accepted, [digit |-> digits, session |-> starts])
  /\ UNCHANGED <<clock, event, session, pc, digits, frames, sent>>

App == TryLock \/ SetDigit \/ StopReturns

-----------------------------------------------------------------------------
\* The Sender thread.

\* encode() reads a frame and numbers it; a short read is a failure.
ReadFrame ==
  /\ pc = "read" /\ frames < MaxFrames
  /\ frames' = frames + 1
  /\ \/ /\ pc' = "lock"
        /\ mLocalSequence' = (mLocalSequence + 1) % SeqMod
        /\ mLocalTimestamp' = (mLocalTimestamp + SampleCount) % TsMod
     \/ pc' = "failed" /\ UNCHANGED clock
  /\ UNCHANGED <<mNextDtmfEvent, event, mDtmfLock, session, at, digits, accepted,
                 sent>>

LockDtmf ==
  /\ pc = "lock" /\ mDtmfLock = "free"
  /\ mDtmfLock' = "encode" /\ pc' = "take"
  /\ UNCHANGED <<clock, mNextDtmfEvent, event, session, at, digits, frames,
                 accepted, sent>>

\* Mutant: the duration of the last digit is continued.
Continuing_TakeDigit ==
  /\ pc = "take"
  /\ mDtmfEvent' = IF mNextDtmfEvent # NONE THEN mNextDtmfEvent ELSE mDtmfEvent
  /\ mNextDtmfEvent' = NONE
  /\ mDtmfLock' = "free" /\ pc' = "send"
  /\ UNCHANGED <<clock, mDtmfDuration, session, at, digits, frames, accepted, sent>>

\* Take the digit, clear mNextDtmfEvent and unlock; a new digit replaces one
\* that is still being sent.
TakeDigit ==
  /\ pc = "take"
  /\ IF mNextDtmfEvent # NONE
       THEN mDtmfEvent' = mNextDtmfEvent /\ mDtmfDuration' = 0 ELSE UNCHANGED event
  /\ mNextDtmfEvent' = NONE
  /\ mDtmfLock' = "free" /\ pc' = "send"
  /\ UNCHANGED <<clock, session, at, digits, frames, accepted, sent>>

Packet(digit, timestamp, duration) ==
  [digit |-> digit, seq |-> mLocalSequence, ts |-> timestamp, dur |-> duration,
   session |-> starts]

\* A digit ends when it has lasted a fifth of a second.
LastsEnough(duration) == duration * 5 >= SampleRate

\* The duration on the wire.  The last packet is marked in the word that is already
\* in network order, which on the little-endian ABIs of the build sets the lowest
\* bit of the duration.
WireDuration(duration) ==
  IF LastsEnough(duration) THEN duration + 1 - (duration % 2) ELSE duration

\* Mutant: each packet of a digit is stamped with the time of its own frame.
Moving_SendDigit ==
  LET duration == mDtmfDuration + SampleCount IN
  /\ pc = "send" /\ mDtmfEvent # NONE
  /\ mDtmfDuration' = duration
  /\ sent' = Append(sent, Packet(mDtmfEvent, mLocalTimestamp, WireDuration(duration)))
  /\ mDtmfEvent' = IF LastsEnough(duration) THEN NONE ELSE mDtmfEvent
  /\ pc' = "turn"
  /\ UNCHANGED <<clock, mNextDtmfEvent, mDtmfLock, session, at, digits, frames,
                 accepted>>

\* The packet of a digit; a digit that has lasted long enough is done.
SendDigit ==
  LET duration == mDtmfDuration + SampleCount IN
  /\ pc = "send" /\ mDtmfEvent # NONE
  /\ mDtmfDuration' = duration
  /\ sent' = Append(sent, Packet(mDtmfEvent, (mLocalTimestamp - duration) % TsMod,
                                 WireDuration(duration)))
  /\ mDtmfEvent' = IF LastsEnough(duration) THEN NONE ELSE mDtmfEvent
  /\ pc' = "turn"
  /\ UNCHANGED <<clock, mNextDtmfEvent, mDtmfLock, session, at, digits, frames,
                 accepted>>

\* An audio packet; the codec or the clock may fail instead.
SendAudio ==
  /\ pc = "send" /\ mDtmfEvent = NONE
  /\ \/ pc' = "turn" /\ sent' = Append(sent, Packet(NONE, mLocalTimestamp, 0))
     \/ pc' = "failed" /\ UNCHANGED sent
  /\ UNCHANGED <<clock, mNextDtmfEvent, event, mDtmfLock, session, at, digits,
                 frames, accepted>>

\* Sender::threadLoop() stops the record after a failure.
Fail ==
  /\ pc = "failed"
  /\ active' = FALSE /\ pc' = "dead"
  /\ UNCHANGED <<clock, mNextDtmfEvent, event, mDtmfLock, exitPending, starts, at,
                 digits, frames, accepted, sent>>

Turn ==
  /\ pc = "turn"
  /\ pc' = IF exitPending THEN "dead" ELSE "read"
  /\ UNCHANGED <<clock, mNextDtmfEvent, event, mDtmfLock, session, at, digits,
                 frames, accepted, sent>>

Thread ==
  ReadFrame \/ LockDtmf \/ TakeDigit \/ SendDigit \/ SendAudio \/ Fail \/ Turn

Next == StartSending \/ StopSending \/ SendDtmf \/ App \/ Thread

Spec == Init /\ [][Next]_vars

-----------------------------------------------------------------------------
\* A digit is one event for the far end: its packets follow each other with
\* neither audio nor another digit between them, consecutively numbered, with
\* growing durations and one timestamp, across the wrap of both counters, and
\* digits go out in the order of the calls.  No digit is sent twice, however
\* sendDtmf() and encode() interleave.
OneEventPerDigit ==
  \A i, j \in DOMAIN sent :
    i < j /\ sent[i].digit # NONE /\ sent[j].digit # NONE =>
      /\ sent[i].digit <= sent[j].digit
      /\ sent[i].digit = sent[j].digit =>
           /\ \A k \in i .. j : sent[k].digit = sent[i].digit
           /\ sent[j].seq = (sent[i].seq + (j - i)) % SeqMod
           /\ sent[j].ts = sent[i].ts
           /\ sent[i].dur < sent[j].dur

\* The packets of the digit of a packet, up to that packet.
EventSoFar(i) == {k \in 1 .. i : sent[k].digit = sent[i].digit}

\* The time of the frame a packet was sent for.
FrameTime(i) ==
  IF sent[i].digit = NONE THEN sent[i].ts
  ELSE sent[i].ts + SampleCount * Cardinality(EventSoFar(i))

\* Timestamps count samples: whatever is sent, frames that fail and restarts
\* included, two packets are the same number of frames apart by their sequence
\* numbers and by their times, and no two packets are of one frame.
SampleClock ==
  \A i, j \in DOMAIN sent : i < j =>
    \E n \in j - i .. frames :
      /\ sent[j].seq = (sent[i].seq + n) % SeqMod
      /\ (FrameTime(j) - FrameTime(i)) % TsMod = (n * SampleCount) % TsMod

\* A digit is sent only in the session in which sendDtmf() accepted it: one that
\* was left when the stream stopped, or was set just after the Sender had
\* failed, is not sent when the stream starts again.
DigitsStayInSession ==
  \A i \in DOMAIN sent : sent[i].digit # NONE =>
    \E k \in DOMAIN accepted :
      accepted[k] = [digit |-> sent[i].digit, session |-> sent[i].session]
=============================================================================
