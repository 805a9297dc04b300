----------------------------- MODULE SendPacing -----------------------------
(***************************************************************************)
(* The jitter control at the end of encode() (cpp/AudioStream.cpp): an     *)
(* audio packet that comes less than mInterval after the time of the last  *)
(* one sleeps for the rest of it.  mTimer is that time, a 32-bit count of  *)
(* microseconds that wraps.  The packets of a digit are not paced.         *)
(*                                                                         *)
(* Time passes in ticks, of which a frame of the microphone lasts          *)
(* FrameTicks; a count of ticks wraps at Word.  To encode a frame takes a  *)
(* tick.  Time does not wait for the Sender, which may be late anywhere.   *)
(* The behaviour is that of one session, since startSending() resets       *)
(* mTimer at any time of the clock; DtmfSender has the failures that end   *)
(* one, and the digits.                                                    *)
(***************************************************************************)
EXTENDS Integers

CONSTANTS
  FrameTicks, Word,
  MaxLate,   \* bound: ticks the thread is late, in all
  MaxJumps,  \* bound: times the clock is set
  MaxEvents  \* bound: packets of digits

ASSUME PacingAssumption ==
  /\ FrameTicks \in Nat \ {0}
  /\ {MaxLate, MaxJumps, MaxEvents} \subseteq Nat
  /\ Word \in Nat /\ Word > 4 * FrameTicks

VARIABLES
  wall,    \* gettimeofday()
  phase,   \* ticks of the frame the microphone is recording
  queue,   \* frames that wait in the AudioRecord
  stage,   \* the Sender reads, paces, sleeps or sends
  rest,    \* ticks until it is done with encoding or with usleep()
  mTimer,
  late, slip,     \* ticks it was late before and after it had looked at the clock
  jumps, events,  \* what was used of the bounds
  debt     \* history: a bucket that takes mInterval for each audio packet and leaks
           \* with time

timeVars == <<wall, phase, late, slip, jumps>>
pacingVars == <<timeVars, queue, stage, rest, mTimer, events, debt>>

PacingInit ==
  /\ wall \in 0 .. Word - 1 /\ mTimer = 0
  /\ phase = 0 /\ queue = 0 /\ stage = "read" /\ rest = 0
  /\ late = 0 /\ slip = 0 /\ jumps = 0 /\ events = 0 /\ debt = 0

\* Mutants: the real interval, and more than that.
Real_mInterval == FrameTicks
Slow_mInterval == FrameTicks + 1

\* 0.8 times the real interval.
mInterval == (4 * FrameTicks) \div 5

-----------------------------------------------------------------------------
\* The Sender.

ReadAudio ==
  /\ stage = "read" /\ queue > 0
  /\ queue' = queue - 1
  /\ stage' = "pace" /\ rest' = 1
  /\ UNCHANGED <<timeVars, mTimer, events, debt>>

\* While a digit is sent the frame is not, and nothing is paced.
ReadDigit ==
  /\ stage = "read" /\ queue > 0 /\ events < MaxEvents
  /\ queue' = queue - 1
  /\ events' = events + 1
  /\ UNCHANGED <<timeVars, stage, rest, mTimer, debt>>

\* Mutant: the difference is not taken in the word.
Wide_interval == wall - mTimer

\* The difference as a signed word.
interval == ((wall - mTimer + Word \div 2) % Word) - Word \div 2

AdvanceTimer(by) == mTimer' = (mTimer + by) % Word

PaceEarly ==
  /\ stage = "pace" /\ rest = 0 /\ 0 < interval /\ interval < mInterval
  /\ rest' = mInterval - interval /\ stage' = "sleep"
  /\ AdvanceTimer(mInterval)
  /\ UNCHANGED <<timeVars, queue, events, debt>>

PaceLate ==
  /\ stage = "pace" /\ rest = 0 /\ interval \notin 1 .. mInterval - 1
  /\ stage' = "send"
  /\ AdvanceTimer(interval)
  /\ UNCHANGED <<timeVars, queue, rest, events, debt>>

Send ==
  /\ stage \in {"sleep", "send"} /\ rest = 0
  /\ debt' = debt + mInterval
  /\ stage' = "read"
  /\ UNCHANGED <<timeVars, queue, rest, mTimer, events>>

Sender == ReadAudio \/ ReadDigit \/ PaceEarly \/ PaceLate \/ Send

-----------------------------------------------------------------------------
\* The Sender waits for a frame, for the codec or for the end of usleep().
Waits == (stage = "read" /\ queue = 0) \/ rest > 0

Tick ==
  /\ \/ Waits /\ UNCHANGED <<late, slip>>
     \/ /\ ~Waits /\ late + slip < MaxLate
        /\ IF stage \in {"sleep", "send"} THEN slip' = slip + 1 /\ UNCHANGED late
                                       ELSE late' = late + 1 /\ UNCHANGED slip
  /\ wall' = (wall + 1) % Word
  /\ phase' = (phase + 1) % FrameTicks
  /\ queue' = IF phase' = 0 THEN queue + 1 ELSE queue
  /\ rest' = IF rest = 0 THEN 0 ELSE rest - 1
  /\ debt' = IF debt = 0 THEN 0 ELSE debt - 1
  /\ UNCHANGED <<stage, mTimer, jumps, events>>

\* The clock is not monotonic: the network or the user sets it.
SetClock ==
  /\ jumps < MaxJumps
  /\ jumps' = jumps + 1
  /\ wall' \in 0 .. Word - 1
  /\ UNCHANGED <<phase, late, slip, queue, stage, rest, mTimer, events, debt>>

PacingNext == Sender \/ Tick \/ SetClock

PacingSpec == PacingInit /\ [][PacingNext]_pacingVars /\ WF_pacingVars(Sender) /\ WF_pacingVars(Tick)

-----------------------------------------------------------------------------
\* Over any stretch of a session audio leaves at no more than a packet per mInterval,
\* but for what the Sender was late after it had looked at the clock, and a packet for
\* each time the clock was set: frames that piled up are not sent in a burst, also
\* when the 32-bit clock wraps meanwhile.
NeverEarly == debt <= mInterval * (1 + jumps) + slip

\* The pacing keeps no frames waiting: besides the last one, no more wait than were
\* recorded while the thread was late.
NoBacklog == queue * FrameTicks <= FrameTicks + late + slip

\* "The delay will be converged" (cpp/AudioStream.cpp:394): once the thread is in
\* time and the clock left alone, every packet comes too late to be delayed.
DelayConverges == <>[](stage # "sleep")
=============================================================================
