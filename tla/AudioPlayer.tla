---------------------------- MODULE AudioPlayer ----------------------------
(***************************************************************************)
(* The player of the Java receive path (class AudioPlayer of               *)
(* media/AudioStreamerImpl.java): a ring of samples between the PlayTask   *)
(* thread, which writes, and the notification callback of the AudioTrack,  *)
(* which moves all that is buffered to the track each time the track has   *)
(* played mFrameSize samples.  If nothing is buffered it feeds noise, for  *)
(* without samples to play the track sends no more notifications.          *)
(*                                                                         *)
(* The two markers count samples since the start.  The monitor of the      *)
(* player makes its methods atomic, but getPlaybackHeadPosition() takes no *)
(* monitor and can be called between the two writes of a wrapped region:   *)
(* rest is what the second one still has to write.                         *)
(*                                                                         *)
(* The AudioTrack is external: it plays the samples given to it, one by    *)
(* one, and its blocking write() accepts all it is given.  mOffset and its *)
(* head position matter only as mStartMarker - (position - mOffset), which *)
(* is the number of samples it has not played yet, unplayed.               *)
(***************************************************************************)
EXTENDS Integers, Sequences

CONSTANTS
  BufferSize,   \* samples in mBuffer
  FrameSize,    \* mFrameSize, the samples of a packet and of a notification
  NoiseLength,  \* samples fed as noise, 160 in the code
  LowMark,      \* noise is fed if no more are unplayed, 320 in the code
  TrackSize,    \* bound: samples of initial noise that the track accepts
  MaxDue        \* bound: notifications that pile up before the callback

ASSUME PlayerAssumption ==
  /\ {BufferSize, FrameSize, NoiseLength, LowMark, TrackSize, MaxDue} \subseteq Nat \ {0}
  /\ FrameSize <= NoiseLength /\ FrameSize <= LowMark

VARIABLES
  mBuffer, mStartMarker, mEndMarker,
  mIsPlaying, mNotificationStarted,
  rest,       \* samples of a wrapped region still to write to the track
  unplayed,   \* samples in the track
  phase,      \* samples played since the last notification was sent
  due,        \* notifications sent and not yet handled
  track       \* history: the samples, noise apart, written to the track

ring == <<mBuffer, mStartMarker, mEndMarker>>
output == <<unplayed, phase, due>>
playerVars == <<ring, mIsPlaying, mNotificationStarted, rest, output, track>>

NoSample == 0

\* After play(): the initial noise feed runs.
PlayerInit ==
  /\ mBuffer = [i \in 0 .. BufferSize - 1 |-> NoSample]
  /\ mStartMarker = 0 /\ mEndMarker = 0
  /\ mIsPlaying = TRUE /\ mNotificationStarted = FALSE
  /\ rest = 0 /\ unplayed = 0 /\ phase = 0 /\ due = 0
  /\ track = <<>>

MonitorFree == rest = 0

getBufferedDataSize == mEndMarker - mStartMarker

\* What AudioTrack.write() returns when it is asked for more than the array holds.
ERROR_BAD_VALUE == -2

-----------------------------------------------------------------------------
\* Called by PlayTask.

\* Mutant: the part that wraps goes on past the end of the array and is lost.
Cut_write(samples) ==
  LET end == mEndMarker % BufferSize IN
  /\ MonitorFree
  /\ mBuffer' = [i \in DOMAIN mBuffer |->
                   IF i >= end /\ i - end < Len(samples)
                     THEN samples[i - end + 1] ELSE mBuffer[i]]
  /\ mEndMarker' = mEndMarker + Len(samples)
  /\ UNCHANGED <<mStartMarker, mIsPlaying, mNotificationStarted, rest, output, track>>

\* There is no look at what is buffered: the ring can be written over.  And the second
\* part of samples that wrap can be longer than the array, which arraycopy() refuses.
Overruns(samples) == getBufferedDataSize + Len(samples) > BufferSize
Throws(samples) == (mEndMarker % BufferSize) + Len(samples) > 2 * BufferSize

\* Copy into the ring, in two parts if the region wraps; the second part goes over the
\* first one if they meet.
write(samples) ==
  LET end == mEndMarker % BufferSize
      place(i) == (i - end) % BufferSize
      again(i) == place(i) + BufferSize
  IN
  /\ MonitorFree
  /\ mBuffer' = [i \in DOMAIN mBuffer |->
                   IF again(i) < Len(samples) THEN samples[again(i) + 1]
                   ELSE IF place(i) < Len(samples) THEN samples[place(i) + 1] ELSE mBuffer[i]]
  /\ mEndMarker' = mEndMarker + Len(samples)
  /\ UNCHANGED <<mStartMarker, mIsPlaying, mNotificationStarted, rest, output, track>>

flush ==
  /\ MonitorFree
  /\ mEndMarker' = mStartMarker
  /\ UNCHANGED <<mBuffer, mStartMarker, mIsPlaying, mNotificationStarted, rest,
                 output, track>>

\* Once the listener is gone at most the callback that already waits for the
\* monitor is left.
stop ==
  /\ MonitorFree
  /\ mIsPlaying' = FALSE
  /\ unplayed' = 0
  /\ due' \in {0, IF due > 0 THEN 1 ELSE 0}
  /\ UNCHANGED <<ring, mNotificationStarted, rest, phase, track>>

-----------------------------------------------------------------------------
\* The thread of the initial noise feed: run() until the first notification.

FeedInitialNoise ==
  /\ MonitorFree /\ mIsPlaying /\ ~mNotificationStarted
  /\ unplayed + NoiseLength <= TrackSize
  /\ unplayed' = unplayed + NoiseLength
  /\ UNCHANGED <<ring, mIsPlaying, mNotificationStarted, rest, phase, due, track>>

-----------------------------------------------------------------------------
\* The callback.

\* mTrack.write() of the next n samples of the ring, n + start <= BufferSize.
WriteOut(n) ==
  LET start == mStartMarker % BufferSize IN
  /\ track' = track \o [k \in 1 .. n |-> mBuffer[start + k - 1]]
  /\ mStartMarker' = mStartMarker + n
  /\ unplayed' = unplayed + n

\* Mutant: nothing is fed while anything at all is unplayed.
Silent_FeedNoise ==
  /\ unplayed' = IF unplayed = 0 THEN unplayed + NoiseLength ELSE unplayed
  /\ UNCHANGED <<mStartMarker, track>>

FeedNoise ==
  /\ unplayed' = IF unplayed <= LowMark THEN unplayed + NoiseLength ELSE unplayed
  /\ UNCHANGED <<mStartMarker, track>>

\* All that is buffered goes to the track, or a frame if less is buffered.
writeToTrack ==
  LET start == mStartMarker % BufferSize
      count == IF FrameSize < getBufferedDataSize THEN getBufferedDataSize ELSE FrameSize
  IN
  IF mStartMarker = mEndMarker THEN FeedNoise /\ UNCHANGED rest
  ELSE IF start + count <= BufferSize
    THEN WriteOut(count) /\ UNCHANGED rest
    ELSE WriteOut(BufferSize - start) /\ rest' = count - (BufferSize - start)

\* onPeriodicNotification().  After stop() it does nothing, but for the very
\* first notification, whose write to the stopped track succeeds or throws.
Notify ==
  /\ MonitorFree /\ due > 0
  /\ due' = due - 1
  /\ mNotificationStarted' = TRUE
  /\ \/ (mIsPlaying \/ ~mNotificationStarted) /\ writeToTrack
     \/ ~mIsPlaying /\ UNCHANGED <<mStartMarker, rest, unplayed, track>>
  /\ UNCHANGED <<mBuffer, mEndMarker, mIsPlaying, phase>>

\* The second write of a wrapped region; one of more than the whole ring, which was
\* written over, is refused, and the error code moves the marker.
WriteRest ==
  /\ rest > 0
  /\ IF rest <= BufferSize THEN WriteOut(rest)
     ELSE mStartMarker' = mStartMarker + ERROR_BAD_VALUE /\ UNCHANGED <<track, unplayed>>
  /\ rest' = 0
  /\ UNCHANGED <<mBuffer, mEndMarker, mIsPlaying, mNotificationStarted, phase, due>>

Callback == Notify \/ WriteRest

-----------------------------------------------------------------------------
\* The AudioTrack plays a sample.

PlaySample ==
  /\ mIsPlaying /\ unplayed > 0 /\ due < MaxDue
  /\ unplayed' = unplayed - 1
  /\ phase' = (phase + 1) % FrameSize
  /\ due' = IF phase + 1 = FrameSize THEN due + 1 ELSE due
  /\ UNCHANGED <<ring, mIsPlaying, mNotificationStarted, rest, track>>

-----------------------------------------------------------------------------
\* The buffered samples, oldest first.
Buffered == [k \in 1 .. getBufferedDataSize |->
               mBuffer[(mStartMarker + k - 1) % BufferSize]]
=============================================================================
