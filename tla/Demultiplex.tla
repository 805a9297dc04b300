---------------------------- MODULE Demultiplex ----------------------------
(***************************************************************************)
(* The mixer of the Java receive path (media/Demultiplex.java).  push()    *)
(* lists the decoded frames of a batch by their source; getMixedData()     *)
(* joins the frames of each source, adds the sources up in the order of a  *)
(* hash map into a buffer that grows with the longest one, attenuates the  *)
(* sums and clips them.                                                    *)
(*                                                                         *)
(* A sample is an integer of -Full .. Full - 1; the floats of the code are *)
(* exact multiples of 1 / Full.                                            *)
(***************************************************************************)
EXTENDS Integers, FiniteSets, SequencesExt

CONSTANTS
  Sources,      \* synchronisation sources
  mBufferSize,  \* samples of a frame
  Full,         \* 32768 in the code
  Volumes,      \* the samples that occur: these and their complements
  MaxFrames     \* bound: frames of a batch

ASSUME MixerAssumption ==
  /\ {mBufferSize, Full, MaxFrames} \subseteq Nat \ {0}
  /\ Volumes \subseteq 0 .. Full - 1
  /\ IsFiniteSet(Sources) /\ Sources # {}

VARIABLES
  mList,         \* for each source, its frames
  stage,         \* where the caller is: pushing, mixing, clipping or done
  left,          \* sources that the loop has still to add
  mFloatBuffer,
  mMixedBuffer

mixerVars == <<mList, stage, left, mFloatBuffer, mMixedBuffer>>

Levels == Volumes \cup {-1 - v : v \in Volumes}

Frames == [1 .. mBufferSize -> Levels]

Zeros(n) == [k \in 1 .. n |-> 0]

MixerInit ==
  /\ mList = [ssrc \in Sources |-> <<>>]
  /\ stage = "push" /\ left = {} /\ mFloatBuffer = <<>> /\ mMixedBuffer = <<>>

Total(numbers) == FoldFunction(+, 0, numbers)

\* The bound on a batch.
FramesPushed == Total([ssrc \in Sources |-> Len(mList[ssrc])])

push(ssrc, frame) ==
  /\ stage = "push"
  /\ mList' = [mList EXCEPT ![ssrc] = Append(@, frame)]
  /\ UNCHANGED <<stage, left, mFloatBuffer, mMixedBuffer>>

\* Nothing was pushed: getMixedData() returns null.
Mix ==
  /\ stage = "push"
  /\ left' = {ssrc \in Sources : mList[ssrc] # <<>>}
  /\ stage' = IF left' = {} THEN "done" ELSE "mix"
  /\ mFloatBuffer' = Zeros(1)
  /\ UNCHANGED <<mList, mMixedBuffer>>

\* The samples of a source: each frame is copied behind those before it.
getArrayValue(ssrc) ==
  [k \in 1 .. Len(mList[ssrc]) * mBufferSize |->
     mList[ssrc][((k - 1) \div mBufferSize) + 1][((k - 1) % mBufferSize) + 1]]

\* The buffer grows and keeps its samples.
resizeArray(buffer, size) ==
  [k \in 1 .. size |-> IF k \in DOMAIN buffer THEN buffer[k] ELSE 0]

Longer(m, n) == IF m > n THEN m ELSE n

\* Mutant: the buffer is a new one for every longer source.
Renewing_AddSource(ssrc) ==
  /\ stage = "mix" /\ ssrc \in left
  /\ LET data == getArrayValue(ssrc)
         buffer == IF Len(data) > Len(mFloatBuffer) THEN Zeros(Len(data)) ELSE mFloatBuffer
     IN  mFloatBuffer' = [k \in DOMAIN buffer |->
                            buffer[k] + IF k \in DOMAIN data THEN data[k] ELSE 0]
  /\ left' = left \ {ssrc}
  /\ stage' = IF left' = {} THEN "clip" ELSE "mix"
  /\ UNCHANGED <<mList, mMixedBuffer>>

\* One turn of the loop over the map, whose order is any.
AddSource(ssrc) ==
  /\ stage = "mix" /\ ssrc \in left
  /\ LET data == getArrayValue(ssrc)
         buffer == resizeArray(mFloatBuffer, Longer(Len(mFloatBuffer), Len(data)))
     IN  mFloatBuffer' = [k \in DOMAIN buffer |->
                            buffer[k] + IF k \in DOMAIN data THEN data[k] ELSE 0]
  /\ left' = left \ {ssrc}
  /\ stage' = IF left' = {} THEN "clip" ELSE "mix"
  /\ UNCHANGED <<mList, mMixedBuffer>>

\* (short) of a float: towards zero, then the low bits.
Attenuated(sum) == LET a == 4 * sum IN IF a >= 0 THEN a \div 5 ELSE -((-a) \div 5)
Cast(n) == ((n + Full) % (2 * Full)) - Full

Clipped(sum) ==
  Cast(IF 4 * sum > 5 * Full THEN Full
       ELSE IF 4 * sum < -5 * Full THEN -Full ELSE Attenuated(sum))

Clip ==
  /\ stage = "clip"
  /\ mMixedBuffer' = [k \in DOMAIN mFloatBuffer |-> Clipped(mFloatBuffer[k])]
  /\ stage' = "done"
  /\ UNCHANGED <<mList, left, mFloatBuffer>>

MixerNext ==
  \/ \E ssrc \in Sources, frame \in Frames :
       FramesPushed < MaxFrames /\ push(ssrc, frame)
  \/ Mix \/ \E ssrc \in Sources : AddSource(ssrc)
  \/ Clip

MixerSpec == MixerInit /\ [][MixerNext]_mixerVars

-----------------------------------------------------------------------------
\* What a source has at sample k, and what all of them have together.
Part(ssrc, k) ==
  LET data == getArrayValue(ssrc) IN IF k \in DOMAIN data THEN data[k] ELSE 0

Sum(k) == Total([ssrc \in Sources |-> Part(ssrc, k)])

Longest ==
  LET lengths == {Len(getArrayValue(ssrc)) : ssrc \in Sources}
  IN  CHOOSE n \in lengths : \A m \in lengths : m <= n

\* The mix is as long as the longest source and holds every sample of every
\* source once, in its place, whatever the order of the sources and of their
\* growing lengths: 4/5 of the sum, or the lowest sample if that is out of range
\* below.  What a sum out of range above becomes is left open: the cast of 1.0f
\* wraps to the lowest sample.
MixesEverySource ==
  stage = "done" =>
    /\ Len(mMixedBuffer) = Longest
    /\ \A k \in 1 .. Longest :
         \/ 4 * Sum(k) >= 5 * Full
         \/ 4 * Sum(k) < -5 * Full /\ mMixedBuffer[k] = -Full
         \/ 5 * mMixedBuffer[k] - 4 * Sum(k) \in -4 .. 4
=============================================================================
