---------------------------- MODULE LossyStream ----------------------------
(***************************************************************************)
(* What both engines promise between the network and the speaker: a stream *)
(* that may lose anything at any place, but neither repeats nor reorders.  *)
(* An item is its number in the order of arrival: a datagram of the native *)
(* engine (NativeReceiver), a sample of the Java engine (RxPipeline).      *)
(***************************************************************************)
EXTENDS Integers, Sequences

CONSTANTS
  PacketItems,  \* items that arrive together
  MaxSkip       \* items that pass by unseen before some are taken in

VARIABLES
  pending,  \* taken in and neither played nor lost
  played,
  last      \* the number of the item that arrived last

streamVars == <<pending, played, last>>

StreamInit == pending = <<>> /\ played = <<>> /\ last = 0

\* Some items pass by, and those of a packet, or none, are taken in.
TakeIn(skip, count) ==
  /\ pending' = pending \o [k \in 1 .. count |-> last + skip + k]
  /\ last' = last + skip + count
  /\ UNCHANGED played

Play(count) ==
  /\ played' = played \o SubSeq(pending, 1, count)
  /\ pending' = SubSeq(pending, count + 1, Len(pending))
  /\ UNCHANGED last

\* A stretch of what is pending is lost.
Lose(first, end) ==
  /\ pending' = SubSeq(pending, 1, first - 1) \o SubSeq(pending, end + 1, Len(pending))
  /\ UNCHANGED <<played, last>>

StreamNext ==
  \/ \E skip \in 0 .. MaxSkip, count \in {0, PacketItems} : TakeIn(skip, count)
  \/ \E count \in 1 .. Len(pending) : Play(count)
  \/ \E first \in 1 .. Len(pending) : \E end \in first .. Len(pending) : Lose(first, end)

StreamSpec == StreamInit /\ [][StreamNext]_streamVars

-----------------------------------------------------------------------------
\* What was played and what will be is in the order of arrival, nothing twice.
InOrder ==
  LET stream == played \o pending
  IN  \A i, j \in DOMAIN stream : i < j => stream[i] < stream[j]
=============================================================================
