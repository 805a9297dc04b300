----------------------------- MODULE RxPipeline -----------------------------
(***************************************************************************)
(* One receiver of the Java engine (media/AudioStreamerImpl.java), from the*)
(* socket to the AudioTrack.  The PlayTask thread waits for the first      *)
(* datagram and then starts the RtpReceiver thread, which receives into    *)
(* mPacketList; PlayTask empties the list into the AudioPlayer, dropping   *)
(* what is buffered there if that exceeds the high-water mark.  StopRx     *)
(* clears mRunning and waits for nobody; the socket is never closed, and   *)
(* the receives have no timeout.                                           *)
(*                                                                         *)
(* The packets of this model are those of one source, so that the mixer    *)
(* (Demultiplex) only joins them; a datagram of a host other than the      *)
(* configured one is received by a unicast receiver and not listed.        *)
(***************************************************************************)
EXTENDS AudioPlayer, SequencesExt

CONSTANT
  MaxArrivals    \* bound: datagrams that arrive

VARIABLES
  pt,            \* where PlayTask is
  mRunning,      \* PlayTask.mRunning
  writeHead,     \* local variables of PlayTask.run()
  mPlayBuffer,
  rr,            \* where RtpReceiver is
  rrRunning,     \* RtpReceiver.mRunning
  mPacketList,
  sock,          \* datagrams the kernel holds
  arrivals,
  listed,        \* history: the packets that were put into mPacketList
  flushed,       \* history: samples the high-water mark dropped
  overrun        \* history: PlayTask wrote more than there was room for

threadVars == <<pt, writeHead, mPlayBuffer>>
netVars == <<sock, arrivals, listed>>
receiverVars == <<rr, rrRunning, mPacketList, netVars>>
history == <<flushed, overrun>>
vars == <<playerVars, threadVars, mRunning, receiverVars, history>>

bufferHighMark == ((BufferSize \div 2) * 8) \div 10

ASSUME ArrivalsAssumption == MaxArrivals \in Nat

\* The samples of the packet that arrived as number id.
Samples(id) == [k \in 1 .. FrameSize |-> (id - 1) * FrameSize + k]

\* Those of some packets, one after the other.
Joined(packets) ==
  [k \in 1 .. Len(packets) * FrameSize |->
     Samples(packets[((k - 1) \div FrameSize) + 1])[((k - 1) % FrameSize) + 1]]

Init ==
  /\ PlayerInit
  /\ pt = "first" /\ mRunning = TRUE /\ writeHead = 0 /\ mPlayBuffer = <<>>
  /\ rr = "none" /\ rrRunning = FALSE /\ mPacketList = <<>>
  /\ sock = <<>> /\ arrivals = 0
  /\ listed = {} /\ flushed = {} /\ overrun = FALSE

-----------------------------------------------------------------------------
\* RtpReceiver.receive(): a blocking receive, and the filter of the source.
Receive ==
  /\ sock # <<>>
  /\ sock' = Tail(sock)
  /\ IF Head(sock).ours
       THEN /\ mPacketList' = Append(mPacketList, Head(sock).id)
            /\ listed' = listed \cup {Head(sock).id}
       ELSE UNCHANGED <<mPacketList, listed>>

\* The RtpReceiver thread.
ReceiverTest ==
  /\ rr = "test"
  /\ rr' = IF rrRunning THEN "receive" ELSE "ended"
  /\ UNCHANGED <<playerVars, threadVars, mRunning, rrRunning, mPacketList, netVars,
                 history>>

ReceiverReceive ==
  /\ rr = "receive"
  /\ Receive
  /\ rr' = "test"
  /\ UNCHANGED <<playerVars, threadVars, mRunning, rrRunning, arrivals, history>>

Receiver == ReceiverTest \/ ReceiverReceive

-----------------------------------------------------------------------------
\* The PlayTask thread.

\* Any datagram, also one that is not listed, ends the wait for the first.
FirstReceive ==
  /\ pt = "first"
  /\ Receive
  /\ pt' = "start"
  /\ UNCHANGED <<playerVars, writeHead, mPlayBuffer, mRunning, rr, rrRunning,
                 arrivals, history>>

\* An IOException of the first receive ends the player.
FirstReceiveFails ==
  /\ pt = "first"
  /\ stop
  /\ pt' = "done"
  /\ UNCHANGED <<writeHead, mPlayBuffer, mRunning, receiverVars, history>>

StartReceiver ==
  /\ pt = "start"
  /\ rr' = "test" /\ rrRunning' = TRUE
  /\ pt' = "test"
  /\ UNCHANGED <<playerVars, writeHead, mPlayBuffer, mRunning, mPacketList, netVars,
                 history>>

PlayTest ==
  /\ pt = "test"
  /\ pt' = IF mRunning THEN "drain" ELSE "quit"
  /\ UNCHANGED <<playerVars, writeHead, mPlayBuffer, mRunning, receiverVars, history>>

\* Mutant: only the first packet is decoded before the list is cleared.
Clearing_demultiplexRTP ==
  /\ pt = "drain"
  /\ IF mPacketList = <<>> THEN pt' = "test" /\ UNCHANGED mPlayBuffer
     ELSE mPlayBuffer' = Samples(Head(mPacketList)) /\ pt' = "measure"
  /\ mPacketList' = <<>>
  /\ UNCHANGED <<playerVars, writeHead, mRunning, rr, rrRunning, netVars, history>>

\* demultiplexRTP(): decode and remove all listed packets, in the list's monitor.
demultiplexRTP ==
  /\ pt = "drain"
  /\ IF mPacketList = <<>> THEN pt' = "test" /\ UNCHANGED mPlayBuffer
     ELSE mPlayBuffer' = Joined(mPacketList) /\ pt' = "measure"
  /\ mPacketList' = <<>>
  /\ UNCHANGED <<playerVars, writeHead, mRunning, rr, rrRunning, netVars, history>>

\* buffered = writeHead - getPlaybackHeadPosition(), without the monitor.
Measure ==
  /\ pt = "measure"
  /\ pt' = IF writeHead - mStartMarker > bufferHighMark THEN "flush" ELSE "write"
  /\ UNCHANGED <<playerVars, writeHead, mPlayBuffer, mRunning, receiverVars, history>>

FlushPlayer ==
  /\ pt = "flush"
  /\ flush
  /\ flushed' = flushed \cup ToSet(Buffered)
  /\ pt' = "reread"
  /\ UNCHANGED <<writeHead, mPlayBuffer, mRunning, receiverVars, overrun>>

\* Mutant: the write head is not set back after a flush.
Stale_RereadHead ==
  /\ pt = "reread"
  /\ pt' = "write"
  /\ UNCHANGED <<playerVars, writeHead, mPlayBuffer, mRunning, receiverVars, history>>

\* writeHead = getPlaybackHeadPosition(), after the flush, without the monitor.
RereadHead ==
  /\ pt = "reread"
  /\ writeHead' = mStartMarker
  /\ pt' = "write"
  /\ UNCHANGED <<playerVars, mPlayBuffer, mRunning, receiverVars, history>>

\* Nobody bounds what is written at once, as nobody bounds the list.  An exception of
\* arraycopy() is not caught and ends the process, whatever was copied by then.
WritePlayer ==
  /\ pt = "write" /\ MonitorFree
  /\ overrun' = (overrun \/ Overruns(mPlayBuffer))
  /\ IF Throws(mPlayBuffer)
       THEN pt' = "thrown" /\ UNCHANGED <<playerVars, writeHead, mPlayBuffer>>
       ELSE /\ write(mPlayBuffer)
            /\ writeHead' = writeHead + Len(mPlayBuffer)
            /\ mPlayBuffer' = <<>>
            /\ pt' = "test"
  /\ UNCHANGED <<mRunning, receiverVars, flushed>>

\* The end of run(): receiver.stop(), player.stop(), player.flush(), release().
StopReceiver ==
  /\ pt = "quit"
  /\ rrRunning' = FALSE
  /\ pt' = "stop"
  /\ UNCHANGED <<playerVars, writeHead, mPlayBuffer, mRunning, rr, mPacketList,
                 netVars, history>>

StopPlayer ==
  /\ pt = "stop"
  /\ stop
  /\ pt' = "clear"
  /\ UNCHANGED <<writeHead, mPlayBuffer, mRunning, receiverVars, history>>

\* Mutant: what is buffered stays there when the player is released.
Lazy_ClearPlayer ==
  /\ pt = "clear"
  /\ pt' = "done"
  /\ UNCHANGED <<playerVars, writeHead, mPlayBuffer, mRunning, receiverVars, history>>

ClearPlayer ==
  /\ pt = "clear"
  /\ flush
  /\ pt' = "done"
  /\ UNCHANGED <<writeHead, mPlayBuffer, mRunning, receiverVars, history>>

Play ==
  \/ FirstReceive \/ StartReceiver \/ PlayTest \/ demultiplexRTP \/ Measure
  \/ FlushPlayer \/ RereadHead \/ WritePlayer
  \/ StopReceiver \/ StopPlayer \/ ClearPlayer

-----------------------------------------------------------------------------
\* The environment.

StopRx ==
  /\ mRunning
  /\ mRunning' = FALSE
  /\ UNCHANGED <<playerVars, threadVars, receiverVars, history>>

Arrive(ours) ==
  /\ arrivals < MaxArrivals
  /\ arrivals' = arrivals + 1
  /\ sock' = Append(sock, [id |-> arrivals + 1, ours |-> ours])
  /\ UNCHANGED <<playerVars, threadVars, mRunning, rr, rrRunning, mPacketList, listed,
                 history>>

Player ==
  /\ FeedInitialNoise \/ Callback \/ PlaySample
  /\ UNCHANGED <<threadVars, mRunning, receiverVars, history>>

Alive == pt # "thrown"

Next ==
  /\ Alive
  /\ \/ Receiver \/ Play \/ FirstReceiveFails \/ Player
     \/ StopRx \/ \E ours \in BOOLEAN : Arrive(ours)

Spec == Init /\ [][Next]_vars

\* The scheduler runs the threads and the callback, and the track plays.
FairSpec ==
  /\ Spec
  /\ WF_vars(Play) /\ WF_vars(Alive /\ Receiver)
  /\ WF_vars(Alive /\ Player /\ FeedInitialNoise)
  /\ WF_vars(Alive /\ Player /\ Callback)
  /\ WF_vars(Alive /\ Player /\ PlaySample)

-----------------------------------------------------------------------------
\* From the list to the track the samples of the receiver are a stream that loses some
\* and keeps the order of arrival, up to the first write that the ring has no room for:
\* until then none reaches the track twice or late, whatever the callback, the flush and
\* the wrap of the ring do in between.
Stream == INSTANCE LossyStream
            WITH PacketItems <- FrameSize, MaxSkip <- MaxArrivals * FrameSize,
                 last <- FrameSize * Max({0} \cup listed),
                 pending <- Buffered \o mPlayBuffer \o Joined(mPacketList),
                 played <- track

ImplementsStream ==
  Stream!StreamInit /\ [][~overrun' => [Stream!StreamNext]_(Stream!streamVars)]_vars

\* Until the player stops, each sample of each listed packet is in the list, in
\* PlayTask's hands, in the ring, in the track, or was dropped by the high-water
\* mark: RtpReceiver, PlayTask and the callback lose nothing between them, as long as
\* what PlayTask wrote always had room in the ring.
NothingLost ==
  mIsPlaying /\ ~overrun =>
    ToSet(track) \cup ToSet(Buffered) \cup ToSet(mPlayBuffer)
      \cup ToSet(Joined(mPacketList)) \cup flushed
    = UNION {ToSet(Samples(id)) : id \in listed}

\* PlayTask's writeHead is the end marker of the player whenever it compares it
\* with the playback head: the callback moves the head at any time, also between
\* the flush and the read that follows it, and never makes the two disagree, nor does
\* a ring that was written over.
WriteHeadTracksEnd ==
  pt \in {"test", "drain", "measure", "write"} => writeHead = mEndMarker

\* Once run() has ended, nothing more is written to the released track but noise,
\* although the first notification may still come, and whatever became of the ring.
QuietWhenDone == [][pt = "done" => track' = track]_vars

\* A listed packet does not wait for ever: it is played or dropped, unless the player
\* stops or writes over its ring.
ListedIsPlayed ==
  \A id \in 1 .. MaxArrivals :
    (id \in ToSet(mPacketList)) ~>
      (~mIsPlaying \/ overrun \/ ToSet(Samples(id)) \subseteq ToSet(track) \cup flushed)
=============================================================================
