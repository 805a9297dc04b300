--------------------------- MODULE NativeReceiver ---------------------------
(***************************************************************************)
(* The native receive path (app/src/main/cpp): the Receiver thread runs    *)
(* decode() until it fails or is asked to exit; decode() takes packets     *)
(* through getPacketFromJB(), which fills the JitterBuffer from the socket *)
(* with receive() of RtpSocket.cpp, and writes the audio to the AudioTrack.*)
(* The kernel queue of the socket, the network, the clock and the          *)
(* application that starts and stops the stream are the environment.       *)
(*                                                                         *)
(* A datagram is its place in the order of arrival and what decode() makes *)
(* of it: "audio" is played; "other" has at least one byte but is too      *)
(* short, malformed, of another payload type or empty of samples; "blank"  *)
(* is a datagram of zero bytes, which recv() reports like a timeout.       *)
(***************************************************************************)
EXTENDS Integers, SequencesExt

CONSTANTS
  SIZE,           \* slots of the jitter buffer
  SockCap,        \* datagrams the kernel keeps for the socket
  MaxArrivals,    \* bound: datagrams that arrive
  MaxStarts,      \* bound: calls of startReceiving()
  MaxInterrupts   \* bound: failures of recv()

ASSUME ReceiverAssumption ==
  /\ SIZE \in Nat /\ SIZE >= 2
  /\ {SockCap, MaxArrivals, MaxStarts, MaxInterrupts} \subseteq Nat

Kind == {"audio", "other", "blank"}
Datagram == [id : 1 .. MaxArrivals, kind : Kind]
NoDatagram == [id |-> 0, kind |-> "none"]

VARIABLES
  mBuffer, mHead, mTail, lent,   \* the JitterBuffer
  pc,             \* where the Receiver thread is; "dead" when there is none
  active,         \* ~mTrack.stopped()
  exitPending,    \* the application waits in requestExitAndWait()
  expired,        \* the deadline of this decode() has passed
  sock,           \* the kernel queue of the socket
  arrivals,       \* datagrams that have reached the host
  starts,         \* calls of startReceiving() so far
  interrupts,     \* failures of recv() so far
  accepted,       \* history: what the kernel queued for the socket
  played,         \* history: what was written to the AudioTrack
  discarded,      \* history: what decode() skipped or failed to write
  dropped         \* history: what found the jitter buffer full

JB == INSTANCE JitterBuffer WITH Packet <- Datagram, NoPacket <- NoDatagram

jbVars == <<mBuffer, mHead, mTail, lent>>
appVars == <<active, exitPending, starts>>
netVars == <<arrivals, interrupts, accepted>>
history == <<played, discarded, dropped>>
vars == <<jbVars, pc, expired, sock, appVars, netVars, history>>

Init ==
  /\ JB!JBInit
  /\ pc = "dead" /\ active = FALSE /\ exitPending = FALSE /\ expired = FALSE
  /\ sock = <<>> /\ arrivals = 0 /\ starts = 0 /\ interrupts = 0
  /\ accepted = {} /\ played = <<>> /\ discarded = {} /\ dropped = {}

-----------------------------------------------------------------------------
\* Start of decode(): a new deadline, one interval ahead.
TakeDeadline ==
  /\ pc = "decode"
  /\ pc' = "get"
  /\ expired' = FALSE
  /\ UNCHANGED <<jbVars, sock, appVars, netVars, history>>

\* There is no time to be had: decode() returns false.
ClockFails ==
  /\ pc = "decode"
  /\ pc' = "fail"
  /\ UNCHANGED <<jbVars, expired, sock, appVars, netVars, history>>

\* Mutant: it waits for a datagram whether or not one is buffered.
Impatient_Get ==
  /\ pc = "get"
  /\ pc' = "await"
  /\ UNCHANGED <<jbVars, expired, sock, appVars, netVars, history>>

\* getPacketFromJB(): wait for a datagram only if none is buffered.
Get ==
  /\ pc = "get"
  /\ pc' = IF JB!empty THEN "await" ELSE "pop"
  /\ UNCHANGED <<jbVars, expired, sock, appVars, netVars, history>>

\* receive() with a deadline: nothing is read once it has passed.
CheckDeadline ==
  /\ pc = "await"
  /\ pc' = IF expired THEN "loop" ELSE "recv"
  /\ UNCHANGED <<jbVars, expired, sock, appVars, netVars, history>>

\* Mutant: the blocking recv() has no timeout.
Unbounded_RecvTimeout == FALSE

\* The blocking recv() times out.
RecvTimeout ==
  /\ pc = "recv" /\ sock = <<>> /\ expired
  /\ pc' = "loop"
  /\ UNCHANGED <<jbVars, expired, sock, appVars, netVars, history>>

\* The blocking recv() returns a datagram; a blank one looks like a timeout.
Recv ==
  /\ pc = "recv" /\ sock # <<>>
  /\ sock' = Tail(sock)
  /\ IF Head(sock).kind = "blank"
       THEN pc' = "loop" /\ UNCHANGED jbVars
       ELSE pc' = "pop" /\ JB!Fill(Head(sock))
  /\ UNCHANGED <<expired, appVars, netVars, history>>

\* recv() fails, with EINTR or another error: the first receive() ends
\* decode() as a timeout does, one of the drain loop ends the loop.
RecvFails ==
  /\ pc \in {"recv", "drain"} /\ interrupts < MaxInterrupts
  /\ interrupts' = interrupts + 1
  /\ pc' = IF pc = "recv" THEN "loop" ELSE "check"
  /\ UNCHANGED <<jbVars, expired, sock, appVars, arrivals, accepted, history>>

Pop ==
  /\ pc = "pop"
  /\ JB!popFront
  /\ pc' = "drain"
  /\ UNCHANGED <<expired, sock, appVars, netVars, history>>

\* Mutant: a full buffer ends the drain loop, the datagram already taken.
Forgetful_Drain ==
  /\ pc = "drain"
  /\ IF sock = <<>> \/ Head(sock).kind = "blank" \/ JB!obtainBuffer = JB!NULL
       THEN pc' = "check" /\ UNCHANGED <<jbVars, dropped>>
       ELSE pc' = pc /\ JB!Fill(Head(sock)) /\ UNCHANGED dropped
  /\ sock' = IF sock = <<>> THEN sock ELSE Tail(sock)
  /\ UNCHANGED <<expired, appVars, netVars, played, discarded>>

\* Mutant: the drain loop drops datagrams although a slot is free.
Eager_Drain ==
  /\ pc = "drain"
  /\ IF sock = <<>> \/ Head(sock).kind = "blank"
       THEN pc' = "check" /\ UNCHANGED <<jbVars, dropped>>
       ELSE /\ pc' = pc
            /\ IF JB!Count >= SIZE - 2
                 THEN UNCHANGED jbVars /\ dropped' = dropped \cup {Head(sock)}
                 ELSE JB!Fill(Head(sock)) /\ UNCHANGED dropped
  /\ sock' = IF sock = <<>> THEN sock ELSE Tail(sock)
  /\ UNCHANGED <<expired, appVars, netVars, played, discarded>>

\* One turn of the drain loop of getPacketFromJB(): without waiting, take the
\* next datagram into a free slot, or read it away if there is none.
Drain ==
  /\ pc = "drain"
  /\ IF sock = <<>> \/ Head(sock).kind = "blank"
       THEN pc' = "check" /\ UNCHANGED <<jbVars, dropped>>
       ELSE /\ pc' = pc
            /\ IF JB!obtainBuffer = JB!NULL
                 THEN UNCHANGED jbVars /\ dropped' = dropped \cup {Head(sock)}
                 ELSE JB!Fill(Head(sock)) /\ UNCHANGED dropped
  /\ sock' = IF sock = <<>> THEN sock ELSE Tail(sock)
  /\ UNCHANGED <<expired, appVars, netVars, played, discarded>>

\* decode() examines the packet; one that is not audio is skipped and the
\* next one is taken under the same deadline.
Check ==
  /\ pc = "check"
  /\ IF JB!Held.kind = "audio"
       THEN pc' = "write" /\ UNCHANGED discarded
       ELSE pc' = "get" /\ discarded' = discarded \cup {JB!Held}
  /\ UNCHANGED <<jbVars, expired, sock, appVars, netVars, played, dropped>>

\* Mutant: the slot at the head is played, not the one popFront returned.
Misread_Write ==
  /\ pc = "write"
  /\ played' = Append(played, mBuffer[mHead])
  /\ pc' = "loop"
  /\ UNCHANGED <<jbVars, expired, sock, appVars, netVars, discarded, dropped>>

Write ==
  /\ pc = "write"
  /\ played' = Append(played, JB!Held)
  /\ pc' = "loop"
  /\ UNCHANGED <<jbVars, expired, sock, appVars, netVars, discarded, dropped>>

\* AudioTrack::write() returns another length: decode() returns false.
WriteFails ==
  /\ pc = "write"
  /\ discarded' = discarded \cup {JB!Held}
  /\ pc' = "fail"
  /\ UNCHANGED <<jbVars, expired, sock, appVars, netVars, played, dropped>>

\* Receiver::threadLoop() stops the track and returns false.
Fail ==
  /\ pc = "fail"
  /\ active' = FALSE
  /\ pc' = "dead"
  /\ UNCHANGED <<jbVars, expired, sock, exitPending, starts, netVars, history>>

\* Thread::_threadLoop(): call threadLoop() again unless asked to exit.
Loop ==
  /\ pc = "loop"
  /\ pc' = IF exitPending THEN "dead" ELSE "decode"
  /\ UNCHANGED <<jbVars, expired, sock, appVars, netVars, history>>

Thread ==
  \/ TakeDeadline \/ ClockFails \/ Get \/ CheckDeadline \/ RecvTimeout \/ Recv
  \/ RecvFails \/ Pop \/ Drain \/ Check \/ Write \/ WriteFails \/ Fail \/ Loop

-----------------------------------------------------------------------------
\* The environment.

\* startReceiving() of a stopped stream.  The jitter buffer is kept.
StartReceiving ==
  /\ ~active /\ ~exitPending /\ pc = "dead" /\ starts < MaxStarts
  /\ starts' = starts + 1
  /\ active' = TRUE
  /\ pc' = "decode"
  /\ UNCHANGED <<jbVars, expired, sock, exitPending, netVars, history>>

StopReceiving ==
  /\ active /\ ~exitPending
  /\ exitPending' = TRUE
  /\ UNCHANGED <<jbVars, pc, expired, sock, active, starts, netVars, history>>

StopReturns ==
  /\ exitPending /\ pc = "dead"
  /\ exitPending' = FALSE
  /\ active' = FALSE
  /\ UNCHANGED <<jbVars, pc, expired, sock, starts, netVars, history>>

\* A datagram reaches the host, at any time and before any step of the thread; it is lost
\* if the socket's queue is full.
Arrive(kind) ==
  LET d == [id |-> arrivals + 1, kind |-> kind] IN
  /\ arrivals < MaxArrivals
  /\ arrivals' = arrivals + 1
  /\ IF Len(sock) < SockCap
       THEN sock' = Append(sock, d) /\ accepted' = accepted \cup {d}
       ELSE UNCHANGED <<sock, accepted>>
  /\ UNCHANGED <<jbVars, pc, expired, appVars, interrupts, history>>

\* Time passes; only receive() looks at the deadline.
DeadlinePasses ==
  /\ pc \in {"await", "recv"} /\ ~expired
  /\ expired' = TRUE
  /\ UNCHANGED <<jbVars, pc, sock, appVars, netVars, history>>

Next ==
  \/ Thread
  \/ StartReceiving \/ StopReceiving \/ StopReturns
  \/ DeadlinePasses
  \/ \E kind \in Kind : Arrive(kind)

Spec == Init /\ [][Next]_vars

\* The scheduler runs the thread, and time passes.  A thread of audio priority
\* does not for ever reach receive() later than one interval after the start of
\* decode().  Nothing makes datagrams arrive, recv() or write() fail, or the
\* application act.
FairSpec ==
  /\ Spec
  /\ WF_vars(Thread) /\ WF_vars(DeadlinePasses)
  /\ SF_vars(CheckDeadline /\ ~expired)

-----------------------------------------------------------------------------
\* The packet decode() is working on.
InDecode == IF pc \in {"drain", "check", "write"} THEN <<JB!Held>> ELSE <<>>

\* From the kernel to the AudioTrack datagrams are a stream that loses some and keeps
\* the order of arrival: audio is never played twice, nor after audio that arrived
\* later, whatever was skipped or dropped in between, also after a restart, which
\* keeps the jitter buffer.
Numbers(datagrams) == [i \in DOMAIN datagrams |-> datagrams[i].id]

Stream == INSTANCE LossyStream
            WITH PacketItems <- 1, MaxSkip <- 1, last <- arrivals,
                 pending <- Numbers(InDecode \o JB!Queued \o sock),
                 played <- Numbers(played)

ImplementsStream == Stream!StreamSpec

\* The places a datagram of at least one byte can be in.
Places(d) ==
  <<d \in ToSet(sock), d \in ToSet(JB!Queued), d \in ToSet(InDecode),
    d \in ToSet(played), d \in discarded, d \in dropped>>

\* Each datagram of at least one byte that the kernel queued is in exactly one
\* place: getPacketFromJB() and decode() neither forget nor duplicate one, and
\* the slot being played is not overwritten by the drain loop.
NothingVanishes ==
  \A d \in accepted :
    d.kind # "blank" => Cardinality({i \in 1 .. 6 : Places(d)[i]}) = 1

\* The drain loop drops a datagram only if SIZE - 1 datagrams that arrived
\* earlier are still to be played after the one being decoded.
DropsTheLatest ==
  [][\A d \in dropped' \ dropped :
       /\ Len(JB!Queued) = SIZE - 1
       /\ \A i \in DOMAIN JB!Queued : JB!Held.id < JB!Queued[i].id
                                    /\ JB!Queued[i].id < d.id]_vars

\* From some time on no datagram arrives.  MaxArrivals sees to it in every run; the
\* properties that need it say so, as in the code neither the drain loop nor the loop of
\* decode() over what it skips has a bound, or looks at exitPending, while datagrams
\* arrive faster than it reads them.
TrafficEnds == <>[][UNCHANGED arrivals]_vars

\* stopReceiving() returns unless datagrams never cease to arrive: wherever the thread is
\* when it is asked to exit, with any number of datagrams before it and none to wake it
\* up, it ends.
StopTerminates == TrafficEnds => (exitPending ~> pc = "dead")

\* While the stream receives, no datagram of a traffic that ends stays for ever in the
\* socket's queue or in the jitter buffer: each is played, skipped or dropped.
EverythingSettles ==
  TrafficEnds =>
    \A id \in 1 .. MaxArrivals :
      (\E d \in ToSet(sock \o JB!Queued) : d.id = id)
        ~> (pc = "dead" \/ \A d \in ToSet(sock \o JB!Queued) : d.id # id)
=============================================================================
