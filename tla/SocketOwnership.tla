-------------------------- MODULE SocketOwnership --------------------------
(***************************************************************************)
(* Who uses an RtpSocket: rtp/AudioStream.java and rtp/RtpSocket.java over *)
(* the JNI methods of both.  A stream occupies an associated socket when it*)
(* is constructed and vacates it at the end of close(), which is not       *)
(* synchronized: another thread may come between its three steps.  The     *)
(* other methods hold the monitor of their object and are atomic here; a   *)
(* stream that is stopped has no thread on the socket (StreamLifecycle).   *)
(*                                                                         *)
(* The classes do not ask whether a stream is closed: close() may be called*)
(* again, and a stream started during close() or after it.  Histories note *)
(* both, and the properties say what harm each can do and what it cannot.  *)
(***************************************************************************)
CONSTANTS Threads, Streams, Sockets, Remotes, None

ASSUME NoneAssumption == None \notin Streams \cup Sockets \cup Remotes

Directions == {"sending", "receiving"}

VARIABLES
  mRemoteAddress,  \* of each socket, None if not associated
  mInUse,          \* of each socket
  mRtpSocket,      \* of each stream, None before its construction
  prepared,        \* streams with a native stream
  using,           \* for each stream, the directions it uses its socket in
  at,              \* where each thread is in close(): "idle", "receiving", "vacate"
  closing,         \* the stream it closes
  passed,          \* history: for each stream, the directions close() has stopped
  closed,          \* history: streams whose close() has returned
  closedAgain,     \* history: streams whose close() was called more than once
  revived,         \* history: streams started in a direction close() had stopped
  finalized        \* streams the garbage collector has taken

socketVars == <<mRemoteAddress, mInUse>>
streamVars == <<mRtpSocket, prepared, using>>
closeVars == <<at, closing, passed, closed, closedAgain>>
vars == <<socketVars, streamVars, closeVars, revived, finalized>>

Init ==
  /\ mRemoteAddress = [s \in Sockets |-> None]
  /\ mInUse = [s \in Sockets |-> FALSE]
  /\ mRtpSocket = [st \in Streams |-> None]
  /\ prepared = {} /\ using = [st \in Streams |-> {}]
  /\ at = [t \in Threads |-> "idle"] /\ closing = [t \in Threads |-> None]
  /\ passed = [st \in Streams |-> {}]
  /\ closed = {} /\ closedAgain = {} /\ revived = {} /\ finalized = {}

Usable(st) == mRtpSocket[st] # None /\ st \notin finalized

-----------------------------------------------------------------------------
\* associate(): nothing asks whether the socket is associated or in use.
associate(s, remote) ==
  /\ mRemoteAddress' = [mRemoteAddress EXCEPT ![s] = remote]
  /\ UNCHANGED <<mInUse, streamVars, closeVars, revived, finalized>>

\* Mutant: occupy() does not ask whether the socket is in use.
Shared_AudioStream(st, s) ==
  /\ mRtpSocket[st] = None
  /\ mRemoteAddress[s] # None
  /\ mInUse' = [mInUse EXCEPT ![s] = TRUE]
  /\ mRtpSocket' = [mRtpSocket EXCEPT ![st] = s]
  /\ UNCHANGED <<mRemoteAddress, prepared, using, closeVars, revived, finalized>>

\* The constructor and occupy(), which throws if a condition fails.
AudioStream(st, s) ==
  /\ mRtpSocket[st] = None
  /\ mRemoteAddress[s] # None /\ ~mInUse[s]
  /\ mInUse' = [mInUse EXCEPT ![s] = TRUE]
  /\ mRtpSocket' = [mRtpSocket EXCEPT ![st] = s]
  /\ UNCHANGED <<mRemoteAddress, prepared, using, closeVars, revived, finalized>>

prepare(st) ==
  /\ Usable(st) /\ st \notin prepared
  /\ prepared' = prepared \cup {st}
  /\ UNCHANGED <<socketVars, mRtpSocket, using, closeVars, revived, finalized>>

\* startSending() and startReceiving() of a prepared stream.
start(st, direction) ==
  /\ Usable(st) /\ st \in prepared
  /\ using' = [using EXCEPT ![st] = @ \cup {direction}]
  /\ revived' = revived \cup {q \in {st} : direction \in passed[q]}
  /\ UNCHANGED <<socketVars, mRtpSocket, prepared, closeVars, finalized>>

stop(st, direction) ==
  /\ using' = [using EXCEPT ![st] = @ \ {direction}]
  /\ UNCHANGED <<mRtpSocket, prepared>>

Stop(st, direction) ==
  /\ Usable(st) /\ stop(st, direction)
  /\ UNCHANGED <<socketVars, closeVars, revived, finalized>>

\* release() stops both directions; finalize() calls it, and does not vacate.
release(st) ==
  /\ prepared' = prepared \ {st}
  /\ using' = [using EXCEPT ![st] = {}]
  /\ UNCHANGED <<socketVars, mRtpSocket, closeVars, revived>>

Release(st) == Usable(st) /\ release(st) /\ UNCHANGED finalized

Finalize(st) ==
  /\ Usable(st) /\ \A t \in Threads : closing[t] # st
  /\ release(st)
  /\ finalized' = finalized \cup {st}

-----------------------------------------------------------------------------
\* The three calls of close(), the first of which does not ask for an earlier close().
Passes(st, direction) ==
  passed' = [passed EXCEPT ![st] = @ \cup {direction}]

\* Mutant: close() vacates the socket first.
Vacating_CloseSending(t, st) ==
  /\ at[t] = "idle" /\ Usable(st)
  /\ stop(st, "sending")
  /\ mInUse' = [mInUse EXCEPT ![mRtpSocket[st]] = FALSE]
  /\ at' = [at EXCEPT ![t] = "receiving"] /\ closing' = [closing EXCEPT ![t] = st]
  /\ Passes(st, "sending")
  /\ closedAgain' = closedAgain \cup {q \in {st} : "sending" \in passed[q]}
  /\ UNCHANGED <<mRemoteAddress, closed, revived, finalized>>

CloseSending(t, st) ==
  /\ at[t] = "idle" /\ Usable(st)
  /\ stop(st, "sending")
  /\ at' = [at EXCEPT ![t] = "receiving"] /\ closing' = [closing EXCEPT ![t] = st]
  /\ Passes(st, "sending")
  /\ closedAgain' = closedAgain \cup {q \in {st} : "sending" \in passed[q]}
  /\ UNCHANGED <<socketVars, closed, revived, finalized>>

\* Mutant: close() does not stop the receiver.
Deaf_CloseReceiving(t) ==
  /\ at[t] = "receiving"
  /\ Passes(closing[t], "receiving")
  /\ at' = [at EXCEPT ![t] = "vacate"]
  /\ UNCHANGED <<socketVars, streamVars, closing, closed, closedAgain, revived, finalized>>

CloseReceiving(t) ==
  /\ at[t] = "receiving"
  /\ stop(closing[t], "receiving")
  /\ Passes(closing[t], "receiving")
  /\ at' = [at EXCEPT ![t] = "vacate"]
  /\ UNCHANGED <<socketVars, closing, closed, closedAgain, revived, finalized>>

CloseVacates(t) ==
  /\ at[t] = "vacate"
  /\ mInUse' = [mInUse EXCEPT ![mRtpSocket[closing[t]]] = FALSE]
  /\ closed' = closed \cup {closing[t]}
  /\ at' = [at EXCEPT ![t] = "idle"] /\ closing' = [closing EXCEPT ![t] = None]
  /\ UNCHANGED <<mRemoteAddress, streamVars, passed, closedAgain, revived, finalized>>

Next ==
  \/ \E s \in Sockets, remote \in Remotes : associate(s, remote)
  \/ \E st \in Streams, s \in Sockets : AudioStream(st, s)
  \/ \E st \in Streams : prepare(st) \/ Release(st) \/ Finalize(st)
  \/ \E st \in Streams, direction \in Directions : start(st, direction)
                                                 \/ Stop(st, direction)
  \/ \E t \in Threads, st \in Streams : CloseSending(t, st)
  \/ \E t \in Threads : CloseReceiving(t) \/ CloseVacates(t)

Spec == Init /\ [][Next]_vars

-----------------------------------------------------------------------------
TypeOK ==
  /\ mRemoteAddress \in [Sockets -> Remotes \cup {None}]
  /\ mInUse \in [Sockets -> BOOLEAN]
  /\ mRtpSocket \in [Streams -> Sockets \cup {None}]
  /\ prepared \subseteq {st \in Streams : mRtpSocket[st] # None}
  /\ using \in [Streams -> SUBSET Directions]
  /\ \A st \in Streams : using[st] # {} => st \in prepared
  /\ at \in [Threads -> {"idle", "receiving", "vacate"}]
  /\ closing \in [Threads -> Streams \cup {None}]
  /\ \A t \in Threads : IF at[t] = "idle" THEN closing[t] = None
                                          ELSE Usable(closing[t])
  /\ passed \in [Streams -> SUBSET Directions]
  /\ closed \cup closedAgain \cup revived \cup finalized \subseteq Streams

\* The streams that hold s: constructed on it and not yet closed.
Holders(s) == {st \in Streams : mRtpSocket[st] = s /\ st \notin closed}

\* No stream that was built on s had its close() called again.
ClosedOnce(s) == \A st \in closedAgain : mRtpSocket[st] # s

\* The documentation of the constructor (AudioStream.java): a socket that is already
\* used by another stream is refused.  However close() and the constructor interleave,
\* no two streams hold a socket, unless close() was called again for a stream of this
\* very socket; a second close() on one socket does no harm on another.
SoleUser ==
  \A s \in Sockets : ClosedOnce(s) => \A st1, st2 \in Holders(s) : st1 = st2

\* A socket is never lost: if it is marked in use some stream still holds it and will
\* give it back, however often close() was called.  And the mark is there as long as a
\* stream holds the socket, unless a stream of this socket was closed again.
InUseIsHeld ==
  \A s \in Sockets :
    /\ mInUse[s] => Holders(s) # {}
    /\ ClosedOnce(s) /\ Holders(s) # {} => mInUse[s]

\* Two streams send or receive on one socket, so that each takes datagrams of the
\* other, only if a stream of that socket was closed again, or one of the two was
\* started in a direction that its close() had already stopped, during close() or
\* after it.  Any other order of start, stop, close(), release(), collection and new
\* streams on the socket keeps their datagrams apart.
DatagramsApart ==
  \A st1, st2 \in Streams \ revived :
    /\ using[st1] # {} /\ using[st2] # {}
    /\ mRtpSocket[st1] = mRtpSocket[st2] /\ ClosedOnce(mRtpSocket[st1])
    => st1 = st2

\* The threads of a stream find a remote address in their socket.
UsedIsAssociated ==
  \A st \in Streams : using[st] # {} => mRemoteAddress[mRtpSocket[st]] # None
=============================================================================
