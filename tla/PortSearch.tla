----------------------------- MODULE PortSearch -----------------------------
(***************************************************************************)
(* create() of cpp/RtpSocket.cpp: bind a UDP socket to the port the kernel *)
(* chooses; if that one is odd, close the socket and look for an even port *)
(* by adding twice the odd one, modulo the 16 bits of a port, again and    *)
(* again.  Here a port has fewer bits and there are fewer tries.           *)
(*                                                                         *)
(* The kernel is external: it refuses any socket() or bind(), and chooses  *)
(* any port that is not privileged.                                        *)
(***************************************************************************)
EXTENDS Integers

CONSTANTS
  PortSpace,   \* 2^16 in the code: the uint16_t port wraps
  Privileged,  \* 1024 in the code: lower ports are skipped
  MaxTries     \* 1000 in the code

ASSUME PortAssumption ==
  /\ {PortSpace, Privileged, MaxTries} \subseteq Nat \ {0}
  /\ PortSpace % 2 = 0 /\ Privileged % 2 = 0
  \* fewer tries than ports to try
  /\ 2 * MaxTries <= PortSpace - Privileged

VARIABLES
  stage,  \* where create() is
  port,   \* port and delta, both uint16_t
  delta,
  i,      \* tries made
  fds,    \* sockets that are open: the first one and the second one
  native, \* the socket that the new RtpSocket owns, or NoSocket
  tried   \* history: the ports bind() refused to the second socket

searchVars == <<stage, port, delta, i, fds, native, tried>>

NoSocket == "none"

SearchInit ==
  /\ stage = "socket" /\ port = 0 /\ delta = 0 /\ i = 0
  /\ fds = {} /\ native = NoSocket /\ tried = {}

-----------------------------------------------------------------------------
Throw ==
  /\ stage' = "thrown"
  /\ fds' = {}

\* socket(), bind() or getsockname() fails; close() of no socket does nothing.
FirstFails ==
  /\ stage = "socket"
  /\ Throw
  /\ UNCHANGED <<port, delta, i, native, tried>>

\* The kernel chooses a port: an even one is kept.
BindFirst(chosen) ==
  /\ stage = "socket"
  /\ port' = chosen
  /\ IF chosen % 2 = 0 THEN stage' = "returned" /\ fds' = {"first"} /\ native' = "first"
                       ELSE stage' = "again" /\ fds' = {} /\ UNCHANGED native
  /\ UNCHANGED <<delta, i, tried>>

\* Mutant: the step is four times the port.
WideStep_SocketAgain ==
  /\ stage = "again"
  /\ fds' = {"second"}
  /\ delta' = (4 * port) % PortSpace
  /\ port' = (port + 1) % PortSpace
  /\ stage' = "advance"
  /\ UNCHANGED <<i, native, tried>>

SocketAgain ==
  /\ stage = "again"
  /\ fds' = {"second"}
  /\ delta' = (2 * port) % PortSpace
  /\ port' = (port + 1) % PortSpace
  /\ stage' = "advance"
  /\ UNCHANGED <<i, native, tried>>

SocketAgainFails ==
  /\ stage = "again"
  /\ Throw
  /\ UNCHANGED <<port, delta, i, native, tried>>

\* Mutant: a privileged port is not left by the step.
Stuck_Advance ==
  /\ stage = "advance"
  /\ port' = IF port < Privileged THEN (port + PortSpace) % PortSpace
                                  ELSE (port + delta) % PortSpace
  /\ stage' = IF port' < Privileged THEN "advance" ELSE "bind"
  /\ UNCHANGED <<delta, i, fds, native, tried>>

\* One turn of the inner loop, which skips the privileged ports.
Advance ==
  /\ stage = "advance"
  /\ port' = (port + delta) % PortSpace
  /\ stage' = IF port' < Privileged THEN "advance" ELSE "bind"
  /\ UNCHANGED <<delta, i, fds, native, tried>>

BindSecond ==
  /\ stage = "bind"
  /\ native' = "second"
  /\ stage' = "returned"
  /\ UNCHANGED <<port, delta, i, fds, tried>>

\* Mutant: the exception leaves the second socket open.
Leaking_BindSecondFails ==
  /\ stage = "bind"
  /\ tried' = tried \cup {port}
  /\ i' = i + 1
  /\ stage' = IF i + 1 = MaxTries THEN "thrown" ELSE "advance"
  /\ UNCHANGED <<port, delta, fds, native>>

BindSecondFails ==
  /\ stage = "bind"
  /\ tried' = tried \cup {port}
  /\ i' = i + 1
  /\ IF i + 1 = MaxTries THEN Throw ELSE stage' = "advance" /\ UNCHANGED fds
  /\ UNCHANGED <<port, delta, native>>

create ==
  \/ FirstFails \/ \E chosen \in Privileged .. PortSpace - 1 : BindFirst(chosen)
  \/ SocketAgain \/ SocketAgainFails
  \/ Advance \/ BindSecond \/ BindSecondFails

SearchSpec == SearchInit /\ [][create]_searchVars

\* create() runs to its end.
FairSearchSpec == SearchSpec /\ WF_searchVars(create)

-----------------------------------------------------------------------------
Ended == stage \in {"returned", "thrown"}

\* An RTP socket has an even port that is not privileged (RtpSocket.java: the
\* port "is assigned automatically to conform with RFC 3550"), although the sums
\* wrap at the width of a port.
EvenPort == native # NoSocket => port % 2 = 0 /\ port >= Privileged

\* Whichever call fails, create() leaves open the socket of the RtpSocket it
\* returns and no other one.
NoSocketLeaks == Ended => fds = {native} \ {NoSocket}

\* What create() promises on each way out: an even port, and no other socket.
CreatePromise == EvenPort /\ NoSocketLeaks

\* No try is wasted: the search never asks for a port that was refused before,
\* for twice an odd number walks through all the even ports before it repeats.
NewPortEachTry == stage = "bind" => port \notin tried

\* The inner loop cannot run in privileged ports for ever: create() ends.
SearchEnds == <>Ended
=============================================================================
