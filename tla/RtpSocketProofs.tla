-------------------------- MODULE RtpSocketProofs --------------------------
(***************************************************************************)
(* The RtpSocket, from its creation to its users.                          *)
(*                                                                         *)
(* For any number of threads, streams and sockets, and any program: two    *)
(* streams hold a socket only if a stream of this socket was closed again, *)
(* no socket is lost, and datagrams are mixed up only after that or after  *)
(* the start of a direction that close() had stopped.  What makes these    *)
(* inductive is that a stream that is not closed again has one closer, and *)
(* that what the closer has passed stays stopped unless it is started.     *)
(*                                                                         *)
(* For every even number of ports, whichever of them are privileged and    *)
(* whichever calls fail, create() keeps its promise; if they are a power   *)
(* of two, as the 2^16 of the code, it tries no port twice: the search is  *)
(* a walk by twice an odd number, which half a turn brings nowhere twice,  *)
(* and the ports it came by are the refused ones and privileged ones, too  *)
(* few for half a turn.                                                    *)
(***************************************************************************)
EXTENDS SocketOwnership, PortSearch, FiniteSetTheorems, FunctionTheorems, TLAPS

\* What close() knows: where a thread is in it says which directions it has stopped, and
\* only a constructed stream is closed.
PassedKnown ==
  /\ \A t \in Threads :
       /\ at[t] # "idle" => closing[t] \in Streams /\ "sending" \in passed[closing[t]]
       /\ at[t] = "vacate" => passed[closing[t]] = Directions
  /\ \A st \in closed : passed[st] = Directions
  /\ \A st \in closedAgain : "sending" \in passed[st]
  /\ \A st \in Streams : passed[st] # {} => mRtpSocket[st] # None

\* A stream that is not closed again has one closer at most, and none any more when
\* close() has returned.
OneCloser ==
  \A t \in Threads : at[t] # "idle" /\ closing[t] \notin closedAgain =>
    /\ closing[t] \notin closed
    /\ \A u \in Threads : at[u] # "idle" /\ closing[u] = closing[t] => u = t

\* What close() has stopped stays stopped until the program starts it anew.
StaysStopped ==
  \A st \in Streams \ revived : \A direction \in passed[st] : direction \notin using[st]

\* A stream is built on an associated socket.
Constructed ==
  \A st \in Streams : mRtpSocket[st] # None => mRemoteAddress[mRtpSocket[st]] # None

IInv ==
  /\ TypeOK /\ PassedKnown /\ OneCloser /\ StaysStopped /\ Constructed
  /\ SoleUser /\ InUseIsHeld

LEMMA InitIInv == Init => IInv
  BY NoneAssumption
  DEF Init, IInv, TypeOK, PassedKnown, OneCloser, StaysStopped, Constructed, SoleUser,
      InUseIsHeld, Holders, ClosedOnce, Directions, Usable

\* The socket is associated: its remote address is none of the invariants' but one.
LEMMA AssociateIInv ==
  ASSUME IInv, NEW s \in Sockets, NEW remote \in Remotes, associate(s, remote)
  PROVE  IInv'
  BY NoneAssumption
  DEF associate, IInv, TypeOK, PassedKnown, OneCloser, StaysStopped, Constructed, SoleUser,
      InUseIsHeld, Holders, ClosedOnce, Usable, streamVars, closeVars

\* A new stream takes a socket that nobody holds.
LEMMA ConstructorIInv ==
  ASSUME IInv, NEW st \in Streams, NEW s \in Sockets, AudioStream(st, s)
  PROVE  IInv'
<1> USE NoneAssumption DEF AudioStream, IInv
<1>1. TypeOK'
  BY DEF TypeOK, Usable, closeVars
<1>2. PassedKnown' /\ OneCloser' /\ StaysStopped'
  BY DEF PassedKnown, OneCloser, StaysStopped, TypeOK, closeVars
<1>3. Constructed'
  BY DEF Constructed, TypeOK, closeVars
<1>4. st \notin closed /\ st \notin closedAgain
  BY DEF PassedKnown, TypeOK, Directions
<1>5. ASSUME NEW q \in Sockets
      PROVE  Holders(q)' = IF q = s THEN Holders(s) \cup {st} ELSE Holders(q)
  BY <1>4 DEF Holders, TypeOK, closeVars
<1>6. ASSUME NEW q \in Sockets
      PROVE  ClosedOnce(q)' = ClosedOnce(q)
  BY <1>4 DEF ClosedOnce, TypeOK, closeVars
<1>7. SoleUser' /\ InUseIsHeld'
  BY <1>5, <1>6 DEF SoleUser, InUseIsHeld, TypeOK
<1>8. QED
  BY <1>1, <1>2, <1>3, <1>7

\* The methods of one stream that hold its monitor change what it uses only; a start in a
\* direction that close() has stopped is noted.
LEMMA MethodIInv ==
  ASSUME IInv, NEW st \in Streams, NEW direction \in Directions,
         prepare(st) \/ start(st, direction) \/ Stop(st, direction)
           \/ Release(st) \/ Finalize(st)
  PROVE  IInv'
<1> USE NoneAssumption DEF IInv, prepare, start, Stop, stop, Release, Finalize, release,
                           socketVars, closeVars
<1>1. /\ UNCHANGED <<mRemoteAddress, mInUse, mRtpSocket, at, closing, passed, closed,
                     closedAgain>>
      /\ using' \in [Streams -> SUBSET Directions]
      /\ revived \subseteq revived' /\ revived' \subseteq Streams
      /\ \A q \in Streams \ revived' : \A d \in passed[q] : d \in using'[q] => d \in using[q]
  BY DEF TypeOK
<1>2. TypeOK'
  BY <1>1 DEF TypeOK, Usable
<1>3. PassedKnown' /\ OneCloser' /\ Constructed'
  BY <1>1 DEF PassedKnown, OneCloser, Constructed
<1>4. StaysStopped'
  BY <1>1 DEF StaysStopped
<1>5. SoleUser' /\ InUseIsHeld'
  BY <1>1 DEF SoleUser, InUseIsHeld, Holders, ClosedOnce
<1>6. QED
  BY <1>2, <1>3, <1>4, <1>5

\* The first call of close() starts anew, or makes the stream one that is closed again.
LEMMA CloseSendingIInv ==
  ASSUME IInv, NEW t \in Threads, NEW st \in Streams, CloseSending(t, st)
  PROVE  IInv'
<1> USE NoneAssumption DEF IInv, CloseSending, Passes, stop, socketVars
<1>1. TypeOK'
  BY DEF TypeOK, Usable, Directions
<1>2. PassedKnown'
  BY DEF PassedKnown, TypeOK, Usable, Directions
<1>3. OneCloser'
  BY DEF OneCloser, PassedKnown, TypeOK, Directions
<1>4. StaysStopped'
  BY DEF StaysStopped, TypeOK
<1>5. Constructed'
  BY DEF Constructed
<1>6. SoleUser' /\ InUseIsHeld'
  BY DEF SoleUser, InUseIsHeld, Holders, ClosedOnce
<1>7. QED
  BY <1>1, <1>2, <1>3, <1>4, <1>5, <1>6

LEMMA CloseReceivingIInv ==
  ASSUME IInv, NEW t \in Threads, CloseReceiving(t)
  PROVE  IInv'
<1> USE NoneAssumption DEF IInv, CloseReceiving, Passes, stop, socketVars
<1>1. closing[t] \in Streams
  BY DEF PassedKnown
<1>2. TypeOK'
  BY <1>1 DEF TypeOK, Usable, Directions
<1>3. PassedKnown'
  BY <1>1 DEF PassedKnown, TypeOK, Directions
<1>4. OneCloser' /\ Constructed'
  BY DEF OneCloser, Constructed, TypeOK
<1>5. StaysStopped'
  BY <1>1 DEF StaysStopped, TypeOK
<1>6. SoleUser' /\ InUseIsHeld'
  BY DEF SoleUser, InUseIsHeld, Holders, ClosedOnce
<1>7. QED
  BY <1>2, <1>3, <1>4, <1>5, <1>6

\* If no stream of the socket was closed again, the one that is closed held it alone.
LEMMA CloseVacatesIInv ==
  ASSUME IInv, NEW t \in Threads, CloseVacates(t)
  PROVE  IInv'
<1> USE NoneAssumption DEF IInv, CloseVacates, streamVars
<1> DEFINE st == closing[t]
           s == mRtpSocket[st]
<1>1. st \in Streams /\ s \in Sockets /\ passed[st] = Directions
  BY DEF TypeOK, PassedKnown, Usable
<1>2. TypeOK'
  BY <1>1 DEF TypeOK, Usable
<1>3. PassedKnown'
  BY <1>1 DEF PassedKnown, TypeOK
<1>4. OneCloser'
  BY DEF OneCloser, TypeOK
<1>5. StaysStopped' /\ Constructed'
  BY DEF StaysStopped, Constructed
<1>6. ASSUME NEW q \in Sockets
      PROVE  /\ Holders(q)' = Holders(q) \ {st} /\ (ClosedOnce(q)' = ClosedOnce(q))
             /\ q # s => st \notin Holders(q)
  BY <1>1 DEF Holders, ClosedOnce
<1>7. ClosedOnce(s) => st \in Holders(s)
  BY <1>1 DEF Holders, ClosedOnce, OneCloser
<1>8. SoleUser' /\ InUseIsHeld'
  <2>1. \A q \in Sockets : mInUse'[q] = IF q = s THEN FALSE ELSE mInUse[q]
    BY <1>1 DEF TypeOK
  <2>2. ClosedOnce(s) => Holders(s) = {st}
    BY <1>1, <1>7 DEF SoleUser
  <2>3. SoleUser'
    BY <1>6 DEF SoleUser
  <2>4. InUseIsHeld'
    <3> SUFFICES ASSUME NEW q \in Sockets
                 PROVE  /\ mInUse'[q] => Holders(q)' # {}
                        /\ ClosedOnce(q)' /\ Holders(q)' # {} => mInUse'[q]
      BY DEF InUseIsHeld
    <3>1. CASE q = s
      BY <3>1, <1>6, <2>1, <2>2
    <3>2. CASE q # s
      <4>1. Holders(q)' = Holders(q)
        BY <3>2, <1>6
      <4> QED
        BY <3>2, <4>1, <1>6, <2>1 DEF InUseIsHeld
    <3> QED
      BY <3>1, <3>2
  <2> QED
    BY <2>3, <2>4
<1>9. QED
  BY <1>2, <1>3, <1>4, <1>5, <1>8

LEMMA StepIInv ==
  ASSUME IInv, [Next]_vars
  PROVE  IInv'
<1>1. CASE \E s \in Sockets, remote \in Remotes : associate(s, remote)
  BY <1>1, AssociateIInv
<1>2. CASE \E st \in Streams, s \in Sockets : AudioStream(st, s)
  BY <1>2, ConstructorIInv
<1>3. CASE \E st \in Streams : prepare(st) \/ Release(st) \/ Finalize(st)
  BY <1>3, MethodIInv DEF Directions
<1>4. CASE \E st \in Streams, direction \in Directions :
             start(st, direction) \/ Stop(st, direction)
  BY <1>4, MethodIInv
<1>5. CASE \E t \in Threads, st \in Streams : CloseSending(t, st)
  BY <1>5, CloseSendingIInv
<1>6. CASE \E t \in Threads : CloseReceiving(t) \/ CloseVacates(t)
  BY <1>6, CloseReceivingIInv, CloseVacatesIInv
<1>7. CASE UNCHANGED vars
  BY <1>7
  DEF vars, socketVars, streamVars, closeVars, IInv, TypeOK, Usable, PassedKnown,
      OneCloser, StaysStopped, Constructed, SoleUser, InUseIsHeld, Holders, ClosedOnce
<1>8. QED
  BY <1>1, <1>2, <1>3, <1>4, <1>5, <1>6, <1>7 DEF Next

LEMMA Invariance == Spec => []IInv
<1>1. IInv /\ [Next]_vars => IInv'
  BY StepIInv
<1>2. QED
  BY InitIInv, <1>1, PTL DEF Spec

\* Whatever the program calls in whatever order (rtp/AudioStream.java): two streams hold
\* one socket only if close() was called again for a stream of this socket, for vacate()
\* frees the socket whoever owns it by then.
THEOREM SocketHasSoleUser == Spec => []SoleUser
<1>1. IInv => SoleUser
  BY DEF IInv
<1>2. QED
  BY Invariance, <1>1, PTL

\* A socket marked in use is never without a stream that will give it back, and a second
\* close() is all that can take the mark from a stream that holds it.
THEOREM NoSocketIsLost == Spec => []InUseIsHeld
<1>1. IInv => InUseIsHeld
  BY DEF IInv
<1>2. QED
  BY Invariance, <1>1, PTL

\* Streams take each other's datagrams only after a second close() of a stream of that
\* socket, or a start in a direction that close() had stopped.
THEOREM DatagramsStayApart == Spec => []DatagramsApart
<1>1. IInv => DatagramsApart
  <2> SUFFICES ASSUME IInv, NEW st1 \in Streams \ revived, NEW st2 \in Streams \ revived,
                      using[st1] # {}, using[st2] # {}, mRtpSocket[st1] = mRtpSocket[st2],
                      ClosedOnce(mRtpSocket[st1])
               PROVE  st1 = st2
    BY DEF DatagramsApart
  <2>1. ASSUME NEW st \in {st1, st2}
        PROVE  mRtpSocket[st] \in Sockets /\ st \in Holders(mRtpSocket[st])
    <3>1. st \in prepared /\ mRtpSocket[st] \in Sockets
      BY DEF IInv, TypeOK
    <3>2. st \notin closed
      BY DEF IInv, TypeOK, PassedKnown, StaysStopped, Directions
    <3> QED
      BY <3>1, <3>2 DEF Holders
  <2> QED
    BY <2>1 DEF IInv, SoleUser
<1>2. QED
  BY Invariance, <1>1, PTL

\* Every stream that sends or receives has a remote host.
THEOREM UsedSocketsAreAssociated == Spec => []UsedIsAssociated
<1>1. IInv => UsedIsAssociated
  BY DEF IInv, TypeOK, Constructed, UsedIsAssociated
<1>2. QED
  BY Invariance, <1>1, PTL

-----------------------------------------------------------------------------
\* The search for a port.

Even(n) == n % 2 = 0

\* A factor that is odd does not help to reach a multiple of m.
OddsCancel(m) ==
  \A p, k \in Int : ~Even(p) /\ (\E q \in Int : p * k = m * q) => \E r \in Int : k = m * r

\* The powers of two, as the least set of numbers with 1 and the double of each member.
PowersOfTwo ==
  {n \in Nat : \A S \in SUBSET Nat : 1 \in S /\ (\A s \in S : 2 * s \in S) => n \in S}

LEMMA OddTimes ==
  ASSUME NEW p \in Int, NEW k \in Int, NEW j \in Int, ~Even(p), p * k = 2 * j
  PROVE  \E h \in Int : k = 2 * h
<1>1. PICK u \in Int : p = 2 * u + 1
  <2>1. p \div 2 \in Int /\ p = 2 * (p \div 2) + 1
    BY DEF Even
  <2> QED
    BY <2>1
<1>2. p * k = 2 * (u * k) + k
  BY <1>1
<1>3. PICK v \in Int : v = u * k
  OBVIOUS
<1>4. k = 2 * (j - v) /\ j - v \in Int
  BY <1>2, <1>3
<1> QED
  BY <1>4

LEMMA OddsCancelOne == OddsCancel(1)
BY DEF OddsCancel

LEMMA OddsCancelTwice ==
  ASSUME NEW m \in Nat, OddsCancel(m)
  PROVE  OddsCancel(2 * m)
<1> SUFFICES ASSUME NEW p \in Int, NEW k \in Int, ~Even(p), NEW q \in Int, p * k = (2 * m) * q
             PROVE  \E r \in Int : k = (2 * m) * r
  BY DEF OddsCancel
<1>1. m * q \in Int /\ p * k = 2 * (m * q)
  OBVIOUS
<1>2. PICK h \in Int : k = 2 * h
  BY <1>1, OddTimes
<1>3. p * h = m * q
  <2>1. PICK a \in Int, b \in Int : a = p * h /\ b = m * q
    OBVIOUS
  <2>2. p * k = 2 * a
    BY <1>2, <2>1
  <2>3. 2 * a = 2 * b
    BY <1>1, <2>1, <2>2
  <2> QED
    BY <2>1, <2>3
<1>4. PICK r \in Int : h = m * r
  BY <1>3 DEF OddsCancel
<1>5. k = (2 * m) * r
  BY <1>2, <1>4
<1> QED
  BY <1>5

\* For a power of two, as the 2^16 ports of the code.
LEMMA OddsCancelInPowers ==
  ASSUME NEW m \in PowersOfTwo
  PROVE  OddsCancel(m)
<1> DEFINE S == {n \in Nat : OddsCancel(n)}
<1>1. S \in SUBSET Nat /\ 1 \in S
  BY OddsCancelOne
<1>2. ASSUME NEW s \in S
      PROVE  2 * s \in S
  BY OddsCancelTwice
<1> HIDE DEF S
<1>3. m \in S
  BY <1>1, <1>2 DEF PowersOfTwo
<1> QED
  BY <1>3 DEF S

LEMMA Doubled ==
  ASSUME NEW n \in PowersOfTwo
  PROVE  2 * n \in PowersOfTwo
BY DEF PowersOfTwo

\* The 16 bits of a port.
LEMMA PortsOfTheCode == 65536 \in PowersOfTwo
<1> DEFINE P == PowersOfTwo
<1>1. 1 \in P
  BY DEF PowersOfTwo
<1>2. ASSUME NEW n \in P
      PROVE  2 * n \in P
  BY Doubled
<1> HIDE DEF P
<1>3. 2 \in P
  BY <1>2, <1>1
<1>4. 4 \in P
  BY <1>2, <1>3
<1>5. 8 \in P
  BY <1>2, <1>4
<1>6. 16 \in P
  BY <1>2, <1>5
<1>7. 32 \in P
  BY <1>2, <1>6
<1>8. 64 \in P
  BY <1>2, <1>7
<1>9. 128 \in P
  BY <1>2, <1>8
<1>10. 256 \in P
  BY <1>2, <1>9
<1>11. 512 \in P
  BY <1>2, <1>10
<1>12. 1024 \in P
  BY <1>2, <1>11
<1>13. 2048 \in P
  BY <1>2, <1>12
<1>14. 4096 \in P
  BY <1>2, <1>13
<1>15. 8192 \in P
  BY <1>2, <1>14
<1>16. 16384 \in P
  BY <1>2, <1>15
<1>17. 32768 \in P
  BY <1>2, <1>16
<1>18. 65536 \in P
  BY <1>2, <1>17
<1> QED
  BY <1>18 DEF P

\* Where create() is, it holds the sockets it should, and is on its way to an even port:
\* the port is even from the first step on, and so are the steps.
SearchInv ==
  /\ port \in Nat /\ delta \in Nat
  /\ stage \in {"socket", "again", "advance", "bind", "returned", "thrown"}
  /\ stage = "again" => ~Even(port)
  /\ stage \in {"advance", "bind"} => Even(port) /\ Even(delta)
  /\ stage = "bind" => port >= Privileged
  /\ stage \in {"socket", "again", "thrown"} => fds = {}
  /\ stage \in {"advance", "bind"} => fds = {"second"}
  /\ stage # "returned" => native = NoSocket
  /\ stage = "returned" => /\ native \in {"first", "second"} /\ fds = {native}
                        /\ Even(port) /\ port >= Privileged

-----------------------------------------------------------------------------
LEMMA Division ==
  ASSUME NEW n \in Nat, NEW m \in Nat \ {0}
  PROVE  /\ n % m \in 0 .. m - 1 /\ n % m \in Nat
         /\ \E q \in Int : n = m * q + (n % m)
<1>1. n = m * (n \div m) + (n % m) /\ n \div m \in Int
  OBVIOUS
<1>2. n % m \in 0 .. m - 1 /\ n % m \in Nat
  OBVIOUS
<1> QED
  BY <1>1, <1>2

\* A sum keeps its parity when it wraps at the width of a port, which is even.
LEMMA WrapKeepsParity ==
  ASSUME NEW n \in Nat
  PROVE  n % PortSpace \in Nat /\ (Even(n % PortSpace) <=> Even(n))
<1>1. PICK half \in Int : PortSpace = 2 * half
  <2>1. PortSpace \div 2 \in Int /\ PortSpace = 2 * (PortSpace \div 2)
    BY PortAssumption
  <2> QED
    BY <2>1
<1>2. PICK turns \in Int : n = PortSpace * turns + (n % PortSpace)
  BY Division, PortAssumption
<1>3. PICK k \in Int : PortSpace * turns = 2 * k
  BY <1>1
<1>4. n % PortSpace \in Nat
  BY Division, PortAssumption
<1>5. ASSUME NEW r \in Nat, n = 2 * k + r
      PROVE  Even(r) <=> Even(n)
  BY <1>5 DEF Even
<1>6. n = 2 * k + (n % PortSpace)
  BY <1>2, <1>3
<1> QED
  BY <1>4, <1>5, <1>6

LEMMA SearchInvInvariant == SearchSpec => []SearchInv
<1>1. SearchInit => SearchInv
  BY DEF SearchInit, SearchInv
<1>2. SearchInv /\ [create]_searchVars => SearchInv'
  <2> SUFFICES ASSUME SearchInv, [create]_searchVars
               PROVE  SearchInv'
    OBVIOUS
  <2>1. CASE FirstFails
    BY <2>1 DEF FirstFails, Throw, SearchInv
  <2>2. ASSUME NEW chosen \in Privileged .. PortSpace - 1, BindFirst(chosen)
        PROVE  SearchInv'
    BY <2>2, PortAssumption DEF BindFirst, SearchInv, Even
  <2>3. CASE SocketAgain
    <3>1. /\ port \in Nat /\ ~Even(port)
          /\ delta' = (2 * port) % PortSpace /\ port' = (port + 1) % PortSpace
      BY <2>3 DEF SocketAgain, SearchInv
    <3>2. Even(2 * port) /\ Even(port + 1)
      BY <3>1 DEF Even
    <3>3. delta' \in Nat /\ Even(delta') /\ port' \in Nat /\ Even(port')
      BY <3>1, <3>2, WrapKeepsParity
    <3> QED
      BY <2>3, <3>3 DEF SocketAgain, SearchInv, Even
  <2>4. CASE SocketAgainFails
    BY <2>4 DEF SocketAgainFails, Throw, SearchInv
  <2>5. CASE Advance
    <3>1. /\ port \in Nat /\ delta \in Nat /\ Even(port + delta)
          /\ port' = (port + delta) % PortSpace
      BY <2>5 DEF Advance, SearchInv, Even
    <3>2. port' \in Nat /\ Even(port')
      BY <3>1, WrapKeepsParity
    <3>3. /\ stage = "advance" /\ UNCHANGED <<delta, fds, native>>
          /\ stage' \in {"advance", "bind"} /\ (stage' = "bind" => port' >= Privileged)
      BY <2>5, <3>2, PortAssumption DEF Advance
    <3> QED
      BY <3>2, <3>3 DEF SearchInv, Even
  <2>6. CASE BindSecond
    BY <2>6 DEF BindSecond, SearchInv, Even
  <2>7. CASE BindSecondFails
    BY <2>7 DEF BindSecondFails, Throw, SearchInv, Even
  <2>8. CASE UNCHANGED searchVars
    BY <2>8 DEF searchVars, SearchInv, Even
  <2> QED
    BY <2>1, <2>2, <2>3, <2>4, <2>5, <2>6, <2>7, <2>8 DEF create
<1> QED
  BY <1>1, <1>2, PTL DEF SearchSpec

\* create() of cpp/RtpSocket.cpp returns a socket on an even port that is not privileged,
\* although the sums wrap, and whichever call fails leaves no other socket open.
THEOREM CreateKeepsPromise == SearchSpec => []CreatePromise
<1>1. SearchInv => CreatePromise
  BY DEF SearchInv, Even, CreatePromise, EvenPort, NoSocketLeaks, Ended, NoSocket
<1> QED
  BY <1>1, SearchInvInvariant, PTL

-----------------------------------------------------------------------------
\* Where the search is after n steps, if the first port was the odd number c.
Walk(c, n) == (c + 1 + (2 * c) * n) % PortSpace

\* The ports that are skipped because they are privileged.
Skipped == {p \in 0 .. Privileged - 1 : Even(p)}

\* The ports the search came by were refused, or are skipped, or the one it is to try.
Walked(c, n) ==
  /\ delta = (2 * c) % PortSpace /\ port = Walk(c, n)
  /\ 2 * n <= PortSpace
  /\ \A k \in 1 .. n : Walk(c, k) \in tried \cup Skipped \/ (stage = "bind" /\ k = n)
  /\ \A p \in tried : \E k \in 1 .. n : p = Walk(c, k) /\ (stage = "bind" => k # n)
  /\ stage = "bind" => n >= 1

WalkInv ==
  /\ i \in Nat /\ IsFiniteSet(tried) /\ Cardinality(tried) <= i
  /\ stage \in {"again", "advance", "bind"} => i < MaxTries
  /\ stage \in {"socket", "again"} => tried = {} /\ i = 0
  /\ stage \in {"advance", "bind"} => \E c \in Nat, n \in Nat : ~Even(c) /\ Walked(c, n)

LEMMA SmallMultiple ==
  ASSUME NEW m \in Nat \ {0}, NEW x \in Int, -m < m * x, m * x < m
  PROVE  x = 0
<1>1. CASE x >= 1
  <2>1. m * x >= m * 1
    BY <1>1, Z3
  <2> QED
    BY <2>1, <1>1
<1>2. CASE x <= -1
  <2>1. m * x <= m * (-1)
    BY <1>2, Z3
  <2> QED
    BY <2>1, <1>2
<1> QED
  BY <1>1, <1>2

LEMMA RemainderIsUnique ==
  ASSUME NEW m \in Nat \ {0}, NEW r \in 0 .. m - 1, NEW s \in 0 .. m - 1,
         NEW p \in Int, NEW q \in Int, m * p + r = m * q + s
  PROVE  r = s
<1>1. p - q \in Int /\ m * (p - q) = s - r
  OBVIOUS
<1>2. p - q = 0
  BY <1>1, SmallMultiple
<1> QED
  BY <1>1, <1>2

\* A sum of remainders wraps as the sum does.
LEMMA SumOfRemainders ==
  ASSUME NEW m \in Nat \ {0}, NEW a \in Nat, NEW b \in Nat
  PROVE  ((a % m) + (b % m)) % m = (a + b) % m
<1>1. PICK r \in 0 .. m - 1 : r = a % m
  BY Division
<1>2. PICK s \in 0 .. m - 1 : s = b % m
  BY Division
<1>3. PICK c \in Nat, d \in Nat : c = a + b /\ d = r + s
  OBVIOUS
<1>4. PICK t \in 0 .. m - 1 : t = d % m
  BY Division
<1>5. PICK v \in 0 .. m - 1 : v = c % m
  BY Division
<1>6. PICK p \in Int : a = m * p + r
  BY <1>1, Division
<1>7. PICK q \in Int : b = m * q + s
  BY <1>2, Division
<1>8. PICK u \in Int : d = m * u + t
  BY <1>4, Division
<1>9. PICK w \in Int : c = m * w + v
  BY <1>5, Division
<1>10. p + q + u \in Int /\ m * (p + q + u) + t = m * w + v
  <2>1. PICK x \in Int, y \in Int, z \in Int : x = m * p /\ y = m * q /\ z = m * u
    OBVIOUS
  <2>2. m * (p + q + u) = x + y + z
    BY <2>1
  <2>3. a = x + r /\ b = y + s /\ d = z + t
    BY <1>6, <1>7, <1>8, <2>1
  <2>4. x + y + z + t = c
    BY <1>3, <2>3
  <2> QED
    BY <1>9, <2>2, <2>4
<1>11. t = v
  BY <1>10, RemainderIsUnique
<1> QED
  BY <1>1, <1>2, <1>4, <1>5, <1>11, <1>3, Zenon

LEMMA WalkStarts ==
  ASSUME NEW c \in Nat
  PROVE  Walk(c, 0) = (c + 1) % PortSpace
BY DEF Walk

LEMMA WalkGoesOn ==
  ASSUME NEW c \in Nat, NEW n \in Nat
  PROVE  Walk(c, n + 1) = (Walk(c, n) + ((2 * c) % PortSpace)) % PortSpace
<1> DEFINE a == c + 1 + (2 * c) * n
           b == 2 * c
<1>1. a \in Nat /\ b \in Nat /\ c + 1 + (2 * c) * (n + 1) = a + b
  OBVIOUS
<1> HIDE DEF a, b
<1>2. ((a % PortSpace) + (b % PortSpace)) % PortSpace = (a + b) % PortSpace
  BY <1>1, PortAssumption, SumOfRemainders
<1> QED
  BY <1>1, <1>2 DEF Walk, a, b

\* Half a turn of the ports brings the search nowhere twice.
LEMMA WalkIsNew ==
  ASSUME PortSpace \in PowersOfTwo, NEW c \in Nat, ~Even(c),
         NEW n \in Nat, 2 * n <= PortSpace,
         NEW j \in 1 .. n, NEW k \in 1 .. n, Walk(c, j) = Walk(c, k)
  PROVE  j = k
<1> DEFINE a == c + 1 + (2 * c) * j
           b == c + 1 + (2 * c) * k
           m == PortSpace
<1>1. a \in Nat /\ b \in Nat /\ m \in Nat \ {0} /\ a - b = c * (2 * (j - k))
  BY PortAssumption
<1>2. a % m = b % m
  BY DEF Walk
<1> HIDE DEF a, b, m
<1>3. PICK p \in Int : a = m * p + (a % m)
  BY <1>1, Division
<1>4. PICK q \in Int : b = m * q + (a % m)
  <2>1. \E q \in Int : b = m * q + (b % m)
    BY <1>1, Division
  <2> QED
    BY <1>2, <2>1, Zenon
<1>5. p - q \in Int /\ a - b = m * (p - q)
  <2>1. PICK r \in Nat : r = a % m
    BY <1>1, Division
  <2>2. a = m * p + r /\ b = m * q + r
    BY <1>3, <1>4, <2>1
  <2> QED
    BY <1>1, <2>2
<1> DEFINE d == 2 * (j - k)
<1>6. d \in Int /\ c * d = m * (p - q)
  BY <1>1, <1>5
<1>7. PICK r \in Int : d = m * r
  BY <1>5, <1>6, OddsCancelInPowers DEF OddsCancel, m
<1>8. -m < d /\ d < m
  BY <1>1 DEF m
<1>9. r = 0
  BY <1>1, <1>7, <1>8, SmallMultiple
<1>10. d = 0
  BY <1>1, <1>7, <1>9
<1> QED
  BY <1>10

LEMMA FewSkipped == IsFiniteSet(Skipped) /\ 2 * Cardinality(Skipped) <= Privileged
<1> DEFINE h == Privileged \div 2
           H == 0 .. h - 1
           f == [k \in H |-> 2 * k]
<1>1. h \in Nat /\ Privileged = 2 * h
  BY PortAssumption
<1> HIDE DEF h
<1>2. IsFiniteSet(H) /\ Cardinality(H) = h
  BY <1>1, FS_Interval
<1>3. f \in Surjection(H, Skipped)
  <2>1. ASSUME NEW k \in H
        PROVE  f[k] \in Skipped
    BY <1>1 DEF Skipped, Even
  <2>2. ASSUME NEW p \in Skipped
        PROVE  \E k \in H : f[k] = p
    <3>1. p \div 2 \in H /\ p = 2 * (p \div 2)
      BY <1>1 DEF Skipped, Even
    <3> QED
      BY <3>1
  <2> QED
    BY <2>1, <2>2, Fun_IsSurj
<1> HIDE DEF H, f
<1>4. IsFiniteSet(Skipped) /\ Cardinality(Skipped) <= Cardinality(H)
  BY <1>2, <1>3, FS_Surjection
<1>5. Cardinality(Skipped) \in Nat
  BY <1>4, FS_CardinalityType
<1> QED
  BY <1>1, <1>2, <1>4, <1>5

\* As long as there are tries left, there are ports left.
LEMMA WalkIsShort ==
  ASSUME PortSpace \in PowersOfTwo, WalkInv, stage = "advance",
         NEW c \in Nat, NEW n \in Nat, ~Even(c), Walked(c, n)
  PROVE  2 * (n + 1) <= PortSpace
<1> DEFINE N == 1 .. n
           V == tried \cup Skipped
           f == [k \in N |-> Walk(c, k)]
<1>1. f \in Injection(N, V)
  <2>1. \A k \in N : f[k] \in V
    BY DEF Walked
  <2>2. \A j, k \in N : f[j] = f[k] => j = k
    BY WalkIsNew DEF Walked
  <2> QED
    BY <2>1, <2>2, Fun_IsInj
<1>2. IsFiniteSet(N) /\ Cardinality(N) = n
  BY FS_Interval
<1>3. /\ IsFiniteSet(V) /\ Cardinality(V) <= Cardinality(tried) + Cardinality(Skipped)
      /\ Cardinality(V) \in Nat /\ Cardinality(tried) \in Nat /\ Cardinality(Skipped) \in Nat
  <2>1. IsFiniteSet(tried) /\ IsFiniteSet(Skipped)
    BY FewSkipped DEF WalkInv
  <2>2. IsFiniteSet(tried \cap Skipped)
    BY <2>1, FS_Intersection
  <2>3. /\ IsFiniteSet(V)
        /\ Cardinality(V) = Cardinality(tried) + Cardinality(Skipped)
                              - Cardinality(tried \cap Skipped)
    BY <2>1, FS_Union
  <2>4. /\ Cardinality(tried) \in Nat /\ Cardinality(Skipped) \in Nat
        /\ Cardinality(tried \cap Skipped) \in Nat /\ Cardinality(V) \in Nat
    BY <2>1, <2>2, <2>3, FS_CardinalityType
  <2> HIDE DEF V
  <2> QED
    BY <2>3, <2>4
<1> HIDE DEF N, V, f
<1>4. Cardinality(N) <= Cardinality(V)
  BY <1>1, <1>3, FS_Injection
<1>5. n <= Cardinality(tried) + Cardinality(Skipped)
  BY <1>2, <1>3, <1>4
<1>6. i \in Nat /\ Cardinality(tried) <= i /\ i < MaxTries
  BY DEF WalkInv
<1> QED
  BY <1>3, <1>5, <1>6, FewSkipped, PortAssumption

LEMMA SocketAgainWalks ==
  ASSUME SearchInv, WalkInv, SocketAgain
  PROVE  WalkInv'
<1>1. PICK c \in Nat : c = port
  BY DEF SearchInv
<1>2. /\ ~Even(c) /\ stage = "again" /\ stage' = "advance"
      /\ i' = i /\ tried' = tried /\ tried = {}
      /\ delta' = (2 * c) % PortSpace /\ port' = Walk(c, 0)
  BY <1>1, WalkStarts DEF SocketAgain, SearchInv, WalkInv
<1>3. 0 \in Nat /\ Walked(c, 0)'
  BY <1>2, PortAssumption DEF Walked, Walk
<1> QED
  BY <1>2, <1>3 DEF WalkInv, Even

LEMMA AdvanceWalks ==
  ASSUME PortSpace \in PowersOfTwo, SearchInv, SearchInv', WalkInv, Advance
  PROVE  WalkInv'
<1>1. PICK c \in Nat, n \in Nat : ~Even(c) /\ Walked(c, n)
  BY DEF WalkInv, Advance
<1>2. 2 * (n + 1) <= PortSpace
  BY <1>1, WalkIsShort DEF Advance
<1>3. port' = Walk(c, n + 1) /\ delta' = (2 * c) % PortSpace
  BY <1>1, WalkGoesOn DEF Walked, Advance
<1>4. /\ stage = "advance" /\ tried' = tried /\ i' = i
      /\ stage' = IF port' < Privileged THEN "advance" ELSE "bind"
  BY DEF Advance
<1>5. port' \in Nat /\ Even(port)'
  BY <1>4 DEF SearchInv
<1>6. ASSUME NEW k \in 1 .. n + 1
      PROVE  Walk(c, k) \in tried \cup Skipped \/ (stage' = "bind" /\ k = n + 1)
  <2>1. CASE k \in 1 .. n
    BY <1>1, <1>4, <2>1 DEF Walked
  <2>2. CASE k = n + 1
    BY <1>3, <1>4, <1>5, <2>2, PortAssumption DEF Skipped, Even
  <2> QED
    BY <2>1, <2>2
<1>7. ASSUME NEW p \in tried
      PROVE  \E k \in 1 .. n + 1 : p = Walk(c, k) /\ k # n + 1
  BY <1>1 DEF Walked
<1>8. n + 1 \in Nat /\ Walked(c, n + 1)'
  BY <1>2, <1>3, <1>4, <1>6, <1>7 DEF Walked, Walk, Skipped, Even
<1> QED
  BY <1>1, <1>4, <1>8 DEF WalkInv, Even

LEMMA RefusalWalks ==
  ASSUME SearchInv, WalkInv, BindSecondFails
  PROVE  WalkInv'
<1>1. PICK c \in Nat, n \in Nat : ~Even(c) /\ Walked(c, n)
  BY DEF WalkInv, BindSecondFails
<1>2. /\ stage = "bind" /\ tried' = tried \cup {port} /\ i' = i + 1
      /\ stage' = IF i + 1 = MaxTries THEN "thrown" ELSE "advance"
      /\ UNCHANGED <<port, delta>>
  BY DEF BindSecondFails, Throw
<1>3. /\ i \in Nat /\ i < MaxTries /\ IsFiniteSet(tried) /\ Cardinality(tried) <= i
  BY <1>2 DEF WalkInv
<1>4. /\ i' \in Nat /\ IsFiniteSet(tried') /\ Cardinality(tried') <= i'
      /\ stage' = "advance" => i' < MaxTries
  <2>1. Cardinality(tried) \in Nat
    BY <1>3, FS_CardinalityType
  <2>2. IsFiniteSet(tried') /\ Cardinality(tried') <= Cardinality(tried) + 1
    BY <1>2, <1>3, <2>1, FS_AddElement
  <2>3. Cardinality(tried') \in Nat
    BY <2>2, FS_CardinalityType
  <2> QED
    BY <1>2, <1>3, <2>1, <2>2, <2>3, PortAssumption
<1>5. n \in 1 .. n /\ port = Walk(c, n)
  BY <1>1, <1>2 DEF Walked
<1>6. Walked(c, n)'
  BY <1>1, <1>2, <1>5 DEF Walked, Walk, Skipped, Even
<1> QED
  BY <1>1, <1>2, <1>4, <1>6 DEF WalkInv, Even

LEMMA WalkInvInvariant ==
  ASSUME PortSpace \in PowersOfTwo
  PROVE  SearchSpec => []WalkInv
<1>1. SearchInit => WalkInv
  BY FS_EmptySet, PortAssumption DEF SearchInit, WalkInv
<1>2. SearchInv /\ SearchInv' /\ WalkInv /\ [create]_searchVars => WalkInv'
  <2> SUFFICES ASSUME SearchInv, SearchInv', WalkInv, [create]_searchVars
               PROVE  WalkInv'
    OBVIOUS
  <2>1. CASE FirstFails \/ SocketAgainFails
    BY <2>1 DEF FirstFails, SocketAgainFails, Throw, WalkInv
  <2>2. ASSUME NEW chosen \in Privileged .. PortSpace - 1, BindFirst(chosen)
        PROVE  WalkInv'
    BY <2>2, FS_EmptySet, PortAssumption DEF BindFirst, WalkInv
  <2>3. CASE SocketAgain
    BY <2>3, SocketAgainWalks
  <2>4. CASE Advance
    BY <2>4, AdvanceWalks
  <2>5. CASE BindSecond
    BY <2>5 DEF BindSecond, WalkInv
  <2>6. CASE BindSecondFails
    BY <2>6, RefusalWalks
  <2>7. CASE UNCHANGED searchVars
    BY <2>7 DEF searchVars, WalkInv, Walked, Walk, Skipped, Even
  <2> QED
    BY <2>1, <2>2, <2>3, <2>4, <2>5, <2>6, <2>7 DEF create
<1> QED
  BY <1>1, <1>2, SearchInvInvariant, PTL DEF SearchSpec

\* create() asks for no port twice, however many it was refused and whichever are
\* privileged: the inner loop and the 1000 tries stay on new ports.
THEOREM PortsAreNew ==
  ASSUME PortSpace \in PowersOfTwo
  PROVE  SearchSpec => []NewPortEachTry
<1>1. WalkInv => NewPortEachTry
  <2> SUFFICES ASSUME WalkInv, stage = "bind", port \in tried
               PROVE  FALSE
    BY DEF NewPortEachTry
  <2>1. PICK c \in Nat, n \in Nat : ~Even(c) /\ Walked(c, n)
    BY DEF WalkInv
  <2>2. PICK k \in 1 .. n : port = Walk(c, k) /\ k # n
    BY <2>1 DEF Walked
  <2>3. port = Walk(c, n) /\ n \in 1 .. n /\ 2 * n <= PortSpace
    BY <2>1 DEF Walked
  <2> QED
    BY <2>1, <2>2, <2>3, WalkIsNew
<1> QED
  BY <1>1, WalkInvInvariant, PTL
=============================================================================
