----------------------- MODULE StreamLifecycleProofs -----------------------
(***************************************************************************)
(* The life of a stream whose AudioTrack starts when it is told to: the    *)
(* Sender and the Receiver never outlive it, and neither of them works     *)
(* without its device or under a call that resets its state.  Run          *)
(* track_start_fails shows that the hypothesis is needed.                  *)
(***************************************************************************)
EXTENDS StreamLifecycle, TLAPS

LifecycleTypes ==
  /\ prepared \in BOOLEAN /\ closing \in BOOLEAN
  /\ active \in [Direction -> BOOLEAN] /\ running \in [Direction -> BOOLEAN]
  /\ exitPending \in [Direction -> BOOLEAN]
  /\ worker \in [Direction -> Worker]
  /\ at \in Call /\ dir \in Direction

\* mRunning says whether there is a thread.
RunningIsExact == \A d \in Direction : running[d] <=> worker[d] # "none"

\* Nothing but the stop that waits for it asks a thread to exit.
OnlyStopsAsk ==
  \A d \in Direction :
    exitPending[d] /\ worker[d] \in Inside => at = "wait" /\ dir = d

Quiet(d) == ~active[d] /\ worker[d] \notin Inside

\* What a call that is under way can count on.
CallKnows ==
  /\ at # "idle" => prepared
  /\ closing => at \in {"stop", "wait", "halt", "free"}
  /\ at = "device" => Quiet(dir)
  /\ at = "run" => active[dir]
  /\ at \in {"run", "undo", "halt"} => worker[dir] \notin Inside
  /\ closing /\ dir = "receiving" => Quiet("sending")
  /\ at = "free" => closing /\ dir = "receiving" /\ Quiet("receiving")
  /\ ~prepared => \A d \in Direction : Quiet(d)

LifecycleInv ==
  /\ LifecycleTypes /\ RunningIsExact /\ OnlyStopsAsk /\ CallKnows
  /\ ReleaseStops /\ ActiveIsServed

-----------------------------------------------------------------------------
\* The calls of the application, step by step.
LEMMA AppKeeps ==
  ASSUME "receiving" \notin FailingStart, LifecycleInv, App
  PROVE  LifecycleInv'
<1> USE DEF LifecycleInv, LifecycleTypes, RunningIsExact, OnlyStopsAsk, CallKnows,
            Quiet, ReleaseStops, ActiveIsServed, Inside, Worker, Call
<1>1. CASE Prepare
  BY <1>1 DEF Prepare, appVars
<1>2. ASSUME NEW d \in Direction, Start(d)
      PROVE  LifecycleInv'
  BY <1>2 DEF Start
<1>3. CASE StartDevice
  BY <1>3 DEF StartDevice, Direction
<1>4. CASE RunThread
  <2>1. CASE running[dir]
    BY <1>4, <2>1 DEF RunThread
  <2>2. CASE ~running[dir] /\ UNCHANGED <<running, worker>>
    BY <1>4, <2>2 DEF RunThread
  <2>3. CASE ~running[dir] /\ at' = "idle"
    <3>1. /\ at = "run" /\ at' = "idle" /\ UNCHANGED <<prepared, active, dir, closing>>
          /\ exitPending' = [exitPending EXCEPT ![dir] = FALSE]
          /\ running' = [running EXCEPT ![dir] = TRUE]
          /\ worker' = [worker EXCEPT ![dir] = "turn"]
      BY <1>4, <2>3 DEF RunThread
    <3>2. LifecycleTypes'
      BY <3>1
    <3>3. RunningIsExact' /\ OnlyStopsAsk' /\ ActiveIsServed'
      BY <3>1
    <3>4. CallKnows' /\ ReleaseStops'
      BY <3>1
    <3> QED
      BY <3>2, <3>3, <3>4
  <2> QED
    BY <1>4, <2>1, <2>2, <2>3 DEF RunThread
<1>5. CASE UndoStart
  BY <1>5 DEF UndoStart
<1>6. ASSUME NEW d \in Direction, Stop(d)
      PROVE  LifecycleInv'
  BY <1>6 DEF Stop
<1>7. CASE Release
  BY <1>7 DEF Release, Direction
<1>8. CASE CheckStop
  BY <1>8 DEF CheckStop, StopDone, Direction
<1>9. CASE AwaitThread
  BY <1>9 DEF AwaitThread
<1>10. CASE StopDevice
  BY <1>10 DEF StopDevice, StopDone, Direction
<1>11. CASE Free
  BY <1>11 DEF Free, Direction
<1> HIDE DEF LifecycleInv
<1> QED
  BY <1>1, <1>2, <1>3, <1>4, <1>5, <1>6, <1>7, <1>8, <1>9, <1>10, <1>11
  DEF App, Continue

\* The Sender and the Receiver, wherever the application is.
LEMMA ThreadKeeps ==
  ASSUME LifecycleInv, NEW d \in Direction, Thread(d)
  PROVE  LifecycleInv'
<1> USE DEF LifecycleInv, LifecycleTypes, RunningIsExact, OnlyStopsAsk, CallKnows,
            Quiet, ReleaseStops, ActiveIsServed, Inside, Worker, Call
<1>1. CASE Turn(d) /\ exitPending[d]
  \* Who asked it to exit waits for it, and goes on to stop its device.
  <2>1. at = "wait" /\ dir = d
    BY <1>1 DEF Turn
  <2>2. /\ worker' = [worker EXCEPT ![d] = "none"]
        /\ running' = [running EXCEPT ![d] = FALSE]
        /\ UNCHANGED <<prepared, active, exitPending, at, dir, closing>>
    BY <1>1 DEF Turn, appVars
  <2> QED
    BY <2>1, <2>2
<1>2. CASE Turn(d) /\ ~exitPending[d]
  <2>1. /\ worker[d] = "turn" /\ worker' = [worker EXCEPT ![d] = "body"]
        /\ UNCHANGED <<prepared, active, running, exitPending, at, dir, closing>>
    BY <1>2 DEF Turn, appVars
  <2> QED
    BY <2>1
<1>3. CASE Work(d)
  BY <1>3 DEF Work, appVars
<1>4. CASE StopOwnDevice(d)
  BY <1>4 DEF StopOwnDevice, appVars
<1>5. CASE Exit(d)
  BY <1>5 DEF Exit, appVars
<1> HIDE DEF LifecycleInv
<1> QED
  BY <1>1, <1>2, <1>3, <1>4, <1>5 DEF Thread

LEMMA LifecycleInvariant ==
  ASSUME "receiving" \notin FailingStart
  PROVE  Spec => []LifecycleInv
<1>1. Init => LifecycleInv
  BY DEF Init, LifecycleInv, LifecycleTypes, RunningIsExact, OnlyStopsAsk, CallKnows,
         Quiet, ReleaseStops, ActiveIsServed, Inside, Worker, Call, Direction
<1>2. LifecycleInv /\ [Next]_vars => LifecycleInv'
  <2> SUFFICES ASSUME LifecycleInv, [Next]_vars
               PROVE  LifecycleInv'
    OBVIOUS
  <2>1. CASE App
    BY <2>1, AppKeeps
  <2>2. ASSUME NEW d \in Direction, Thread(d)
        PROVE  LifecycleInv'
    BY <2>2, ThreadKeeps
  <2>3. CASE UNCHANGED vars
    BY <2>3 DEF vars, appVars, LifecycleInv, LifecycleTypes, RunningIsExact,
                OnlyStopsAsk, CallKnows, Quiet, ReleaseStops, ActiveIsServed
  <2> QED
    BY <2>1, <2>2, <2>3 DEF Next
<1> QED
  BY <1>1, <1>2, PTL DEF Spec

-----------------------------------------------------------------------------
\* When release() has deleted the stream, no Sender and no Receiver is left that reads
\* it: "stops sending and receiving" (AudioStream.java:177), wherever the threads were and
\* however encode() and decode() failed meanwhile.
THEOREM ReleaseLeavesNoThread ==
  ASSUME "receiving" \notin FailingStart
  PROVE  Spec => []ReleaseStops
<1>1. LifecycleInv => ReleaseStops
  BY DEF LifecycleInv
<1> QED
  BY <1>1, LifecycleInvariant, PTL

\* A thread works only while its device is active, and a device is active only while a
\* thread serves it or the call under way is about to change both (startSending(),
\* stopSending(), their counterparts and Thread::run()).
THEOREM DevicesAreServed ==
  ASSUME "receiving" \notin FailingStart
  PROVE  Spec => []ActiveIsServed
<1>1. LifecycleInv => ActiveIsServed
  BY DEF LifecycleInv
<1> QED
  BY <1>1, LifecycleInvariant, PTL

\* startSending() and startReceiving() reset what the threads work on only while there is
\* no thread that does, although no lock protects it.
THEOREM ResetsAreExclusive ==
  ASSUME "receiving" \notin FailingStart
  PROVE  Spec => ResetExclusive
<1>1. LifecycleInv /\ [Next]_vars
        => [at = "idle" /\ at' = "device" => worker[dir'] \notin Inside]_vars
  <2> SUFFICES ASSUME LifecycleInv, Next, at = "idle", at' = "device"
               PROVE  worker[dir'] \notin Inside
    OBVIOUS
  <2>1. PICK d \in Direction : Start(d)
    BY DEF Next, App, Prepare, Release, Continue, StartDevice, RunThread, UndoStart,
           CheckStop, AwaitThread, StopDevice, Free, Stop, Thread, Turn, Work,
           StopOwnDevice, Exit, appVars
  <2> QED
    BY <2>1 DEF Start, LifecycleInv, ActiveIsServed
<1> QED
  BY <1>1, LifecycleInvariant, PTL DEF Spec, ResetExclusive
=============================================================================
