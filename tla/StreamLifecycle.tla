-------------------------- MODULE StreamLifecycle --------------------------
(***************************************************************************)
(* The life of a native AudioStream (app/src/main/cpp/AudioStream.cpp):    *)
(* prepare, startSending, startReceiving, stopSending, stopReceiving and   *)
(* release, called by the application, against the Sender and Receiver     *)
(* threads, which stop their own audio device when encode() or decode()    *)
(* fails.  No lock of the stream protects them from each other: the code   *)
(* relies on the state of the audio device and on requestExitAndWait().    *)
(*                                                                         *)
(* The JNI methods are synchronized on the Java stream, so one call runs   *)
(* at a time; at, dir and closing say where it is.  A direction d stands   *)
(* for mRecord and mSender ("sending") or mTrack and mReceiver             *)
(* ("receiving").  android::Thread and the audio devices are external:     *)
(* mRunning and mExitPending are guarded by the thread's lock, and stop()  *)
(* and stopped() of a device by the device's.                              *)
(***************************************************************************)
EXTENDS Naturals

CONSTANT FailingStart   \* the directions whose device may fail to start

Direction == {"sending", "receiving"}

ASSUME FailingStartAssumption == FailingStart \subseteq Direction

VARIABLES
  prepared,     \* mNative # 0: the stream exists
  active,       \* per direction, ~stopped() of its audio device
  running,      \* per direction, mRunning of its thread object
  exitPending,  \* per direction, mExitPending of its thread object
  worker,       \* per direction, where its thread is
  at, dir,      \* where the call of the application is, and for which direction
  closing       \* that call is release()

\* A thread that is one of Inside still reads or writes the stream: it is
\* between two turns of _threadLoop(), in encode() or decode(), or about to stop
\* the device because that failed.  One that is "exiting" uses only its own
\* thread object, which it keeps alive itself (mHoldSelf).
Inside == {"turn", "body", "failed"}
Worker == Inside \cup {"exiting", "none"}

Call == {"idle", "device", "run", "undo", "stop", "wait", "halt", "free"}

appVars == <<at, dir, closing>>
vars == <<prepared, active, running, exitPending, worker, appVars>>

Init ==
  /\ prepared = FALSE
  /\ active = [d \in Direction |-> FALSE]
  /\ running = [d \in Direction |-> FALSE]
  /\ exitPending = [d \in Direction |-> FALSE]
  /\ worker = [d \in Direction |-> "none"]
  /\ at = "idle" /\ dir = "sending" /\ closing = FALSE

-----------------------------------------------------------------------------
\* The application.

Prepare ==
  /\ at = "idle" /\ ~prepared
  /\ prepared' = TRUE
  /\ UNCHANGED <<active, running, exitPending, worker, appVars>>

\* Mutant: the stream is started again without a look at the device.
Unchecked_Start(d) ==
  /\ at = "idle" /\ prepared
  /\ at' = "device" /\ dir' = d
  /\ UNCHANGED <<prepared, active, running, exitPending, worker, closing>>

\* startSending() and startReceiving() of a stopped device, which reset the
\* state that the thread works on; of another one they do nothing.
Start(d) ==
  /\ at = "idle" /\ prepared /\ ~active[d]
  /\ at' = "device" /\ dir' = d
  /\ UNCHANGED <<prepared, active, running, exitPending, worker, closing>>

\* mRecord.start() and mTrack.start().  A failure of the record is undone; the
\* result of mTrack.start() is not looked at.
StartDevice ==
  /\ at = "device"
  /\ \/ active' = [active EXCEPT ![dir] = TRUE] /\ at' = "run"
     \/ /\ dir \in FailingStart
        /\ at' = IF dir = "sending" THEN "undo" ELSE "run"
        /\ UNCHANGED active
  /\ UNCHANGED <<prepared, running, exitPending, worker, dir, closing>>

\* Thread::run(): refused while the last thread has not ended.
RunThread ==
  /\ at = "run"
  /\ IF running[dir]
       THEN at' = "undo" /\ UNCHANGED <<running, exitPending, worker>>
       ELSE /\ exitPending' = [exitPending EXCEPT ![dir] = FALSE]
            /\ \/ /\ running' = [running EXCEPT ![dir] = TRUE]
                  /\ worker' = [worker EXCEPT ![dir] = "turn"]
                  /\ at' = "idle"
               \/ at' = "undo" /\ UNCHANGED <<running, worker>>
  /\ UNCHANGED <<prepared, active, dir, closing>>

\* Mutant: a device whose thread could not be run is left active.
Kept_UndoStart ==
  /\ at = "undo"
  /\ at' = "idle"
  /\ UNCHANGED <<prepared, active, running, exitPending, worker, dir, closing>>

UndoStart ==
  /\ at = "undo"
  /\ active' = [active EXCEPT ![dir] = FALSE]
  /\ at' = "idle"
  /\ UNCHANGED <<prepared, running, exitPending, worker, dir, closing>>

Stop(d) ==
  /\ at = "idle" /\ prepared
  /\ at' = "stop" /\ dir' = d
  /\ UNCHANGED <<prepared, active, running, exitPending, worker, closing>>

\* release(), which the destructor begins by stopping both directions.
Release ==
  /\ at = "idle" /\ prepared
  /\ at' = "stop" /\ dir' = "sending" /\ closing' = TRUE
  /\ UNCHANGED <<prepared, active, running, exitPending, worker>>

\* What follows once the stop of one direction is done.
StopDone ==
  /\ at' = CASE ~closing -> "idle"
             [] closing /\ dir = "sending" -> "stop"
             [] OTHER -> "free"
  /\ dir' = IF closing THEN "receiving" ELSE dir

\* stopSending() and stopReceiving(): the thread of an active device is asked
\* to exit, that of a stopped one is left alone.
CheckStop ==
  /\ at = "stop"
  /\ IF active[dir]
       THEN /\ exitPending' = [exitPending EXCEPT ![dir] = TRUE]
            /\ at' = "wait" /\ UNCHANGED dir
       ELSE StopDone /\ UNCHANGED exitPending
  /\ UNCHANGED <<prepared, active, running, worker, closing>>

\* Mutant: the thread is asked to exit and not waited for (requestExit()).
Hasty_AwaitThread ==
  /\ at = "wait"
  /\ at' = "halt"
  /\ UNCHANGED <<prepared, active, running, exitPending, worker, dir, closing>>

\* The wait of requestExitAndWait().
AwaitThread ==
  /\ at = "wait" /\ ~running[dir]
  /\ exitPending' = [exitPending EXCEPT ![dir] = FALSE]
  /\ at' = "halt"
  /\ UNCHANGED <<prepared, active, running, worker, dir, closing>>

StopDevice ==
  /\ at = "halt"
  /\ active' = [active EXCEPT ![dir] = FALSE]
  /\ StopDone
  /\ UNCHANGED <<prepared, running, exitPending, worker, closing>>

\* The stream and its thread objects go, and mNative is cleared.  A thread that
\* is exiting ends on its own; it is nothing to the next stream.
Free ==
  /\ at = "free"
  /\ at' = "idle" /\ closing' = FALSE
  /\ prepared' = FALSE
  /\ active' = [d \in Direction |-> FALSE]
  /\ running' = [d \in Direction |-> FALSE]
  /\ exitPending' = [d \in Direction |-> FALSE]
  /\ worker' = [d \in Direction |-> IF worker[d] = "exiting" THEN "none" ELSE worker[d]]
  /\ UNCHANGED dir

\* What the application's thread does once a call has begun.
Continue ==
  \/ StartDevice \/ RunThread \/ UndoStart
  \/ CheckStop \/ AwaitThread \/ StopDevice \/ Free

App ==
  \/ Prepare \/ Release \/ Continue
  \/ \E d \in Direction : Start(d) \/ Stop(d)

-----------------------------------------------------------------------------
\* The Sender and the Receiver, run by Thread::_threadLoop().

\* Mutant: the request to exit is not looked at between two turns.
Deaf_Turn(d) ==
  /\ worker[d] = "turn"
  /\ worker' = [worker EXCEPT ![d] = "body"]
  /\ UNCHANGED <<prepared, active, running, exitPending, appVars>>

\* Between two calls of threadLoop(): end if asked to.
Turn(d) ==
  /\ worker[d] = "turn"
  /\ IF exitPending[d]
       THEN /\ worker' = [worker EXCEPT ![d] = "none"]
            /\ running' = [running EXCEPT ![d] = FALSE]
       ELSE worker' = [worker EXCEPT ![d] = "body"] /\ UNCHANGED running
  /\ UNCHANGED <<prepared, active, exitPending, appVars>>

\* encode() or decode() returns, true or false.
Work(d) ==
  /\ worker[d] = "body"
  /\ \E next \in {"turn", "failed"} : worker' = [worker EXCEPT ![d] = next]
  /\ UNCHANGED <<prepared, active, running, exitPending, appVars>>

\* threadLoop() stops the device after a failure.
StopOwnDevice(d) ==
  /\ worker[d] = "failed"
  /\ active' = [active EXCEPT ![d] = FALSE]
  /\ worker' = [worker EXCEPT ![d] = "exiting"]
  /\ UNCHANGED <<prepared, running, exitPending, appVars>>

\* _threadLoop() ends because threadLoop() returned false.
Exit(d) ==
  /\ worker[d] = "exiting"
  /\ worker' = [worker EXCEPT ![d] = "none"]
  /\ running' = [running EXCEPT ![d] = FALSE]
  /\ exitPending' = [exitPending EXCEPT ![d] = TRUE]
  /\ UNCHANGED <<prepared, active, appVars>>

Thread(d) == Turn(d) \/ Work(d) \/ StopOwnDevice(d) \/ Exit(d)

Next == App \/ \E d \in Direction : Thread(d)

Spec == Init /\ [][Next]_vars

\* The scheduler runs the threads and the call the application is in; encode()
\* and decode() return, since the microphone delivers and receive() has a
\* deadline.  The application need not make any call.
FairSpec ==
  Spec /\ WF_vars(Continue) /\ \A d \in Direction : WF_vars(Thread(d))

-----------------------------------------------------------------------------
\* release() stops sending and receiving (AudioStream.java:177): when the stream
\* has been deleted, no thread is left that reads it.
ReleaseStops == ~prepared => \A d \in Direction : worker[d] \notin Inside

\* A thread works only while its device is active, and a device is active only
\* while a thread serves it or a call is about to change both: no call and no
\* failure of encode() or decode() leaves a microphone on that nobody reads, or a
\* stream that reports itself stopped with a thread that works on.
ActiveIsServed ==
  \A d \in Direction :
    /\ worker[d] \in Inside => active[d]
    /\ active[d] => \/ worker[d] \in Inside
                    \/ dir = d /\ at \in {"run", "undo", "wait", "halt"}

\* startSending() and startReceiving() reset mTimer, mDtmfEvent and the remote
\* timestamp without a lock; they never do so under a thread that uses them.
ResetExclusive ==
  [][at = "idle" /\ at' = "device" => worker[dir'] \notin Inside]_vars

\* Every call returns: stopX() and release() wait for a thread that ends.
CallsReturn == at # "idle" ~> at = "idle"
=============================================================================
