----------------------------- MODULE TxSession -----------------------------
(***************************************************************************)
(* Sending in the Java engine: the buttons of MainActivity, StartTx and    *)
(* StopTx of media/AudioStreamerImpl.java, and the RecordTask threads with *)
(* their RtpSender.  Each StartTx makes a new RecordTask; StopTx clears its*)
(* mRunning and waits for nobody.  The socket fields belong to the engine, *)
(* not to the task: a task sends on whatever socket is there.              *)
(*                                                                         *)
(* A session is the number of a successful StartTx and names its task and  *)
(* its socket.  The datagrams are those of a frame (send()) and those of a *)
(* digit (sendDtmf()).  MainActivity adds the receivers and completes the  *)
(* specification.                                                          *)
(***************************************************************************)
EXTENDS Integers

CONSTANTS
  MaxSessions,   \* bound
  DigitPackets   \* the datagrams of a digit, 6 in the code

ASSUME SessionAssumption ==
  {MaxSessions, DigitPackets} \subseteq Nat \ {0}

Session == 1 .. MaxSessions
None == 0
Stray == MaxSessions + 1  \* a multicast socket that could not join its group

VARIABLES
  startEnabled,  \* the buttons Send and Receive
  starting,      \* StartTx has cleared the sockets and is about to open one
  mRecordTask,   \* the session of the current task
  socket,        \* the session of mSendSocket or mSendMulticastSocket
  mSendDtmf,
  at,            \* of each session, where its task is
  mRunning,      \* fields of each task
  mMuted,
  digit,         \* packets of the digit that each task has sent
  foreign,       \* history: a task used the socket of another session
  overlapped,    \* history: the user restarted while an old task still ran
  crashed        \* the exception that has ended the process, "none" before

Exceptions ==
  {"no task", "set-up", "no socket",  \* Stop, the set-up of a task, its sending
   "no row", "no address"}            \* the dialog of MainActivity

engine == <<mRecordTask, socket, mSendDtmf>>
tasks == <<at, mRunning, mMuted, digit, foreign>>
user == <<startEnabled, starting, overlapped>>
txVars == <<user, engine, tasks, crashed>>

TxInit ==
  /\ startEnabled = TRUE /\ starting = FALSE
  /\ mRecordTask = None /\ socket = None /\ mSendDtmf = FALSE
  /\ at = [s \in Session |-> "new"] /\ mRunning = [s \in Session |-> FALSE]
  /\ mMuted = [s \in Session |-> FALSE] /\ digit = [s \in Session |-> 0]
  /\ foreign = FALSE /\ overlapped = FALSE /\ crashed = "none"

Over(s) == at[s] \in {"new", "ended"}

-----------------------------------------------------------------------------
\* The UI thread.

\* StartTx up to the new socket: both fields are null.
StartTx ==
  /\ startEnabled /\ ~starting
  /\ mRecordTask < MaxSessions
  /\ overlapped' = (overlapped \/ \E s \in Session : ~Over(s))
  /\ socket' = None
  /\ starting' = TRUE
  /\ UNCHANGED <<startEnabled, mRecordTask, mSendDtmf, tasks, crashed>>

\* Mutant: the buttons stay enabled.
Forgetful_DisableButtons == UNCHANGED startEnabled

\* The click disables the buttons, also when StartTx has logged an exception.
DisableButtons == startEnabled' = FALSE

\* Mutants: the task runs before there is a socket; the one of the last task is kept.
Late_NewSocket == None
Kept_NewSocket == IF mRecordTask = None THEN 1 ELSE mRecordTask

\* The socket a new task finds.
NewSocket == mRecordTask + 1

\* The rest of StartTx: the new task, not muted, has to set itself up.
OpenSocket ==
  /\ starting /\ starting' = FALSE /\ DisableButtons
  /\ mRecordTask' = mRecordTask + 1 /\ socket' = NewSocket
  /\ at' = [at EXCEPT ![mRecordTask'] = "setup"]
  /\ mRunning' = [mRunning EXCEPT ![mRecordTask'] = TRUE]
  /\ UNCHANGED <<mSendDtmf, mMuted, digit, foreign, overlapped, crashed>>

\* The address is wrong, no socket can be opened or it cannot join the group:
\* the exception is logged, and a socket that cannot join stays in its field.
OpenSocketFails ==
  /\ starting /\ starting' = FALSE /\ DisableButtons
  /\ socket' \in {None, Stray}
  /\ UNCHANGED <<mRecordTask, mSendDtmf, tasks, overlapped, crashed>>

\* The button Stop is always enabled.
StopTx ==
  /\ ~starting /\ mRecordTask # None
  /\ mRunning' = [mRunning EXCEPT ![mRecordTask] = FALSE]
  /\ startEnabled' = TRUE
  /\ UNCHANGED <<starting, engine, at, mMuted, digit, foreign, overlapped, crashed>>

\* Before the first task there is, also after a StartTx that failed and has left Stop the
\* only button enabled.
StopTxThrows ==
  /\ ~starting /\ mRecordTask = None
  /\ crashed' = "no task"
  /\ UNCHANGED <<user, engine, tasks>>

\* The check box "Mute Mic": no more than a click without a task, or when the task has
\* ended and nobody reads its flag any more.
ToggleMute ==
  /\ ~starting /\ mRecordTask # None /\ ~Over(mRecordTask)
  /\ mMuted' = [mMuted EXCEPT ![mRecordTask] = ~@]
  /\ UNCHANGED <<user, engine, at, mRunning, digit, foreign, crashed>>

\* Called by no button.
sendDtmf ==
  /\ mSendDtmf' = TRUE
  /\ UNCHANGED <<user, mRecordTask, socket, tasks, crashed>>

Buttons ==
  \/ StartTx \/ OpenSocket \/ OpenSocketFails \/ StopTx \/ StopTxThrows
  \/ ToggleMute \/ sendDtmf

-----------------------------------------------------------------------------
\* A RecordTask thread.

\* Mutant: the loop goes on while a digit is asked for.
Eager_GoesOn(s) == mRunning[s] \/ mSendDtmf

\* Whether the loop goes on.
GoesOn(s) == mRunning[s]

\* To the head of the loop, or out of it; out of it, the mute is taken back.
Loop(s) ==
  /\ at' = [at EXCEPT ![s] = IF GoesOn(s) THEN "read" ELSE "ended"]
  /\ mMuted' = IF GoesOn(s) THEN mMuted ELSE [mMuted EXCEPT ![s] = FALSE]

\* The recorder starts and the first frame is thrown away, then the loop is entered.
SetUp(s) ==
  /\ at[s] = "setup"
  /\ Loop(s)
  /\ UNCHANGED <<user, engine, mRunning, digit, foreign, crashed>>

\* RtpSender makes no DatagramPacket for the number that was typed as a port, which nobody
\* has looked at so far, or the recorder does not start: both throw, and nobody catches.
SetUpThrows(s) ==
  /\ at[s] = "setup"
  /\ crashed' = "set-up"
  /\ UNCHANGED <<user, engine, tasks>>

\* A frame is read; a muted one is thrown away, and no digit is looked for.
Read(s) ==
  /\ at[s] = "read"
  /\ IF mMuted[s] THEN Loop(s)
     ELSE at' = [at EXCEPT ![s] = "send"] /\ UNCHANGED mMuted
  /\ UNCHANGED <<user, engine, mRunning, digit, foreign, crashed>>

\* A datagram leaves on the socket that is there now.
Uses(s) == foreign' = (foreign \/ socket # s)

Send(s) ==
  /\ at[s] = "send" /\ socket # None
  /\ Uses(s)
  /\ IF mSendDtmf THEN at' = [at EXCEPT ![s] = "digit"] /\ UNCHANGED mMuted
     ELSE Loop(s)
  /\ UNCHANGED <<user, engine, mRunning, digit, crashed>>

\* One of the packets of sendDtmf(), 20 ms apart.
SendDigit(s) ==
  /\ at[s] = "digit" /\ digit[s] < DigitPackets /\ socket # None
  /\ Uses(s)
  /\ digit' = [digit EXCEPT ![s] = @ + 1]
  /\ UNCHANGED <<user, engine, at, mRunning, mMuted, crashed>>

\* A request made meanwhile is taken back with the one that was served.
DigitSent(s) ==
  /\ at[s] = "digit" /\ digit[s] = DigitPackets
  /\ digit' = [digit EXCEPT ![s] = 0]
  /\ mSendDtmf' = FALSE
  /\ Loop(s)
  /\ UNCHANGED <<user, mRecordTask, socket, mRunning, foreign, crashed>>

Sending(s) ==
  at[s] = "send" \/ (at[s] = "digit" /\ digit[s] < DigitPackets)

\* An IOException leaves the loop, the request for a digit standing.
SendFails(s) ==
  /\ Sending(s) /\ socket # None
  /\ at' = [at EXCEPT ![s] = "ended"]
  /\ mMuted' = [mMuted EXCEPT ![s] = FALSE] /\ digit' = [digit EXCEPT ![s] = 0]
  /\ UNCHANGED <<user, engine, mRunning, foreign, crashed>>

\* There is no socket at all.
SendThrows(s) ==
  /\ Sending(s) /\ socket = None
  /\ crashed' = "no socket"
  /\ UNCHANGED <<user, engine, tasks>>

Turn(s) ==
  \/ SetUp(s) \/ SetUpThrows(s) \/ Read(s) \/ Send(s) \/ SendThrows(s)
  \/ SendDigit(s) \/ DigitSent(s)

RecordTask(s) == Turn(s) \/ SendFails(s)

-----------------------------------------------------------------------------
\* However the buttons are pressed, at most the last task is told to run, and
\* none while another one can be started: no task is left that Stop cannot reach.
OneSession ==
  \A s \in Session : mRunning[s] => s = mRecordTask /\ ~startEnabled

\* Sessions do not mix unless they overlap: if the last task has ended before each
\* restart, no task sends on the socket of another session.
SendsOnOwnSocket == foreign => overlapped
=============================================================================
