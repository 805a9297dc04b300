------------------------- MODULE MainActivityProofs -------------------------
(***************************************************************************)
(* The send session in the whole activity, for any numbers of sessions,    *)
(* datagrams of a digit, receivers and dialogs: no RecordTask escapes Stop,*)
(* and sessions do not mix unless they overlap.  Then the receivers and    *)
(* their rows, for any sets of addresses: what is told to run is in the    *)
(* list of receivers, so that, of addresses that are typed as they are     *)
(* printed, the two lists agree and no receiver plays without a row.  And  *)
(* the two exceptions that come late have the causes that MainActivity     *)
(* names; of the others nothing is claimed.                                *)
(***************************************************************************)
EXTENDS MainActivity, SequenceTheorems, WellFoundedInduction, TLAPS

Places == {"new", "setup", "read", "send", "digit", "ended"}

TxTypes ==
  /\ mRecordTask \in 0 .. MaxSessions
  /\ at \in [Session -> Places]
  /\ mRunning \in [Session -> BOOLEAN]

\* StartTx leaves the buttons as they were until it is through: nothing runs meanwhile,
\* and a session is left to give.
StartsFromIdle == starting => startEnabled /\ mRecordTask < MaxSessions

\* Unless sessions overlap, only the current task is alive, on the socket of its session,
\* and none while StartTx is under way: what keeps SendsOnOwnSocket.
OneAlive ==
  ~overlapped =>
    \A s \in Session : ~Over(s) => s = mRecordTask /\ socket = s /\ ~starting

TxInv == TxTypes /\ OneSession /\ StartsFromIdle /\ OneAlive /\ SendsOnOwnSocket

-----------------------------------------------------------------------------
LEMMA StartKeeps == TxInv /\ StartTx => TxInv'
<1> SUFFICES ASSUME TxInv, StartTx
             PROVE  TxInv'
  OBVIOUS
<1>1. TxTypes' /\ OneSession'
  BY DEF TxInv, TxTypes, OneSession, StartTx, tasks
<1>2. StartsFromIdle'
  BY SessionAssumption DEF TxInv, TxTypes, StartTx, StartsFromIdle
<1>3. OneAlive'
  BY DEF StartTx, OneAlive, Over, tasks
<1>4. SendsOnOwnSocket'
  BY DEF TxInv, StartTx, SendsOnOwnSocket, tasks
<1> QED
  BY <1>1, <1>2, <1>3, <1>4 DEF TxInv

\* The new task is the current one and the only one told to run.
LEMMA OpenKeeps == TxInv /\ OpenSocket => TxInv'
<1> SUFFICES ASSUME TxInv, OpenSocket
             PROVE  TxInv'
  OBVIOUS
<1> DEFINE new == mRecordTask + 1
<1>1. /\ new \in Session /\ mRecordTask' = new /\ socket' = new /\ ~starting'
      /\ startEnabled /\ ~startEnabled' /\ UNCHANGED <<foreign, overlapped>>
      /\ at' = [at EXCEPT ![new] = "setup"]
      /\ mRunning' = [mRunning EXCEPT ![new] = TRUE]
  BY SessionAssumption
  DEF TxInv, TxTypes, StartsFromIdle, OpenSocket, DisableButtons, NewSocket, Session
<1> HIDE DEF new
<1>2. TxTypes'
  BY <1>1 DEF TxInv, TxTypes, Places, Session
<1>3. OneSession'
  BY <1>1 DEF TxInv, TxTypes, OneSession
<1>4. OneAlive'
  BY <1>1 DEF TxInv, TxTypes, OneAlive, OpenSocket, Over
<1>5. StartsFromIdle' /\ SendsOnOwnSocket'
  BY <1>1 DEF TxInv, StartsFromIdle, SendsOnOwnSocket
<1> QED
  BY <1>2, <1>3, <1>4, <1>5 DEF TxInv

\* The other buttons start nothing.
LEMMA ButtonsKeep == TxInv /\ Buttons => TxInv'
<1> SUFFICES ASSUME TxInv, Buttons
             PROVE  TxInv'
  OBVIOUS
<1>1. CASE OpenSocketFails
  BY <1>1 DEF OpenSocketFails, DisableButtons, tasks, TxInv, TxTypes, OneSession,
              StartsFromIdle, OneAlive, SendsOnOwnSocket, Over
<1>2. CASE StopTx
  <2>1. /\ mRecordTask \in Session
        /\ mRunning' = [mRunning EXCEPT ![mRecordTask] = FALSE]
        /\ UNCHANGED <<starting, mRecordTask, socket, at, foreign, overlapped>>
        /\ ~starting
    BY <1>2, SessionAssumption DEF StopTx, engine, TxInv, TxTypes, None, Session
  <2>2. \A s \in Session : ~mRunning'[s]
    BY <2>1 DEF TxInv, TxTypes, OneSession
  <2>3. TxTypes' /\ OneSession' /\ StartsFromIdle'
    BY <2>1, <2>2 DEF TxInv, TxTypes, OneSession, StartsFromIdle
  <2>4. OneAlive' /\ SendsOnOwnSocket'
    BY <2>1 DEF TxInv, OneAlive, SendsOnOwnSocket, Over
  <2> QED
    BY <2>3, <2>4 DEF TxInv
<1>3. CASE StopTxThrows
  BY <1>3 DEF StopTxThrows, user, engine, tasks, TxInv, TxTypes, OneSession,
              StartsFromIdle, OneAlive, SendsOnOwnSocket, Over
<1>4. CASE ToggleMute
  BY <1>4 DEF ToggleMute, user, engine, TxInv, TxTypes, OneSession,
              StartsFromIdle, OneAlive, SendsOnOwnSocket, Over
<1>5. CASE sendDtmf
  BY <1>5 DEF sendDtmf, user, tasks, TxInv, TxTypes, OneSession,
              StartsFromIdle, OneAlive, SendsOnOwnSocket, Over
<1> QED
  BY <1>1, <1>2, <1>3, <1>4, <1>5, StartKeeps, OpenKeeps DEF Buttons

-----------------------------------------------------------------------------
\* What a step of a living task may change: where it is, and that it used a socket.
TaskStep(s) ==
  /\ ~Over(s)
  /\ UNCHANGED <<user, mRecordTask, socket, mRunning>>
  /\ \E place \in Places \ {"new"} : at' = [at EXCEPT ![s] = place]
  /\ Uses(s) \/ UNCHANGED foreign

LEMMA TaskSteps ==
  ASSUME TxTypes, NEW s \in Session, RecordTask(s)
  PROVE  TaskStep(s)
<1> USE DEF TxTypes, TaskStep, Over, Places, user, engine
<1>1. CASE Read(s)
  BY <1>1 DEF Read, Loop
<1>2. CASE Send(s)
  BY <1>2 DEF Send, Loop
<1>3. CASE SendDigit(s)
  <2>1. at' = [at EXCEPT ![s] = "digit"]
    BY <1>3 DEF SendDigit
  <2> QED
    BY <1>3, <2>1 DEF SendDigit
<1>4. CASE DigitSent(s)
  BY <1>4 DEF DigitSent, Loop
<1>5. CASE SendThrows(s)
  <2>1. at' = [at EXCEPT ![s] = at[s]] /\ at[s] \in {"send", "digit"}
    BY <1>5 DEF SendThrows, Sending, tasks
  <2> QED
    BY <1>5, <2>1 DEF SendThrows, tasks
<1>6. CASE SendFails(s)
  BY <1>6 DEF SendFails, Sending
<1>7. CASE SetUp(s)
  BY <1>7 DEF SetUp, Loop
<1>8. CASE SetUpThrows(s)
  <2>1. at' = [at EXCEPT ![s] = "setup"]
    BY <1>8 DEF SetUpThrows, tasks
  <2> QED
    BY <1>8, <2>1 DEF SetUpThrows, tasks
<1> QED
  BY <1>1, <1>2, <1>3, <1>4, <1>5, <1>6, <1>7, <1>8 DEF RecordTask, Turn

\* A task that is alive uses the socket of its session, as OneAlive says.
LEMMA TasksKeep ==
  ASSUME TxInv, NEW s \in Session, RecordTask(s)
  PROVE  TxInv'
<1>1. TaskStep(s)
  BY TaskSteps DEF TxInv
<1>2. TxTypes' /\ OneSession' /\ StartsFromIdle'
  BY <1>1 DEF TxInv, TxTypes, OneSession, StartsFromIdle, TaskStep, user
<1>3. OneAlive'
  BY <1>1 DEF TxInv, TxTypes, OneAlive, TaskStep, Over, user
<1>4. SendsOnOwnSocket'
  BY <1>1 DEF TxInv, OneAlive, SendsOnOwnSocket, TaskStep, Uses, user
<1> QED
  BY <1>2, <1>3, <1>4 DEF TxInv

-----------------------------------------------------------------------------
\* The receivers, their rows and the dialogs leave the session alone.
LEMMA ReceiversKeep ==
  ASSUME TxInv,
         \/ \E row \in Row : StartRx(row)
         \/ \E position \in DOMAIN rows : Tap(position)
         \/ Cancel \/ Confirm \/ ConfirmThrows
         \/ \E i \in DOMAIN receivers : Threads(i)
  PROVE  TxInv'
<1>1. UNCHANGED <<user, engine, tasks>>
  <2>1. CASE \E row \in Row : StartRx(row)
    BY <2>1 DEF StartRx, txVars
  <2>2. CASE \E position \in DOMAIN rows : Tap(position)
    BY <2>2 DEF Tap, txVars
  <2>3. CASE Cancel \/ Confirm \/ ConfirmThrows
    BY <2>3 DEF Cancel, Confirm, ConfirmThrows, txVars
  <2>4. CASE \E i \in DOMAIN receivers : Threads(i)
    <3>1. PICK i \in DOMAIN receivers : Threads(i)
      BY <2>4
    <3>2. PICK task, open : Become(i, task, open)
      BY <3>1, Zenon DEF Threads, Hear, FirstReceiveFails, PlayEnds, Collect
    <3> QED
      BY <3>2 DEF Become, txVars
  <2> QED
    BY <2>1, <2>2, <2>3, <2>4
<1> QED
  BY <1>1 DEF user, engine, tasks, TxInv, TxTypes, OneSession, StartsFromIdle, OneAlive,
              SendsOnOwnSocket, Over

LEMMA TxInvInvariant == Spec => []TxInv
<1>1. Init => TxInv
  BY SessionAssumption
  DEF Init, TxInit, TxInv, TxTypes, Places, OneSession, StartsFromIdle, OneAlive,
      SendsOnOwnSocket, Over, None, Session
<1>2. TxInv /\ [Next]_vars => TxInv'
  <2> SUFFICES ASSUME TxInv, [Next]_vars
               PROVE  TxInv'
    OBVIOUS
  <2>1. CASE Buttons
    BY <2>1, ButtonsKeep
  <2>2. CASE \E s \in Session : RecordTask(s)
    BY <2>2, TasksKeep
  <2>3. CASE \/ \E row \in Row : StartRx(row)
             \/ \E position \in DOMAIN rows : Tap(position)
             \/ Cancel \/ Confirm \/ ConfirmThrows
             \/ \E i \in DOMAIN receivers : Threads(i)
    BY <2>3, ReceiversKeep
  <2>4. CASE UNCHANGED vars
    BY <2>4 DEF vars, txVars, user, engine, tasks, TxInv, TxTypes, OneSession,
                StartsFromIdle, OneAlive, SendsOnOwnSocket, Over
  <2> QED
    BY <2>1, <2>2, <2>3, <2>4 DEF Next
<1> QED
  BY <1>1, <1>2, PTL DEF Spec

\* However often Send and Stop are pressed, whatever fails, at most the last RecordTask
\* is told to run, and none while Send can be pressed (StartTx and StopTx of
\* media/AudioStreamerImpl.java, the buttons of MainActivity).
THEOREM NoTaskEscapesStop == Spec => []OneSession
BY TxInvInvariant, PTL DEF TxInv

\* As long as Send is pressed only when the last task has ended, no task sends on the
\* socket of another session, although the socket fields belong to the engine.
THEOREM SessionsDoNotMix == Spec => []SendsOnOwnSocket
BY TxInvInvariant, PTL DEF TxInv

-----------------------------------------------------------------------------
\* The receivers and their rows.

Stage == {"none", "first", "play", "ended"}

Receiver == [row : Row, open : BOOLEAN, mRunning : BOOLEAN, task : Stage]

ListTypes ==
  /\ rows \in Seq(Row) /\ receivers \in Seq(Receiver)
  /\ mReceiverList \in Seq(1 .. Len(receivers)) /\ dialogs \in Seq(Nat \ {0})

RowsDiffer == \A j, k \in 1 .. Len(rows) : rows[j] = rows[k] => j = k

\* Unless dialogs were stacked there is one, and its row is still there.
DialogsFit ==
  ~stacked => Len(dialogs) <= 1 /\ \A k \in 1 .. Len(dialogs) : dialogs[k] \in 1 .. Len(rows)

NonePadded == \A i \in 1 .. Len(receivers) : receivers[i].row.address \notin Padded

\* Place by place, what RowsAreReceivers says.
RowsMatch ==
  NonePadded =>
    /\ Len(rows) = Len(mReceiverList)
    /\ \A k \in 1 .. Len(rows) : rows[k] = receivers[mReceiverList[k]].row

\* What is told to run is in the list of receivers, also where padded addresses made
\* rows and receivers part: StopRx clears mRunning of what it removes.
RunningIsListed ==
  \A i \in 1 .. Len(receivers) :
    receivers[i].mRunning => \E k \in 1 .. Len(mReceiverList) : mReceiverList[k] = i

ListInv ==
  ListTypes /\ RowsDiffer /\ DialogsFit /\ RowsMatch /\ RunningIsListed /\ LateExceptions

-----------------------------------------------------------------------------
\* What the two ways to shorten a list leave, and what a search finds first.
LEMMA RemoveAtElements ==
  ASSUME NEW S, NEW s \in Seq(S), NEW k \in 1 .. Len(s)
  PROVE  /\ RemoveAt(s, k) \in Seq(S)
         /\ Len(RemoveAt(s, k)) = Len(s) - 1
         /\ \A i \in 1 .. Len(s) - 1 :
              RemoveAt(s, k)[i] = IF i < k THEN s[i] ELSE s[i + 1]
<1> DEFINE a == SubSeq(s, 1, k - 1)
           b == SubSeq(s, k + 1, Len(s))
<1>1. /\ a \in Seq(S) /\ Len(a) = k - 1
      /\ \A i \in 1 .. k - 1 : a[i] = s[i]
  BY SubSeqProperties, ElementOfSeq, LenProperties
<1>2. /\ b \in Seq(S) /\ Len(b) = Len(s) - k
      /\ \A i \in 1 .. Len(s) - k : b[i] = s[k + i]
  <2>1. \A i \in k + 1 .. Len(s) : s[i] \in S
    BY ElementOfSeq, LenProperties
  <2>2. /\ b \in Seq(S) /\ Len(b) = IF k + 1 <= Len(s) THEN Len(s) - (k + 1) + 1 ELSE 0
        /\ \A i \in 1 .. Len(s) - (k + 1) + 1 : b[i] = s[(k + 1) + i - 1]
    BY <2>1, SubSeqProperties, LenProperties
  <2> QED
    BY <2>2, LenProperties
<1> HIDE DEF a, b
<1>3. /\ a \o b \in Seq(S) /\ Len(a \o b) = Len(s) - 1
      /\ \A i \in 1 .. Len(s) - 1 : (a \o b)[i] = IF i < k THEN s[i] ELSE s[i + 1]
  <2>1. /\ a \o b \in Seq(S) /\ Len(a \o b) = Len(a) + Len(b)
        /\ \A i \in 1 .. Len(a) + Len(b) :
             (a \o b)[i] = IF i <= Len(a) THEN a[i] ELSE b[i - Len(a)]
    BY <1>1, <1>2, ConcatProperties
  <2> QED
    BY <2>1, <1>1, <1>2, LenProperties
<1> QED
  BY <1>3 DEF RemoveAt, a, b

LEMMA Minimum ==
  ASSUME NEW S \in SUBSET Nat, S # {}
  PROVE  Min(S) \in S /\ \A k \in S : Min(S) <= k
<1>1. PICK m \in S : \A k \in S : <<k, m>> \notin OpToRel(<, Nat)
  BY NatLessThanWellFounded, WFMin, Zenon
<1>2. \A k \in S : ~(k < m)
  BY <1>1 DEF OpToRel
<1>3. m \in S /\ \A k \in S : m <= k
  BY <1>2
<1> QED
  BY <1>3, Zenon DEF Min

\* StopRx ends its search at the first place that matches.
Matches(i, row) ==
  Unresolved(i) \/ row = [receivers[i].row EXCEPT !.address = Printed(@)]

LEMMA StopsAtFirst ==
  ASSUME ListTypes, NEW row
  PROVE  \/ /\ StopsAt(row) = 0
            /\ \A k \in 1 .. Len(mReceiverList) : ~Matches(mReceiverList[k], row)
         \/ /\ StopsAt(row) \in 1 .. Len(mReceiverList)
            /\ Matches(mReceiverList[StopsAt(row)], row)
            /\ \A k \in 1 .. StopsAt(row) - 1 : ~Matches(mReceiverList[k], row)
<1> DEFINE I == {k \in 1 .. Len(mReceiverList) : Matches(mReceiverList[k], row)}
<1>1. StopsAt(row) = IF I # {} THEN Min(I) ELSE 0
  BY DEF StopsAt, SelectInSeq, Matches
<1>2. I \in SUBSET Nat /\ Len(mReceiverList) \in Nat
  BY LenProperties DEF ListTypes
<1>3. I # {} => Min(I) \in I /\ \A k \in I : Min(I) <= k
  BY <1>2, Minimum
<1>4. CASE I = {}
  BY <1>1, <1>4
<1>5. CASE I # {}
  <2> DEFINE m == Min(I)
  <2>1. m \in I /\ (\A k \in I : m <= k) /\ StopsAt(row) = m
    BY <1>1, <1>3, <1>5
  <2> HIDE DEF m
  <2>2. m \in 1 .. Len(mReceiverList) /\ Matches(mReceiverList[m], row)
    BY <2>1
  <2>3. ASSUME NEW k \in 1 .. m - 1, Matches(mReceiverList[k], row)
        PROVE  FALSE
    <3>1. k \in I
      BY <1>2, <2>2, <2>3
    <3> QED
      BY <2>1, <2>2, <3>1
  <2> QED
    BY <2>1, <2>2, <2>3
<1> QED
  BY <1>4, <1>5

\* The parts are what the properties of MainActivity say.
LEMMA Meanings ==
  ASSUME ListTypes
  PROVE  /\ RowsMatch => RowsAreReceivers
         /\ RowsMatch /\ RunningIsListed => PlayersHaveRows
<1>1. DOMAIN receivers = 1 .. Len(receivers) /\ DOMAIN mReceiverList = 1 .. Len(mReceiverList)
  BY LenProperties DEF ListTypes
<1>2. ASSUME RowsMatch, NonePadded
      PROVE  rows = [k \in DOMAIN mReceiverList |-> receivers[mReceiverList[k]].row]
  <2>1. rows = [k \in 1 .. Len(rows) |-> rows[k]]
    BY DEF ListTypes
  <2> QED
    BY <1>1, <1>2, <2>1 DEF RowsMatch
<1>3. ASSUME RowsMatch, RunningIsListed, NonePadded,
             NEW i \in 1 .. Len(receivers), receivers[i].mRunning
      PROVE  receivers[i].row \in Range(rows)
  <2>1. PICK k \in 1 .. Len(mReceiverList) : mReceiverList[k] = i
    BY <1>3 DEF RunningIsListed
  <2>2. k \in DOMAIN rows /\ rows[k] = receivers[i].row
    BY <1>3, <2>1, LenProperties DEF ListTypes, RowsMatch
  <2> QED
    BY <2>2 DEF Range
<1>4. AsPrinted <=> NonePadded
  BY <1>1 DEF AsPrinted, NonePadded
<1> QED
  BY <1>1, <1>2, <1>3, <1>4 DEF RowsAreReceivers, PlayersHaveRows

\* With no padded address, StopRx finds the row that was tapped at its own place, unless
\* an address without a value comes first.
LEMMA RowIsFound ==
  ASSUME ListTypes, RowsDiffer, RowsMatch, NonePadded, NEW p \in 1 .. Len(rows)
  PROVE  /\ StopsAt(rows[p]) \in 1 .. p
         /\ \/ StopsAt(rows[p]) = p
            \/ Unresolved(mReceiverList[StopsAt(rows[p])])
<1> DEFINE q == StopsAt(rows[p])
<1>1. Len(rows) \in Nat /\ Len(mReceiverList) = Len(rows)
  BY LenProperties DEF ListTypes, RowsMatch
<1>2. ASSUME NEW k \in 1 .. Len(rows)
      PROVE  Matches(mReceiverList[k], rows[p])
               <=> Unresolved(mReceiverList[k]) \/ rows[p] = rows[k]
  <2> DEFINE i == mReceiverList[k]
  <2>1. i \in 1 .. Len(receivers) /\ receivers[i] \in Receiver
    BY <1>1, ElementOfSeq DEF ListTypes
  <2>2. Printed(receivers[i].row.address) = receivers[i].row.address
    BY <2>1 DEF Printed, NonePadded
  <2>3. receivers[i].row \in Row
    BY <2>1 DEF Receiver
  <2>4. [receivers[i].row EXCEPT !.address = Printed(@)] = receivers[i].row
    BY <2>2, <2>3 DEF Row
  <2>5. receivers[i].row = rows[k]
    BY DEF RowsMatch
  <2> QED
    BY <2>4, <2>5 DEF Matches
<1>3. q \in 1 .. p /\ Matches(mReceiverList[q], rows[p])
  <2>1. Matches(mReceiverList[p], rows[p])
    BY <1>2
  <2> QED
    BY <2>1, <1>1, StopsAtFirst
<1> HIDE DEF q
<1>4. q \in 1 .. Len(rows)
  BY <1>1, <1>3
<1>5. Unresolved(mReceiverList[q]) \/ rows[p] = rows[q]
  BY <1>2, <1>3, <1>4
<1> QED
  BY <1>3, <1>4, <1>5 DEF RowsDiffer, q

-----------------------------------------------------------------------------
\* Steps that leave the list alone, or change of a receiver neither its row nor, but for
\* the worse, its flag.
LEMMA QuietStep ==
  ASSUME ListInv, LateExceptions',
         UNCHANGED <<rows, mReceiverList, dialogs, stacked>>,
         receivers' \in Seq(Receiver), Len(receivers') = Len(receivers),
         \A i \in 1 .. Len(receivers) : /\ receivers'[i].row = receivers[i].row
                                        /\ receivers'[i].mRunning = receivers[i].mRunning
  PROVE  ListInv'
<1>1. ListTypes' /\ RowsDiffer' /\ DialogsFit'
  BY DEF ListInv, ListTypes, RowsDiffer, DialogsFit
<1>2. NonePadded' => NonePadded
  BY DEF NonePadded
<1>3. \A k \in 1 .. Len(mReceiverList) : mReceiverList[k] \in 1 .. Len(receivers)
  BY ElementOfSeq DEF ListInv, ListTypes
<1>4. RowsMatch'
  BY <1>2, <1>3 DEF ListInv, RowsMatch
<1>5. RunningIsListed'
  BY DEF ListInv, RunningIsListed
<1> QED
  BY <1>1, <1>4, <1>5 DEF ListInv

\* The threads and the finalizer change where a receiver is and whether it is open.
LEMMA ThreadsKeep ==
  ASSUME ListInv, NEW i \in DOMAIN receivers, Threads(i)
  PROVE  ListInv'
<1>1. PICK task \in Stage, open \in BOOLEAN : Become(i, task, open)
  <2>1. receivers \in Seq(Receiver) /\ i \in 1 .. Len(receivers)
    BY LenProperties DEF ListInv, ListTypes
  <2>2. receivers[i] \in Receiver
    BY <2>1, ElementOfSeq
  <2>3. receivers[i].task \in Stage
    BY <2>2 DEF Receiver
  <2> QED
    BY <2>3 DEF Threads, Hear, FirstReceiveFails, PlayEnds, Collect, Stage
<1>2. receivers \in Seq(Receiver) /\ i \in 1 .. Len(receivers) /\ receivers[i] \in Receiver
  BY LenProperties, ElementOfSeq DEF ListInv, ListTypes
<1> DEFINE changed == [receivers[i] EXCEPT !.task = task, !.open = open]
<1>3. receivers' = [receivers EXCEPT ![i] = changed]
  BY <1>1, <1>2 DEF Become
<1>4. changed \in Receiver /\ changed.row = receivers[i].row
      /\ changed.mRunning = receivers[i].mRunning
  BY <1>1, <1>2 DEF Receiver
<1> HIDE DEF changed
<1>5. /\ receivers' \in Seq(Receiver) /\ Len(receivers') = Len(receivers)
      /\ \A j \in 1 .. Len(receivers) : /\ receivers'[j].row = receivers[j].row
                                        /\ receivers'[j].mRunning = receivers[j].mRunning
  BY <1>2, <1>3, <1>4, ExceptSeq
<1>6. UNCHANGED <<rows, mReceiverList, dialogs, stacked, overlapped, crashed>>
  BY <1>1 DEF Become, txVars, user
<1>7. LateExceptions'
  BY <1>6 DEF ListInv, LateExceptions
<1> QED
  BY <1>5, <1>6, <1>7, QuietStep

\* A step of the send session.
LEMMA SessionStep ==
  ASSUME ListInv, TxInv, Alive, UNCHANGED list,
         Buttons \/ \E s \in Session : RecordTask(s)
  PROVE  ListInv'
<1>1. crashed' # "no row" /\ (crashed' = "no socket" => overlapped')
  <2>1. CASE StopTxThrows
    BY <2>1 DEF StopTxThrows
  <2>2. CASE \/ StartTx \/ OpenSocket \/ OpenSocketFails \/ StopTx \/ ToggleMute
             \/ sendDtmf
    BY <2>2
    DEF Alive, StartTx, OpenSocket, OpenSocketFails, StopTx, ToggleMute, sendDtmf
  <2>3. ASSUME NEW s \in Session, SendThrows(s)
        PROVE  overlapped' /\ crashed' = "no socket"
    <3>1. ~Over(s) /\ socket = None
      BY <2>3 DEF SendThrows, Sending, Over
    <3>2. s # None
      BY DEF Session, None
    <3> QED
      BY <2>3, <3>1, <3>2 DEF TxInv, OneAlive, SendThrows, user
  <2>4. ASSUME NEW s \in Session, RecordTask(s), ~SendThrows(s)
        PROVE  crashed' \in {"none", "set-up"}
    BY <2>4
    DEF Alive, RecordTask, Turn, SetUp, SetUpThrows, Read, Send, SendDigit, DigitSent,
        SendFails
  <2>5. CASE Buttons
    BY <2>1, <2>2, <2>5 DEF Buttons
  <2>6. CASE \E s \in Session : RecordTask(s)
    <3>1. PICK s \in Session : RecordTask(s)
      BY <2>6
    <3>2. CASE SendThrows(s)
      BY <3>2, <2>3
    <3>3. CASE ~SendThrows(s)
      BY <3>1, <3>3, <2>4
    <3> QED
      BY <3>2, <3>3
  <2> QED
    BY <2>5, <2>6
<1>2. LateExceptions'
  BY <1>1 DEF LateExceptions
<1>3. UNCHANGED <<rows, mReceiverList, receivers, dialogs, stacked>>
  BY DEF list
<1> QED
  BY <1>1, <1>2, <1>3, QuietStep DEF ListInv, ListTypes

\* A new receiver and its row go to the same place, and the row is no other's.
LEMMA StartRxKeeps ==
  ASSUME ListInv, NEW row \in Row, StartRx(row)
  PROVE  ListInv'
<1>1. /\ rows \in Seq(Row) /\ receivers \in Seq(Receiver) /\ dialogs = <<>>
      /\ mReceiverList \in Seq(1 .. Len(receivers))
      /\ Len(rows) \in Nat /\ Len(receivers) \in Nat /\ Len(mReceiverList) \in Nat
  BY LenProperties DEF ListInv, ListTypes, StartRx
<1>2. PICK receiver \in ReceiverInfo(row) : receivers' = Append(receivers, receiver)
  BY DEF StartRx
<1>3. receiver \in Receiver /\ receiver.row = row
  <2>1. \E open \in BOOLEAN, task \in {"none", "first"} :
          receiver = [row |-> row, open |-> open, mRunning |-> task = "first",
                      task |-> task]
    <3>1. CASE row.address \in Bad \/ PortInUse(row)
      BY <1>2, <3>1 DEF ReceiverInfo
    <3>2. CASE ~(row.address \in Bad \/ PortInUse(row))
      BY <1>2, <3>2, Zenon DEF ReceiverInfo
    <3> QED
      BY <3>1, <3>2
  <2> QED
    BY <2>1 DEF Receiver, Stage
<1>4. /\ receivers' \in Seq(Receiver) /\ Len(receivers') = Len(receivers) + 1
      /\ \A i \in 1 .. Len(receivers) : receivers'[i] = receivers[i]
      /\ receivers'[Len(receivers) + 1] = receiver
  BY <1>1, <1>2, <1>3, AppendProperties
<1>5. /\ mReceiverList' \in Seq(1 .. Len(receivers'))
      /\ Len(mReceiverList') = Len(mReceiverList) + 1
      /\ \A k \in 1 .. Len(mReceiverList) : mReceiverList'[k] = mReceiverList[k]
      /\ mReceiverList'[Len(mReceiverList) + 1] = Len(receivers) + 1
  <2>1. mReceiverList' = Append(mReceiverList, Len(receivers) + 1)
    BY <1>4 DEF StartRx
  <2>2. mReceiverList \in Seq(1 .. Len(receivers'))
    <3>1. 1 .. Len(receivers) \subseteq 1 .. Len(receivers')
      BY <1>1, <1>4
    <3> QED
      BY <1>1, <3>1, SeqMonotonic
  <2>3. Len(receivers) + 1 \in 1 .. Len(receivers')
    BY <1>1, <1>4
  <2> QED
    BY <2>1, <2>2, <2>3, AppendProperties
<1>6. /\ rows' \in Seq(Row) /\ Len(rows') = Len(rows) + 1
      /\ \A k \in 1 .. Len(rows) : rows'[k] = rows[k]
      /\ rows'[Len(rows) + 1] = row
  BY <1>1, AppendProperties DEF StartRx
<1>7. dialogs' = <<>> /\ UNCHANGED <<stacked, overlapped, crashed>>
  BY <1>1 DEF StartRx, txVars, user
<1>8. ListTypes'
  BY <1>4, <1>5, <1>6, <1>7 DEF ListTypes
<1>9. RowsDiffer'
  <2>1. \A k \in 1 .. Len(rows) : rows[k] # row
    BY <1>1, LenProperties DEF StartRx, isExist, Range
  <2> QED
    BY <1>1, <1>6, <2>1 DEF ListInv, RowsDiffer
<1>10. DialogsFit'
  BY <1>7 DEF DialogsFit
<1>11. NonePadded' => NonePadded
  BY <1>1, <1>4 DEF NonePadded
<1>12. RowsMatch'
  <2> SUFFICES ASSUME NonePadded'
               PROVE  /\ Len(rows') = Len(mReceiverList')
                      /\ \A k \in 1 .. Len(rows') : rows'[k] = receivers'[mReceiverList'[k]].row
    BY DEF RowsMatch
  <2>1. /\ Len(rows) = Len(mReceiverList)
        /\ \A k \in 1 .. Len(rows) : rows[k] = receivers[mReceiverList[k]].row
    BY <1>11 DEF ListInv, RowsMatch
  <2>2. \A k \in 1 .. Len(mReceiverList) : mReceiverList[k] \in 1 .. Len(receivers)
    BY <1>1, ElementOfSeq
  <2>3. ASSUME NEW k \in 1 .. Len(rows')
        PROVE  rows'[k] = receivers'[mReceiverList'[k]].row
    <3>1. CASE k = Len(rows) + 1
      BY <3>1, <2>1, <1>3, <1>4, <1>5, <1>6
    <3>2. CASE k # Len(rows) + 1
      <4>1. k \in 1 .. Len(rows)
        BY <3>2, <1>1, <1>6
      <4> QED
        BY <4>1, <2>1, <2>2, <1>4, <1>5, <1>6
    <3> QED
      BY <3>1, <3>2
  <2> QED
    BY <2>1, <2>3, <1>5, <1>6
<1>13. RunningIsListed'
  <2> SUFFICES ASSUME NEW i \in 1 .. Len(receivers'), receivers'[i].mRunning
               PROVE  \E k \in 1 .. Len(mReceiverList') : mReceiverList'[k] = i
    BY DEF RunningIsListed
  <2>1. CASE i = Len(receivers) + 1
    <3>1. Len(mReceiverList) + 1 \in 1 .. Len(mReceiverList')
      BY <1>1, <1>5
    <3> QED
      BY <2>1, <3>1, <1>5
  <2>2. CASE i # Len(receivers) + 1
    <3>1. i \in 1 .. Len(receivers) /\ receivers[i].mRunning
      BY <2>2, <1>1, <1>4
    <3>2. PICK k \in 1 .. Len(mReceiverList) : mReceiverList[k] = i
      BY <3>1 DEF ListInv, RunningIsListed
    <3> QED
      BY <3>2, <1>1, <1>5
  <2> QED
    BY <2>1, <2>2
<1>14. LateExceptions'
  BY <1>7 DEF ListInv, LateExceptions
<1> QED
  BY <1>8, <1>9, <1>10, <1>12, <1>13, <1>14 DEF ListInv

\* A tap on a row while a dialog is shown is what stacks dialogs.
LEMMA TapKeeps ==
  ASSUME ListInv, NEW position \in DOMAIN rows, Tap(position)
  PROVE  ListInv'
<1>1. /\ UNCHANGED <<rows, mReceiverList, receivers, overlapped, crashed>>
      /\ dialogs' = Append(dialogs, position)
  BY DEF Tap, txVars, user
<1>2. (stacked => stacked') /\ (~stacked' => dialogs = <<>>)
  BY Zenon DEF Tap
<1>3. dialogs \in Seq(Nat \ {0}) /\ position \in 1 .. Len(rows) /\ position \in Nat \ {0}
  BY LenProperties DEF ListInv, ListTypes
<1>4. dialogs' \in Seq(Nat \ {0})
  BY <1>1, <1>3, AppendProperties
<1>5. DialogsFit'
  <2> SUFFICES ASSUME ~stacked'
               PROVE  /\ Len(dialogs') <= 1
                      /\ \A k \in 1 .. Len(dialogs') : dialogs'[k] \in 1 .. Len(rows)
    BY <1>1 DEF DialogsFit
  <2>1. dialogs' = <<position>>
    BY <1>1, <1>2
  <2> QED
    BY <2>1, <1>3
<1>6. LateExceptions'
  BY <1>1, <1>2 DEF ListInv, LateExceptions
<1> QED
  BY <1>1, <1>4, <1>5, <1>6
  DEF ListInv, ListTypes, RowsDiffer, RowsMatch, NonePadded, RunningIsListed

\* The dialogs but the one on top.
LEMMA FrontElements ==
  ASSUME NEW S, NEW s \in Seq(S), s # <<>>
  PROVE  /\ Last(s) \in S /\ Last(s) = s[Len(s)] /\ Len(s) \in Nat \ {0}
         /\ Front(s) \in Seq(S) /\ Len(Front(s)) = Len(s) - 1
         /\ \A k \in 1 .. Len(s) - 1 : Front(s)[k] = s[k]
<1>1. Len(s) \in Nat \ {0}
  BY EmptySeq
<1>2. \A k \in 1 .. Len(s) : s[k] \in S
  BY ElementOfSeq
<1> DEFINE n == Len(s) - 1
           b == SubSeq(s, 1, n)
<1>3. n \in Nat /\ \A k \in 1 .. n : s[k] \in S
  BY <1>1, <1>2
<1> HIDE DEF n
<1>4. /\ b \in Seq(S) /\ Len(b) = IF 1 <= n THEN n - 1 + 1 ELSE 0
      /\ \A k \in 1 .. n - 1 + 1 : b[k] = s[1 + k - 1]
  BY <1>3, SubSeqProperties
<1> HIDE DEF b
<1>5. Len(b) = n /\ \A k \in 1 .. n : b[k] = s[k]
  BY <1>3, <1>4
<1> QED
  BY <1>1, <1>2, <1>4, <1>5 DEF Front, Last, n, b

\* To cancel only closes a dialog.
LEMMA CancelKeeps ==
  ASSUME ListInv, Alive, Cancel
  PROVE  ListInv'
<1>1. /\ UNCHANGED <<rows, mReceiverList, receivers, crashed, overlapped>>
      /\ dialogs # <<>> /\ dialogs' = Front(dialogs)
  BY DEF Cancel, Dismiss, txVars, user
<1>2. dialogs \in Seq(Nat \ {0})
  BY DEF ListInv, ListTypes
<1>3. /\ dialogs' \in Seq(Nat \ {0}) /\ Len(dialogs') = Len(dialogs) - 1
      /\ \A k \in 1 .. Len(dialogs') : dialogs'[k] = dialogs[k]
      /\ Len(dialogs) \in Nat \ {0}
  <2>1. /\ Front(dialogs) \in Seq(Nat \ {0}) /\ Len(Front(dialogs)) = Len(dialogs) - 1
        /\ \A k \in 1 .. Len(dialogs) - 1 : Front(dialogs)[k] = dialogs[k]
        /\ Len(dialogs) \in Nat \ {0}
    BY <1>1, <1>2, FrontElements, Zenon
  <2> QED
    BY <1>1, <2>1, Zenon
<1>4. stacked => dialogs' = <<>> \/ stacked'
  BY Zenon DEF Cancel, Dismiss
<1>5. Len(dialogs') = 0 \/ stacked'
  BY <1>3, <1>4 DEF ListInv, DialogsFit
<1>6. DialogsFit' /\ LateExceptions'
  <2>1. DialogsFit'
    BY <1>5 DEF DialogsFit
  <2>2. LateExceptions'
    BY <1>1 DEF Alive, LateExceptions
  <2> QED
    BY <2>1, <2>2
<1> QED
  BY <1>1, <1>3, <1>6
  DEF ListInv, ListTypes, RowsDiffer, RowsMatch, NonePadded, RunningIsListed

\* The answer removes what its row leads to.
LEMMA ConfirmKeeps ==
  ASSUME ListInv, Alive, Confirm
  PROVE  ListInv'
<1> DEFINE p == Last(dialogs)
           q == StopsAt(rows[p])
<1>1. /\ rows \in Seq(Row) /\ receivers \in Seq(Receiver)
      /\ dialogs \in Seq(Nat \ {0}) /\ dialogs # <<>>
      /\ mReceiverList \in Seq(1 .. Len(receivers))
      /\ Len(rows) \in Nat /\ Len(receivers) \in Nat /\ Len(mReceiverList) \in Nat
  BY LenProperties DEF ListInv, ListTypes, Confirm, Dismiss
<1>2. /\ p \in Nat \ {0} /\ Front(dialogs) \in Seq(Nat \ {0})
      /\ Len(dialogs) \in Nat \ {0} /\ Len(Front(dialogs)) = Len(dialogs) - 1
  BY <1>1, FrontElements
<1>3. p \in 1 .. Len(rows) /\ (q # 0 => ~Unresolved(mReceiverList[q]))
  <2>1. p <= Len(rows) /\ ~(q # 0 /\ Unresolved(mReceiverList[q]))
    BY DEF Confirm, Throws, Answered
  <2> QED
    BY <1>1, <1>2, <2>1
<1>4. q = 0 \/ q \in 1 .. Len(mReceiverList)
  BY StopsAtFirst DEF ListInv
<1>5. /\ rows' = RemoveAt(rows, p) /\ dialogs' = Front(dialogs)
      /\ UNCHANGED <<overlapped, crashed>>
      /\ q = 0 => UNCHANGED <<receivers, mReceiverList>>
      /\ q # 0 => /\ receivers' = Stopped(mReceiverList[q])
                  /\ mReceiverList' = RemoveAt(mReceiverList, q)
  BY DEF Confirm, Dismiss, StopRx, Answered, Without, txVars, user
<1>6. NonePadded => q = p
  BY <1>1, <1>3, RowIsFound DEF ListInv
<1> HIDE DEF p, q
<1>7. /\ rows' \in Seq(Row) /\ Len(rows') = Len(rows) - 1
      /\ \A k \in 1 .. Len(rows) - 1 : rows'[k] = IF k < p THEN rows[k] ELSE rows[k + 1]
  BY <1>1, <1>3, <1>5, RemoveAtElements
<1>8. /\ receivers' \in Seq(Receiver) /\ Len(receivers') = Len(receivers)
      /\ \A i \in 1 .. Len(receivers) :
           /\ receivers'[i].row = receivers[i].row
           /\ receivers'[i].mRunning => receivers[i].mRunning
           /\ q # 0 /\ i = mReceiverList[q] => ~receivers'[i].mRunning
  <2>1. CASE q = 0
    BY <2>1, <1>1, <1>5
  <2>2. CASE q # 0
    <3> DEFINE stopped == mReceiverList[q]
               changed == [receivers[stopped] EXCEPT !.mRunning = FALSE]
    <3>1. stopped \in 1 .. Len(receivers) /\ receivers[stopped] \in Receiver
      BY <2>2, <1>1, <1>4, ElementOfSeq
    <3>2. /\ changed \in Receiver /\ changed.row = receivers[stopped].row
          /\ ~changed.mRunning
      BY <3>1 DEF Receiver
    <3>3. receivers' = [receivers EXCEPT ![stopped] = changed]
      BY <2>2, <1>5 DEF Stopped
    <3> HIDE DEF stopped, changed
    <3>4. /\ receivers' \in Seq(Receiver) /\ Len(receivers') = Len(receivers)
          /\ \A i \in 1 .. Len(receivers) :
               receivers'[i] = IF i = stopped THEN changed ELSE receivers[i]
      BY <1>1, <3>1, <3>2, <3>3, ExceptSeq
    <3> QED
      BY <3>2, <3>4 DEF stopped
  <2> QED
    BY <2>1, <2>2
<1>9. /\ mReceiverList' \in Seq(1 .. Len(receivers'))
      /\ q # 0 =>
           /\ Len(mReceiverList') = Len(mReceiverList) - 1
           /\ \A k \in 1 .. Len(mReceiverList) - 1 :
                mReceiverList'[k] = IF k < q THEN mReceiverList[k] ELSE mReceiverList[k + 1]
  <2>1. CASE q = 0
    BY <2>1, <1>1, <1>5, <1>8
  <2>2. CASE q # 0
    <3>1. q \in 1 .. Len(mReceiverList) /\ mReceiverList' = RemoveAt(mReceiverList, q)
      BY <2>2, <1>4, <1>5
    <3>2. mReceiverList \in Seq(1 .. Len(receivers'))
      BY <1>1, <1>8
    <3> QED
      BY <3>1, <3>2, RemoveAtElements
  <2> QED
    BY <2>1, <2>2
<1>10. ListTypes'
  BY <1>2, <1>5, <1>7, <1>8, <1>9 DEF ListTypes
<1>11. RowsDiffer'
  <2> SUFFICES ASSUME NEW j \in 1 .. Len(rows) - 1, NEW k \in 1 .. Len(rows) - 1,
                      rows'[j] = rows'[k]
               PROVE  j = k
    BY <1>7 DEF RowsDiffer
  <2>1. ASSUME NEW i \in 1 .. Len(rows) - 1
        PROVE  \E a \in 1 .. Len(rows) :
                 /\ rows'[i] = rows[a]
                 /\ i < p => a = i
                 /\ i >= p => a = i + 1
    <3>1. CASE i < p
      <4>1. i \in 1 .. Len(rows) /\ rows'[i] = rows[i]
        BY <3>1, <1>1, <1>7
      <4> QED
        BY <3>1, <4>1, <1>3
    <3>2. CASE i >= p
      <4>1. i + 1 \in 1 .. Len(rows) /\ ~(i < p)
        BY <3>2, <1>1, <1>3
      <4>2. rows'[i] = rows[i + 1]
        BY <4>1, <1>7
      <4> QED
        BY <3>2, <4>1, <4>2
    <3> QED
      BY <3>1, <3>2, <1>3
  <2>2. PICK a \in 1 .. Len(rows) : rows'[j] = rows[a] /\ (j < p => a = j)
                                    /\ (j >= p => a = j + 1)
    BY <2>1
  <2>3. PICK b \in 1 .. Len(rows) : rows'[k] = rows[b] /\ (k < p => b = k)
                                    /\ (k >= p => b = k + 1)
    BY <2>1
  <2>4. a = b
    BY <2>2, <2>3 DEF ListInv, RowsDiffer
  <2> QED
    BY <2>2, <2>3, <2>4, <1>3
<1>12. DialogsFit'
  <2>1. stacked => dialogs' = <<>> \/ stacked'
    BY Zenon DEF Confirm, Dismiss
  <2>2. Len(dialogs') = 0 \/ stacked'
    BY <2>1, <1>2, <1>5 DEF ListInv, DialogsFit
  <2> QED
    BY <2>2 DEF DialogsFit
<1>13. RowsMatch'
  <2> SUFFICES ASSUME NonePadded'
               PROVE  /\ Len(rows') = Len(mReceiverList')
                      /\ \A k \in 1 .. Len(rows') : rows'[k] = receivers'[mReceiverList'[k]].row
    BY DEF RowsMatch
  <2>1. NonePadded
    BY <1>8 DEF NonePadded
  <2>2. /\ q = p /\ Len(rows) = Len(mReceiverList)
        /\ \A k \in 1 .. Len(rows) : rows[k] = receivers[mReceiverList[k]].row
    BY <2>1, <1>6 DEF ListInv, RowsMatch
  <2>3. \A k \in 1 .. Len(mReceiverList) : mReceiverList[k] \in 1 .. Len(receivers)
    BY <1>1, ElementOfSeq
  <2>4. q # 0
    BY <2>2, <1>3
  <2>5. ASSUME NEW k \in 1 .. Len(rows')
        PROVE  rows'[k] = receivers'[mReceiverList'[k]].row
    <3>1. CASE k < p
      <4>1. k \in 1 .. Len(rows) /\ k \in 1 .. Len(rows) - 1
        BY <1>1, <1>7
      <4>2. rows'[k] = rows[k] /\ mReceiverList'[k] = mReceiverList[k]
        BY <3>1, <4>1, <2>2, <2>4, <1>7, <1>9
      <4> QED
        BY <4>1, <4>2, <2>2, <2>3, <1>8
    <3>2. CASE k >= p
      <4>1. k + 1 \in 1 .. Len(rows) /\ k \in 1 .. Len(rows) - 1 /\ ~(k < p)
        BY <3>2, <1>1, <1>3, <1>7
      <4>2. rows'[k] = rows[k + 1] /\ mReceiverList'[k] = mReceiverList[k + 1]
        BY <4>1, <2>2, <2>4, <1>7, <1>9
      <4> QED
        BY <4>1, <4>2, <2>2, <2>3, <1>8
    <3> QED
      BY <3>1, <3>2, <1>1, <1>3, <1>7
  <2> QED
    BY <2>2, <2>4, <2>5, <1>7, <1>9
<1>14. RunningIsListed'
  <2> SUFFICES ASSUME NEW i \in 1 .. Len(receivers), receivers'[i].mRunning
               PROVE  \E k \in 1 .. Len(mReceiverList') : mReceiverList'[k] = i
    BY <1>8 DEF RunningIsListed
  <2>1. receivers[i].mRunning /\ (q # 0 => i # mReceiverList[q])
    BY <1>8
  <2>2. PICK k \in 1 .. Len(mReceiverList) : mReceiverList[k] = i
    BY <2>1 DEF ListInv, RunningIsListed
  <2>3. CASE q = 0
    BY <2>2, <2>3, <1>5
  <2>4. CASE q # 0 /\ k < q
    <3>1. k \in 1 .. Len(mReceiverList) - 1
      BY <2>2, <2>4, <1>1, <1>4
    <3> QED
      BY <3>1, <2>2, <2>4, <1>9
  <2>5. CASE q # 0 /\ k > q
    <3>1. k - 1 \in 1 .. Len(mReceiverList) - 1 /\ ~(k - 1 < q) /\ (k - 1) + 1 = k
      BY <2>2, <2>5, <1>1, <1>4
    <3> QED
      BY <3>1, <2>2, <2>5, <1>9
  <2> QED
    BY <2>1, <2>2, <2>3, <2>4, <2>5, <1>1, <1>4
<1>15. LateExceptions'
  BY <1>5 DEF Alive, LateExceptions
<1> QED
  BY <1>10, <1>11, <1>12, <1>13, <1>14, <1>15 DEF ListInv

\* A dialog that was never stacked has its row.
LEMMA ConfirmThrowsKeeps ==
  ASSUME ListInv, ConfirmThrows
  PROVE  ListInv'
<1>1. /\ UNCHANGED <<rows, mReceiverList, receivers, dialogs, stacked>>
      /\ dialogs # <<>>
      /\ crashed' = IF Last(dialogs) > Len(rows) THEN "no row" ELSE "no address"
  BY DEF ConfirmThrows, list
<1>2. ASSUME ~stacked
      PROVE  ~(Last(dialogs) > Len(rows))
  <2>1. Last(dialogs) = dialogs[Len(dialogs)] /\ Len(dialogs) \in Nat \ {0}
    BY <1>1, FrontElements DEF ListInv, ListTypes
  <2>2. Last(dialogs) \in 1 .. Len(rows) /\ Len(rows) \in Nat
    BY <1>2, <2>1, LenProperties DEF ListInv, ListTypes, DialogsFit
  <2> QED
    BY <2>2
<1>3. LateExceptions'
  BY <1>1, <1>2 DEF LateExceptions
<1> QED
  BY <1>1, <1>3, QuietStep DEF ListInv, ListTypes

\* Only SendThrows needs the session's own invariant.
LEMMA ListInvInvariant == Spec => []ListInv
<1>1. Init => ListInv
  <2> SUFFICES ASSUME Init
               PROVE  ListInv
    OBVIOUS
  <2>1. /\ rows = <<>> /\ mReceiverList = <<>> /\ receivers = <<>> /\ dialogs = <<>>
        /\ crashed = "none"
    BY DEF Init, TxInit
  <2> QED
    BY <2>1 DEF ListInv, ListTypes, RowsDiffer, DialogsFit, RowsMatch, RunningIsListed,
                LateExceptions
<1>2. TxInv /\ ListInv /\ [Next]_vars => ListInv'
  <2> SUFFICES ASSUME TxInv, ListInv, [Next]_vars
               PROVE  ListInv'
    OBVIOUS
  <2>1. CASE Alive /\ UNCHANGED list /\ (Buttons \/ \E s \in Session : RecordTask(s))
    BY <2>1, SessionStep
  <2>2. CASE \E row \in Row : StartRx(row)
    BY <2>2, StartRxKeeps
  <2>3. CASE \E position \in DOMAIN rows : Tap(position)
    BY <2>3, TapKeeps
  <2>4. CASE Alive /\ (Cancel \/ Confirm \/ ConfirmThrows)
    BY <2>4, CancelKeeps, ConfirmKeeps, ConfirmThrowsKeeps
  <2>5. CASE \E i \in DOMAIN receivers : Threads(i)
    BY <2>5, ThreadsKeep
  <2>6. CASE UNCHANGED vars
    BY <2>6
    DEF vars, txVars, user, list, ListInv, ListTypes, RowsDiffer, DialogsFit, RowsMatch,
        NonePadded, RunningIsListed, LateExceptions
  <2> QED
    BY <2>1, <2>2, <2>3, <2>4, <2>5, <2>6 DEF Next
<1> QED
  BY <1>1, <1>2, TxInvInvariant, PTL DEF Spec

-----------------------------------------------------------------------------
\* With no address that is spelled in two ways, each row of the list view is the receiver
\* at its place, for any sets of addresses, taps and dialogs: what StartRx appends and the
\* answer of a dialog removes (StopRx of media/AudioStreamerImpl.java, ListAdapter).
THEOREM ListsAgree == Spec => []RowsAreReceivers
<1>1. ListInv => RowsAreReceivers
  BY Meanings DEF ListInv
<1> QED
  BY <1>1, ListInvInvariant, PTL

\* With no such address, a receiver that is told to run has a row to tap: StopRx tells
\* whatever it removes to stop, and the adapter removes the row of the same receiver.
THEOREM PlayersCanBeDeleted == Spec => []PlayersHaveRows
<1>1. ListInv => PlayersHaveRows
  BY Meanings DEF ListInv
<1> QED
  BY <1>1, ListInvInvariant, PTL

\* RecordTask finds no socket to send on only if StartTx was pressed over a living task,
\* and a dialog finds no row only if it was not the only one.
THEOREM LateExceptionsExplained == Spec => []LateExceptions
<1>1. ListInv => LateExceptions
  BY DEF ListInv
<1> QED
  BY <1>1, ListInvInvariant, PTL
=============================================================================
