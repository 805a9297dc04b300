---------------------------- MODULE MainActivity ----------------------------
(***************************************************************************)
(* The activity: the send session of TxSession beside the receivers.  The  *)
(* button Receive makes a ReceiverInfo with its socket and PlayTask        *)
(* (StartRx of media/AudioStreamerImpl.java) and a row of the list view    *)
(* (ListAdapter); a tap on a row asks "Delete?", and the answer stops the  *)
(* receiver (StopRx) and removes the row, both found again by the position *)
(* that was tapped.  All of this runs on the UI thread; the threads of a   *)
(* receiver, which RxPipeline models in full, are here no more than where  *)
(* they are and what they hold.                                            *)
(***************************************************************************)
EXTENDS TxSession, SequencesExt

CONSTANTS
  Unicast, Multicast,  \* addresses of both kinds
  Padded,              \* other spellings of unicast addresses: leading zeros
  Bad,                 \* texts that pass the filter of the field as well and that
                       \* getByName() does not resolve
  Port,
  MaxReceivers,        \* bound: receivers made
  MaxDialogs           \* bound: dialogs shown at once

VARIABLES
  rows,           \* ListAdapter.mList
  mReceiverList,  \* places in receivers
  receivers,      \* the ReceiverInfo objects made so far
  dialogs,        \* positions of the dialogs shown, the one on top last
  stacked         \* history: one of these dialogs was not alone since it was shown

list == <<rows, mReceiverList, receivers, dialogs, stacked>>
vars == <<txVars, list>>

Row == [address : Unicast \cup Padded \cup Multicast \cup Bad, port : Port]

\* How toString() spells an address.
Printed(address) ==
  IF address \in Padded THEN CHOOSE a \in Unicast : TRUE ELSE address

Listed(i) == i \in Range(mReceiverList)

Init ==
  /\ TxInit
  /\ rows = <<>> /\ mReceiverList = <<>> /\ receivers = <<>> /\ dialogs = <<>>
  /\ stacked = FALSE

-----------------------------------------------------------------------------
\* The UI thread.

isExist(row) == row \in Range(rows)

\* A port is shared by multicast sockets only.
PortInUse(row) ==
  \E i \in DOMAIN receivers :
    /\ receivers[i].open /\ receivers[i].row.port = row.port
    /\ ~({receivers[i].row.address, row.address} \subseteq Multicast)

\* What the constructor may make and start() starts: there is no PlayTask without
\* an address or a socket, or when the group cannot be joined.  The socket may also be
\* refused though no receiver has its port: it is privileged, taken by another program,
\* or the number is none of a port.
ReceiverInfo(row) ==
  LET Made(opened, task) ==
        [row |-> row, open |-> opened, mRunning |-> task = "first",
         task |-> task]
  IN  {Made(FALSE, "none")}
        \cup IF row.address \in Bad \/ PortInUse(row) THEN {}
             ELSE {Made(TRUE, "first")}
                    \cup {Made(TRUE, "none") : a \in {row.address} \cap Multicast}

\* The button Receive.
StartRx(row) ==
  /\ startEnabled /\ ~starting /\ dialogs = <<>> /\ Len(receivers) < MaxReceivers
  /\ ~isExist(row)
  /\ \E receiver \in ReceiverInfo(row) : receivers' = Append(receivers, receiver)
  /\ mReceiverList' = Append(mReceiverList, Len(receivers'))
  /\ rows' = Append(rows, row)
  /\ UNCHANGED <<txVars, dialogs, stacked>>

\* A dialog covers the list, but a second tap may already be on its way.
Tap(position) ==
  /\ ~starting /\ Len(dialogs) < MaxDialogs
  /\ dialogs' = Append(dialogs, position)
  /\ stacked' = (stacked \/ dialogs # <<>>)
  /\ UNCHANGED <<txVars, rows, mReceiverList, receivers>>

Dismiss ==
  /\ dialogs # <<>> /\ dialogs' = Front(dialogs)
  /\ stacked' = (stacked /\ dialogs' # <<>>)

Cancel == Dismiss /\ UNCHANGED <<txVars, rows, mReceiverList, receivers>>

Unresolved(i) == receivers[i].row.address \in Bad

\* The place where StopRx ends its search: that of the receiver of the row, or of one
\* whose address is null and cannot be compared.  0 when it finds neither.
StopsAt(row) ==
  SelectInSeq(mReceiverList, LAMBDA i :
    \/ Unresolved(i)
    \/ row = [receivers[i].row EXCEPT !.address = Printed(@)])

\* Mutants: the receiver is not told to stop; one without a PlayTask stays listed.
Silent_Stopped(i) == receivers
Partial_Without(place) ==
  IF receivers[mReceiverList[place]].task = "none" THEN mReceiverList
  ELSE RemoveAt(mReceiverList, place)

\* What StopRx does to the receiver and to the list.
Stopped(i) == [receivers EXCEPT ![i].mRunning = FALSE]
Without(place) == RemoveAt(mReceiverList, place)

StopRx(row) ==
  IF StopsAt(row) = 0 THEN UNCHANGED <<receivers, mReceiverList>>
  ELSE /\ receivers' = Stopped(mReceiverList[StopsAt(row)])
       /\ mReceiverList' = Without(StopsAt(row))

\* The answer of the dialog on top: the row that is at its position now.
Answered == rows[Last(dialogs)]

\* Its position is past the end of the list, or StopRx meets a null address.
Throws ==
  Last(dialogs) <= Len(rows) =>
    StopsAt(Answered) # 0 /\ Unresolved(mReceiverList[StopsAt(Answered)])

Confirm ==
  /\ Dismiss /\ ~Throws
  /\ StopRx(Answered)
  /\ rows' = RemoveAt(rows, Last(dialogs))
  /\ UNCHANGED txVars

ConfirmThrows ==
  /\ dialogs # <<>> /\ Throws
  /\ crashed' = IF Last(dialogs) > Len(rows) THEN "no row" ELSE "no address"
  /\ UNCHANGED <<user, engine, tasks, list>>

-----------------------------------------------------------------------------
\* The threads of a receiver and its finalizer.

Become(i, task, open) ==
  /\ receivers' = [receivers EXCEPT ![i].task = task, ![i].open = open]
  /\ UNCHANGED <<txVars, rows, mReceiverList, dialogs, stacked>>

\* The first datagram lets PlayTask start its RtpReceiver and enter its loop.
Hear(i) == receivers[i].task = "first" /\ Become(i, "play", TRUE)

FirstReceiveFails(i) == receivers[i].task = "first" /\ Become(i, "ended", TRUE)

PlayEnds(i) ==
  receivers[i].task = "play" /\ ~receivers[i].mRunning /\ Become(i, "ended", TRUE)

\* Nothing closes a socket but its finalizer, once list and threads let go of it: the
\* PlayTask has ended, and its RtpReceiver got one more datagram, at some time or never.
Collect(i) ==
  /\ ~Listed(i) /\ receivers[i].open
  /\ receivers[i].task \in {"none", "ended"}
  /\ Become(i, receivers[i].task, FALSE)

Threads(i) == Hear(i) \/ FirstReceiveFails(i) \/ PlayEnds(i) \/ Collect(i)

Alive == crashed = "none"

Next ==
  /\ Alive
  /\ \/ dialogs = <<>> /\ Buttons /\ UNCHANGED list
     \/ \E row \in Row : StartRx(row)
     \/ \E position \in DOMAIN rows : Tap(position)
     \/ Cancel \/ Confirm \/ ConfirmThrows
     \/ \E s \in Session : RecordTask(s) /\ UNCHANGED list
     \/ \E i \in DOMAIN receivers : Threads(i)

\* The scheduler runs each thread; nothing is assumed of the user, the network,
\* failures and the collector.
Fairness ==
  /\ \A s \in Session : WF_vars(Alive /\ Turn(s) /\ UNCHANGED list)
  /\ \A i \in 1 .. MaxReceivers :
       WF_vars(Alive /\ i \in DOMAIN receivers /\ PlayEnds(i))

Spec == Init /\ [][Next]_vars /\ Fairness

-----------------------------------------------------------------------------
\* The two lists that StartRx and the dialog change one after the other agree,
\* failed receivers included: each row is the receiver at its place, although StopRx
\* looks for an address and the adapter for a position that may be stale by then.
\* With a padded address they part: StopRx does not find it again, or finds the
\* receiver of the same address in its other spelling.
AsPrinted == \A i \in DOMAIN receivers : receivers[i].row.address \notin Padded

RowsAreReceivers ==
  AsPrinted => rows = [k \in DOMAIN mReceiverList |-> receivers[mReceiverList[k]].row]

\* No receiver goes on playing that the user cannot delete: as long as the addresses are
\* typed as they are printed, each one told to run has a row, although StopRx and the
\* adapter remove what they remove by different keys, and the dialogs may be stale.
PlayersHaveRows ==
  AsPrinted =>
    \A i \in DOMAIN receivers : receivers[i].mRunning => receivers[i].row \in Range(rows)

\* Two of the exceptions come late, in a thread or a handler that was sound when it was
\* started, and each has one cause: a RecordTask that is past its set-up finds no socket
\* only if StartTx was pressed over a living task, and a dialog finds no row at its
\* position only if another tap came while this dialog or one with it was shown.
\* (Nothing is claimed of the others: Stop before there is a task, a port or a recorder
\* with which a task cannot be set up, an address that was not resolved.)
LateExceptions ==
  /\ crashed = "no socket" => overlapped
  /\ crashed = "no row" => stacked

\* Whatever the buttons do, what was stopped ends: time and again there is no
\* stopped RecordTask left that still runs, however many digits are asked for, and no
\* removed receiver that still plays.  (One that was removed before its first
\* datagram waits for that and does not play.)
StoppedEnds ==
  []<>(\/ ~Alive
       \/ /\ \A s \in Session : mRunning[s] \/ Over(s)
          /\ \A i \in DOMAIN receivers : receivers[i].task = "play" => Listed(i))
=============================================================================
