# AudioStream in TLA+

AudioStream is an Android program that sends and receives G.711 audio over RTP. It holds
two engines. The *native engine* (`app/src/main/cpp`, with its Java face in
`.../audiostream/rtp`) is a C++ RTP stack with its own threads, jitter buffer and DTMF;
the *Java engine* (`.../audiostream/media`) does the same with Java sockets and threads,
and is the one the activity (`MainActivity`) drives. Nothing in the repository calls the
`rtp` classes: they are an API for a program we do not have, so the modules let that program
call them in any order, and histories note the calls after which less can be promised.

Paths below are relative to `app/src/main` (`cpp/...`) and to
`app/src/main/java/com/example/yangli/audiostream` (`media/...`, `rtp/...`).

## 1. Inventory

| component | state | operations | works with | hard behaviour | correct if |
|---|---|---|---|---|---|
| Jitter buffer (`cpp/AudioStream.cpp:37-88`) | slots, lengths, head, tail | obtainBuffer, pushBack, popFront, empty | called by the receive path, which keeps reading the slot it popped | a full ring next to a lent slot; wrapping | a FIFO that never hands out the lent slot |
| Native receive path (`:412-510`, `cpp/RtpSocket.cpp:85-119`) | jitter buffer, deadline, socket queue | decode, getPacketFromJB, receive | Receiver thread, kernel, AudioTrack, stop from another thread | time-outs, interrupted receives, overload, stop at any place | audio in order and once; losses are the latest and only when full; stop gets through |
| Native stream lifecycle (`:138-190`, `:252-311`, `:523-616`) | gNative, state of the two devices, two thread objects | prepare, start/stop in two directions, release | JNI calls against Sender and Receiver, which stop their own device on failure | no lock: a failing thread against start, stop, release | no thread outlives release; calls return |
| Native send path and DTMF (`:283-295`, `:313-410`) | sequence, timestamp, next and current digit, duration, lock, time of the last packet | encode, adjustMicGain, sendDtmf | Sender thread, application, clock | digits set within a frame or 200 ms, session ending under sendDtmf, wrapping counters, a 32-bit clock that wraps or is set | one event per digit, timestamps count samples, no digit in a later session; audio not in bursts, and not delayed for ever |
| Native codecs (`cpp/G711Codec.cpp`) | none | encode, decode | encode, decode | ends of the 16-bit range, joins of segments | faithful, monotone |
| RtpSocket (`cpp/RtpSocket.cpp`, `rtp/RtpSocket.java`) | fd, local and remote address, in-use flag | create, associate, occupy, vacate, release, send, receive | streams | failing calls, 16-bit wrap | an even port, no leak |
| Stream objects (`rtp/AudioStream.java`) | socket, codec, payload types | constructor, setCodec, setDtmf, prepare, start/stop, close, release, finalize | sockets, other streams, other threads, the collector | close() is three calls; repeated calls | one user per socket; closed is quiet |
| Java receive pipeline (`media/AudioStreamerImpl.java:229-383`, `490-573`, `690-841`) | packet list, ring with two markers, write head, flags | receive, demultiplex, write, flush, notification, noise feed, stop | RtpReceiver, PlayTask, noise thread, callback, UI | four threads; notifications that only come while something plays | samples once and in order, playback never dries up, it ends |
| Mixer (`media/Demultiplex.java`) | frames per source, growing buffer | push, getMixedData | PlayTask | sources of different length in any order, range | every sample once, in place; clipping |
| Java codecs (`media/G711*.java`) | tables | encode, decode | RecordTask, PlayTask | table widths, mirrored halves | faithful; agree with the native ones |
| Send session (`media/AudioStreamerImpl.java:130-154`, `180-228`, `385-488`; `MainActivity.java:152-204`) | current task, sockets, digit request, flags of each task, buttons | StartTx, StopTx, toggleMute, sendDtmf, run | UI thread and old tasks that still run | stop without waiting, restart over a running task, shared sockets | at most one task runs; it stops; sessions do not mix |
| RtpSender and RtpPacket (`media/AudioStreamerImpl.java:575-653`, `media/RtpPacket.java`) | header bytes and payload in one buffer, sequence, timestamp | send, sendDtmf, getters, setters | RecordTask | a buffer that serves all datagrams, numbers in bytes, failed reads | each datagram follows the last one and says what it carries |
| Receiver list (`media/AudioStreamerImpl.java:45-92`, `156-199`; `ListAdapter.java`; `MainActivity.java:129-149`, `177-193`) | receivers with sockets and players, rows, dialogs | StartRx, StopRx, add, remove, isExist | pipeline, dialog | sockets never closed; stale positions; addresses compared as texts | a row is a receiver; what was removed stops |
| RtpFactory, NoiseGenerator | volume | — | pipeline | — | — |
| JNI registration, vendored headers and libraries, tests, layouts, build files | — | — | — | — | — |

Every hazard we know of, with its line and the properties that watch it, is in
`PROJECT.json` under `hazards`; one without a property says why.

## 2. Modules

| module | models | abstract specification or proofs |
|---|---|---|
| `JitterBuffer` | class JitterBuffer | implements `PacketFifo`; `JitterBufferProofs` |
| `NativeReceiver` | the receive path; instantiates `JitterBuffer` | implements `LossyStream`; `NativeReceiverProofs`, `LossyStreamProofs` |
| `StreamLifecycle` | JNI calls against the two threads | `StreamLifecycleProofs` |
| `DtmfSender` | encode and sendDtmf | `SenderProofs` |
| `AudioPlayer`, `RxPipeline` | the player; PlayTask and RtpReceiver around it (extends it) | implements `LossyStream`; `RxPipelineProofs`, `LossyStreamProofs` |
| `SendPacing` | the jitter control of encode() | `SenderProofs` |
| `Demultiplex` | the mixer | `RxPipelineProofs` |
| `TxSession`, `MainActivity` | buttons, StartTx/StopTx and the record tasks; the activity, which extends it by the receivers, their rows and the dialogs | `MainActivityProofs` |
| `PortSearch` | create() | `RtpSocketProofs` |
| `SocketOwnership` | streams, sockets, close() | `RtpSocketProofs` |
| `G711`, `RtpSender` | four codecs and the gain; what a task puts on the wire (extends it) | |

`SenderProofs`, `RtpSocketProofs` and `RxPipelineProofs` hold the proofs of two modules each,
which belong together and share their arithmetic; this is why `SendPacing`, `PortSearch` and
`Demultiplex` have names such as `PacingSpec`, `SearchSpec` and `MixerSpec`.

Common conventions. A variable has the name of the field it models; `pc`, `at`, `stage`, `pt`
and `rr` say where a thread or a call is. An action is what happens between two places where
another thread can come in: a whole method when it holds the lock the others need, a
single step when it does not. `history` variables only feed properties. A definition
`X_Y` after the comment "Mutant:" is `Y` with a plausible mistake; no specification uses
it. It is there to show, by putting it in the place of `Y`, that a property fails when the
code is wrong (`PROJECT.json`, `mutants`).

**JitterBuffer.** `Fill(p)` is obtainBuffer, recv into the slot and pushBack, which run
without interruption in one thread; `popFront` lends a slot. `obtainBuffer` keeps one slot
free behind the head because the caller still reads it. `PacketFifo` is a bounded queue
plus the packet held by the reader; the mapping is the ring read from the head
(`queue <- Queued`) and the content of the lent slot (`held <- Held`).

**NativeReceiver.** `pc` walks through decode(): `TakeDeadline`, `Get`, the blocking
receive (`CheckDeadline`, `Recv`, `RecvTimeout`, `RecvFails`), `Pop`, `Drain` one datagram
a step, `Check`, `Write` or `WriteFails`, `Loop`; `ClockFails` is a gettimeofday() that
fails. A datagram is its place in the order of arrival and a kind: `audio`, `other` (skipped by decode()) or `blank` (zero bytes, which
recv() reports like a time-out). `Arrive` is the network; a datagram that finds the kernel
queue full is not accepted. `RecvFails` stands for EINTR and errors.

**LossyStream** is what both receive paths promise, abstractly: a FIFO between the network
and the speaker which may lose a stretch anywhere, at its entry or later, but neither
repeats nor reorders. For `NativeReceiver` an item is a datagram, named by its place in the
order of arrival; what is pending is spread over the kernel queue, the jitter buffer and the
lent slot, in this order from the back (`pending <- Numbers(InDecode \o Queued \o sock)`).
For `RxPipeline` an item is a sample, and a packet brings FrameSize of them: pending are the
ring, the batch in PlayTask's hands and the packet list; a packet that is not listed is
skipped.

**StreamLifecycle.** One JNI call runs at a time (the Java methods are synchronized), cut
where a thread can come in: `Start`, `StartDevice`, `RunThread`, `UndoStart`; `Stop`,
`CheckStop`, `AwaitThread`, `StopDevice`; `Release` does the stops and `Free`. A thread is
in its loop (`turn`), in encode() or decode() (`body`), about to stop its device
(`failed`), or leaving. android::Thread is external and modelled from its use: run()
refuses while mRunning, requestExitAndWait() sets mExitPending and waits for mRunning to
be cleared. The model found why `mTrack.start()` must be checked (run `track_start_fails`).

**DtmfSender.** sendDtmf() is cut at the read of `stopped()`, the lock and the store;
encode() at the read of the frame, the lock, the exchange and the packet. A digit is the
number of its call. The clock counters have `SeqMod` and `TsMod` values so that they wrap,
and start at any of `FirstSequences` and `FirstTimestamps`, where the code reads random
bytes. `SampleClock` counts the packets of a digit (`EventSoFar`), because they all carry the
time of the first one, and allows for frames that were numbered and not sent.

**AudioPlayer and RxPipeline.** The player's monitor makes write, flush, stop and the
callback atomic, except that the callback writes a wrapped region in two steps while it
holds the monitor (`rest`), and that PlayTask reads the play position without it. A sample
is its number, so order and loss are visible. The AudioTrack is external: it plays
(`PlaySample`) and makes a notification due every FrameSize samples, at most `MaxDue`
waiting. Samples of noise are only counted. Nothing bounds the packet list or what PlayTask
writes at once, and write() does not look for room: `Overruns` and `Throws` say when samples
not yet played are written over and when arraycopy() throws, which ends the process
(`pt = "thrown"`); a callback that is then asked for more than the array holds gets an error
code, which moves its marker. `overrun` remembers the first write without room.

**Demultiplex.** `push` lists frames, `Mix` starts getMixedData, `AddSource` is one turn of
its loop in any order, `Clip` the conversion. Floats of the code are exact multiples of
1/32768, so integers replace them; the cast is towards zero and wraps.

**SendPacing.** The part of encode() that looks at the clock, between the codec and
send(). Time passes in ticks (`Tick`), whether the Sender is ready or not; `late` and `slip`
count what it missed before and after it looked at the clock, because only the latter can
make two packets leave close to each other. `interval` is the difference as a signed word,
as the code computes it. Encoding takes a tick, so that a packet that is not late comes a
little after its frame. `debt` is a leaking bucket that makes "no burst" a matter of one
state: `NeverEarly` bounds it over any stretch of the session. A digit takes a frame from
the microphone and is not paced.

**TxSession.** A session is a successful StartTx; it names its task and socket. StartTx is
cut between the clearing of the socket fields and the new socket, because old tasks read
these fields. A step of a task is its set-up, a read, a datagram, a look at a flag. `Stray` is
a multicast socket whose joinGroup failed after it was assigned. `crashed` names the exception
that has ended the process: Stop without a task (before the first start, or after one that
failed), a set-up that throws (a port above 65535, a recorder that does not start), a task
without a socket. `overlapped` remembers that Send was pressed while an old task still ran.

**MainActivity.** A receiver is what ReceiverInfo holds: its row, its open socket, the flag
and the place of its PlayTask; RxPipeline is what happens inside one.
`StartRx` and `Confirm` are whole handlers of the UI thread. A dialog is modal, but a second
tap may be in the queue before it covers the list, hence a stack of at most two. An address
is unicast, multicast, `Padded` (a spelling with leading zeros, which the filter of the
field admits and `InetAddress.toString()` does not give back) or `Bad` (also admitted, such
as "1.2", and not resolved: the exception leaves a ReceiverInfo without address). A port
may be shared by multicast sockets only; joinGroup may fail, and a socket may be refused
whoever has its port. `Collect` is the finalizer of a socket: nothing else closes one. Two
more exceptions are of the dialog: no row at its position, a null address. `stacked` remembers
that one of the dialogs now shown was not alone.

**RtpSender.** The header is the function of the twelve bytes; `set` and `get` shift as the
code does, and each setter changes it in place, for one buffer serves all datagrams. The
rest of the buffer is only what kind of payload it holds. `OddCounts` are the reads that
give no full frame, errors among them: the code passes them on. The wire keeps the last
datagram, for the properties.

**PortSearch.** One action for each system call of create(), and `Advance` for a turn of
the inner loop.

**SocketOwnership.** Synchronized methods are atomic; close() is three actions of a thread.
The classes do not look whether a stream is closed, so close() may be called again
(`closedAgain`) and a direction it has stopped (`passed`) started anew (`revived`).
`MCSocketOwnership` adds the symmetry of threads, streams and sockets.

**G711.** Operators of one sample, which `RtpSender` walks through all samples, one a frame.
The Java tables are defined by what the loops put into them, `^ 0x55` with `Bitwise`.

## 3. What is checked

One run for each module that has behaviour of its own; each checks the safety and the
liveness of its module together. Passing runs, with what they show and why the bounds
suffice:

| run | question | bounds |
|---|---|---|
| `jitter_buffer` | cursors, lent slot, refusals, FIFO | SIZE 4 of 6, two packets: all cursor pairs and lent slots, every wrap |
| `native_receiver` | order (the refinement), accounting, who is dropped; when the traffic ends, stop terminates and nothing stays | SIZE 3, kernel queue 2, 4 datagrams of 3 kinds: the ring takes two beside the packet it lends, so ring and queue both overflow; a restart; a failing receive |
| `stream_lifecycle` | release, devices, reset, calls return | no bound: the state is finite |
| `dtmf_sender` | one event, clock, session | a digit lasts 3 frames (rate 30, frames of 2); 3 digits, 6 frames, 2 sessions; sequence mod 8, timestamp mod 16 |
| `rx_pipeline` | order (the refinement), loss, markers; listed packets move, silence at the end | a ring of 7 samples and frames of 2, so that frames straddle its end; 4 frames and the noise go around it more than once, and a batch can find no room. The exception of arraycopy() and the refused rest of the callback need longer batches than 4 frames and are only in the proofs |
| `demultiplex` | every sample of every source | 3 frames over 3 sources, extreme and middle volumes |
| `send_pacing` | no burst, no backlog, the delay converges | a frame of 5 ticks, so an interval of 4; a clock of 24 ticks that starts anywhere, so it wraps within five frames; 6 ticks late, more than a frame; the clock set once, a digit packet |
| `main_activity` | no task escapes Stop; own socket unless sessions overlap; rows and receivers agree, players have rows; the causes of late exceptions; what was stopped ends | 2 sessions, so an old task beside the current one; 2 receivers over an address of each kind and one port, so that they compete for it; 2 dialogs; a digit of one datagram |
| `port_search` | what create() promises, a fresh port each time, an end | 64 ports of which 8 are privileged, all tries: every chosen port |
| `socket_ownership` | one user, no socket lost, datagrams apart: what a second close() and a start after close() can do, and what they cannot | 3 streams, 2 sockets, 2 threads: a stream that is closed again frees the socket of the next, and a third one takes it; the other socket shows that this does not spread |
| `rtp_sender` | codecs and gain faithful, codecs monotone; datagrams in sequence, headers true | all 65536 samples, one a frame, so that the sequence wraps; a digit of six datagrams and a read that fails or is short, two of these together anywhere. The timestamp does not come to its own wrap at 2^32 |

One run fails on purpose, because the code does something else than the repository says:
`track_start_fails`. AudioTrack does not start, the Receiver runs all the same, no stop waits
for it, and release() deletes its stream.

Deadlock is checked in `jitter_buffer`, `stream_lifecycle`, `track_start_fails` and
`send_pacing`. The others stop by their bounds or because the component is done (all streams
collected, the search ended, the process crashed), and say `CHECK_DEADLOCK FALSE`.

**Fairness.** Weak fairness of a thread or of a call that has begun: the scheduler runs it.
Weak fairness of the clock (`DeadlinePasses`, `Tick`) and of the track (`PlaySample`). In
`MainActivity` a RecordTask takes its turns, for AudioRecord gives a frame every 10 ms, and a
PlayTask in its loop comes to its test; `Hear` has no fairness, since it needs a datagram.
`StoppedEnds` says "time and again", not "leads to", since the user may stop and remove for
ever. One strong
fairness, `CheckDeadline /\ ~expired` in `NativeReceiver`: a thread of audio priority is
not late by a whole interval at every single decode(); without it each receive returns at
once and nothing is ever read. Liveness of the pipeline presumes that a write of a plain
boolean field (`mRunning`) becomes visible to the other thread, which the Java memory model
does not promise for a field that is not volatile but every loop here, with system calls or
monitors in its body, gives in practice. Nothing is assumed of failures or of the user: no
datagram need arrive, no button be pressed. One thing is assumed of the network, in
`StopTerminates` and `EverythingSettles`: that its traffic ends (`TrafficEnds`; in the run
`MaxArrivals` ends it). Without it both are false of the code (section 5). `CallsReturn` of
`StreamLifecycle` takes a whole encode() or decode() as one turn that ends, and so rests on
`StopTerminates`.

**Assumptions of a module** are its named ASSUMEs. One deserves a remark. `PortAssumption`:
fewer tries than ports, as in the code (1000 of 32256). A theorem that needs more of a constant
says so as its hypothesis: `PortsAreNew` that the ports are a power of two (`PortsOfTheCode`:
65536 is one), those on devices which of them may fail to start. What depends on the course of
things is a condition in the property itself, on a history: `overrun` in `ImplementsStream`,
`NothingLost` and `ListedIsPlayed`; `closedAgain` and `revived` in `SoleUser`, `InUseIsHeld` and
`DatagramsApart`; `overlapped` and `stacked` in `SendsOnOwnSocket` and `LateExceptions`.

Types are not among the runs' properties: a wrong type shows in the others. `JitterBuffer`
and `SocketOwnership` state them as `TypeOK`, which their proofs need; the other proofs state
the types they need in their invariants.

## 4. What is proved

`JitterBufferProofs`, for every SIZE >= 2 and every set of packets:
`JitterBufferTypeOK`, `LentSlotReserved`, `FullIsExact` and `RingImplementsFifo`
(`JBSpec => Fifo!Spec`). The inductive invariant is `JBInv == TypeOK /\ LentIsReserved`:
types alone do not say that the lent slot is the one behind the head, which is what keeps
`Fill` away from it. The refinement goes through three lemmas on how `Queued` changes under
a fill (append), a pop (tail) and not at all when the ring refuses.

`RtpSocketProofs` on `SocketOwnership`, for any numbers of threads, streams, sockets and remotes
and any program: `SocketHasSoleUser`, `NoSocketIsLost`, `DatagramsStayApart` and
`UsedSocketsAreAssociated`. The invariants of the run are not inductive. `PassedKnown` says what
close() has stopped by where it is. `OneCloser`: a stream that is not closed again has at most
one thread in close() and none when it is closed, so that `vacate` takes back its own mark.
`StaysStopped`: a direction that close() has passed stays stopped unless it is started.
`Constructed`: a stream was built on an associated socket. That what a second close() does to
one socket leaves the others alone is in the statements, which speak of one socket each.
`UsedSocketsAreAssociated` is only proved, no run repeats it.

`LossyStreamProofs`: `StreamInOrder`, for packets of any size and any losses, says what
implementing `LossyStream` is good for: played and pending items together are increasing
(`InOrder`). The invariant `StreamInv` takes this apart (each sequence increasing, all of
one below all of the other) and adds that no item is above the last that arrived, without
which the next packet could repeat one. That it holds at first, is kept by a step and implies
`InOrder` are lemmas of their own (`StreamInvAtFirst`, `StreamInvStep`, `StreamInvOrders`),
because the Java pipeline takes the steps of the stream only until its ring is written over.
Its other lemmas are about concatenations and parts of
increasing sequences. That the native receive path and the Java pipeline implement
`LossyStream` is proved below.

`NativeReceiverProofs`, for every SIZE >= 2, every capacity of the kernel queue and any
numbers of datagrams, restarts and interrupts (`ReceiverAssumption`):
`ReceiverImplementsStream`, `ReceiverDropsTheLatest`, `ReceiverForgetsNothing`. The argument
has four layers. The ring is used only through what `JitterBufferProofs` says of it: a fill
appends to `Queued`, a pop takes its head into the lent slot, a full ring refuses. `WorkInv`
says where decode() is: the invariant of the ring, the types of the kernel queue and of the
stream that was played, and that the lent slot holds a packet while one is being decoded. With that
each step of the receiver is a step of `LossyStream` or a stutter, and by
`StreamInOrder` the datagrams in all places are in the order of arrival: this is what makes
the datagram that a full ring drops the latest. `PlaceInv` follows each datagram instead; it
adds to the property that whatever is in a place has the number of a datagram that has
arrived, so that the next one to arrive is in none of them yet. That a place does not hold a
datagram twice, so that what moves on leaves nothing behind, comes from the order.

`StreamLifecycleProofs`, for any set of devices that may fail to start but the AudioTrack:
`ReleaseLeavesNoThread`, `DevicesAreServed`, `ResetsAreExclusive`. The hypothesis
`"receiving" \notin FailingStart` is what the code relies on and does not check; the run
`track_start_fails` shows that it cannot be dropped. The three properties come from one
invariant, `LifecycleInv`: `RunningIsExact` (mRunning is what Thread::run() will see),
`OnlyStopsAsk` (mExitPending only under a stop that waits) and `CallKnows` (what the call
under way has found out stays true until it acts on it, though a failing thread may stop its
device in between).

`SenderProofs` on `DtmfSender`, for every frame size, every rate above it, every width of the counters
and every value they start at (`FrameAssumption`, `ClockAssumption`): `DigitIsOneEvent`,
`TimestampsCountSamples`, `NoDigitOutlivesItsSession`. The properties speak of packets that
were sent; the invariant says what of them the Sender still knows. `DigitsAreNew` and
`DigitsGoOut` order the digits on their way: that of the call, the one that waits, the one
being sent, those sent. `EventGoesOn` ties sequence number, timestamp, duration and length of
a started event to the next packet, and `PacketsOnClock` each packet to the counters as they
are now; a frame that has a number and no packet yet (`Numbered`) is on the account of both.
Lemmas on residues carry this over the wraps. `DigitsAreOfSession` is all that the third
theorem needs.

`SenderProofs` on `SendPacing`, for every frame, every clock wider than four of them, every
value it starts at and any delays: `AudioIsPaced` and `PacingKeepsUp`. `NeverEarly` bounds the
debt by mInterval times one more than the number of times the clock was set, plus `slip`, the
ticks the Sender was late after it had looked at the clock. It says nothing of the clock
itself, on which the code decides. `DebtInv` relates the two:
before the Sender looks at the clock (`BeforeLook`), either there is room for one more packet,
so that it does not matter what the clock says, or the clock is right: it has advanced by as
much as was leaked since the last packet (`Tracks`), modulo the word. Afterwards (`AfterLook`)
the same holds for what will be when the rest has been slept. A clock that was set tells
nothing, but each time it was set is worth one packet more in `Allowed`. `IntervalIs` shows
what the signed difference of two words, which encode() computes, says of the time that
passed, across a wrap of the clock too. `NoBacklog` follows from `BacklogInv`: what is
recorded and unread, and what is left to sleep, is never more than what the Sender was late by, plus a frame.

`MainActivityProofs`, for any numbers of sessions, receivers, dialogs and addresses of each
kind: `NoTaskEscapesStop` and `SessionsDoNotMix` of the send session, `ListsAgree` and
`PlayersCanBeDeleted` of the receivers, `LateExceptionsExplained` of both. The invariant of the
session is `TxInv`. `OneSession`
needs that StartTx, once it has begun, finds the buttons as they were (`StartsFromIdle`).
`SendsOnOwnSocket` needs `OneAlive`: unless sessions overlapped, a task that is alive is the
current one, on its own socket, and none is alive while StartTx is under way. A step of a task
then uses no foreign socket. The receivers share nothing with the session but `crashed`.
The invariant of the receivers is `ListInv`. `RowsMatch` says what `RowsAreReceivers` does
by the lengths of the two lists and place by place. Together with `RowsDiffer` (StartRx
refuses an address and port that is listed) it gives the lemma `RowIsFound`: the loop of
StopRx, which compares texts, stops at the position the dialog had, so that both lists lose
the same place, or before it at a receiver whose address was not resolved, where it throws
and neither list changes. `RunningIsListed` needs none of this: StopRx stops whichever it
removes, so that a receiver that runs is in the list, with padded addresses too, though no row
may lead to it then. With `RowsMatch` it has a row. For `LateExceptions`, unless dialogs were
stacked there is one, whose position is in the list (`DialogsFit`), and `OneAlive` has the
socket of a task that is alive.

`RtpSocketProofs` on `PortSearch`, for every even number of ports and any even bound of the
privileged ones: `CreateKeepsPromise`. The invariant `SearchInv` says which sockets are open
at each place and that port and step stay even; a sum keeps its parity when it wraps at an
even width. If the number of ports is a power of two, also `PortsAreNew`: no port is tried
twice. The search walks by twice an odd number, `Walk(c, n)` after n turns, and comes back to
a port only after half of all ports, because an odd factor cancels modulo a power of two
(`OddsCancel`). `WalkInv` counts: each port it came by was refused, is privileged or is the
one to try; the even privileged ports and the tries are together fewer than half of all ports
(`PortAssumption`), so that the walk is never that long. The induction over the number of
bits is one over the least set that holds 1 and the double of each member (`PowersOfTwo`).

`RxPipelineProofs` on `RxPipeline`, for every size of the ring, the frames, the noise and the
track and any numbers of datagrams (`PlayerAssumption`, `ArrivalsAssumption`), in the list and
in a batch too:
* `WriteHeadIsTheEnd` and `ReleasedTrackIsQuiet`, from the invariant `Throughout`. Two of its
  parts hold whatever happens: what PlayTask knows of the player (`TaskInv`: the write head is
  the end marker wherever it is used, and nothing plays after stop), and the datagrams, which
  come and are listed in the order of their numbers (`PacketInv`). The third, the ring
  (`RingInv`: it is not over-full, and holds a whole frame or nothing unless a wrapped region is
  half written), holds until PlayTask writes what there is no room for, which the code does not
  prevent since its wait in write() was commented out.
* `NothingLostBetween` and `PipelineImplementsStream`, up to that write (`overrun`, which never
  ends: `OverrunStays`). Both rest on `WaitingSteps`: what lies
  in the ring, in PlayTask's hands and in the packet list, one behind the other, stays the
  same in every step but three. A packet that is listed is appended, samples that are played
  go from its head to the track, and a flush drops a part of it. The work is in the ring:
  `WriteAppends` and `WriteOutMoves` show that write() in up to two parts and the callback in
  one or two do this to `Buffered`, wherever the markers stand and wrap (`Region`, `Written`).
  Then each step is one of `LossyStream` or a stutter (`StreamMoves`), and `PipelineInOrder`
  draws the conclusion with `StreamInvStep`: until then the speaker gets increasing samples.

`RxPipelineProofs` on `Demultiplex`, for any sources, frame size, volumes and number of
frames: `EverySourceIsMixed`. The invariant `Mixing` says what the buffer is in the loop: as
long as the longest source so far and, sample by sample, the sum of the sources the loop has
passed. That the order does not matter comes from how a fold over a set is taken apart. The
fold picks its elements by CHOOSE; by induction over the subsets of a finite set
(`SubsetInduction`) the sums of all its subsets exist, are unique and are what it computes
(`FoldSumsUp`), so that a source whose part was 0 and becomes v adds v to the total, wherever
the fold comes by it (`SumGrows`). `ClippedIs` is the division towards zero and the cast.

Only model-checked:
* all liveness, which needs fairness and with it ENABLED;
* `Faithful` and `Monotone` of the codecs and `DescribesPayload`, whose modules use
  `Bitwise`, which has recursive operators, out of reach of the provers. The runs go through
  all 65536 samples, so that nothing is left to prove of the codecs.

## 5. Not modelled, and observations

Not modelled: payload types (setCodec and setDtmf check and store two numbers, prepare()
takes them), finalization of sockets, recreation of the activity, the volume of the noise,
JNI glue, the vendored platform headers. The RTP header checks of decode() are a choice of
datagram kind. What the Java receiver makes of a header is its source and nothing else, which
`RxPipeline` and `Demultiplex` have.

Where the code and its words differ, besides the run above. The models do what the
code does in each of these, and no property asks for the other:
* Of two digits sent within a frame the first is accepted and never sent
  (`cpp/AudioStream.cpp:292` overwrites `mNextDtmfEvent`).
* A second digit replaces the one that is being sent (`cpp/AudioStream.cpp:355`), which then
  lasts less than the 200 ms of the comment at `:366`, and no packet marks its end.
* close() vacates the socket whether or not the stream still owns it
  (`rtp/AudioStream.java:54`): a second close() frees the socket of the next stream, and the
  constructor then accepts a third one on it, though it throws "if the socket is [...] already
  used by another stream" (`:39-40`). `SocketOwnership` has it: `SoleUser` fails as soon as
  `ClosedOnce` is left out.
* A stream can be started again after close() or between its calls
  (`rtp/AudioStream.java:51-54`), though "once closed, the stream stops sending and
  receiving" (`:48`); it then takes datagrams of the next user of its socket. `DatagramsApart`
  fails as soon as `revived` is left out.
* associate() changes the remote host of a socket that is associated already
  (`cpp/RtpSocket.cpp:231`), where `rtp/RtpSocket.java:104` announces an exception.
* The Java u-law gives each sample back at half its volume: `media/G711UCodec.java:69`
  indexes the table of 13-bit samples (`:36`) with the upper 12 bits.
* The Java A-law tables (`media/G711ACodec.java:39`) give positive samples the codes without
  the sign bit, the native codec those with it: each engine hears the other inverted.
* A sum clipped at the top (`media/Demultiplex.java:65-68`) is cast from 1.0f times 32768 and
  becomes the lowest sample.
* The box "Mute Mic" is never reset, while each new task starts unmuted and each click
  toggles the flag of the current task (`MainActivity.java:201`): after a restart they differ.

Also seen in the code:
* An address typed with a leading zero, which the filter of the field admits
  (`MainActivity.java:99`), is resolved but printed without it: StopRx compares texts
  (`media/AudioStreamerImpl.java:186`) and finds nothing, the row goes and its receiver plays
  on. `RowsAreReceivers` fails as soon as its condition is left out.
* An address that does not resolve ("1.2") leaves a receiver whose address is null: deleting
  its row, or any row after it, ends the program (`media/AudioStreamerImpl.java:186`).
* StopRx does not close the socket: a receiver removed before its first datagram holds its
  port for ever, any other until it has one more datagram and is collected. A unicast
  receiver added meanwhile on that port has a row and neither socket nor player.
* A dialog keeps its position; with two dialogs on the way the second deletes another row or
  throws (`MainActivity.java:138-144`).
* The bound of the gain misses a value: 4096 (native) and 2048 (Java) are neither clipped nor
  fit, and become the lowest sample (`cpp/AudioStream.cpp:325`,
  `media/AudioStreamerImpl.java:425`).
* An error of AudioRecord.read() is a negative count: the timestamp goes back by it and the
  datagram is shorter than its header (`media/AudioStreamerImpl.java:457-466`), so that the
  receiver keeps random bytes of its own packet as a part of the source.
* The packets of a digit in Java have two timestamps, 480 apart (`:603`, `:623`), and its
  receiver plays them as audio: it looks at no payload type, and decodes a whole buffer
  whatever the datagram's length (`:275`).
* Multicast receivers on one port hear each other's groups: only unicast datagrams are
  filtered by address (`:535-545`).
* The first packet of a native session has its interval measured from 0
  (`cpp/AudioStream.cpp:255`, `:401`): it is delayed if the 32-bit clock has just wrapped.
* `cpp/AudioStream.cpp:368` marks the last packet of a digit with `1 << 24` in a word that is
  already in network order: on little-endian machines that is the lowest bit of the duration
  (`WireDuration`), on others the lowest bit of the event. On neither is it the end bit.
* A flood of datagrams keeps the native Receiver from its exit: the loop that empties the socket
  (`cpp/AudioStream.cpp:495-505`) ends when a receive finds nothing, the loop that skips packets
  (`:431-471`) looks at the deadline only when the jitter buffer is empty (`:487`), and neither
  looks at the exit flag. As long as datagrams come faster than they are read, stopReceiving()
  and release() wait. `StopTerminates` fails of a network whose traffic does not end.
* Nothing bounds the packet list of the Java receiver (`media/AudioStreamerImpl.java:538`,
  `:544`), and the wait for room in write() is commented out (`:711-718`): a batch of more
  samples than are free in the ring overwrites what was not yet played, and if its second part
  is longer than the ring arraycopy() throws (`:723`), which ends the program. After an
  overrun the callback may ask the track for more than the array holds; the error code it
  gets is added to its marker (`:837`).
* Stop before the first start throws a NullPointerException, and so it does after a first start
  that failed (`media/AudioStreamerImpl.java:150`), when Stop is the only button left enabled
  (`MainActivity.java:174-176`).
* A port above 65535, which the field admits, passes StartTx and makes the RtpSender of the new
  task throw (`media/AudioStreamerImpl.java:585`), as AudioRecord does if it does not start
  (`:447`): nobody catches either.
* Send over a task that has not ended (Stop does not wait for it) lets the old task send on the
  new socket, or find none and end the program. A receiver whose port is refused, privileged
  or out of range (`:71`, `:77`) has a row and nothing else.
* A restarted Receiver plays what the jitter buffer kept from the session before.
* The JNI signature of prepare (`cpp/AudioStream.cpp:621`) names
  `com/android/sip/rtp/RtpSocket`, the Java method takes the class of this package:
  registration cannot find it.
* `media/G711ACodec.java` decodes a negative sample to the lower end of its step and rounds
  down when it codes: every further coding makes it drift.
* PlayTask ends only after a first datagram: its receive has no time-out and StopRx does not
  close the socket.
* RecordTask asks for a digit only after a frame it has sent: none while muted.

## 6. Plan

Done, in the order of importance: jitter buffer and its FIFO; receive path; lifecycle; DTMF;
Java pipeline; ownership; codecs; mixer; send session; port search; the activity with its
receivers; pacing; datagrams of the Java sender; the lossy stream that both receive paths
implement.

Next: payload types of `rtp/AudioStream.java` in `StreamLifecycle`, where prepare() is. What
can be proved of the safety properties of the runs is proved.
