# TCPSocket: a TLA+ model of the RDP redirector and projector

The repository holds two programs. The *redirector* (`redirector-client/`)
connects to a Windows host with FreeRDP and passes the screen, audio and device
data it receives to a *projector* (`projector/`), which feeds them to an RDP
client of its own and sends mouse, keyboard, touch and pen input back. The two
talk over TCP: one connection of RTSP-like requests on which the channels are
negotiated, and one connection per channel. Under both lies `common/utility`, a
library of worker threads, buffers and sockets, and `common/media`, a small
pipeline of sources and sinks.

The modules here model the library, the channel, the pipeline, the framing, the
negotiation of the channels and the life of the sessions: the parts where
threads, messages, cancels and shutdowns meet. Every definition that stands for
code is listed with its lines in `PROJECT.json` under `map`.

## 1. Inventory

| component | state | operations | hard behaviour | what makes it correct |
|---|---|---|---|---|
| `WaitingBuffer.h` | ring, three cancel flags, three mutexes, three condition variables | WriteTillFinish, ReadAtless, WaitTillBufferEmpty, Cancel* | notify after unlock, waits without predicate, flags read without the mutex | FIFO; calls not interleaved; no lost wakeup; short only when cancelled |
| `AsyncBase.cpp` | status, thread, two mutexes | Start, Stop, Pause, Resume, the worker's loop | status written without the mutex on an error, join while others call | no joinable thread destroyed; a stop joins; no sleeper forgotten |
| `AutoReader.cpp`, `Socket::Recv` | cancel flag | read loop, CancelRecv | a cancel is lost to the scope guard that resets the flag | a stop returns; at most one late delivery |
| `timebased_worker.cpp`, `wait_timer.cpp` | condition variable without a flag | loop, cancel, callback | lost cancel, spurious wakeup | a stop returns; at most one late tick; the timer keeps ticking |
| `AsyncWriter.cpp`, `Socket::Send` | ring, socket flag | write loop, Cancel, Close | four cancels in a row against two moving threads | close joins the worker |
| `TcpChannel.cpp` | staging buffer | Send, Flush, CancelSend, Stop | exception half-way through a message | no byte twice or out of order; a sender is released |
| `media/`, `IRdpSource.cpp`, `D2DRender.cpp`, `AudioPlayback.cpp`, `DeviceRedirecr.cpp` | pipe, alive and cancelled flags | Push, Pop, Start, Stop | one condition variable for both ends, a push during shutdown | no lost wakeup; stops return |
| `RedirectChannelFactory.cpp` | the pipelines | Setup*, DestoryAllChannel | order of the teardown | nothing used after it is freed; the teardown ends |
| `RdpStreamingParser.cpp` | stage, two buffers | Process | TCP cuts the stream anywhere; a short send takes bytes out of it | the messages sent whole are the messages delivered |
| `rtsp/`, `ProjectorAgent.cpp` | CSeq, pending requests, heart beat, watch dog | Send, OnReceive, Setup* | CSeq shared by two threads, time-outs against late answers | a response goes to its request; each accepted connection is the channel it was opened for |
| `Session.cpp`, `SessionManager.cpp`, `projector/main.cpp` | sessions | accept, request handler, remove | removal from the session's own thread | a session that ends is removed once and joined |
| `SocketTcpServer.cpp`, `TcpListener.cpp` | listening socket | StartListening, WaitForConnection, StopListening | accept cannot be interrupted | a stop returns |
| frame readers of the client | a partial frame, a buffer | read loops | short reads, bytes that were not sent, sizes nobody checks | frames are not torn, buffers not overrun |
| `HIDRedirector`, `TouchAndPen` | channel, a mutex | handlers that send, Stop | a stop against a Send that waits | a stop returns |

Interaction. A `TcpChannel` is an `AsyncBase` that reads, and owns an
`AsyncWriter`, an `AsyncBase` that empties a `WaitingBuffer` into the socket.
An `IRdpSource` registers the parser as the channel's listener and a push into
the `Pipe` as the parser's listener, so the channel's thread runs
read, parse and push in one call chain; the sink's thread pops. The factory,
called from the thread of the RTSP session, starts and stops all of them. An
`RtspSession` is an `AsyncBase` that reads requests and responses, with a heart
beat and a watch dog, both `TimeBasedWorker`s. On the redirector `ProjectorAgent`
owns it and turns each setup into a request, a wait for the response and a TCP
connection to the projector's one media port; on the projector `Session` owns it
and answers, then accepts that connection. `SessionManager` holds the sessions;
a session that loses its redirector asks, through a detached thread, to be removed.

Hazards, each at its line and with the properties that watch it, are in
`PROJECT.json`.

## 2. Modules

| module | models | built on |
|---|---|---|
| `BoundedFifo` | what the two ends of a buffer see (abstract) | |
| `WaitingBuffer` | `WaitingBuffer.h` | refines `BoundedFifo` |
| `MCWaitingBuffer` | the same for TLC, with symmetric writers | `WaitingBuffer` |
| `AsyncBase` | `AsyncBase.cpp`; `AsyncSpec` is the life cycle with an arbitrary loop body | |
| `AutoReader` | `AutoReader.cpp` and the receive of `Socket.cpp` | extends and refines `AsyncBase` |
| `TimeBasedWorker` | `timebased_worker.cpp`, `wait_timer.cpp` | extends and refines `AsyncBase` |
| `AsyncWriter` | `AsyncWriter.cpp`, `AsyncSocketWriter.cpp`, the send of `Socket.cpp` | extends `AsyncBase`, instantiates `WaitingBuffer` |
| `TcpChannel` | the sending side of `TcpChannel.cpp` | extends `AsyncWriter` |
| `MediaPipeline` | source, pipe, sink, teardown | extends `AsyncBase` |
| `RdpStreamingParser` | the parser and the framing of `Redirector.cpp` | |
| `FrameReaders` | the four read loops of the redirector | extends `RdpStreamingParser`, for its length field and so that one run holds all framing |
| `Negotiation` | both ends of `RtspSession.cpp`, `ProjectorAgent.cpp`, the request handler of `Session.cpp`, the accepts of `RedirectChannelFactory.cpp` | |
| `MCNegotiation` | the same for TLC, with its bounds | `Negotiation` |
| `Sessions` | the accept loop of `projector/main.cpp`, `SessionManager.cpp`, the life of a `Session` | |
| `WorkerProofs` | theorems about `AutoReader` and `TimeBasedWorker` | both modules |
| `RdpStreamingParserProofs` | theorems about the parser and the frame readers | `FrameReaders` |
| the other `*Proofs` | theorems | the module of that name |

How state and actions correspond to the code:

* **WaitingBuffer.** Variables have the names of the members. A step is a
  critical section of `m_BufMtx` or one access made without it, so
  the notify of a writer is a step after its unlock, and the reset of the cancel
  flag by the scope guard a step of its own (`WriteExit`, `ReadExit`). `pc` says
  where each thread is in its call, `sent`/`len` and `need`/`room` are the
  call's locals, and `written`/`taken` are histories. A byte is a pair (writer,
  position in its call). Copies keep the code's two branches at the wrap.
* **AsyncBase.** `ctl[c]` is where a caller is in Start or Stop, `worker`
  where the thread is. `m_operationMutex` and `m_threadOpMutex` are held
  over the steps where the code calls out or joins. The model assumes the
  discipline the owners keep: a start and a stop of one object do not overlap.
* **AutoReader.** `op` is where the worker is in `Socket::Recv`: waiting in
  select, leaving it ready or cancelled (the guard then clears the flag), or in
  `recv`. `late` counts deliveries begun after the status left Started.
* **TimeBasedWorker.** The wait expires, is cancelled or wakes spuriously;
  the callback returns, ends the worker or throws.
* **AsyncWriter, TcpChannel.** The ring is `WaitingBuffer` itself, with the
  sending thread as writer and as waiter (`Sender`, `SenderWait`: one thread in
  two calls) and the working thread as reader. `cancelling` counts
  the steps of `Cancel()` still to come: socket, CancelRead, CancelWrite,
  CancelWait. Bytes are numbered in the order of Send, `stream` is what entered
  the ring, `wire` what the socket took.
* **MediaPipeline.** The channel thread reads a piece in which up to `PerRead`
  messages end, pushes each, and goes round; the sink's thread is
  `while (CanLoop()) Process()`; the owner starts the sink and later stops
  source, RDP client and sink in the order of `DestoryAllChannel`. `waiting` is
  the set of threads on the pipe's one condition variable. The three sinks have
  the same code for Start, Stop and Process; the order of the teardown is that
  of the screen pipeline.
* **RdpStreamingParser.** A step is one turn of the loop of `Process`. The
  sender appends four bytes of length, little end first in base `Base`, and the
  message; `Process` is called with any number of bytes that were sent. The two
  Sends of `Redirector.cpp` go to a non-blocking socket and nobody looks at their
  result, so any part at the end of each may be missing (`SendShort`); `msgs` are
  the messages before the first of that kind, `lost` counts from it on.
* **FrameReaders.** A behaviour has one reader: the parser, a reader of
  structures of one size (`HIDSocketReader`, `ScreenDataChannel` and
  `TouchAndPenMsgReader` have the same loop) or `AudioSocketReader`. `Takes` is
  `Socket::Recv`, which returns any part of what was asked for. `ReadSize` reads
  the audio frame's size with one Recv into a variable that was 0, as the code
  does; `short` records the first that came in pieces. Nothing compares the size
  with the buffer: bytes beyond it end the behaviour in `overrun`. The frames were
  sent through a `TcpChannel`, whose writer loses what `send()` did not take
  (`SendFrameShort`); `gone` counts the frames from the first such loss on.
* **Negotiation.** `rtsp[s]` is the session of side `s` with the members' names,
  `pa` the agent. A request is two steps, the load and the store of `m_CSeq++`,
  because the heart beat increments it too, without `m_Mtx`, and its own load
  and store may fall on either side. `Recv` brings any number of whole messages
  and takes out one; the others stay in `m_Buf` until bytes come again. A
  response is matched by the chain of ifs without a lock (`HandleResponse`) and
  credited under the agent's `_mutex` (`Credit`), so the two may be far apart.
  `backlog` is the listening socket's queue, whose only order is that of the
  connects. `hist` records what was credited to another request, which channel got
  another's connection, whether a store set `m_CSeq` back, and what failed.
* **Sessions.** `sess[n]` is the n-th connection's session from its constructor
  to its end, with the address it got; `pending[a]` counts the detached threads
  that are about to call `Remove` with address `a`. An address is free again when
  its object is gone, so a second event of an old session may find a new one.
  The thread reads a variable of a lambda that may have returned: what it then
  reads is a choice between the session and nothing (`garbled`). `_mutex` is held
  over steps only where `Remove` destroys the session that it found. A session
  with a channel may get `stuck` in `DestoryAllChannel`, in the Stop of a sink
  whose pipe is full; when that happens is the subject of `MediaPipeline`, here
  it may always.

## 3. Runs

| run | bounds | shows |
|---|---|---|
| `waiting_buffer` | ring of 2, two writers, one reader, calls of up to 3, 3 bytes | types, ring contents, contiguous calls, short calls, refinement of `BoundedFifo` |
| `waiting_buffer_live` | one writer, one reader, one thread waiting for the drain | wakeups of all three kinds; a writer gets out |
| `auto_reader` | three callers | no `std::terminate`, no forgotten sleeper, stopped means joined, at most one late delivery, a stop returns, refinement of `AsyncBase` |
| `time_based_worker` | two callers | at most one late tick, a stop returns, the timer keeps ticking, refinement of `AsyncBase` |
| `tcp_channel` | ring and staging of 2, messages of up to 3, 3 bytes, an owner, a socket that may fail | the write never blocks, no byte twice or out of order, no hole until cancelled, senders and closers come back |
| `media_pipeline` | pipe of 4, up to 4 messages per read, as in the code | wakeups, both stops return |
| `framing` | base 2, messages of up to 3 bytes, 2 messages, structures of 2 bytes, an audio buffer of 2 bytes; every part of a message may be lost | parser: delivery, nothing held back; readers: whole frames in order, none missing, no overrun by a frame that fits |
| `negotiation` | six plans, see below | a response is credited to its request, each channel gets its connection, stops return, a loss is reported |
| `sessions` | two sessions, two addresses, two detached threads per address, one garbled read | a session goes only if it is gone, a dead one goes in the end, `Add` gets its mutex |
| `tcp_channel_short_send`, `media_pipeline_order`, `media_pipeline_full` | as above | violations, section 5 |

Why the bounds are enough to be interesting: a ring of 2 is smaller than a call
of 3, so a writer blocks half-way and the ring wraps at each offset; two
writers are what contiguity needs. Three callers give two that overlap in the
same call and a third that undoes it. In `tcp_channel` a message of 3 takes two
flushes, so an exception can fall between them. Base 2 makes the length field
use more than one digit while the header keeps its four places; of two messages
either can be the first that is sent short, and one of three bytes is longer than
the audio buffer.
`negotiation` draws one of six plans at the start, each large in one respect,
since their product is out of reach: one channel with every way to end; three
channels at the one port, which is the least in which a connection can be taken
by a channel that is neither its own nor the next; the same channel again
after a stage that may have timed out; requests beside a heart beat; a heart
beat with every way to end; heart beats of both sides. In `sessions` two are
enough for an address to be used again, and two detached threads for one of
them to be late.

`framing`, `negotiation` and `sessions` switch the deadlock check off: their
behaviours end, when all is sent, when the planned requests are over, and when
the last session is destroyed or `main` has thrown. No other run does.

Fairness. Weak fairness of each thread's own steps: the operating system runs a
thread that is ready. In `waiting_buffer_live` somebody keeps calling
ReadAtless, as the loops of `AsyncWriter` do. A timer's wait expires; so do the
agent's 51 seconds, and the watch dog ticks. Nothing is assumed of what the
outside does: data may never arrive (`RecvReady`), the peer may never read
(`SendReady`), nobody need send, cancel or stop, and no heart beat need fall due,
with one exception: in `sessions` a redirector that is there opens the media
connections its requests announce. There is no fairness between
threads that queue on a mutex, where the holder gives it up for good before the
property is due, except in `sessions`: there threads come to `_mutex` again and
again, and strong fairness of `Add` and `Remove` says that each of them gets it
in the end. `media_pipeline` assumes that a delivery into the RDP client returns.

The exceptions that a property names (`CreditedToOwn`, `ChannelsPaired` and
`StopReturns` of `Negotiation`, `RemovedOnlyIfGone`, `DeadRemoved`,
`DeliversMessages`, `NothingHeldBack`, `FramesDelivered`) are places where the
code does block or go wrong; section 5 lists them. The runs show that what is
modelled has, within the bounds, no others.

## 4. Proofs

TLAPS proves, for every value of the constants that satisfies the assumptions
of the modules:

* `WaitingBufferProofs` (assumptions: a positive ring size, disjoint sets of
  threads): `RingCorrect`, `Refinement`, `MutualExclusion`, `TypeCorrect`,
  `Wakeups`, `ShortCalls`, `Contiguity`. `RingHoldsStream` is inductive together
  with the types: the proof splits each copy at the wrap and shows where byte
  `i` lands modulo the size. `Contiguity` needs that a writer past its first
  byte finds its own previous byte at the end of the history, which
  holds because it still has `m_WriteMtx`. `Wakeups` needs that whoever changed
  `m_DataLen` is still on its way to the notify.
* `AsyncBaseProofs` (assumption: `NoThread` is no caller): `AsyncTypes`,
  `NoTermination`, `Sleepers`, `Joined`, from one inductive invariant. That a
  start finds no thread left is not inductive alone: it rests on every stop
  joining before it returns (`StoppedMeansJoined`), on starts and stops that do
  not overlap (`NoOverlap`), and on `m_operationMutex` being held from the test
  of the status to the creation of the thread (`SpawnAlone`).
* `WorkerProofs`: for the reader and for the timer the refinement of `AsyncBase`
  (each step of a loop is a `Body` step or a stutter), hence `NoTerminate` for
  the reader, and the bound on late deliveries and callbacks, from the invariant
  that once one is late the status is not Started, and the worker can begin no
  other until it is.
* `RdpStreamingParserProofs` (assumptions: a base of at least 2, bytes below
  it, lengths that four digits can hold): `ParserTypes`, `Delivery`,
  `NothingKept`. The invariant `Inv` says that the stream begins with the frames
  of the messages before the first short send, one after the other. As long as
  the parser has not come to the place of a short send (`Sound`), what is in the
  two buffers is the beginning of the frame after the last message delivered, and
  `parsed` is where that leaves the stream. Beyond it the buffers hold anything,
  and only `InHeader` and `BodyRoom` remain, which give the types and bounds on
  every stream. `HeaderRoundTrip` is the arithmetic of the length field.
  For the readers of the redirector (assumptions: structures of at least one
  byte, an audio buffer of any size) it proves `FramesRead`,
  and `ParserOfReaders` carries the parser's three theorems over to the
  behaviours of the composed module. `ReadersInv` says that there is a sequence of
  positions at which the frames end (`Laid`, `LaidBytes`), and that the reader
  stands at the start of the frame after the last one it delivered plus what its
  buffer holds (`InPlace`), as long as no byte is missing before that place and
  no size has come in pieces (`Straight`). What it handed on until then stays right
  (`GotSure`, `ShortOK`), and it writes past its buffer only inside a frame longer
  than that (`Overrun`). It is stated with a sequence that exists, not with a
  sum of lengths, because a recursive sum cannot be reasoned about here. The
  exceptions of `FramesDelivered`, a frame sent short, an audio size in two
  pieces, an empty message and one longer than the buffer, are those of section 5.
* `TcpChannelProofs` (assumptions: the threads differ, a staging buffer that is
  no larger than the ring, packages of at least one byte): `ChannelTypes`,
  `NeverBlocks`, `InOrder`, `Whole`. Each step of the channel is a step of the
  ring, of which the theorems are used through an INSTANCE of
  `WaitingBufferProofs`, and a step of `AsyncBase` or a stutter. `FlushInv` says
  that the ring is empty until a chunk is in it, so that a chunk goes in
  whole and the write has nothing to wait for. `OrderInv` says that the numbers in
  the ring's stream, the staging buffer and the rest of the message rise in that order,
  `WireInv` that the socket has a part of the stream and the worker holds what
  follows. `StreamWhole` and `WireWhole` say that there is no hole until somebody
  cancels or an error occurs. `Whole` has the hypothesis that the socket takes all it is
  given (`~ShortSend`): without it the property is false, which is the first
  finding of section 5.
* `MediaPipelineProofs` (assumptions: a pipe of at least one place, one owner):
  `PipelineTypes`, `PipeWakeups`. The pipe's `notify_one` is right only as long as
  at most one thread waits to push. `Pushers` says when source and owner can be
  waiting, `TeardownOrder` that the owner pushes only after the source's
  thread is joined, and that rests on `AsyncInv`: each step of the pipeline
  is shown to be a step of `AsyncBase` or a stutter.
* `NegotiationProofs` (assumption: the shape of a plan): `NegotiationTypes`,
  `Credits`, `Paired`, for any number of heart beats, stages and setups. `Bound` is the
  number the client's next request gets, `m_CSeq` or what the agent has loaded
  of it; `Numbered` says that, until a store sets `m_CSeq` back, every number in
  a request record or in a message in transit lies below it and belongs to one
  request, and that a match made without the lock is still right when it is
  credited. `Accepting` carries the request through the accept.
  `Paired` needs more, since a connection has no name and the listening socket
  hands out the oldest. `PairInv` says that the setup requests the server has yet
  to deal with, in its hands, its buffer or the network, are for the connections
  in the backlog, the k-th for the k-th, the one the agent is about to
  open included (`InOrder`). It says that there are as many of the one as of the
  other whenever the agent may go on (`Balanced`), except that a refused screen leaves
  neither and the agent will give up (`Refused`). The screen's
  response is the only one whose result the agent looks at before it connects:
  its request comes first (`Agenda`), and on the first stage it is the only
  one until it is answered (`ScreenFirst`, `Fresh`), which in turn needs
  `Numbered`: the response credited to the screen is the screen's own. That
  `k` requests precede a message is a ranking function that exists
  (`Ranked`), for the same reason as above.
* `SessionsProofs` (assumptions: at least one session and address):
  `SessionTypes`, `Removal`. `RemovedOnlyIfGone` is not inductive:
  `LeftForReason` says it of every session that is no longer in the list,
  `PendingForHeld` that a detached thread was sent by a session that can
  still be found unless one at that address has fired twice, and
  `AddressesApart`, `Ordered` and `Owned` that no two objects share an address,
  that sessions begin in order, and that main and `Remove` never destroy the
  same one.

Every invariant and every refinement that a passing run checks is thus a theorem. Only
model-checked are the liveness properties, because the prover has no fairness:
`WriteFinishes`, `StopReturns` of the reader and of the negotiation,
`TimerStopReturns`, `KeepsTicking`, `SendReleased`, `CloseReturns`, `StopsReturn`,
`LossReported`, `DeadRemoved` and `AddReturns`.

## 5. Findings

* `tcp_channel_short_send`: `WritableSocket::WriteBytes` ignores how much
  `send()` took on a non-blocking socket. The rest is lost. `Redirector.cpp`
  (173-196) does the same with its own Sends of screen, device and audio data,
  which `framing` contains: the projector's parser then takes data for a length
  and does not find back into the stream.
* `media_pipeline_order`: `RDPProjectorPipeline::Stop` frees the RDP client
  before the sink's thread is joined; a message in the pipe is
  delivered to it afterwards.
* `media_pipeline_full`: the sink's Stop sets `m_IsAlive` to false before it
  pushes the dummy. With a full pipe the thread pops no more and the push
  waits for ever. A session that is being destroyed stays there, and
  `SessionManager`'s `_mutex` with it (`DeadRemoved` excepts it).

Also seen, and not the subject of a run of its own:

* `AsyncBase.cpp:92` says `//set the status to stopped;` and does not. A worker
  that has returned still counts as started, and Start does nothing.
* `AsyncWriter::Cancel` sets flags that stay set when nothing is pending, so the
  worker throws at its next read or send and the writer is in error for good;
  every later Send throws. A sender that waits for the ring to drain after the
  worker has died waits until somebody cancels.
* `~ProjectorAgent` holds `_mutex` while it joins the RTSP worker. If that
  worker is about to credit a response it waits for `_mutex`, and the two wait
  for each other (`StopReturns` excepts it). A request that the destructor
  cancels can go on only in an object that no longer exists.
* Accept cannot be interrupted: a session whose worker waits for a media
  connection that does not come cannot be stopped, and is not removed.
* The heart beat's `m_CSeq++` outside `m_Mtx` can lose an update and set the
  counter back; two requests then have one number, and the chain of ifs credits
  the first in its order.
* The agent's flags of received responses are never cleared. On a second active
  stage a setup does not wait for its response; if an earlier stage was cut
  short, a connection may become another channel's.
* `RtspSession` takes one message out of `m_Buf` per receive; a second one that came
  with it waits until further bytes come.
* A second connection to the projector while a session lives finds the media
  port bound. The constructor throws and `main` has no handler.
* `projector/main.cpp:29` captures a parameter of the lambda by reference in a
  detached thread; and a session's second event may remove a new session that
  got the same address.
* `HIDRedirector::Stop` takes `m_mux` before it cancels; a handler that waits in
  Send for a redirector that does not read keeps it.
* `AudioSocketReader` reads a size with one Recv: of a size that arrives in two
  pieces the second is taken for data. An empty message ends it. Sizes are not
  compared with its buffer of 1000 bytes: a longer message, or data taken for a
  size, is written past it.
* `Redirector` assigns `DisconnectedEvent` while the session's threads run; a
  loss before that is reported only by the watch dog's next tick, and the watch
  dog is compiled out in debug builds.

## 6. Not modelled

* `Socket::Shutdown` in `AutoReader` (it is in `Negotiation` and `Sessions`);
  two threads sending on one channel (no channel has them); overlapping start
  and stop of one object; `Pipe::Cancel`, `Component::Pause` and `Resume`, which
  nothing calls while a pipeline runs.
* A `Send` of an RTSP message that blocks in `WaitForWriteReady`, or of which
  `send()` takes a part (`Transmit`): the messages are short and both ends read
  all the time. A blocked one would matter, since `RtspSession::Stop` joins the
  heart beat before it shuts the socket down.
* The text of RTSP messages: a message is its kind, its number and its result,
  and a partial message is one that has not arrived.
* `TouchAndPen`, which differs from `HIDRedirector` in that it cancels before it
  takes its mutex; `SessionManager::SetActive`, which only an event that nobody
  fires would call (it would lock `_mutex` twice); `TcpListener`, `SocketUdp`,
  `WaitingQueue`, `WaitingPipe`, the typed reads of `ReadableSource` and the
  image classes, which neither program uses.
* `RdpAgent`, the FreeRDP callbacks and `RDPProjectorPipeline::Start`: calls into
  vendored code without a protocol of their own.
* Strings, logging, guids and wrappers of the operating system hold no state
  that these properties are about.
* The vendored FreeRDP and OpenSSL. They are nearly all of the repository's
  lines, so the share of all lines that `map` covers is small by nature; of
  the repository's own concurrent code it covers most.

## 7. Plan

Done: the buffer, the life cycle, reader, timer, writer, channel, pipeline,
parser, frame readers, negotiation and sessions, and the proofs of all their
invariants and refinements.

Left, in this order:

1. `TouchAndPen`'s stop beside `HIDRedirector`'s; the audio and device pipelines
   of `DestoryAllChannel` torn down together.
2. `SignalConnection`: a signal that is called while a slot disconnects.
3. What neither program uses: `WaitingQueue` and `WaitingPipe`, the index
   arithmetic of the image conversions, `MemReader` and `MemWriter`.
