# A verification project for xqs-plugin-vnc

The plugin is one Go process that a host starts and talks to over stdin and stdout. It relays a
VNC server's TCP stream to a browser tab: the host opens two multiplexed, credit-windowed channels
(`tcp-relay` to the server, `embed-stream` to noVNC in the tab), the plugin speaks the RFB handshake
on both, keeping the password to itself, and then pumps bytes between them. What is hard to test here
is what several goroutines, two credit windows and one read loop do to each other; that is what the
modules in this directory are about.

Line numbers refer to `src/internal/...` unless they say otherwise.

## 1. The system

### Components

| component | state | operations | talks to |
|---|---|---|---|
| main loop, wiring (`cmd/xqs-vnc`) | the dispatcher, the exit code | reads one frame at a time: control messages to lifecycle, RPC client or session; channel frames to the registry | everything |
| codec, dispatcher (`ipc/codec.go`, `dispatch.go`, `rpc.go`) | stdin's reader; the `syncWriter` of stdout | decode and classify a frame, encode one | main loop; every sender |
| RPC client (`ipc/client.go`) | `pending` calls by id, next id | `Call` (30 s), `Deliver` | session, transport/open |
| credit channel (`transport/credit.go`) | `sendCred`, `closed`, `done`, `recvCh` | `Send`, `TrySend`, `Recv`, `GrantCredit`, `Close`; `receiveCreditGrant`, `deliverData` from the read loop | encoder, registry |
| registry (`transport/credit.go`) | channels by id (none is ever removed), wake-up for late registration | `Register`, `HandleChannelFrame`, 2 s grace | read loop, open.go |
| net.Conn channel (`transport/channel.go`, `conn.go`, `deadline.go`) | `readBuf`, hand-off channels, deadlines, read and write pump | `Read`, `Write`, `Close`, `SetDeadline` | credit channel, relay, rfb |
| open and close (`transport/open.go`) | none | `OpenChannel`, `CloseChannel` | RPC client, registry |
| session (`session/`) | `state`, `torndown`, both channels, password, backpressure gate | `handleConnect`, `orchestrate`, `connectAndRelay`, `ReportRelayEnded`, `reconnect`, `Teardown`, `setBackpressure`, `WaitForReadClearance` | RPC client, transport, relay |
| relay (`relay/`) | two pump goroutines | `StartRelay`, `runPump`, both pumps, `couplingGrant`, the read-only filter | rfb, channels, session |
| RFB (`rfb/`) | none | handshakes, client message lengths, VNC authentication | relay |
| lifecycle (`lifecycle/`) | shut-down flag | `initialize`, `activate`, `ping`, `deactivate`, `shutdown` | main loop |
| tab script (`ui/boot.js`) | whether noVNC has started | start on `postMessage`, or after 1500 ms | the host's page |
| packer (`cmd/xqs-vnc-pack`), vendored noVNC | - | build tool; third-party code | - |

### How they interact

Everything that enters the process enters through **one** read loop. It calls `receiveCreditGrant`,
`deliverData`, the RPC client's `Deliver`, `setBackpressure` and `handleDisconnect` itself, so whatever
blocks one of those calls (a full `recvCh`, the registry's grace) holds up every message behind it, for
every channel. Everything that leaves goes through one `ipc.Encoder`: a frame is one `Write` (`ipc/codec.go:149-167`), and
`syncWriter` (`cmd/xqs-vnc/wiring.go:41-63`) puts a mutex around it, so a frame is atomic. (`transport.SharedEncoder` does the same; the
plugin does not use it.)
`session.connect` starts the `orchestrate` goroutine; it calls the host (`channel.open`,
`session.registerEmbed`, `session.updateState`), and `StartRelay` starts the relay goroutine. When
the relay ends, *that* goroutine reports it and runs the reconnect loop. `session.disconnect` runs
`Teardown` on the read loop, at any point of all this.

### What makes each part correct

- Credit channel: credit is neither lost nor used twice, nobody sleeps through a wake-up, data arrives
  once and in order, Close releases everybody, the host never sees a frame it gave no credit for.
- Session: one goroutine drives it at a time; no channel outlives whoever should close it; the password
  is there while a handshake may need it and gone afterwards; the tab hears how it ended.
- Relay: neither direction can stall the other or the read loop for good; one end brings down both.
- RPC client and registry: every call ends once, a late answer changes nothing, the first frame of a
  channel finds it. net.Conn channel and deadlines: a write counts no byte that was not sent (it can miss
  one chunk that was: a finding), a wait ends at the current deadline. RFB: both handshakes end, a filtered client stream stays at message boundaries.

The hazards behind these, with their lines, are in `PROJECT.json`.

## 2. The modules

```
FlowControl  <--implements--  CreditChannel  <--proved in--  CreditChannelProofs
Session      <--proved in--   SessionProofs
ControlPlane <--proved in--   ControlPlaneProofs, ControlPlaneLossProofs --uses--> QueueCounts
ByteStream   <--implements--  ChannelConn    <--proved in--  ChannelConnProofs
Relay        <--proved in--   RelayProofs --uses--> QueueCounts
RfbSession   <--proved in--   RfbSessionProofs
```

The modules meet at the code's own seams. A frame that `CreditChannel` delivers is what `ChannelConn` receives
from its source, and its `Send` is `ChannelConn`'s sink. The byte stream that `ChannelConn` implements is
what `RfbSession` reads fields from. `Relay` begins where `RfbSession`'s handshakes end, and
`Session` is what starts and ends both. `ControlPlane` is how any of them comes to have a channel.

### FlowControl
The abstract contract of one direction of a channel: `budget` is credit ever handed out, `spent` the
frames on the wire; a frame may only be spent inside the budget.

### CreditChannel (`transport/credit.go`)
One channel with any number of sending goroutines, one reader, one `GrantCredit`, one effective `Close`
(`closeOnce`), the read loop and the host. A step is a critical section of `c.mu`, one `Encode`, or one
channel operation.

| code | module |
|---|---|
| `sendCred`, `closed`, `done`, `recvCh` | `sendCred`, `isClosed`, `done`, `recvCh` |
| `Send` 149-184: lock, `for sendCred <= 0 { cond.Wait }`, closed check, take, `Encode`, give back on error | `SendCall`, `SendWait`, `SendClosed`, `SendTake`, `EncodeOK`, `EncodeFails`, `Refund` |
| `TrySend` 190-216 | `TrySend`, then the same `Encode` and `Refund` |
| `receiveCreditGrant` 218-229, `cond.Broadcast` | `ReceiveCreditGrant`, `WakeAll` |
| `deliverData` 287-297, a `select` with two cases | `DeliverCall`, then `DeliverEnqueue` or `DeliverDrop` |
| `Recv` 270-285 | `RecvPayload`, `RecvEOF` |
| `GrantCredit` 231-256, check under the lock, encode outside | `GrantCheck`, `GrantEncode` |
| `Close` 299-311: mark, close `done`, broadcast | `CloseMark`, `CloseDone`, `CloseBroadcast` |

`Encode` succeeds or fails freely; the one `Write` it makes, under `syncWriter`'s mutex, is the step. A parked sender is `"waiting"`; `Signal`
moves one waiter of the model's choice to the lock, `Broadcast` all of them, and a woken sender competes
with every other, as `sync.Cond` allows. `HostGrant` and `HostData` are external: the host keeps to the
credit it was granted, and may grant any size, 0 included. `txWire`, `credReceived`, `received` and `atClose` are
history variables.

### Session (`session/lifecycle.go`, `connect.go`, `reconnect.go`, `teardown.go`, `state.go`)
One session; goroutine 0 is `orchestrate`, goroutine *i* in `1..MaxRelays` is the one the *i*-th
`StartRelay` started, the last is the read loop running `Teardown` for `session.disconnect`. `pc` says
where each is; `tcp` and `embed` are its local channel variables (`connectAndRelay`'s, the snapshot of
`closeChannels`, the snapshot of `Teardown`). `tcpChannel` and `embedChannel` are the fields. `open` is the set of
channels the plugin has not closed and that somebody still knows. Each call of the host (`channel.open`, `registerEmbed`) succeeds or fails;
once the host has ended the session it opens no more channels for it. `updateState` is two steps, as the
field is set under `s.mu` and the call made outside it. `Panic` may strike anywhere in `orchestrate` but in `updateState`, which never panics itself
(`state.go:45-49`). The local variables of `connectAndRelay` go with it: a channel opened and not yet assigned moves from `open` to `lost`,
and nobody closes it.
`raced` remembers whether a goroutine was between its check of `torndown` and the assignment of its channels when
`Teardown` took its snapshot.

### Relay (`relay/pump.go`, `coupling.go`, `readonly.go`, `session/backpressure.go`)
Starts where `doHandshakes` returns: the tcp window may already be partly used, and three embed-stream
frames (version, security choice, ClientInit) have been or will be read without a grant. A frame carries a
number of *units*: for tcp-relay the 32 KiB reads it needs, for embed-stream the client messages that end in
it, which may be none, one or several. Each pump reads a payload, forwards its units one by one and grants after each, `GrantAmount` being
`couplingGrant` for the server's direction and 1 for the browser's. The host spends one credit per frame, whatever is in it.

Nothing in the plugin says how a host cuts the streams, so that is the constant `Hosts`: a behaviour has one `host` of it, a record of
how many `reads` its tcp-relay frames take, how many messages its embed-stream frames `end`, how many `further` frames a message may
need, how many frames the `pipe` to stdin holds and how often it `pauses`. `OneUnitFrames` is the host whose grants never exceed the
frames they are for; where a property needs it, the property says so.

`stdin` is one queue for data, credit and backpressure notifications of both channels; `DeliverData` is only enabled while the receive buffer has
room, which is the read loop blocked in `deliverData`. `RecvCap` is the 64 payloads of `recvCh` and the one
that `readPump` holds. The gate is a number, so that a gate closed and replaced while a pump waits on the old one
is a different gate. `Decide` leaves out the messages' types: in a read-only session a message is written or only granted; `RfbSession` has the types in full.
The gate belongs to the session, so it may already be closed when the relay starts: `Init` allows a pause that the
relay before a reconnect left standing.

### ControlPlane (`ipc/client.go`, `ipc/dispatch.go`, `transport/credit.go` Registry, `transport/open.go`, `cmd/xqs-vnc/main.go`, `lifecycle/`)
What stands between the host's pipe and the channels: any number of goroutines that open and close channels,
the read loop that serves all of them, and a host that answers in any order.

| code | module |
|---|---|
| `Client.Call`: allocate the id and the buffered response channel, encode, `select` with time-out, deferred `delete` | `CallStart`, `CallSend` or `CallSendFails`, `CallAnswered` or `CallTimesOut`, `CallReturns` |
| `Client.Deliver`, with its drop of unknown ids and of a second response | `ReadResponse`, `Deliver` |
| `Client.Notify`, `CloseChannel` (close here, then tell the host) | `CloseLocally`, `NotifyClose` |
| `Registry.Register`: add, replace and close the broadcast channel | `Register`; `gen` counts the replacements |
| `HandleChannelFrame`, `awaitChannel`: look up and remember the broadcast channel under one lock, wait, look again, time out | `ReadData`, `RouteFrame`, `Await` (`seen`), `AwaitWakes`, `GraceExpires` |
| `main`: decode, dispatch, exit code; `lifecycle.Handler` answering before it closes `shutdown` | `ReadRequest`, `ReadBroken`, `ReadEOF`, `AfterDispatch` |

`stdin` is the one queue of what the host has written. A data frame stands for every frame of a channel, a credit
included: both take the same lookup. `hostGone` is the host closing its pipes: writes fail from then on and the read
loop finds the end of file. `owner` (which call a channel was allocated for) is the host's knowledge, `gaveUp` (ids
of calls that timed out) a history variable. `GraceExpires` is disabled while a goroutine that has its answer still has
to take the few steps to `Register`: the 2 s are taken to be longer than a runnable goroutine needs. It is the one
assumption on time in the module, and it does not cover a caller whose answer has not been delivered.

### ByteStream
The abstract contract of a tunnel: a read returns the bytes that follow those of the read before, EOF comes after the
last of them unless the channel was closed, and a write counts no byte that the sink has not taken. Bytes are numbered,
so a position stands for all the bytes before it.

### ChannelConn (`transport/channel.go`, `deadline.go`, `frame.go`)
One `Channel`: the read pump, the write pump, one caller of `Read`, one of `Write` (each has a mutex), anyone who sets
a deadline, the runtime's timers, and `Close`.

| code | module |
|---|---|
| `readPump` 87-105: `Recv`, the hand-off in a `select` with `closed`, the deferred `close(readCh)` | `Recv`, `ReadTakes` (the hand-off), `ReadPumpQuits`, `RecvEOF` |
| `Read` 123-149: `readBuf`, the `select` with three cases, `copy` | `ReadBuffered`, `ReadParks`, `ReadTakes`, `ReadEOF`, `ReadFails`; `CopyOut` |
| `Write` 156-185: chunks, and for each the hand-off and the wait for `done`, two `select`s | `WriteCall`, `HandOver`, `ChunkDone`, `ChunkFails`, `OfferFails`, `AwaitFails` |
| `writePump` 107-117, `done` with room for one error | `SendReturns`, `Reply`, `WritePumpQuits`; `orphan` is a `done` nobody reads any more |
| `deadline.set` 58-95: stop the timer or wait for its close, keep or replace `cancel`, arm or close | `Set`, `Mint`, `Arm` |
| `time.AfterFunc`'s goroutine, which closes the channel some time after `Stop` has begun to return false | `TimerFires`, `CloseCancel` |
| `wait()`, called as a `select` is entered | `Park`; `waitOn` is the channel the caller captured |

A channel of a deadline is a number, `shut` the closed ones. `set` holds the mutex while it waits for a timer's close, so
it is one step that is enabled when the close has happened. A select with several cases ready takes any. `due`, `sawDue`,
`counted`, `written`, `sunk` and `abandoned` are history variables. `CloseSource` is `CloseChannel` closing the credit channel under it.

### RfbSession (`rfb/`, `relay/readonly.go`, `doHandshakes` and `pumpBrowserToServer` of `relay/pump.go`)
The one goroutine that runs `doHandshakes` and then the browser's direction. What a peer says is a sequence of *fields*
of given length and value, and arrives in frames cut anywhere; the plugin only counts bytes. So `io.ReadFull` of `need`
bytes is a `Take` of one field only while the plugin is in step with the stream, which is what `InSync` says.

| code | module |
|---|---|
| `Handshake` and the readers of `version.go`, `sectypes.go`, `result.go` | `ReadVersion`, `ReadCount`, `ReadTypes`, `ReadChallenge`, `ReadResult`, `ReadReasonLen`, `ReadReason`, and the writes between them |
| `SelectSecurityType` | the operator of that name |
| `Frontshake` | `WriteHello`, `ReadClientVersion`, `WriteList`, `ReadSelect`, `WriteResultOK` |
| `doHandshakes`: the deadline on both channels, lifted however it returns; the batch of credit in between | `Armed`, `Lifted`, `Replenish` |
| ClientInit, then `FilterOnce` (`ReadClientMessage`, `Decide`, the write, `GrantCredit(1)`) | `ReadClientInit`, `WriteInit`; `ReadType`, `ReadHeader`, `ReadBody`, `Forward` |
| a read cut short, a passed deadline, a failed write, both channels closed by `Teardown` or the other pump | `ReadFails`, `WriteFails`, `ChannelsClose` |

The peers are external and follow RFC 6143: `ServerTalk`, `MessageAt` and `BrowserTalk` say which fields may follow
which, and the constant `Talks` is any set of talks of that form (`RfbAssumption`); `MCRfbSession` builds the ones TLC tries.
Each field carries the position where it ends, so that a read compares positions and nothing has to be summed.
A server may refuse at each place the protocol has for it, and each peer may fall silent or go away after any frame.
`begun`, the field with which the current message began, and the `at` of a forwarded message are history. Both channels have one deadline, as
`doHandshakes` sets the same instant on them. A passed deadline may beat bytes that are there, even the rest of
a frame already read, which is one failure more than the code has. Versions are told apart by their order to 3.8, the DES
response is one field, and a reason's text is its length.

## 3. The runs

| run | shows |
|---|---|
| `credit_channel` | `CreditConserved`, `NoLostWakeup`, `InOrderUntilClose`, `DrainedBeforeEOF`, `CloseReleasesAll` and the refinement of `FlowControl` hold |
| `session` | `OneDriver`, `NoOrphanWhileAlive`, `TeardownClosesUnlessRaced`, `HandshakeHasPassword`, `TabLeavesConnecting`, `TeardownStopsAll` hold |
| `session_teardown_race` | finding: a disconnect during a connect attempt leaves that attempt's channels open for good |
| `session_error_after_disconnect` | finding: a disconnect during reconnect is reported as "connection lost" |
| `relay` | with hosts that put one unit into a frame nothing stalls (`ReadLoopNeverWaits`, `PictureFlows`, `InputFlows`); with every host of the run, those that make things stall included, `SendWindowConserved` and `BothPumpsEnd` hold |
| `channel_conn` | `TimeoutsExact`, `NoDoubleClose`, `ExpiredUnparks`, `CloseReleases` and the refinement of `ByteStream` hold |
| `channel_conn_undercount` | finding: a chunk that was sent before the deadline or `Close` came can be missing from `Write`'s count |
| `rfb_session` | `Authenticated`, `RelayStartsClean`, `InSync`, `FilterSound`, `HandshakeEnds` hold |
| `relay_inflated_windows` | finding: tcp-relay frames above 32 KiB, or several client messages in one embed-stream frame, inflate the host's window until the picture freezes |
| `relay_long_messages` | finding: client messages over several frames drain the embed-stream window for good |
| `control_plane` | `AnswerReachesItsCaller`, `PendingIsUnderWay`, `EveryFrameArrives`, `KilledOnlyAfterTimeout`, `NoSilentLeak`, `RequestsAnswered` hold |
| `control_plane_late_answer` | finding: an answer that comes after its time-out is dropped, and the host's first frame on that channel ends the process |

Each finding is described, with the line it contradicts, in `PROJECT.json`.

### Bounds, and why they suffice
- `credit_channel`: two senders are the fewest that compete for one unit and the fewest for which a
  `Signal` chooses or is lost; a window of 1 makes every send after the first wait; a buffer of 1 with
  two data frames makes `deliverData` block; grants of 0, 1 and 2 cover the ignored grant, one waiter and two.
  `MaxGranted`, `MaxPipe` and `MaxSent` only bound what the host does.
- `session`: two relays give a first connection, a reconnect and the end of that one; two attempts give an
  attempt that fails and is retried. The findings need one of each.
- `relay`: windows of 1 and 2 with buffers of 2 keep the code's order (the buffer holds the two batches of
  credit granted by the end of the handshakes). With one unit per frame the code grants one frame per frame, so larger
  windows only add slack. `MCRelay` names the hosts: `OneUnit`, with a pause and its resume, enough for a pause to meet each point of the
  pump, and the one that may stand at the start makes two; `OneUnitQueued`, whose pipe of 2 lets a data frame and a credit queue behind one another
  (with a pipe of 1 a frame the host cannot write yet waits at the host, in an order the strong fairness leaves open);
  `BigFrames`, whose frames take two reads, so that the read loop blocks; `UnevenMessages`, whose messages span three frames while two of them may
  end in one, so that the embed-stream window leaks and inflates.
  `MaxCred` caps the host's counter at 3, above the buffer of 2.
- `relay_inflated_windows`: `BigOrSmall` frames take one or two reads, in `PackedMessages` one or two messages end in a frame: one host for each way a
  window inflates. Each of the two violates the property by itself; TLC reports the one it comes to first. `MaxCred` is 4, so that the window is seen to grow past the
  buffer before the cap matters.
- `relay_long_messages` has `LongMessages` alone, whose messages take one frame or two; `channel_conn_undercount` one write of one byte and nothing to read.

- `control_plane`: two callers and two calls give answers out of order, ids that could collide, and a frame of one channel
  held up behind the registration of another; a pipe of 2 puts a frame directly behind the response that opens its channel. Each data
  frame may arrive before, during and after `Register`. One request of the host is enough to be stuck behind a wait.

- `channel_conn`: payloads of 1 and 2 bytes, reads of 1 and 2 and writes of more than one chunk give short reads, a payload
  over several reads, and a write that fails between its chunks. `Loads` divides the work: each load bounds how many bytes arrive,
  how many are written and how many channels each deadline makes. One load has reads and their deadline to the full, one writes and theirs,
  and one both at a small size; the two directions share nothing but `Close`. The proofs hold for every load.
- `rfb_session`: `MCServers` refuses or accepts at each step with reasons of 0, 3, the maximal and one more byte; `MCBrowsers`
  has each message type with lengths 0, small, maximal and one more, and pairs of messages for what follows a body of 0. They are
  sequences of fields that `Laid` puts end to end. `Cuts` lets a frame end at, one before and one
  after each field's end: a read compares what has arrived with the end of a field, so other cuts behave as one of these. A window of 4 frames per peer
  (the code's for the server, half the code's for the browser) is few enough to run out.

All of these runs say `CHECK_DEADLOCK FALSE`: a closed channel, a session torn down and a relay that has ended are
the ends these objects have.

### Fairness, and what justifies it
- `CreditChannel`: every goroutine that can run eventually runs (the Go scheduler), which is `WF` of a
  sender's own steps, the read loop, the reader and what follows `CloseMark`. Nobody is obliged to call anything, and
  the host owes nothing.
- `Session`: calls have a 30 s time-out, handshakes a 15 s deadline, the backoff is a timer, so each
  goroutine's next step comes; the read loop reads `session.disconnect` once sent; a pump ends when a channel of its was
  closed, never otherwise by obligation.
- `ControlPlane`: the read loop's and the callers' next steps come, and the 30 s and 2 s timers fire. Nobody has to open or
  close a channel, and the host owes neither answers nor frames.
- `ChannelConn`: the goroutines run, an armed timer fires and its goroutine closes the channel, and a caller parked in a `select`
  leaves it once a case is ready. Nobody has to call, set or close anything, no byte has to arrive, and a `Send` into the credit channel need not
  return before that channel is closed (`CreditChannel`'s `CloseReleasesAll` is why it returns then).
- `RfbSession`: time passes; the goroutine takes a read whose bytes, end or deadline is there, and a write has ended when the deadline has passed.
  No peer has to say anything and the host owes no frame, so `HandshakeEnds` rests on the deadline alone.
- `Relay`: the goroutines run; the host drains the frames it is sent, lifts the backpressure it asked for,
  ends a message it began, and the server has more to send. This fairness is strong for what waits for room in the pipe: the host's writers
  take turns at it, so one of them is not left out for ever while the others write. The properties are about what the plugin does with such a
  well-behaved environment.

## 4. What is proved

`CreditChannelProofs` holds for every finite set of senders, every window, buffer and bound
(`CreditAssumption`).

| theorem | argument |
|---|---|
| `TypeCorrect`: `Spec => []TypeOK` | inductive by itself; `sendCred` stays natural because both takers test it under the lock |
| `CreditSafety`: `Spec => []CreditConserved` | inductive with `TypeOK`. `InFlightMoves` says what each sender step does to the set of senders holding a unit; the finite-set library turns that into its cardinality |
| `WakeupSafety`: `Spec => []NoLostWakeup` | not inductive alone: a sender parks only while `closed` is unset, and one needs that this means `Close` has not started, so that its Broadcast is still to come. `WakeInv` adds `ClosedIffMarked` |
| `DrainSafety`: `Spec => []DrainedBeforeEOF` | `DrainInv`: after `done` closed, `received \o recvCh` starts with what was there at that moment. `Recv` only moves the border (`RecvMovesBorder`), `deliverData` only adds behind it (`StartsWithLonger`) |
| `OrderSafety`: `Spec => []InOrderUntilClose` | inductive with `TypeOK`, one lemma for each way a frame moves. The host's next frame goes behind all others (`FramesWritten`); a data frame at the head of stdin has the least number on it, which is the next one due (`FramesTaken`); `deliverData` and `Recv` pass it on (`FramesMove`). A frame is dropped only when done has closed |
| `Refinement`: `Spec => KeepsContract` | `EncodeOK` is `Spend`: the sender that encodes is in `InFlight`, so `CreditConserved` leaves room in the budget; an accepted grant is `Grant`; all else stutters |

`SessionProofs` holds for any number of relays and any number of attempts in a reconnect window
(`SessionAssumption`).

| theorem | argument |
|---|---|
| `SessionTypeCorrect`: `Spec => []TypeOK` | inductive by itself |
| `OneDriverSafety`: `Spec => []OneDriver` | `DriverInv` adds that nobody drives before `session.connect`. A step makes a driver only of a goroutine that was one (`StepKeepsDriver`), except `HandleConnect`, and `StartRelay`, whose caller stops driving in that step (`StartRelayHandsOver`) |
| `NoOrphanSafety`: `Spec => []NoOrphanWhileAlive` | of the channels in `open`, that is, without those a panic `lost`. `OrphanInv` says place by place what the driver holds (`Held`), and that the session's own channels are nil from `closeChannels`, or from the start, until `Assign`, so that `Assign` overwrites none. `OnlyDriverHolds` uses `OneDriver`: nobody else can hold or assign. `TeardownInv` covers the steps after `torndown` |
| `HandshakePassword`: `Spec => []HandshakeHasPassword` | `PasswordInv`: once the password is zeroed with the session alive, nobody drives. It is zeroed alive only in `Recover`, by the one driver, which stops driving in that step; `RunMoves` says that no step but `StartRelay` and `HandleConnect` makes a driver, and `StartRelay` needs one |
| `TeardownCloses`: `Spec => []TeardownClosesUnlessRaced` | `UnracedInv`: after a `Teardown` that met no connect attempt nobody connects again, and what is open is what one goroutine is still closing (`Closing`). At the snapshot this is `OrphanInv`, since only a connecting goroutine holds channels of its own; `StartedInv` keeps `session.connect` and the relay that `StartRelay` wakes out of the way |

`ControlPlaneProofs` holds for any finite set of goroutines and any number of calls and frames
(`ControlPlaneAssumption`).

| theorem | argument |
|---|---|
| `ControlPlaneTypeCorrect`: `Spec => []TypeOK` | `TypeInv` adds what a goroutine's place says of the channel it holds, so that `Register` never gets the id of a refused call |
| `PendingSafety`: `Spec => []PendingIsUnderWay` | `FreshIds`: no id above `idSeq` is in use and no two goroutines share one |
| `AnswerSafety`: `Spec => []AnswerReachesItsCaller` | `AnswerInv` follows an id from the request to the host's allocation (`RequestMatch`), to the response on stdin (`ResponseMatch`), to the goroutine (`AnswerMatch`); `PendingMatch` joins the last two |
| `KillSafety`: `Spec => []KilledOnlyAfterTimeout` | `OnceInv`: a request has one response at most, and its goroutine waits or gave up. `WayInv`: each channel the host has allocated is registered, with a goroutine about to register it, or announced by a response that is ahead of all its frames; otherwise its call gave up. `KnownInv` ties the frame in hand to an allocated, unregistered channel. So a wait that runs out leaves only the last case |

`ControlPlaneLossProofs` builds on its invariant `IInv`, and on `QueueCounts` (how often an element occurs in a queue
when one is appended or taken), under the same assumption.

| theorem | argument |
|---|---|
| `LeakSafety`: `Spec => []NoSilentLeak` | `HeldInv`: a registered channel that the host holds open has a goroutine that holds it, open or closing. With `WayInv` every channel the host holds open is accounted for, unless its call gave up |
| `FrameSafety`: `Spec => []EveryFrameArrives` | a frame moves from stdin to the read loop's hand to the channel, one place per step, and each move takes one occurrence from where it was; only `Close` here ends the promise |

`RelayProofs` holds for all windows, buffers and sets of hosts (`RelayAssumption`: a grant fits under the
host's bound `MaxCred`). `ReadLoopRuns` adds that the buffer holds two batches of
tcp-relay credit and the embed-stream credit the handshake leaves, which the code's 4, 8 and 3 against 64 payloads and the one in `readPump`'s hand
satisfy. That a frame holds one unit at most is a condition inside the property, as it is the host that decides it; `relay_inflated_windows` shows
what happens without either half of it. `EmbedNeverBlocks` needs the half of each that is about the embed stream.

| theorem | argument |
|---|---|
| `RelayTypeCorrect`: `Spec => []TypeOK` | `TypeInv` adds what is on stdin, and that a pump that writes or grants has a unit left; a grant is at least 1 (`GrantAtLeastOne`) |
| `ReadLoopRuns`: `Spec => []ReadLoopNeverWaits` | `OneUnitWindow(c)`, for each channel: while the host keeps to one unit per frame on it, the credit of the host, its frames on stdin, payloads in the buffer and units in the pump's hand together never exceed what the handshake left (`Most`), since a unit is granted back once, as one frame (`GrantIsOne`, whatever the coupling policy's window). The frame at the head of stdin is one of them, so the buffer has a place. A behaviour's host does not change (`SameHost`) |
| `EmbedNeverBlocks`: `Spec => []EmbedHasRoom` | the embed stream's half of it, under the embed stream's half of the condition: one message at most ends in a frame. A message over several frames gives back less; several messages in one frame would give back more, and are outside the theorem. The size of tcp-relay frames plays no part |
| `SendWindow`: `Spec => []SendWindowConserved` | a unit of a channel's credit goes from the plugin to a frame in the host's queue, to a credit on stdin and back; each step moves one, counted with `QueueCounts` |

`ChannelConnProofs` holds for every size of payload, read and write and every load (`ConnAssumption`). Its inductive
invariant `Inv` has four parts: the types, one part for a deadline, one for the read side and one for the write side; each action
disturbs one of the last three.

| theorem | argument |
|---|---|
| `TypeCorrect`: `Spec => []TypeOK` | `left` and `total` need that a chunk is never longer than what is left of its write |
| `DeadlinesReachParked`, `ClosedOnce` (`TimeoutsExact`, `NoDoubleClose`) | `Alarm`: every channel before the current one is closed, the current one is closed or about to be exactly when the deadline is due, and only a timer that has fired is about to close anything. So a caller left on an older channel finds it closed, and `Parked` remembers that this was due while it was parked. `set` keeps `Alarm` because it waits for a fired timer before it looks whether the channel is closed |
| `CountLag`: `Spec => []OneChunkMissed` | how wrong the count of the finding `channel_conn_undercount` can be. `WriteInv` bounds what the sink took from both sides: it is at least what was counted and the chunk under way, and, an abandoned chunk still with the pump included, at most that and `MaxPayload` for each abandoned one |
| `Refinement`: `Spec => ImplementsByteStream` | `ReadInv`: what the reader has had, what is in `readBuf` and what is in the pump's hand are adjacent and end at `arrived`, so that `CopyOut` is `Return`. `ReadEOF` finds the pump done, which has lost a payload only after `Close` |

`RfbSessionProofs` holds for every set of talks of the form RFC 6143 gives them, every way of cutting them into frames, every
window and both limits (`RfbAssumption`). One inductive invariant `Inv` carries all five theorems; TLC checked it on the run's instance
before it was proved.

| theorem | argument |
|---|---|
| `RfbTypeCorrect`: `Spec => []TypeOK` | a read waits for bytes that are there, so no position passes what has arrived |
| `ReadsInSync`: `Spec => []InSync` | `AtField`: each stream's position is the end of the field last taken, and no peer sends past its last. `ServerPlace` and `BrowserPlace` say for each place of the program which field of the talk is next and that the length asked for is its length: the count read before gives that of the types, the reason's length that of the reason, the header that of the body |
| `GreetedAfterAcceptance`: `Spec => []Authenticated` | `ServerPlace` also keeps what the fields behind the position must have been for the program to come this far; greeted, it has come past the result |
| `RelayStart`: `Spec => []RelayStartsClean` | `Replenished`: the batch of credit is granted between the two handshakes, when the server has been read to the end of its own, so that no frame uses it up before ServerInit; every way out of the handshakes lifts both deadlines |
| `FilterIsSound`: `Spec => []FilterSound` | `Filtered`: the messages that end at or before the field last taken are those forwarded, in order, those held back for being input, and perhaps the one in hand, which began at `begun`; `BrowserPlace` ties the place to the part of the message that has been read |

Only model-checked: every liveness property (fairness and `ENABLED` are outside what the prover handles), and the findings,
which are counterexamples. Every safety property of the passing runs, refinements included, is a theorem; of these only
`ReadLoopNeverWaits` needs hypotheses on the constants beyond the module's assumption.

## 5. What is not modelled, and why

Redaction and logging, the packer, DES key derivation, address types: text, files or pure computation on bytes, covered by
the repository's tests. `viewport` and activity updates: setters of fields nothing else reads. noVNC is third-party
code. A panic outside `orchestrate` is not recovered by the code and ends the process. `ReadVersionLine`, `WriteSecurityResultFailed` and
`RunClientFilter` have no caller in the plugin.

The composition of modules is not checked as one state space. Some hazards rest on reading and not on a run. The embed-stream
frames of the browser's handshake and ClientInit are never granted back, which is harmless for the three frames noVNC sends and would
stall the relay if they were cut into eight. `StartRelay` starts the relay goroutine before `orchestrate` reports ready (`session/lifecycle.go:180`), so a relay that
ends at once can report `connecting` first and have the stale `ready` follow it; `OneDriver` does not see that, since the goroutine that reports drives nothing any more. When `connectAndRelay` returns an error, `orchestrate` returns with
the password still in memory (`session/lifecycle.go:174`) until a `session.disconnect`.
`deliverData` may still enqueue a payload once the channel is closed, though its comment (`transport/credit.go:287-291`) calls it a no-op then: `InOrderUntilClose` ends
at Close, and nothing reads such a payload as part of a stream. A panic between the opening and the assignment of channels leaves them open (`lost`). A `channel.open` that
times out although it was answered leaves its channel open too: `NoSilentLeak` excuses the calls that timed out.

## 6. Plan

1. Done: `FlowControl`, `CreditChannel`, `Session`, `Relay`, `ControlPlane`, `ByteStream`, `ChannelConn`, `RfbSession` with their runs and
   the theorems above; the backpressure gate that outlives a reconnect, as an initial state of `Relay`.
2. `FrameCodec` and `Dispatch` as operators (boundaries, limits, classification); `Boot` for the tab script's race.
3. Proofs: all safety properties are done. Worth adding next: that a passing `Session` run's channels, once closed, stay closed,
   as action properties; a refinement of `Session` to one channel's life as `ControlPlane` sees it; the embed-stream credit that
   a handshake cut into more frames would use up.
