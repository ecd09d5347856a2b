# Verification of go-baresip

TLA+ models of the concurrent core of go-baresip (the Go package at the root of
the repository) and of the G.722 codec it brings along, the TLC runs that check them on small instances, and TLAPS
proofs for all values of the parameters. `PROJECT.json` lists the components,
runs, mutants, findings, hazards and theorems, and maps every definition to the
lines of source it stands for.

    tlc -workers 2 -config WsHub.cfg MCWsHub      # one run
    tlapm WsHub_proofs.tla                        # one module of proofs

## 1. The system

go-baresip links the C program baresip into a Go process and talks to it over a
TCP connection to itself (baresip's module `ctrl_tcp`, netstrings with JSON in
them). An application reads two Go channels (events and responses) and calls
`CmdXxx` functions; browsers can do both over websockets.

    baresip (C main loop in Run)
       ^ |  control connection (netstrings)
       | v
    Cmd, keepActive      read() --> eventChan, responseChan --> application
       ^    ^              |
       |    |              +-----> eventWsChan, responseWsChan (dropping)
       |    +-- autoDialSchedule,          |
       |        hangup timers              v
       +--------- CmdWs <--------------- wsHub.run <--> readPump, writePump
                                                        (one pair per browser)

| component | state | operations | interacts with |
|---|---|---|---|
| control connection (`gobaresip.go`, `Cmd`) | `ctrlConn`, `ctrlConnAlive`, the two application channels | `read`, `Cmd`, `keepActive`, hangup timer, `Run`, `Close` | baresip by the connection, the application and the hub by channels |
| websocket hub (`ws.go`) | `clients`, each client's `send` channel, sockets | `register`, `unregister`, `command`, broadcast of events and responses, `readPump`, `writePump` | `read()` by two bounded channels, `CmdWs` by a call |
| automatic dialling (`commands.go`) | `autoCmd.num` behind a read-write lock, one goroutine per schedule | `CmdAutodialadd`, `CmdAutodialdel`, `autoDialSchedule` | `Cmd` |
| hangup gap | `autoCmd.hangupGap` (atomic) | `CmdAutohangupgap`, the timer in `read()` | `read()`, `Cmd` |
| netstring framing (`netstring.go`) | a buffered reader | `readNetstring`, `decode`, `encode` | `read()` |
| lifecycle (`gobaresip.go`) | what `setup` has initialised in C | `New`, `setup`, `end`, signal and exit handlers | everything |
| options, command builders | fields of `Baresip`; none | one assignment, one `Cmd` each | |
| G.722 codec (`g722/`) | the bands' predictor and quantiser state, bit buffers | `g722_encode`, `g722_decode`, baresip's module callbacks | baresip |
| speech (`espeak/`) | an open WAV file, a soxr handle | `Save`, the synthesis callback, `CloseWavFile`, `Resampler` | files |
| page, example, `libbaresip/` | | not part of the program's own logic | |

What makes each correct, and hard to get right:

- *Control connection.* One goroutine feeds two channels that block and two
  that drop, answers auto commands with state that other goroutines change, and
  races with `Close`. Nothing may be lost, doubled or overtaken towards the
  application; auto replies must be fresh; everything must end after `Close`.
- *Hub.* A client's `send` channel is closed in three places by two kinds of
  events while pumps come and go. No panic; no gap in what a client sees; no
  goroutine, socket or map entry left behind.
- *Automatic dialling.* The lookup and the insertion are two critical sections,
  and a schedule knows its number by name only. A listed number is dialled, at
  its gap; a deleted one no longer.
- *Framing.* Any segmentation, any end: nothing cut, joined or made up.
- *Codec.* Two copies of one predictor must repeat each other step for step, from
  codes that carry less than the encoder knows; values must stay in range; packed
  codes cross the calls; after a loss nothing resets either side.
- *Speech.* Globals shared by all calls, a file that a failing step leaves behind,
  a resampler with input and output of its own.
- *Lifecycle.* The order of a dozen C calls, and what a failing one leaves.

## 2. Modules

| module | models | lines |
|---|---|---|
| `Fanout` | abstract: one log, subscribers that get it from where they joined | |
| `WsHub` | `ws.go`: hub goroutine, `serveWs`, both pumps, the channels | ws.go:36-201 |
| `MCWsHub` | bounds and symmetry for TLC | |
| `SeqLemmas` | lemmas on sequences and on recursive functions | |
| `WsHub_proofs` | safety of `WsHub` for all parameters, and that it implements `Fanout` | |
| `CtrlClient` | the control connection from `New` to the end of `Close` | gobaresip.go:182-320, 404-435; commands.go:65-98 |
| `AutoDial` | the number map and the schedules | commands.go:301-363 |
| `CtrlWrite` | the writers of the control connection, in detail | commands.go:80-98; gobaresip.go:182-194, 290-297, 309-320 |
| `Netstring` | `encode`, and `readNetstring` in its loop | netstring.go:34-137 |
| `System` | both together, the hub as a caller of `Cmd`; `INSTANCE`s `WsHub` over `CtrlClient`'s channels | gobaresip.go:222-275; ws.go:161-201; commands.go:274-298 |
| `MCSystem`, `MCNetstring` | a bound and inputs for TLC | |
| `CtrlClient_proofs`, `AutoDial_proofs`, `CtrlWrite_proofs`, `Netstring_proofs` | safety of these for all parameters | |
| `System_proofs` | that `System` implements `CtrlClient` and `WsHub`, and what follows | |
| `G722Band` | the codec's arithmetic: quantisers, predictor, scale factors, filters | g722_encode.c:49-150, 187-242, 293-376; g722_decode.c:63-151, 188-241, 279-391 |
| `G722Pack` | how codes travel: the bit buffers and the bytes | g722_encode.c:380-395; g722_decode.c:260-277 |
| `G722` | an encoder, the codes on their way, a decoder; composes the two above | g722_encode.c:152-176, 271-396; g722_decode.c:153-176, 260-394; g722.c:61-148 |
| `MCG722` | the signals for TLC | |
| `G722_proofs` | the codec's safety for all signals, losses and lengths | |

Conventions. A goroutine is a program counter; every Go channel operation,
library call or critical section is one step. An unbuffered channel operation is
one step of both parties; a buffered channel is a sequence. A `select` with a
`default` never waits. An operation that panics in Go is recorded in `fault`,
never excluded by a guard. Operators named as mutants in `PROJECT.json` stand
before the operator they alter and occur in no specification.

### WsHub

`hub` is what `wsHub.run` is doing: waiting in its `select`, in `CmdWs`, or in
the loop over `h.clients` of a broadcast (`todo` holds the clients still to
visit, in any order, as Go's map iteration is). `serve`, `rp` and `wp` are the
HTTP handler, `readPump` and `writePump` of each connection. `batch` is the
websocket frame `writePump` composes and `got` what it has written in complete
frames. The peer of a connection may vanish at any moment (`gone`); a write to it
may still succeed for a while. `log` and `from` are history variables.

Left out: a successful ping, pong deadlines other than as `gone`, the contents
of messages and commands, and the `!ok` cases of `eventWsChan` and
`responseWsChan`, which nothing in the repository closes.

`Idle` describes the states in which every goroutine waits for the outside
world, and deadlock is checked: any other state without a successor, say two
goroutines waiting on each other, would be reported.

### CtrlClient

`rd` is `read()`, `keep` is `keepActive`, `call[c]` a goroutine inside `Cmd`,
`timer` the hangup timers `read()` has started, `main` the goroutine
that calls `Run` and, when it returns, `Close`. `out` and `wire` are the two
directions of the connection. `ver` counts changes to the state behind
`autoCmd`: a reply carries the value `read()` found, so that freshness can be
stated. External: baresip answers in order and emits events at will; the
application takes from both channels in turn.

`read()` ends on any error (gobaresip.go:202-206), and there are two sources of
errors: the connection may end while `Run` goes on (`ConnEnds`: ctrl_tcp drops it, or it
breaks), with what is under way lost or still readable, and baresip may send
bytes that are not a netstring (a message of kind `bad`). Nothing connects again, and
`ctrlConnAlive` stays set until `Close`. A write may fail at any time, and then the
command does not go out. `Cmd` returns the error; the hangup timer and
`keepActive` do not look at it, so the call of such a timer (`failed`) is not hung
up. Writes that are cut short are in `CtrlWrite`. The hangup gap counts at the
moment `read()` handles the answer to the dial (gobaresip.go:241): a gap cleared before that
starts no timer, one cleared after it makes no difference, and
`DialledIsHungUp` is about the latter.

`Delivered` leaves out what it has to: messages behind bytes that have ended
`read()`, and a connection that is no longer up.

The number map and the hangup gap are read one after the other in the code
(gobaresip.go:253-258); `ver` stands for both together.

### System

`CtrlClient` and `WsHub` each have the other side of the two websocket channels as
an environment that does more than the real one: the hub takes from the
channels when it likes, and messages are published when `read()` likes. `System`
extends `CtrlClient` and puts `WsHub` in the place of its environment (`H`), over
the same two channels. `BriefChan` is their contents as `WsHub` sees them, kind
and number of a message; `Published` is what `read()` has offered, counted by
what the application's channel has been given. A step is one of the connection's own (`Process`),
one of the pumps' or of the hub's with them (`Pumps`), or one that both take part in: the
hub's receipt of a message (`TakeWs`) and its call of `CmdWs`. The
hub is one of the goroutines that call `Cmd`, `Hub`: while it is in `CmdWs` it
broadcasts nothing, and `CmdWs` returns when the command is written or has failed.
`CmdWs` ignores two texts, for which it returns at once.

The steps are those of the two modules, so nothing of either is left out, but
for the pieces in which a command is written (`CtrlWrite`) and the schedules
(`AutoDial`), which are goroutines in `Cmd` like any other. `System` is a
safety specification; liveness is checked of each part alone, where the
environment may do more.

### AutoDial

`num` is `autoCmd.num`. A call works through its list; looking a number up,
inserting it and starting its schedule are three steps. `scheds` are the
goroutines in `autoDialSchedule`; `late` counts a schedule's dials since its
number was deleted. Gaps are those that fit a `time.Duration` in seconds
(`LongestGap`): of a longer one the product at commands.go:339 wraps around, and
`NewTicker` panics when it comes out negative.

### CtrlWrite

In `CtrlClient` a command is written in one step. Here it goes out in `Size`
pieces through a socket buffer of `Room`, and `pc[w]` follows a goroutine through
`Cmd` or `keepActive`: the test of `ctrlConnAlive`, `SetWriteDeadline`, and
`Write`, which holds the descriptor's write lock (`lock`), waits while the buffer
is full and gives up when the deadline has passed or the connection is closed.
There is one `deadline` for all. `PeerReads` is baresip's decoder, which expects
the pieces of a command in order. `cut` and `waited` are history variables.
Go's `net.Conn` is external: that its `Write` is atomic towards other `Write`s,
and that a new deadline takes effect on one under way, is how Go documents it.

The module also justifies two steps of the others: that `Cmd` writes in one step
(no command is interleaved with another), and that the hub returns from `CmdWs`
(`WritesReturn`).

### Netstring

`encode` is an operator, since it only appends to a buffer. `readNetstring` is
three steps, `ReadLength`, `ReadPayload`, `ReadDelim`, because it may wait in
each, over an `input` of which `avail` bytes have arrived. `decode` is the case
in which all bytes arrive before the first step. Bytes are digits, the two
delimiters and others. At the end of the input `ReadByte` fails, and
`UnreadByte` then puts the last byte of the payload back, which the next call
reads again: if it is a colon, `decode` fails with a wrong length instead of
ending at `io.EOF`. The model has this step (`pos - 1`).

A length is computed digit by digit in an `int`, which wraps around without a
word (netstring.go:53-60): `Wrap`, for an `int` of the values -`Limit` to
`Limit` - 1. A header that overflows may therefore be worth a small positive number,
and is then taken for it.

Left out: read errors other than the end of the input, which end the loop, too, but
at the delimiter discard the payload in front of it (netstring.go:73-75), and an allocation of the payload's buffer that fails.

### G722, G722Band, G722Pack

The one part of the repository that computes rather than coordinates, and the
one where two pieces of code must agree without talking: `enc` and `dec` are the
two states, `flight` the codes made and not yet decoded, `track` the encoder's
bands at each of them. A step is a turn of the loop of `g722_encode` or
`g722_decode`: a call is some turns of its side in a row, nothing is shared but the
bytes, and nothing happens between two turns, so that how the turns are divided
into calls makes no difference. Rate, packing and `eight_k` are any that
`g722_encode_init` and `g722_decode_init` set, `eight_k` of each side apart, as the
two are set apart; baresip itself (g722.c) uses 64 kbit/s and 16 kHz only, and
no packing. `LoseCode` is a lost packet, one code at a time, or one that `encode`
(g722.c:141) gives up after `g722_encode` has changed its state. Losses of packed
bytes, after which nothing finds the boundaries of the codes again, are left out.

`G722Band` has every shift, table and limit of the code, so that the model
computes the very numbers: 320 turns of tones, steps and full scale, at all
rates, left the same bands and samples as the compiled C. Where the two files do the same
there is one operator: their copies of `block4` differ in the order of two
additions only (g722_encode.c:85, g722_decode.c:85-86). Arrays begin at 1 here, and
scratch elements (`sp`, `sg`, `ap`, `bp`, index 0 of the histories) are gone.
In `G722Pack` a buffer is the sequence of its bits, the least significant first: the
masks and shifts of the code take from its front and add at its end.

With `eight_k` the encoder sets the two bits of the high band (`0xC0`, index 3, the
quantiser's smallest positive level), where the comment at g722_encode.c:343 has
them zero; the model does what the code does.

Left out: `itu_test_mode`, which nothing sets; the allocation of the states; the
errors of g722.c's callbacks for arguments that baresip never passes.

## 3. Runs

| run | instance | shows |
|---|---|---|
| `ws_hub` | 2 connections, `send` of 2, hub channels of 1, 2 events, 1 response, 1 command | `TypeOK`, `NoPanic`, `OpenWhileRegistered`, `DrainReady`, `NoGap`, `ImplementsFanout` |
| `ws_hub_live` | 1 connection, same channels | `EventuallyReleased`, `AcceptedIsWritten` |
| `ctrl_client` | 1 goroutine, 3 commands, no hub | `AutoReplyFresh`, `DialledIsHungUp` |
| `ctrl_client_live` | 1 goroutine, 1 command, 1 unsolicited message (an event, one to discard, or bytes that end `read()`), 1 ping, all channels of 1 | `TypeOK`, `AppLossless`, `WsFollowsApp`, `Delivered`, `ShutdownCompletes` |
| `system` | the hub, 1 browser and 1 goroutine, which compete for 1 command, 1 ping, 2 responses, all channels of 1 | `AfterTheApp`, `ImplementsWsHub` |
| `ctrl_client_close` | 1 goroutine, a hub | a violation of `NoPanic`: finding 1 |
| `auto_dial` | 2 goroutines, 1 number, gaps 0-2, 3 calls with up to 2 entries | `TypeOK`, `Coverage`, `OneLateDial`, `StopsAfterDelete`, `KeepsDialling` |
| `auto_dial_info` | 1 goroutine, gaps 1 and 2, 3 calls | a violation of `InfoMatchesSchedules`: finding 2 |
| `ctrl_write` | 3 writers, commands of 2 pieces, a buffer of 2, no bound on their number | `TypeOK`, `OnlyCutsGarble`, `NoStaleTimeout`, `WritesReturn` |
| `ctrl_write_cut` | 2 writers | a violation of `SuccessIsSent`: finding 3 |
| `netstring` | all inputs of up to 5 bytes, encodings of up to 2 payloads (of up to 2 bytes, or of 12), an `int` of five bits (`Limit` 16) | `TypeOK`, `OnlyWhatWasSent`, `AllThatWasSent`, `Tiled`, `Terminates` |
| `g722` | 14 pairs of samples of 4 kinds, 1 change of signal, 3 codes in flight, 2 losses, all rates, packed or not, `eight_k` on either side | `TypeOK`, `Conserved`, `Lag`, `InStep`, `ScalesApproach`, `BandsJoin`, `NoWrap` |

Why these bounds are enough to be interesting: three messages overflow a `send`
channel of two, so the hub drops slow clients in all the ways it can, with a
message queued, in `writePump`'s hands and half-way through a batch; a hub
channel of one makes `read()` drop; two connections let one client be slow while
another is served. With channels of capacity one, `read()` waits in every send
that can wait. Three calls of two entries let two goroutines add the same number
with different gaps while a third call deletes it. Numbers do not interact, so
one is enough. Three commands are what it takes to set a hangup gap, dial, and
clear the gap while the timer sleeps; as `Cmd` does not wait for its answer, they
are also enough for a later change to overtake an earlier answer, with one goroutine
already. In `system` two responses, one to the command and one to the ping, fill a channel of one and make the other
drop; events take the same path through `read()`. More goroutines, browsers and
messages are what the proofs are for. With a buffer of two, a third writer's
command starts where the first's second piece is still in the buffer, and a write
waits before, in and after a command. Five bytes hold two frames with a payload
of one byte or one frame with a delimiter too few or too many; a payload of
twelve has a length of two digits. An `int` of five bits holds that length, but 31
and 33 wrap around to -1 and 1, within the same five bytes. Fourteen pairs are more than the eleven that a
sample takes through both filters, so that `BandsJoin` compares signal with
signal, and more than the eight codes after which the packing of any rate is back
where it began; a tone at full scale has by then driven the low band's scale factor
to its limit. A change of signal from full scale to silence, or to the other
band, is what predictors adapt to least well. In every run of the connection it may end, and any write may fail.

Fairness, and why the code justifies it. The Go scheduler runs goroutines that
can run: weak fairness of each goroutine's steps. Go's `select` chooses at random
among the ready cases, and a channel queues its waiting goroutines: strong
fairness for each case of the hub's `select`. `CmdWs` returns, because its
write has a deadline. Tickers tick. The application takes from both channels,
as README.md:18-33 and example/main.go do. baresip answers the commands it has
received while it runs and the connection is up. In `CtrlWrite` time
passes (`DeadlinePasses`), a writer runs, and Go's write lock queues those who
wait for it: strong fairness of `Lock`. In `Netstring` the reader runs. The codec is
called when there is something to encode or decode, and may stop at any point: its
run has no liveness and no deadlock check. No
fairness is assumed of browsers, of the network, of baresip's events, of a write
succeeding, of the connection ending or lasting, of `Run` returning, or of anyone calling a command. Invariants do not
depend on fairness: the runs with liveness properties check them under the fair
specification, the others under the one without.

## 4. Findings

1. `Close` can make `read()` panic (gobaresip.go:295). Nothing waits for
   `read()` to end before the channels it sends on are closed; a message that
   has arrived just before, or a full channel, is enough.
2. A number deleted and added again before its old schedule's next tick is
   dialled by two schedules (commands.go:321-350), and `autocmdinfo` shows only
   the newer gap.

3. A write that times out with a part of the command in the socket leaves the
   connection in use (commands.go:92, gobaresip.go:318): the next command goes out
   in the middle of the truncated one, and `Cmd` reports success for it.

## 5. Proofs

`WsHub_proofs` proves for any set of connections, any capacities and any number
of messages what `ws_hub` checks for two connections:

| theorem | property |
|---|---|
| `TypeCorrect` | `[]TypeOK` |
| `HubNeverPanics` | `[]NoPanic` |
| `RegisteredIsOpen` | `[]OpenWhileRegistered` |
| `DrainNeverBlocks` | `[]DrainReady` |
| `ClientsMissNothing` | `[]NoGap` |
| `LogFollowsReader` | `[](Ordered /\ LogInOrder)` |
| `HubIsFanout` | `ImplementsFanout` |

Assumptions: the capacities are positive naturals and the bounds naturals (the
`ASSUME`s of `WsHub`, which TLC evaluates in every run).

The argument. None of the properties but `TypeOK` is inductive. `IInv`
adds: while a broadcast runs, `todo` is a non-empty set of registered clients
and no client leaves the map otherwise (`Broadcasting`), and a closed client had
been registered and its `readPump` is started only after registration
(`ClosedJoined`). With `OpenWhileRegistered` this is inductive: the hub only
sends to and closes clients in its map, and those are open; the two close
sites remove the client in the same step, so the later `unregister` of its
`readPump` finds it gone. `DrainReady` is inductive with the types: only the
pump itself takes from its channel. `NoGap` needs to say where each client
stands in the log (`GapInv`): a client not yet visited by the running broadcast
is exactly one message behind, a visited one is level, one that was dropped
stays behind for ever; what it has been sent is the stretch of the log from
`from`. `SeqLemmas` has the facts on heads, tails and stretches that the steps
of this proof need.

`HubIsFanout` is the refinement: every step of the hub, of a pump, of a browser or of
`read()` is a step of `Fanout`'s `Publish`, `Join`, `Deliver` or `Leave`, or leaves
its variables alone. Most leave them alone, because what `Fanout` calls delivered is
what stands in complete websocket frames. The steps that carry the argument
are two. The hub's receipt of a message is a `Publish` only if the message is not
in the log yet: `Ordered` says that whatever is on its way to the hub is newer than
all of its kind in the log, and in order (`Rising`, `Behind`). And a frame that
`writePump` completes is a `Deliver` of everything in it at once: by `GapInv`
what a client has got, the frame, its channel and what the hub has yet to send
it make up the log from where it joined, so that what it has got with the frame is a
longer beginning of that stretch (`FrameDelivers`). `LogFollowsReader` states
`Ordered` on its own, for `System_proofs`, and with it that the log has the messages
of a kind in their order.

`CtrlClient_proofs` proves for any number of goroutines, any capacities and any
number of messages what `ctrl_client` and `ctrl_client_live` check:

| theorem | property |
|---|---|
| `TypeCorrect` | `[]TypeOK` |
| `NothingLost` | `[]AppLossless` |
| `HubFollows` | `[]WsFollowsApp` |
| `AnswersFresh` | `[]AutoReplyFresh` |

`TypeOK` needs that `read()` starts only in `Run` (`ReadAfterRun`) and that
`keepActive` is within its bound when it writes (`PingDue`). `Lossless(k)` is
`AppLossless` for one kind together with `Taken(k) <= arrived[k]`; the step that
carries the argument is `LosslessTake`: the first message of kind `k` on the
wire is the next one, because `WireHasRest` says the next one is there and
`WireInOrder` that nothing precedes it. `Follows(k)` adds to `WsFollowsApp`
that, while `read()` is between its two sends, the message it holds is the last
one in the application's channel and the hub has not seen it yet; that it is
the last one is where `Lossless(k)` comes in. `Fresh` needs two more facts: no
question anywhere on its way is younger than `ver` (`Asked`), and the answer in
`read()`'s hands is no older than its question and than the answers already
queued (`HeldFresh`).

`System_proofs` puts the two together, for any goroutines, browsers, capacities and
numbers of messages:

| theorem | states |
|---|---|
| `ConnectionRefined` | `SysSpec => ImplementsCtrlClient`, which is `CtrlClient`'s `Spec` |
| `HubIsRefined` | `SysSpec => ImplementsWsHub`, which is `WsHub`'s `Spec` under `H` |
| `BrowsersFollowTheApp` | `[]AfterTheApp` |
| `ConnectionKeepsPromises` | `AppLossless`, `AutoReplyFresh` and `WsFollowsApp` in the system |
| `HubKeepsPromises` | `NoPanic` and `NoGap` of the hub in the system |
| `BrowsersSeeAFanout` | the system implements `Fanout` |

The first is by cases: each step of `System` is one of `CtrlClient`'s or leaves its
variables alone. The second is about `read()`. `WsHub` has one step in which a
message is published and offered; in the system the message arrives, is read,
handled, put into the application's channel, perhaps after a wait, and only then offered. All of
these but the last must be invisible (`Hidden`), and the last must be the next
number of its kind (`OfferPublishes`). `Published` makes them so: it does not
count the message that `read()` is about to offer, so that the step that puts it
into the application's channel changes nothing (`PutHidden`), and the
application, which moves messages from its channel to what it has got, changes
nothing either. That the number is the next one is `Follows` of `CtrlClient_proofs`, that it
is within the bound `Lossless` and `Bounded`; so this needs the invariant of
the connection (`SysInv`).

With both refinements every theorem of the two parts holds in the system;
`HP` is `WsHub_proofs` under the mapping. `AfterTheApp` needs both sides: what a browser has been sent is a stretch of
the hub's log (`NoGap`), whose messages are in order (`LogInOrder`) and have been
published (`Ordered`), and what is published is in the application's channel,
by the definition of `Published`.

`AutoDial_proofs` proves for any numbers, gaps, goroutines and number of calls:

| theorem | property |
|---|---|
| `TypeCorrect` | `[]TypeOK` |
| `ListedIsCovered` | `[]Coverage` |
| `DeletionStops` | `[]OneLateDial` |

`Coverage` is inductive with the types: a live schedule keeps its number and
its gap, and a caller that has inserted a number goes on to start it.
`OneLateDial` needs `LookedBefore`: a schedule that is about to dial has looked
its number up, and has not dialled since the number was deleted.

`CtrlWrite_proofs` proves for any set of writers, any size of command and any
buffer:

| theorem | property |
|---|---|
| `TypeCorrect` | `[]TypeOK` |
| `CommandsStayWhole` | `[]OnlyCutsGarble` |
| `DeadlineIsOwn` | `NoStaleTimeout` |

`OneHolder`: a writer that is in `Write` holds the lock, and is the only one.
`InStep`: as long as nothing was cut, the pieces that baresip has taken and those
in the socket follow each other as they should, and the last of them is the
latest piece of the one who holds the lock (or the end of a command). So whatever
the decoder takes next fits. `DeadlineFresh`: if the deadline has passed and a
writer has set it since, then it passed after he did.

`Netstring_proofs` proves for any bytes, any payloads, any segments and any end
of the connection, and for an `int` of any width:

| theorem | property |
|---|---|
| `ItoaValue` | the digits of a length are worth that length |
| `TypeCorrect` | `[]TypeOK` |
| `PayloadsTile` | `[]Tiled` |
| `NothingMadeUp` | `[]OnlyWhatWasSent` |
| `NothingLost` | `[]AllThatWasSent` |

Assumptions: no payload is longer than an `int` can say, as `len` returns one.

For any bytes the invariant is `IInv`: `TypeOK`, `Tiled` and `HeaderRead`, which
says that the bytes behind the reader, from where the last frame ended, are a
header with its colon, and the payload after it. The exception is the byte
`UnreadByte` has put back at the end of the input (`SteppedBack`): there no
header follows, because all that is left to read is that one byte.
For encoded payloads `BatchInv` says the same against the payloads that were sent.
It speaks of a layout, the positions at which the frames end: `Layout` shows that
`encode` has one, `FrameFound` that the first colon after the end of a frame is
the one behind the next length, `ItoaValue` that the length is the payload's. `NothingLost`
then is a matter of where the reader can have ended: at an empty payload, at the end of
the last frame, or because bytes are missing (`EndedWhere`).

`Itoa`, `Worth` and `FlattenSeq`'s fold are recursive functions. That such a function exists and satisfies its equation is a theorem of the library
with an operator as a parameter, out of reach here. `SeqLemmas` proves it with
sets and functions only: of all `n` up to which no solution exists there would be a
least one (`Least`), and a solution up to `n` can be extended
(`PartialSolution`), any two agreeing (`SolutionsAgree`); `Recursion` puts them
together. Every other induction in these proofs is a least counterexample, too.

`G722_proofs` proves for any set of signals (pairs of
16-bit samples), any length, any number of codes in flight and any number of
losses:

| theorem | property |
|---|---|
| `TypesAreRight` | `[]TypeOK` |
| `CodesAreConserved` | `[]Conserved` |
| `LagIsBounded` | `[]Lag` |
| `DecoderFollows` | `[]InStep` |
| `ScalesComeCloser` | `ScalesApproach` |
| `BandsComeTogether` | `[]BandsJoin` |

The packing: `Conserved` is inductive with the types and with the lengths of the two
buffers, less than a byte in `out_buffer`, less than a byte in `in_buffer`. `PackStep`
and `UnpackStep` follow one bit each through both buffers; `LagBound` counts them.

The codec: `IInv` has `PackOK`, that and what it needs; `SidesOK`, both states in
their ranges; `Chain`; and `InStep`. `InStep` alone says nothing of the next
code. `Chain` does: from each entry of `track` to the next the encoder has done what
the code between them says (`Follows`). A code that is encoded adds a link: the
lemmas `BitsBack` and `IndexBack` say that the decoder gets the four bits that the
encoder has adapted to out of a code at every rate. One that is decoded
consumes the first link, which is just what the decoder does, and one that is
lost drops it. The ranges are lemmas about one operator of `G722Band` each, from
`ClampRange` up to `AdaptLowRange`; what makes them compose is that the products
are of two 16-bit values, that the scale factor stays in its band's limits
(`LogScaleRange`, `ScaleRange`), and that UPPOL1's limit depends on UPPOL2's.
`ScalesComeCloser` rests on `Chain`, too: whatever was lost, the next
code moves both logarithms by the same amount, the leak brings them together
(`LeakGap`), and limits do not take them apart (`ClampGap`).

`BandsComeTogether` is about sums of twelve products over a signal's past, and was
first taken to depend on the signal. It does not. Sent one after the other
through the splitting and the joining filter, a signal is multiplied by the
coefficients' products with themselves, shifted; these add up to 2^24
for the sample eleven pairs back and all but cancel for the rest (`CoeffsAre`,
`Convolved`), so that what is left is at most a constant, whatever the signal,
plus what the two roundings can add (`TapsOff`, `NearEnough`). The invariant is
`Heard`: there is a history of 23 pairs of samples that explains the encoder's
filter, the bands of the last twelve turns, and the signal they are compared with
(`HistoryOK`); the pairs before the first are silence. A turn shifts the history by one
(`HeardMore`).

The assumptions of all are the `ASSUME`s of their modules: capacities and sizes
are positive, bounds are naturals, gaps are naturals up to `LongestGap`, signals are pairs of 16-bit samples.

Only model-checked: the liveness properties, and `NoWrap` of the codec. `NoWrap` says
that the decoder's samples fit in the 16 bits they are cast to. The joining
filter can add up to about 3.2 times full scale from bands that are each in range,
and the code casts without a limit (g722_decode.c:390-391); that it does not
happen hangs on how near the quantisers have kept the bands to those of a
signal that was in range, which is true of the signals `NoWrap` is checked with
and not a property of every sequence of codes.

## 6. Plan

In this order, all done: the hub and its pumps with the abstract fan-out; the
control connection; automatic dialling; the writers in detail; framing; the
codec; the proofs about each.
Last, `System`: the control connection and the hub together, and that what is proved
of each holds in both.

What is left: `AutoDial` and `CtrlWrite` could be composed with `CtrlClient` in the same way.
They meet it in `Cmd` only, where `CtrlClient` has any goroutine call at any time.

## 7. Not modelled

- *Options, command builders.* An assignment, or one string and one call of `Cmd`.
- *Lifecycle* (`New`, `setup`, `end`, the signal handlers). One goroutine that calls
  baresip's C functions in a fixed order; what a call out of order does is decided
  in libraries of which the repository has the headers and the archives only.
  The parts that other goroutines meet are in `CtrlClient`.
- *Speech.* `Save` and `Resampler` are sequential, and what can go wrong in them hangs on
  when espeak calls back and on how many frames soxr takes, holds back and
  returns at the end, again libraries without source. A model would put assumptions
  about them in the place of the code. Read from the code alone: the flush in
  `Resampler.Write` (resample.go:172) writes to the start of the buffer whose
  first frames the pass before has filled. `PROJECT.json` lists this and the other
  hazards of this part without a property.
- Wording of commands and of the auto reply, logging, the HTML page, the example
  program other than as the usage that `CtrlClient` assumes.
- *Third-party headers* (`libbaresip/`, `espeak/*.h`): declarations without
  behaviour. They are nine tenths of the C lines of the repository, so that a
  count of modelled C lines stays low: the codec is all the C there is
  to model, and the Go code is where the rest of this project is.
