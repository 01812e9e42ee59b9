# A TLA+ verification of projectrtp

projectrtp is an RTP media server: a Node.js addon written in Rust
(`rust/src`), and a JavaScript control plane (`lib`, `index.js`) that lets
servers open channels on remote nodes. This project models the addon's
channels and what keeps them honest: who owns a channel's state while tasks
hand it to each other, what happens to commands and events on the way, and
what is left behind when a channel ends; what a channel does with the packets,
digits, prompts, recordings and streams it is given; and the servers and nodes
around it. TLC checks the models on small instances, and TLAPS proves the most
important facts for every instance.

All paths below are relative to the repository; Rust paths are relative to
`rust/src`.

## Inventory

| Part | State | Operations | Talks to |
|---|---|---|---|
| Channel actor, `channel/actor.rs` | `Mode` (Local with the state and its subsystems, or Mixed with a handle), a bounded command queue, a 20 ms ticker | one command or one tick at a time; enter and leave a mix; close | mixers (`add`, `remove`, `forward`, awaited), the registry, JavaScript (events) |
| Mix actor, `channel/mixer.rs` | a map of members, each the whole state of a channel; a bounded mailbox; a ticker | `Add`, `Remove`, `Forward`, the mix tick with its idle sweep | actors (one-shot replies), JavaScript (events) |
| Facade, `channel/facade.rs` | per `ChannelObject` a handle and a `mix_slot`; the registry and two counters | `open_channel`, `close`, `mix`, `unmix`, `play`, `record`, ...; all but `dtmf` are synchronous and use `try_send` | actors (commands), mixers (spawned and referenced) |
| Addon root, `lib.rs` | none | `run`, `shutdown`, `stats` | the registry, the port pool |
| Receive loop, `channel/recv_loop.rs` | the socket, shared handles on the jitter buffer and the remote address | sorts datagrams into STUN, DTLS, RTP | the jitter buffer, the DTLS session |
| Jitter buffer, `channel/jitter.rs` | slots, the next sequence number to read | `push` (receive loop), `pop` (tick), `clear` (entering a mix) | |
| Local tick, `channel/tick.rs` | counters of ticks and of silence | inbound, players, barge-in, recorders, outbound, idle check | subsystems below |
| Players, recorders, `channel/player.rs`, `recorder.rs` | segments and loops; power gates, pause, durations | play, record, playrecord, finish, pause | files, JavaScript (events) |
| DTMF, `channel/dtmf.rs` | the sender's queue and burst; the receiver's last burst | enqueue, next packet; feed | the tick, JavaScript (events) |
| DTLS, `channel/dtls_session.rs` | a handshake task, its one-shot and its abort handle | started by `remote`, polled by the tick, aborted by close | the receive loop |
| Audio streams, `channel/audio_reader.rs`, `audio_writer.rs` | bounded queues | feed, drain, end | JavaScript streams |
| Port pool, `portpool.rs` | a queue of free even ports | acquire, release on drop | the facade |
| Control plane, `lib/server.js`, `lib/node.js`, `lib/message.js` | channels and nodes by id, timers, sockets | open, close, forward commands and events, reconnect | the addon, TCP |
| Codec bundle, `codec.rs` | one frame in up to eight representations | feed, require, encode | the two ticks |
| Sound files, `soundfile.rs` | a position, the end of the data | open, seek, read | players, the disk |
| Filters, STUN, RTP buffers, vendored codecs | sample history, byte layouts | pure functions | |

What is hard here:

* A channel's state is *moved* between tasks. While it is inside a message or
  a reply nobody owns it, and either end of the conversation can disappear.
* A mixer stops when a `Remove` leaves it empty, without looking at what is
  queued behind that message, and also when the last handle to it is dropped.
* The facade never waits: its own idea of who is mixed with whom (`mix_slot`)
  is ahead of the actors, and commands can be refused by full queues.
* A mixer can close a channel on its own (the idle sweep), behind the back of
  its actor, the registry and the receive loop.
* The JavaScript thread, the actors, the mixers, the receive loops and
  `shutdown()` are all concurrent.
* A channel's socket is shared by its state, its receive loop and every
  handshake, and its port goes back to the pool when the state alone is dropped.
* What a bundle decoded in one tick is still there in the next, unless it is
  fed.
* A stream's end is the absence of a sender, which the other side finds out
  when it looks.
* A server and a node each see the end of a connection in their own time.

What makes each part correct:

* **Actors and mixers**: a channel's state is in one place at any time and is
  given up only when the channel ends; commands are applied once and in order;
  no task waits for ever; no mixer stops with a channel in it.
* **Facade**: `mix_slot` agrees with reality once the queues are drained;
  `stats()` counts every channel once; a closed channel is out of the registry
  before JavaScript hears of it, and then stays silent.
* **Jitter buffer**: what it hands out is what was received, in order, each
  packet once, whatever the loss, reordering and duplication of the network.
* **Players, recorders**: every play and record that starts is told to end,
  once, also when it is superseded, interrupted, mixed or closed.
* **DTMF**: one press is one event.
* **Codec bundle and audio phases**: everyone hears everyone else, of this tick,
  and not himself; recordings keep the two legs apart.
* **Soundsoups**: what is heard is what was asked for, and a read returns.
* **Streams**: what is accepted is played or delivered in order, losses are
  counted, an end comes last and once, and nobody is held up.
* **Ports and DTLS**: a port is neither lost nor given out twice; a handshake
  does not outlive what asked for it, and a channel uses the newest keys.
* **Control plane**: a promise that resolves tells the truth, a node that lost
  its connection comes back once, and a connection lasts as long as a channel on
  it.

## Plan

The order is that of importance; all of it is done except the last item.

1. Channels, mixers, facade: `MixGroup`, `ChannelMix`, `ChannelLife`,
   `ChannelMixInv`, `ChannelMixProofs`.
2. The jitter buffer on wrapping sequence numbers, fed by a network that loses,
   repeats and reorders: `Jitter`, `JitterProofs`.
3. Digits, two senders and a receiver on a lossy stream: `Dtmf`, `DtmfProofs`.
4. Prompts, writers and recordings under commands and ticks, locally and in a
   mix: `Playback`, `PlaybackProofs`.
5. A player's way through files, trims and loops: `Soup`, proved about in
   `StreamsProofs`.
6. The bounded queues to and from JavaScript: `StreamCommands`, `Writers`,
   `Readers`, `StreamsProofs`.
7. Ports, sockets and handshakes, composed with the ends of a channel that
   `ChannelMix` distinguishes: `Network`, `NetworkProofs`.
8. Whose sound goes where in a local tick and in a mixer's: `Audio`,
   `AudioProofs`.
9. Servers, nodes and connections: `Control`, `ControlProofs`.
10. Left: the bytes of a message's frame (`lib/message.js`), the
    fan-out of digits to more than one member, the tick's idle regimes.

`ChannelMix` is composed of `MixGroup` (which it extends) and the actors, and
implements `ChannelLife` (`INSTANCE ... WITH`). The other modules each take one
aspect of a channel and treat the rest as a choice: `Playback` may be mixed at
any time, `Network` may be swept, `Writers` may be closed. What they choose from
is what `ChannelMix` allows.

## The modules

### MixGroup and ChannelMix: actors, mixers, facade

`MixGroup` holds the mixers (`mixer`, `mailbox`, `members`) and the request
each actor has outstanding (`reply`), with one operator per message handled.
`ChannelMix` extends it with the actors and the facade and composes the two.

| TLA+ | code |
|---|---|
| `mode[c]`, `handle[c]` | `Mode::Local`, `Mode::Mixed { mix }`, and the placeholder that `take_local` leaves |
| `pc[c]` | which `await` of `run()` the actor is in; `loop` is the select, `closing` the code after the loop, `posting` the gap between `unregister_channel` and the `Close` event |
| `cmds[c]`, `CmdDepth` | the command queue (64) |
| `reply[c]` | the one-shot of `add` or `remove`: waiting for room in the mailbox (`unsent`), for the answer (`pending`), or its outcome |
| `mailbox[m]`, `MailDepth` | a mixer's mailbox (64) |
| `slot[c]` | `mix_slot` of the `ChannelObject` |
| `registry`, `closed` | `CHANNEL_REGISTRY`, `CHANNELS_CLOSED` |
| `recv[c]` | the receive loop's task and its cancellation token |
| `sent`, `applied`, `hand` | numbers given to the commands that act on the channel itself (`Apply` stands for play, record, remote, echo, ...), and where they have got to |
| `mixing`, `closes`, `evicted`, `refused` | what JavaScript was told, and two histories the properties need |

One action is what a task does between two points where another task can
interfere: an actor takes a command (`TakeClose`, `TakeEnterMix`, ...), its
message gets into the mailbox (`SendRequest`) or cannot (`SendFails`), the
answer is acted upon (`FinishAdd`, `FinishLeave`, `FinishRemove`,
`FinishReclaim`). Facade calls are atomic, since JavaScript is one thread,
except `open_channel`, which spawns the actor before it registers it, and
`shutdown()`, which runs on a worker thread.

Reading notes:

* `MixerCommand::Stop` is dead code and not modelled; `recv()` returning `None`
  in an actor ("handle-dropped") cannot happen, since `run` holds a sender of
  its own queue.
* The garbage collection of `ChannelObject`s is not modelled: a `mix_slot`
  keeps its handle until `unmix` or another `mix`.
* `dtmf()` waits for room instead of giving up; as an `Apply` it is one that
  was called later.
* An idle timeout cannot fire while `open_channel` is still in its last lines:
  the shortest one is 20 s.
* The acks of `EnterMix` and `LeaveMix` go to receivers the facade has already
  dropped, and are left out.

### ChannelLife: the promise

One token per channel: nowhere, with its actor, leaving in an `Add`, with a
mixer, returning in a reply, gone. `ChannelMix` defines `WhereIs` and the run
`mix_two` checks that it implements `ChannelLife` under it. The abstract
module says in a page what may happen: the token moves along one cycle; it is
given up by its actor (`Finish`), lost with a mixer it was sent to (`Lose`) or
swept by one (`Sweep`); and a swept channel's actor posts a second `Close`
(`CloseWithout`).

### Jitter: the buffer

`slots`, `outSn` and `primed` are the fields of `JitterBuffer`; `Push`, `Tick`
(one `pop`, as the tick and the DTMF drain call it) and `Clear` its operations.
A packet is its position in the sender's stream; its sequence number, and so
all the buffer sees of it, is the position modulo `SnCount`. The network sends
the next position, leaves some out, and brings any that is not too old, any
number of times and in any order.

What the network may not do is stated as constants: bring a packet more than
`Skew` behind the newest, or one older than that after `Lifetime` pops without
a packet; or advance by more than `Drift` while a packet is in the buffer. A
packet spends at most `BufferCount + 1` pops in the buffer, under a second, and
2^16 packets take twenty minutes: without such a bound nobody could tell two
laps of the numbers apart.

`peek` and `discard_peeked` are `pop` in two halves, and only `rtpbuffer.rs`'s
JavaScript class uses them apart.

### Dtmf: digits

`sender["send"]` and `sender["relay"]` are `dtmf_send` and `dtmf_relay`,
`receiver` is the `DtmfReceiver` of the other end. A tick (`Tick`) calls
`next_event` on one of them, or, in a mix, on both in turn (`step`); a call
rests (`Rest`) or begins a burst (`Begin`) and sends one packet of it
(`SendBody`, `SendEnd`), which arrives or not. `Hold` is a change of direction,
`Move` one in or out of a mix, which carries the senders along as they are.
Timestamps count ticks, so `NEW_BURST_TS_DELTA` (3200) is 20 of them.

The history `bursts` says of each burst what arrived of it and what was
reported. `crossed` says that a burst began while one of the other sender was
under way, or its gap was: two bursts then alternate on one stream, and the
receiver cannot tell. `stale` says that a packet of the burst arrived when
half or more of the sequence numbers had gone by since the last one that the
receiver took (`HalfGone`): `feed` takes such a number for an old one.

What a mixer does with a reported digit is an input (`Relay`). It fans out one
digit per member and tick (`channel/mixer.rs:608`), the last one drained.

### Playback: prompts, writers, recordings

| TLA+ | code |
|---|---|
| `player`, `bargein`, `pending`, `prebuffer`, `writer`, `recorders` | the fields of `Subsystems`; each thing is known by the number of the request that asked for it |
| `phase`, `digit`, `inbound`, `outbound`, `unfed` | how far the tick is, and its local variables |
| `mode` | whether the actor or a mixer has the subsystems |
| `playing`, `told` | what the events have told JavaScript |
| `clashed`, `silenced`, `lost` | histories of what goes wrong by design of the code |

Commands (`Play`, `PlayRecord`, `Record`, `Resume`, ...) are the arms of
`handle_command_local` and their twins in the mixer's `apply_forwarded`, which
do the same; the model therefore has them once, in either mode. A tick is taken
apart at its phases: `Digit` and `Drained`, `TickPlayer`, `TickWriter`,
`BargeIn` or `Listen`, one `FeedRecorder` per recorder, `TickEnds`. The
modes differ in two places: a mixer skips the rest for a tick of digits only,
and feeds recorders only with what came in. Samples, power, durations and
errors of files are choices.

Reading notes: a `RecordFinish` for a recording that is still pending does
nothing; pausing and resuming a recorder that waits for power opens its gate
without a `recording` event, and so does a gate that opens and reaches its
maximal duration in one frame (then only `finished` is posted);
`DestroyWriteStream` posts nothing; `Lose` is a mixer's idle sweep, or an `Add`
that failed, which close files without telling.

### Soup: a player's files

| TLA+ | code |
|---|---|
| `index`, `reader`, `remaining`, `fileLoop`, `overallLoop`, `finished` | the fields of `Player` and of the open `SoundReader` |
| `frame` | the output of a `read` under way, or `Nothing` between reads |
| `files`, `overall` | the parsed soup |
| `returned`, `short` | what all reads returned, and whether one returned too little |

`read` is a loop that awaits the disk in every turn, so each turn is an action:
`OpenCurrent`, `ReadSome`, `LeaveFile`, and the two ways of failing. A sample is
its file and position. `Advance` is the code's `advance`; the reference,
`Expected`, is written from what the parameters mean and knows nothing of
windows or turns. Its variables have names that are not those of the streams, so
that `StreamsProofs` can state theorems about all three.

### Writers and Readers: streams

`StreamCommands` is the channel's command queue as both see it (`open`, `cmds`).
`Writers` models the `Writable` that `createWriteStream` returns
(`writable`, `pending`), the facade's `write_senders` (`senders`), the bounded
queue of chunks (`queue`) and the `AudioWriter` in the channel (`writer`,
`buffered`). A sender that is taken away is the writer's end, which `IsDrained`
finds when the queue is empty. `Readers` models the channel's readers, the queue
from each to its forwarder task (`frames`), the queue of calls into JavaScript
(`calls`) and the `Readable` (`readable`, `got`). In both, JavaScript reaches the
channel by `cmds`, which may be full; commands that are refused are lost, as in
`try_send`. In a mix the commands go on to the mixer and a tick may come between,
so the tick and the commands are in no order here. The two have names of their
own throughout, so that one module can state theorems about both.

Reading notes: the queue of a writer is drained by every tick, so `buffered`
grows as fast as JavaScript writes and the README's bound of a second is none;
`index.js:530` says that a frame is dropped when a stream's consumer is slow,
but `push` queues it in the `Readable`; a push that is refused is tried again
for ever, also after the writer, stream or channel has gone; the sweep of closed
readers in `feed_readers` never finds one, since a forwarder outlives its
reader.

### Network: ports, sockets, handshakes

| TLA+ | code |
|---|---|
| `pool`, `hand`, `tries` | `POOL`, the reservation that `open_channel` holds while it binds, and its attempts |
| `life`, `reserved`, `recving`, `cancelled` | the channel and what its state owns, its receive loop and that loop's token |
| `task`, `owner`, `result` | a handshake task, whose it is, and its one-shot |
| `feed`, `shaking` | `dtls_inbound_tx`; `dtls_result_rx` with `dtls_handshake_abort` |
| `keys` | which handshake the SRTP contexts are from |

A socket is bound while anything has it (`Held`), and a port is free when the
pool has it: two different things, which is what the module is about.
`Teardown` is the end of a channel by its own actor and `Sweep` the mixer's,
which aborts and cancels nothing. An abort is a request: a task that is being
aborted may still finish its last step (`HandshakeSucceeds`). `InitPool` is a
second `run()`, which replaces the pool whatever has been given out of it.

### Audio: whose sound goes where

A sound is the set of its sources, silence the empty set, and a source that is
not of this tick is not `fresh`. `cache` is the codec bundle of each channel with
all its representations (`wire`, `narrow`, `wide`, `encoded`); `NarrowOf`,
`WithNarrow` and their kin say what the `require_` functions return and what they
leave behind. `LocalTick` is the audio of a tick that is not mixed;
`InboundPhase`, `Mix2` or `MixAll`, and `PostMixPhase` are the phases of
`mix_tick`. Every command that changes who hears whom is there (`Direction`,
`Echo`, `Remote`, `Tap`, entering and leaving).

Reading notes: in a mix of three or more, `feed_linear_8k` has replaced a
member's frame by its mix before the recorders ask, so they and the readers get
the mix of the others, although `channel/mixer.rs:793` says the inbound frame is
still cached; in a mix of two `send_leg` looks at the source's `send` only; a
reader in wire format gets, in a mix of two, the peer's sound if it asks for the
codec that the leg was encoded in; alone, readers at 16 kHz or in wire format
and a wideband recorder are given the frame of an earlier tick when nothing came
in. `TwoLegs` and `ReadNow` say what remains true.

### Control: servers and nodes

| TLA+ | code |
|---|---|
| `mode` | who connects: the node to a listening server, or the server to a listening node, once per channel |
| `opens`, `opentimer`, `closes`, `known`, `link` | the promises and timers of `server.js`, its map of channels, `channel.connection` |
| `chans` | `newchannel.channels`, the channels that share a connection |
| `named`, `unnamed`, `nameof` | the server's nodes, by instance once that is told |
| `listening`, `destroyed` | whether the server listens, until `destroy`; the connections whose end it destroyed |
| `sock`, `nside`, `alive`, `toNode`, `toServer` | the two ends of a connection, whether it is whole, and what is on its way |
| `current`, `timers` | the node's connection and its reconnects under way |
| `garbled` | the node's `messagestate` is out of step with the messages that come |
| `nchan`, `ncon` | the node's channels and the connection each was asked for on |

A break (`Break`) or the death of the node (`Dies`) takes what is on its way
with it, and each side sees the end when it does (`ServerSees`, `NodeSees`); the
error of a socket and the close right behind it are one step. A connect can fail
(`NodeConnectFails`, `Refused`). A break may cut a message in two (`Cut`): a node
that connects has one `messagestate` for all its connections (`lib/node.js:46`,
`:238`), so the parser takes the first message of the next connection for the
rest, and swallows messages until it happens to be in step (`NodeSwallows`).

The program can have the server destroy connections with channels on them.
`CloseNode` is `closenode`: it asks for a status with no current channel, which
is the status of the message that told the instance and is never brought up to
date, so the model lets it be called whatever is open. `Destroy` is the server's
`destroy`; a server that connects has no sockets in the map it goes through. The
third destroy, in `_write` (`lib/server.js:701`), is of a socket that has an
error already, and changes nothing that the model has. A channel's further
commands are passed on unchanged and left out.

### ChannelMixInv and the proof modules

The inductive invariants and the theorems; see *Proofs*.

## Runs

The runs of channels and mixers use the module `MCChannelMix` and that of the
audio phases `MCAudio`, which add the symmetry; the others use the component's
own module. The deadlock check is off: JavaScript may simply stop calling, a
sender stop sending, and the bounded models do stop.

| run | instance | shows | states |
|---|---|---|---|
| `mix_two` | 2 channels, 2 mixers, queues of 2, 3 calls, a socket error | custody, close and stats, events, slots, commands; refinement of `ChannelLife` | 207 k |
| `mix_live` | 2 channels, 1 mixer, fairness | closes complete, requests end, unused mixers end | 159 k |
| `jitter_read` | 3 slots, 12 numbers, a stream of 14, fairness | order, no late packet refused, nothing stuck | 143 k |
| `dtmf_bursts` | 3 digits, bursts of 2 + 1, gaps of 2, 6 numbers, 2 packets missed in a row, 8 ticks | one press is one event | 14.0 M |
| `playback` | 4 requests, 2 files | prompts own what waits for them; events are true | 2.7 M |
| `audio` | 3 channels, a narrow and the wideband codec, 2 ticks, 1 command | who is sent, recorded and read | 550 k |
| `soup` | up to 2 files of 0 or 3 samples, all trims, rates, loops, 3 frames of 2, 1 fault, fairness | what is asked for is heard; reads end | 242 k |
| `stream_write` | 2 writers of 4 samples in chunks of 1 or 3, frames of 2, a queue of 1, 2 commands, fairness | played in order; one true end; nobody is held up | 105 k |
| `stream_read` | 2 readers, 3 ticks, a queue of 1, 2 commands, fairness | frames counted; the end is last and comes | 266 k |
| `network` | 2 channels, 3 ports of which 1 is foreign, 2 tries, 2 pools, 2 handshakes, fairness | ports exact; keys in time; tasks end | 121 k |
| `control` | both modes, 2 channels, 3 connections, 1 break, failed connect, `closenode` or `destroy`, 2 lives, fairness | promises true; nodes and connections kept; nothing waits | 378 k |
| `says_end` | 1 writer | refutes the README: `end()` may lose what was written before | |

Bounds. `MaxCalls` bounds the JavaScript calls other than opening, which are at
most one per channel. Three calls are enough for every pairwise race of mix,
unmix, command, close and shutdown (a mix, and two calls that race with it).
Groups of three are left to the proofs: `CustodyInductive` holds for any number
of channels. Queues of two make "full" an ordinary case. Two mixers let a
channel be told of a second group while it is in the first. `MaxErrors` bounds
the receive loops that fail by themselves. Channels and mixers are symmetric:
nothing in the code orders them except the lock order of two `mix_slot`s, which
one thread takes. Symmetry is not used where liveness is checked.

In `jitter_read` the stream (`MaxPos`) is longer than a lap of the 12 numbers,
and a lap is four times round the three slots, so that numbers and slots both
wrap with packets of either lap under way. In `dtmf_bursts` three digits are a
burst, the same digit again with all of its ends lost, and one of the other
sender; six numbers wrap within the second burst, and what the receiver misses
between two of its packets may be half of them and more (`MaxQuiet`, and packets
that it takes for old); `MaxMoves` lets a hold and a
move, or a move in and out, fall anywhere. In `playback` four requests are a
recording of each file, a playrecord over one of them and whatever supersedes
it; `Lose` and `Close` need no bound, since they end the channel.

In `audio` three channels are the least that has every case of `mix_tick` (one,
two, more), and any of them may be local. Two ticks are what it takes to hear
something stale, with a command between them. One narrow codec stands for all,
since the code tells only 8 kHz from 16 kHz and one codec from another. In
`soup` a file of three samples is more than a frame and not a whole number of
them, and at twice the rate one frame with a sample left over; an empty file is the one that
makes `read` go round; three frames of two reach over two files and into the
second loop. In `stream_write` a queue of one and a frame of two against chunks
of one and three make every chunk end within a frame or span two, with refusals
in any place; the second writer takes the first one's place. In `stream_read`
a queue of one drops a frame whenever its forwarder rests for a tick. In
`network` two pools are enough for a port to be in the pool twice, and with one
port foreign and two tries an open can fail by its tries or by the pool. In
`control` three connections are a first, one after a break and one after a
death; `OpenShared` makes the second channel share the first one's. `MaxBreaks`
counts the breaks, the failed connects and what the program cuts: with any number
of them nobody is ever connected for long.

Fairness. `ChannelMix`'s `FairSpec` assumes that a task which can run does run:
weak fairness on each actor, each mixer and each cancelled receive loop. That is
what tokio's scheduler gives, and its bounded channels are first-in first-out.
Nothing is assumed of JavaScript calls, idle timeouts, the 100 ms timeout or
socket errors. A mixer's idle sweep needs an empty mailbox because its `select!`
is biased. `Jitter`'s assumes that ticks go on, as they do while a channel lives;
nothing is assumed of the network. `Soup`'s assumes that the disk answers;
`Writers`' and `Readers`' that the channel's task, its tick, the forwarders and
Node's event loop run; `Network`'s that an open goes on, that ticks poll, that a
dropped state is dropped, that a cancelled loop ends, and that a handshake has
its timeout (`HANDSHAKE_TIMEOUT`), but not that a peer answers; `Control`'s that
both event loops run, that timers fire, that TCP delivers or breaks, and that a
node closes what it is asked to close. No fairness is put on a program's calls,
on breaks or on deaths.

### Properties

* `Custody`: the state is in exactly one of actor, mailbox, mixer, reply, unless
  its actor is done or it is lost (swept, or sent to a mixer that did not take
  it).
* `CommandsConserved`: the commands in the mixer's mailbox, in the actor's hand
  and in its own queue are, in this order, exactly those after the last applied
  up to the last accepted, across every move in and out of a mix.
* `SlotAgreement`: when a channel has caught up with its mix commands, the
  facade and the actor agree on its group, unless a full queue refused one.
* `StatsBalance`, `CloseAfterUnregister`, `SilentAfterClose`, `MixingIsTrue`:
  what `stats()` and the event stream tell JavaScript is true.
* `LifeSpec`: `ChannelMix` implements `ChannelLife`.
* `CloseCompletes`, `RequestsEnd`, `MixersEnd`: nothing waits for ever.
* `InOrder`, `LateAccepted`, `NoneStuck` (Jitter): what is read is in order, each
  packet once, unless reading was set again; a packet whose turn is to come is
  not refused because of what overtook it; and no packet is passed over for ever.
* `OncePerPress`, `NoneMissed` (Dtmf): a press is reported once, and if any of
  its packets but the ends arrives, it is reported; unless bursts of the two
  senders cross or, for the second, a packet of it comes when half or more of
  the numbers have gone by.
* `PromptOwns` (Playback): a pending recording, its prebuffer and barge-in
  belong to the prompt that plays. A prompt ends in eight ways, each written out
  in one to four places.
* `PlayTold`, `RecordTold` (Playback): events pair up, in order, through every
  replacement.
* `Sends` (Audio): what goes to a remote is the sum of the others' sound of this
  tick (`MixMinus`), in a mix of two nothing of an open leg is left out
  (`Bridged`), and alone it is the channel's own (`SentAlone`). `OneFrame`: a
  bundle never holds two sounds at once. `Takes`: recordings keep the legs apart
  (`TwoLegs`) and readers get this tick's sound (`ReadNow`), as far as the code
  does so.
* `PlaysAsAsked`, `EveryReadEnds` (Soup): against the reference; the second
  needs a sample in every endless loop, without which the channel's task goes
  round for ever (`channel/player.rs:89`).
* `PlaysInOrder`, `EndTold`, `StreamsGoOn` (Writers): no chunk is lost,
  repeated or reordered by refusals; `play/end` comes once, after the end; no
  write and no ended writer stays for ever.
* `FramesCounted`, `EndIsLast`, `StreamsEnd` (Readers): each frame a reader was
  fed is delivered, on its way or counted; the end follows the last of them.
* `PortsExact`, `KeysInTime`, `KeysGoOn`, `TasksEnd` (Network): no port is bound
  by two channels, or lost; a handshake does not outlive the `Remote` that
  started it; newer keys replace older ones only; handshakes settle and sockets
  close.
* `PromisesTrue`, `NodeIsThere`, `ConnectionKept`, `GoesOn` (Control): a promise
  that resolves tells what happened at the node; a node has one live connection
  and the server knows it; a connection that the server made lasts as long as its
  channels; opens with a timer settle, closes arrive unless their connection
  breaks, also after a message was cut, and a node comes back while the server
  listens. The first open on a node that connects has no timer and is excepted.

Further properties have a theorem but no run: `StopsEmpty` (a mixer never stops
over a member), `SocketReleased`, `Window` (Jitter), `Prompt` (Dtmf; no hold or
move makes a digit wait anew), `OneFile` and `PlayFirst` (Playback).

Each property of a passing run has a mutant: an operator with a plausible bug
(named after what it does wrong, just before the operator it would replace)
under which TLC finds the property violated. Where a property is a conjunction
of two, each half has one.

### Disagreements between code, comments and README

* `README.md:459` says that after `writer.end()` the writer plays what it still
  holds and posts `play/end`. Node destroys a `Writable` that has finished, and
  the wrapper's `destroy` (`index.js:609`) sends a command that makes the channel
  drop the writer with all it holds, unless a tick is faster (`says_end`).

The following were met on the way and have no run.

* `channel/actor.rs:364` calls a failed `mix.add` something that "shouldn't
  happen in normal flow". `a.mix(b); a.close()` is enough: `a` enters and
  leaves, the mixer stops empty, and `b`, which nobody closed, is closed with
  reason `mix-add-failed`.
* `channel/facade.rs:29` says the registry must let go of a channel before its
  `Close` event. The idle sweep (`channel/mixer.rs:962`) posts the event and
  leaves the registry alone; a later `close()` posts a second one.
* `portpool.rs:83` says a reservation lives as long as the sockets. A state
  dropped by a mixer returns its port, while the receive loop, which nobody
  cancels, keeps the socket.
* `channel/dtmf.rs:255` says each event is reported once. In a mix both senders
  are called in a tick (`channel/mixer.rs:721`); when JavaScript dials while a
  peer's digit is relayed, two bursts alternate, and each is reported again and
  again.
* `channel/dtmf.rs:296` says the first packet of an event is reported. The
  receiver compares sequence numbers with those of the last DTMF packet, and
  for the second half of a lap of sound takes new ones for old; the press is then
  not reported. `NoneMissed` states this as its exception (`stale`).
* `lib/node.js:46` has one `messagestate` for all connections, and
  `lib/message.js:74` drops what does not parse: after a message was cut, the
  next connection's first messages are lost. An open with a timer is rejected
  then; the plain open on a node that connects (`lib/server.js`,
  `_createforlisten`) has none, and waits for ever. A close is never lost so: its
  channel is there only because its open came through on the same connection.
* `closenode` (`lib/server.js:818`) goes by a channel count that is not brought up
  to date, and sets `rejectconnections`, which nothing reads.
* The repository's `README.md:447` says that `channel.play` supersedes a writer
  and that there is at most one outbound source. `Command::Play` and
  `Command::PlayRecord` leave the writer where it is; the prompt
  then passes unheard, and the writer's `play/end` reads as the prompt's.
* `channel/actor.rs:486` says every start of a recording has a matching finish.
  `activate_pending_recorder` (`channel/actor.rs:265`) closes a recorder of the
  same file without an event, where `Command::Record` posts one.
* `lib.rs:60` says `shutdown()` waits for the actors. It polls a registry that
  `shutdown_all_channels` has itself emptied, so it returns at once; the
  channels it closes are not counted in `totalclosed`.
* `channel/jitter.rs:118` calls the packet it evicts from the slot to be read "a
  stale entry from a previous wrap". By `WindowHolds` it never is: it is one
  exactly `buffer_count` ahead, which `push` accepts since it drops only what
  is more than that ahead.
* After the buffer has drained, `push` sets reading back by the water level, and
  packets already read are read again if the network repeats them
  (`channel/jitter.rs:86`); `InOrder` speaks of a reading that was not set anew.
* What is left of a relayed burst when a channel leaves its mix goes out in the
  next one: only `dtmf_send` is called locally.
* The repository's README gives `play/end reason=new` for a superseded prompt;
  the code posts `replaced`.
* `is_drained_and_ended` (`channel/audio_writer.rs:109`) is asked after a frame
  was taken, and then also retires a writer that holds less than another one:
  that rest is not played.
* The mixer's sweep drops a member without aborting its handshake or cancelling
  its receive loop, so that a socket stays bound whose port is back in the pool.
  `channel/facade.rs:676` says that both binds should always succeed; the tries
  below it are what makes up for this.
* A `Remote` in a mix sets address and codec but starts no handshake, and does
  not restart the idle count: a channel that got its first `remote()` in a mix,
  and was silent for 20 s before, is swept by the next tick.
* A call longer than two hours that goes on hold closes at once: the hard limit
  counts ticks since the channel was opened.
* A listening server does not settle opens or forget channels when a node's
  connection ends, and its opens have no timer. An `open` event that comes after
  the timer has fired leaves a channel at the node that nobody has.
* After a node has come back, its channels' events come by the new connection
  and the server's commands go to the old one.
* An open that timed out stays in `newchannel.channels`, so the connection it
  shares is never destroyed.

## Proofs

Every theorem holds for any values of the constants that satisfy the module's
`ASSUME`; the `Max...` bounds are any numbers.

`ChannelMixProofs`, for any finite or infinite set of channels and mixers and
any capacities:

| theorem | property |
|---|---|
| `TypeCorrect` | `TypeOK`, with the bounds of queues and mailboxes |
| `CustodyInductive` | `CustodyInv` |
| `CustodyHolds` | `Custody` |
| `MixingHolds` | `MixingIsTrue` |
| `ClosesUnregistered` | `CloseAfterUnregister` |
| `SocketsReleased` | `SocketReleased` |
| `StopsHandBack` | `StopsEmpty` |
| `LifeImplemented` | `LifeSpec`, the refinement of `ChannelLife` |
| `SilenceKept` | `SilentAfterClose` |
| `StatsAddUp` | `StatsBalance` |
| `SlotsAgree` | `SlotAgreement` |
| `CommandsKept` | `CommandsConserved` |

The argument. `Custody` is not inductive: it counts places, and says nothing of
why a `Remove` in a mailbox cannot produce a second copy, or why a mixer's
answer finds its requester waiting. `CustodyInv` says it in five parts:

* `MixersInv`: a mixer that does not run owns nothing, and no channel has two
  requests in one mailbox;
* `RepliesInv`: what a reply can be at each point of `run()`;
* `ModesInv`: which mode goes with which point, and that an actor which is not
  local refers to a mixer;
* `QueuedInv`: a queued request is the one its actor awaits, at the mixer it
  refers to, or the one it gave up on after 100 ms;
* `PlaceInv`: given all that, where the state is. After an `Add` it is in the
  mailbox or the mixer named by `handle`, and nowhere else; after a `Remove`
  that failed it was swept.

The delicate step is the mixer's `Remove`: that the state it takes out can be
delivered needs `QueuedInv` to show that its requester still waits, since an
actor gives up only on a `Remove` sent after a first one failed, when there is
no member left to take. `StopsEmpty` follows: an unreferenced mixer has no
members, because each member's actor refers to it. `EndingInv` is the smaller
invariant behind the registry, event and socket theorems.

For the refinement, the mapping `WhereIs` looks into mailboxes and mixers. By `CustodyInv` it equals
`Spot`, which depends on the actor's `pc`, `mode` and `reply` and on `evicted`
alone, so that each action moves one channel's token and leaves the others
where they are (`PassesActor`, `PassesMixer`). `ToldInv` says how many `Close`
events a channel has by where its token is; that gives the steps of `ChannelLife` that
post one, and the silence after them. `CountInv` adds that the channels opened
are finitely many and the registry is among them. For `SlotsAgree`, `SlotInv`
says that the commands between an actor and the facade are a path of groups,
from the actor's to `slot`, which only mix commands change and which never goes
straight from one group into another: `Mix` refuses to merge groups, and
`Unmix` comes between. That two points of the path agree unless a mix command
lies between them is part of the definition (`IsPath`).

`CommandsConserved` is about the numbers of commands, which sets and an order on
positions say without a filter on sequences: the numbers in mailbox, hand and
queue rise, those of one place are below those of the next, and together they
are all from `applied + 1` to `sent`. What is not inductive in it is that a
command can be forwarded while its channel is on its way out, or in, of a mix.
`FlowInv` adds where commands can be: none is in another mixer's mailbox, none
in one's own while the channel is being added or has come back, and none behind
its request to leave, so that by the time the mixer answers it has applied all.

`JitterProofs` (any number of slots that divides the numbers, any water level
below it): `TypeCorrect`, `WindowHolds`, `LateHolds`, `OrderHolds`. The inductive invariant is
that a buffered packet lies in the slot of its number and at most `BufferCount`
ahead of reading. It survives a step of reading because the only packet that is
0 ahead is in the slot that is being read, by arithmetic on laps: two numbers
with one slot, at most `BufferCount` apart, are equal or exactly that far apart.
The same lemma gives `LateAccepted`. `InOrder` needs to know which lap is meant.
`LineInv` says that there is a position in the stream with the number `outSn`
such that all that is buffered lies in the window from there (`Placed`), and
that what was read cannot be read again (`Past`): either nothing as old is on its
way any more, or the position is beyond it and no further ahead of the stream
than the pops since a packet came. The position exists, but which one it is
changes: when the buffer is empty and the stream has gone on by laps, or reading
has run ahead by laps, `outSn` comes to mean another one, and the new packet
decides. The bounds on the network (`Skew`, `Lifetime`, `Drift`) are what is used
to show that a packet in the window is never a lap too early or too late.

`DtmfProofs` (any lengths with `NewBurst < Body + End + Gap`, which the code's
20 < 24 satisfies): `TypeCorrect`, `PromptHolds`, `OncePerPressHolds`,
`NoneMissedHolds`, for any quiet between bursts. `BurstInv` has four parts: what
the receiver remembers is a burst that it has reported; two bursts begin at least
`NewBurst` apart, since body, ends and gap lie between (`Spent` and `Late` count
the ticks of either); only the newest is under way; and a burst is reported at
most once, and is if its body was heard and no packet of it was `stale`.

`PlaybackProofs` (any files and requests): `TypeCorrect`, `PromptOwnsHolds`,
`PlayToldHolds`, `RecordToldHolds`, `OneFileHolds`, `PlayFirstHolds`. The
properties carry each other: a recording that is activated must be news
(`Fresh`: its request has neither a recorder nor events), recorders differ in
request (`OneId`) as well as in file, a prompt and a writer together mean a
clash (`Sources`), and recorders are fed in the last phase only (`Fed`). The
lemma `ActivateKeeps` says once what the end of a prompt does to recordings,
whichever of the ways it ends by.

`AudioProofs` (any finite set of channels and any codecs; channels are finitely
many because each has a port, and `Cardinality(mixed)` decides between the
mixer's two ways): `AudioTypes`, `BundlesAgree`, `MixesMinusOwn`,
`TakesThisTick`. `AudioInv` adds to the properties themselves that each bundle is
of one sound (`BundleInv`), that a frame is what its member has fed its bundle
and the bundle still has it when the mix is made (`FrameInv`), and what is done
in which phase (`PhaseInv`). The first is `OneFrame` with a witness, without
which a bundle of which only one entry is left could be filled with something
else. The lemmas on `Keeps` and `Plays` say once for each `require_` function that
what it caches is of the sound that is there.

`StreamsProofs` (any numbers of streams, ticks and samples, any depths):
`TypeCorrect`, `FramesAreCounted`, `EndComesLast` for `Readers`, and those on
`Writers` and `Soup` below. The counting
invariant speaks of three sequences in a row, delivered, in calls and in the
queue; `Forward` and `Called` move the boundary and leave the concatenation as it
is, and a tick appends the newest number. That a reader in the channel still has
its forwarder needs to know that each `create` is in the commands once and
brings a reader that was never there.

`WritersPlayInOrder` and `WritersTellTheirEnd` for `Writers`, by
`WriterInductive`. In `WriterInv`, `InLine` is the same idea: played, held in the
writer, pushed and being pushed are four runs of consecutive numbers, each
starting where the one before ends, and the last ends with what was written, for
as long as the writer is there or on its way; a refused push leaves them as they
are and `drain_receiver` joins two of them. `Pushes` ties the facade's sender to
the state of the stream, so that a writer which finds no sender has been given
everything (`Tells`). That flattening a queue with one more chunk appends that
chunk (`FlattenAppend`) is proved from the definition of `FlattenSeq` by an
induction on natural numbers, itself derived from `WFMin` of the library, which
takes sets.

`SoupTypes` and `PlaysWhatIsAsked` for `Soup` (any files with any trims, rates and
loops, any size of a frame, any numbers of reads and faults). `PlaysAsAsked` is
not inductive, since that what was heard begins what was asked for does not say
where the player is in it. `SoupInv` does: as long as nothing has failed there
are m, k and t such that what was heard is m rounds of the whole soup, then the
files before this one with their loops, then k loops of this file and its first t
samples (`SoundAt`, `Sounds`); m and k are the counters where these count, and
are known to exist where a loop is without end; t is tied by `InFile` to the
reader's position and to what is left of the window. Each turn of `read` moves t
(`ReadsOn`: a piece cut anywhere, by the frame, the stop or the end of the data,
rounds to whole output samples, and only the last one of a file is cut short),
and `advance` trades all samples of a file for one more k, all k for the next
file, all files for one more m (`SoundsLoop`, `SoundsNext`, `SoundsRound`).
`Leaves` is where window and reference meet: a file is left with nothing to
read exactly when t is the number of samples that trims and length leave it.
`Expected` cuts endless loops at more rounds than all reads together can hear
(`AgainBegins`). The lemmas on `FlattenSeq` are those of the writers.

`NetworkProofs` (any channels, ports, tries, pools and handshakes): `TypeCorrect`,
`PortsStayExact`, `KeysComeInTime`, `KeysOnlyGoOn`. `PoolExact` is a sum: of a
port's places in the pool and its holders, which each step moves by one from one
side to the other. It needs that the port in hand is in nobody's reservation and
that the pool's tail has one less. `KeysInTime` rests on what a result can say
of a handshake's number: handshakes of one channel are numbered in the order they
were started, and the newest is the one that is fed and waited for.

`ControlProofs` (any channels, connections, lives and breaks): `TypeCorrect`,
`PromisesAreTrue`, `NodeStaysThere`, `ConnectionStays`. The invariant says what
each message in flight is true of: an `open` on its way to the server is of a
channel that the node has opened, a `close` of one that it has closed, an `open`
on its way to the node of one that it has not seen, so that a channel at the node
only ever goes forward (`AllGoForward`) and what the server has been told stays
so. `OneLive` holds because at most one reconnect is under way and none while
there is a live connection (`NodesInv`, `LiveInv`). `SocketShared` is about the
connections that the server made: one is destroyed only when the closes of all
channels in `chans` have come by it, and every channel with a promise that
resolved is in it until then (`SharedInv`). What `closenode` and `destroy` cut are
connections that nodes made (`OperatorFacts`; only a server that listens has
those in its map).

With TLC only: the liveness properties, since the prover does not handle fairness
or `ENABLED`.

## Not modelled

The payloads: audio samples, filters and codecs, RTP and STUN bytes, WAV headers,
the ciphers. They are functions on floats and bytes without control. Parsing of
JavaScript parameters. The STUN responder, which has no state. The framing of
messages beyond what a cut one does to the parser: the model has a parser that is
out of step lose messages, but never read a valid request out of the pieces. The
control plane's statistics and passed-on commands. The digits
that a mixer fans out: it keeps the last one that each member drained in a tick
(`channel/mixer.rs:544`, `:608`), which is an input of `Dtmf` (`Relay`). The
idle regimes of a tick (`channel/tick.rs:493`): which of them ends a channel is a
choice of `ChannelMix`, and when is not modelled.
