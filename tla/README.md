# TLA+ models of the Lightning LPWAN protocol

This directory checks the Lightning tree-forming protocol in
`src/components/protocol/lightning` with TLC. It also checks the
discrete-event simulator in `src/components/simulator` that runs the protocol
against a radio medium.

## The system and its parts

Each node runs `Lightning::progress(time, message, rng)` (`lightning.rs`). The
call feeds the received message to the per-node state machine `Lightning::next`
(`state_machine.rs`), which has one match arm per (state, message) pair. It then
stores the new state. On a sink it also drains the collected child data into an
uplink batch. Finally it returns `State::get_action` (`states.rs`), which is one
of `Wait{end}`, `Receive{end, channel}`, `Transmit{message, channel}` or `None`.

A node joins in these steps:

1. It listens on the public channel for beacons for one beacon interval.
2. It waits for the next beacon of the best (fewest-hop) sender.
3. It sends a `Connect` on that parent's children channel after a random delay.
4. It receives a `ConnectAck` that gives the minute of its first data slot.

A joined node serves three kinds of time windows, kept in the scheduler
`Windows` (`window.rs`):

- **Beacon:** advertise and listen for `Connect`.
- **Child:** listen for a child's `Data` and answer with a `DataAck`.
- **Parent:** send its own and its children's data to its parent.

When a new window overlaps a queued one, `Windows::push` resolves it by kind
priority. `Window::delay` moves a window to the next gap. A node with
`MAX_CHILDREN` children pops its Beacon window and stops advertising.

The simulator's `run()` (`simulator/src/main.rs`) keeps one pending event per
node in a sorted queue, and each iteration handles the earliest event:

- A `Transmit` event calls `forward_message` (`sim.rs`). It:
  - marks colliding pending receptions corrupt;
  - applies the packet error rate;
  - cancels the recipients' pending events and queues their receptions.
- Any other event calls the node's `progress` and queues the node's next event,
  as its action asks.

The firmware (`components/firmware/src/main.rs`) drives the same `progress`
from one embassy task. The task gives the node a payload from a `u16` counter
when it has none. It performs the returned action on a LoRa radio:

- `Timer::at(end)`;
- a receive loop until `end` that keeps the first packet `postcard` can decode;
- `to_vec` of the message into a 32-byte buffer, then `lora_transmit`.

The cloud service (`components/cloud`) is a mio event loop. It accepts the
nodes' TCP connections and keeps them in a `Slab`. It applies the nodes' `Info`
and `Halted` reports and runs the operator's `list`, `halt`, `reset` and
`fwupdate` commands. `fwupdate` sends the firmware image, in chunks, to
every node that reported an incorrect CRC.

## Modules

| module | models | state and actions |
|---|---|---|
| `Windows` | `window.rs`: Window, WindowKind, Windows | no variables. Each operation is an operator on a sequence of `[kind, start]` records kept sorted like `SortedLinkedList<_, Min>`, which inserts before equal keys. `Delay`, the recursive `PushLoop`/`Push` (one resolution per iteration of the `while let` of `push`), `PopKind`, `IsFull`, `OffsetMin`. A panic is returned as `fault`. |
| `MCWindows` | the calls the state machine makes on `Windows` | VARIABLES `queue`, `fault`. Actions `PushBeacon`, `PushParent`, `PushChild`, `Pop`, `PopBeacon`, under the callers' obligations: one Beacon, one Parent, and Child windows that do not overlap each other. `Abs` instantiates `WindowSchedule` with `sched <- Range(queue)`. |
| `WindowSchedule` | the contract of `Windows::push`, `pop`, `pop_kind` | VARIABLE `sched`, the set of scheduled windows. `Push(k, s)` says only what may change: only Beacon windows, and Child windows when a Parent is pushed, leave the schedule; a window that enters is the pushed one, at or after `s`, or a Beacon moved later; a Beacon or Parent is always placed. `Pop` takes the earliest window, `PopKind(k)` the window of kind `k`. |
| `Lightning` | `state_machine.rs`, `lightning.rs`, `states.rs`, `context.rs`, `channel.rs`, `lib.rs` | VARIABLES `state[n]`, `ctx[n]` (Context), `uplinked` (sources of all uplinked data) and `fault`. Each arm of `Lightning::next` is an action `Arm(n, t, m)`. Each ends in `Become`, which is the rest of `progress` (store the state, sink drain) or `Fail(reason)` for a panic. `Progress` is their disjunction, and `GetAction` is `State::get_action`. |
| `Sim` | `simulator/src/main.rs` `run`, `sim.rs` `forward_message`, `ProtocolWrapper::progress` | EXTENDS Lightning. VARIABLES `time`, `events` (the event queue, with FIFO ties as in `libraries/sorted_linked_list`), `receiving` (the node's `receiving_channel`) and `simFault`. `Init` draws startup delays. `Transmit` is `forward_message` (the `Collide` walk, `Lost`, `Deliver`) followed by the sender's next event. `Step` is `progress`, the end-in-the-past check and the node's next event. `EventPop`/`EventRetain` are `SortedLinkedList::pop`/`retain`, and `LoopChecks` the assertions at the top of the loop of `run()`. |
| `MCSim` | test set-ups of `simulator/src/main.rs` | the rng outputs `MCRand`, the visibility relations of the tests (and `VisiblePairs`), the time bound, and `AllUplinkedByDeadline`. |
| `Postcard` | `message.rs` `Message`, `NodeData`; `lib.rs` types | the bytes `postcard` writes for a message: the variant index, `u8` as a raw byte, `u16`/`u32` as LEB128 `Varint`, `Option` as a tag, a `Vec` as its length followed by the elements. `Encode(m)`. |
| `Firmware` | `firmware/src/main.rs` main loop, `lightning.rs` payload | EXTENDS Lightning, with one node `Self`. VARIABLES `now`, `rx` (`rx_msg`), `payload`, `n` (the payload counter), `fwFault` and `received` (the radio events so far, bounded by `MaxRadioEvents`). Each loop iteration is one action, named after the action `progress` returned: `LoopWait`, `LoopReceive` (a packet sent on the tuned channel, arriving at the earliest `now + AIR_TIME` or at the latest `end - 1`), `LoopReceiveTimeout`, `LoopRadioError` (the receive loop ends early), `LoopTransmit` (`Serialize` fails exactly when the encoding exceeds `MAX_MESSAGE_SIZE`) and `LoopNone` (also the iteration in which `progress` panicked). |
| `MCFirmware` | the firmware's neighbourhood | a 32-bit `SelfId` (five varint bytes, as every DEVNUM of 2^28 or more), the messages a parent sends on the public channel and on its children channel, and the messages of a child |
| `Cloud` | `cloud/src/main.rs`, `client.rs`, `slab.rs` | VARIABLES `clients` (the `Slab<Client>`, free slots `None`), `colorOf`/`colorsLeft` (`Colors`), `serverFault`, `backlog` (connections the listener holds that `accept()` has not taken), `listenerReady` (a `SERVER_TOKEN` event is pending), and two ghosts: `lastCmd` (which clients a command meant and reached) and `peak`. A client record also holds its kernel receive queue `socket`, `client.buffer`, `ready` (an edge of its token not yet handled) and the ghosts `sent`/`applied` (the messages the node sent and the server applied). Actions `Connect` (a peer connects: one more in the backlog, and the edge-triggered listener becomes ready), `Accept` (one `accept()` per `SERVER_TOKEN` event), `NodeSend` (a node writes a frame: `Encode` is CBOR, COBS and the `0x00` delimiter), `PeerClose` (the FIN), `Read` (the whole client-token arm: one read of at most `ReadSize` bytes, `Ok(0)` removes the client, the buffer limit, then `DecodeFrames`, `IsCbor` and `ApplyMessage` for every complete frame, with `get_color` threaded through), `ReadError`, `ResetOrHaltAll`, `ResetOrHaltIndex` and `FwUpdate`. A failed write is a nondeterministic outcome (`WriteOutcomes`). |
| `MCCloud` | set-ups of the cloud service | two or three node ids, the connection bound, the scaled read size (2 bytes), the messages nodes send and how many per connection. (`MCCloudColors`, a palette of 2 colors for three ids, is an earlier set-up that no run uses any more.) |

### Abstractions

- **Payload.** A `NodeData` is represented by its source node. The simulator
  gives every node a fresh dummy payload after each `progress` call
  (`sim.rs:75-78`), so a node always has a payload, and only who uplinked
  matters.
- **Randomness.** `rng.next_u32()` is an element of the constant `Rand`. It is
  reduced with `%` exactly as the code reduces it. `MCRand = {0, 123457}` gives,
  for every modulus used, the smallest draw and one other. Every draw site
  branches independently, so the model also covers rng sequences that a real
  PRNG would not produce.
- **Integers.** TLC's integers are 32-bit. `adjust_for_clock_inaccuracies(d)`,
  which is `d*(10^6+ppm)/10^6`, is written as `d + (d*ppm) \div 10^6`. That is
  the same value for natural `d`.
- **Time.** Time is in milliseconds, as in the code, with the real constants of
  `lib.rs` and `main.rs`.
- **Packet loss.** `Lossy` replaces the PER draw: any subset of the recipients
  loses the message.
- **Panics.** A panic (`unwrap`, `expect`, `assert!`, `unreachable!`, u64
  underflow in a debug build) sets `fault`, `simFault`, `fwFault` or
  `serverFault`, and nothing runs afterwards.
- **Firmware payloads.** On the wire only the length of a varint matters, so
  the counter `n` ranges over the first value of each length (0, 128, 16384)
  and 65535. An increment stays in its class or moves to the next. A run may
  restrict the classes with `CounterClasses`; `{0}` stands for the first 128
  payloads. The payloads of other nodes' entries are the constant
  `ChildPayload`. The counter wraps at 65535, as a release build does; see
  the hazards for a debug build.
- **Firmware radio.** The network around the node is a set of
  `<<channel, message>>` pairs. A packet is received only on the tuned
  channel. It arrives at the earliest (`now + AIR_TIME`) or at the latest
  (`end - 1`) time of the listen window. Undecodable and weak packets only
  keep the receive loop going, so they are folded into the timeout.
  `MaxRadioEvents` bounds the packets and radio errors of a run.
  `AIR_TIME = TX_TIME = 80` ms, as the simulator's `TIME_ON_AIR`.
- **Cloud.** A byte of a message's CBOR encoding is represented by the
  message itself: an `Info` frame is two such bytes and the delimiter, a
  `Halted` frame one byte and the delimiter. `receive_buffer` (1024 bytes) is
  scaled to 2, so a read can end inside a frame or leave whole frames behind,
  as a 1024-byte read does with a burst of log frames. COBS cannot fail on
  the frames of a correct sender. A frame that does not hold one message's
  bytes is skipped, which is both the COBS `Err` path (skip to the next zero)
  and the CBOR error path. The 10 000-byte buffer limit is kept (as
  `BufferLimit`) but is out of reach, as it is for frames shorter than
  10 000 - 1024 bytes. `Log` and `Error` messages only print and are left
  out. Node ids are model values, and the expected firmware CRC is
  `"expected"`.

## Runs

The simulator runs use `CONSTRAINT TimeBound` (`time <= Horizon`), because
`run()` stops after its number of minutes. For the same reason they use
`CHECK_DEADLOCK FALSE`: once time passes the horizon the system really stops.
The firmware runs do the same with `now`.

| run | set-up | checks | result |
|---|---|---|---|
| windows | `MCWindows.cfg`: durations 4/2/2, clearance 1, minute = 6, MaxChildren 6, starts 0..16 | `QueueSeparated`, `DelayIsEarliestFit`, `ImplementsSchedule` | pass, 18k states |
| chain3 | 0 - 1 - 2 (test `chain3`) | `TypeOK`, `NoPanic`, `OneEventPerNode`, `ReceptionsTargetListeners`, `AllUplinkedByDeadline` (both leaves uplinked by 18 min through the relay), `DataMeetsListeningParent` | pass, 329k states |
| lossy | sink 0 and node 1 with arbitrary loss, 10 min | `NoPanic`, `OneEventPerNode`, `ReceptionsTargetListeners` | pass, 2.3M states |
| star3 | one sink and two leaves, all in range | the same three and `DataMeetsListeningParent` | pass, 2.4M states |
| fullsink | lossy with `MAX_CHILDREN = 1` | `NoPanic` | **violation** |
| pairs | sinks 0 and 1, node 2 hears only 0, node 3 only 1 | `CollisionRule` | **violation** |
| fwleaf | `MCFirmware_leaf.cfg`: a leaf, its parent's beacon and acks (also an ack for another node), radio errors, 4 radio events, 9 min | `NoFirmwarePanic` | pass, 282k states |
| fwdatasize | a relay whose parent gives it its first Parent window at 7 min, and a child with a subtree of four | `DataFitsRadioFrame` | **violation** |
| cloud | `MCCloud_cloud.cfg`: two node ids, two connections | `TypeOK`, `SlabWithinPeak`, `ColorIdentifiesNode`, `FramesDecodedInOrder` | pass, 437k states |
| listindex | three connections | `IndexCommandHitsListedNode` | **violation** |
| haltall | two connections | `AllCommandReachesConnected` | **violation** |
| accept | `MCCloud_accept.cfg`: `FairSpec`, two connections | `InputTakenIn` | **violation** |

What the properties say:

- **`OneEventPerNode`** strengthens the assertion at the top of `run()`.
  `forward_message` cancels and re-queues events, and each node must still have
  exactly one pending event.
- **`ReceptionsTargetListeners`** says every pending reception is for a node
  that listens, on that channel. Together with `OneEventPerNode`, this is why
  the `unreachable!()` arms for a message in a send or wait state are never
  taken.
- **`NoPanic`** collects every panic of the node and of the simulator loop.
- **`AllUplinkedByDeadline`** is the assertion of the simulator tests.
- **`DataMeetsListeningParent`**: whenever a `Data` message leaves, some node
  in range listens for child data on its channel. The child's Parent window
  comes from the minutes announced in `ConnectAck` and `DataAck`, extended by
  `adjust_for_clock_inaccuracies`. The parent's Child window is computed by
  `DelayConnectAck`, re-anchored to the time of `SendConnectAck`, and renewed
  by each `DataAck`. The two are computed on different nodes from different
  times, and only `DATA_RECEIVE_WINDOW` (350 ms) covers the difference. Without
  the re-anchoring the windows would differ by 85 ms (`SEND_DELAY` plus
  `TIME_ON_AIR`), which the 350 ms still absorb.
- **`ImplementsSchedule`** is a refinement: the queue of `MCWindows`, read as
  the set of its windows, implements `WindowSchedule!Spec`. The resolution loop
  of `push` must never move a Parent or Child window, move a Beacon earlier,
  drop a Child except for a Parent, or fail to place a Beacon or Parent.
- **`CollisionRule`** is an action property: on every transmission, a pending
  reception on the sender's channel that overlaps the new packet is marked
  corrupt exactly when its receiver can hear the sender. A node that listens on
  the channel, hears the sender and has no overlapping reception gets a clean
  reception `TIME_ON_AIR` later. This is the rule of `spec.md` §
  forward_message.
- **`NoFirmwarePanic`** says neither `progress` nor the firmware loop panics,
  whatever the radio delivers within the bounds, and whenever it delivers it.
- **`DataFitsRadioFrame`** says every message the node transmits fits the
  32-byte buffer of `to_vec`.
- The cloud properties:
  - **`SlabWithinPeak`**: the slab never grows beyond the most connections
    open at once, so freed slots are reused.
  - **`ColorIdentifiesNode`**: two clients share a color only if they report
    the same id.
  - **`AllCommandReachesConnected`** and **`IndexCommandHitsListedNode`**: the
    operator's commands reach the nodes they name.
  - **`FramesDecodedInOrder`**: for every client, the bytes of the messages
    applied so far, then `client.buffer`, then the socket, are exactly the
    bytes of the messages the node sent, and after a read the buffer holds no
    complete frame. So every message is applied once, in order, however the
    reads split the stream.
  - **`InputTakenIn`** (liveness, under `FairSpec`): every connection in the
    backlog is accepted, and every byte and end of stream in a client's
    socket is read.

### Findings

- **fullsink (code bug).** With `MAX_CHILDREN` = 1, the sink drops its Beacon
  window after its first child joins (`state_machine.rs:348-350`). If the
  `ConnectAck` or a `Data` is then lost, the child's window is not renewed.
  `ListenForData` next calls `windows.next()` on an empty queue
  (`window.rs:223`), and the sink panics. The same happens at any
  `MAX_CHILDREN` once every child is lost. `spec.md` says a full node only
  stops advertising.
- **pairs (spec/code divergence).** `forward_message` tests the new sender's
  visibility against each of its own recipients (`sim.rs:241`), not against the
  node whose reception overlaps. Sinks 0 and 1 beacon at the same time. Node 2,
  which cannot hear sink 1, has its reception from sink 0 marked corrupt. Node
  3 loses its own reception of sink 1 although nothing collided there.
  `spec.md` says only receivers visible to the new sender are affected.
  The rule fails under full visibility too, once there are four nodes. This
  was checked with `MCSim_pairs.cfg` changed to `Visible <- VisibleAll` and
  `Sinks = {0}`. Three leaves send `Connect` at the same instant. The walk for
  the second one breaks at the third one's `Transmit` event
  (`departure_time >= event.time`, `sim.rs:216`) before it reaches the sink's
  reception, so that collision is never marked. Also, the first overlapping
  reception empties the recipient list, so a second overlapping reception at
  another listener is never marked corrupt. With only three nodes (star3)
  neither can happen, so `CollisionRule` is checked only by pairs.
- **fwdatasize (code bug).** A relay forwards its child's Data of four entries
  plus its own entry. With 32-bit DEVNUM ids (five bytes each) and child
  payloads of 128 or more, the message is 36 bytes. `to_vec(&message).unwrap()`
  into the `Vec<u8, 32>` (`main.rs:269`) then panics. With one-byte payloads,
  five entries take exactly 32 bytes, and one two-byte payload is one too many.
  `spec.md` promises messages of at most 32 bytes and Data of up to 17 entries,
  but with such ids six entries never fit.
- **listindex (code bug).** `list` numbers nodes by position among the
  occupied slots, but `halt INDEX` looks the number up as a slab slot
  (`main.rs:426`).
- **haltall (code bug).** `halt all` stops at the first failed write (the `?`
  at `main.rs:419`).
- **accept (code bug).** The listener is registered edge-triggered, and the
  `SERVER_TOKEN` arm calls `accept()` once per event (`main.rs:129`). When two
  nodes connect before the loop handles the event, only one is accepted. The
  other stays in the listen backlog until yet another node connects, even
  under the fairness of the poll loop. mio documents that an edge-triggered
  source must be drained until `WouldBlock`. The client arm has the same flaw
  (`main.rs:176`): it reads at most 1024 bytes once per event. TLC reports the
  accept path first. With one connection, the same property fails on the read
  path: a node sends two frames, one read takes part of the first, and the
  rest stays in the socket until the node writes again. A FIN that arrives with
  data is likewise never read as `Ok(0)`, so the closed client is never
  removed.
- **colors (code bug, no run).** `Colors::get_color` never returns a color, and
  the ninth distinct id panics the server (`client.rs:231`). An earlier version
  of this project checked this with `MCCloudColors`. The count is direct and a
  unit test reaches it, so the run was given to `accept`. `MCCloudColors.cfg`
  still reproduces it with the current constants.

### Bounds and why they suffice

- **Windows.** Scaled durations keep every overlap case. These cases all occur
  within starts 0..16: each kind against each kind, a Beacon displaced twice, a
  full queue, and delays in both increments.
- **Simulator runs.** The horizons cover:
  - startup (up to 300 s);
  - one 30 s beacon interval of listening;
  - the join;
  - at least one 5-minute data interval per hop, so the relay in chain3
    forwards data at least once.

  The deadlines were set by the longest join the model allows (worst startup
  and rng draws).
- **pairs.** Four nodes are the fewest where a receiver hidden from the new
  sender can overlap a reception. Four are also the fewest for the
  full-visibility failures above: three transmissions at one instant, or two
  listeners and two senders.
- **Firmware.** Four radio events are enough for one full cycle: a beacon, the
  best beacon, the `ConnectAck` and a `DataAck`. They can also be spent on
  stray acks, radio errors and early or late arrivals. Within 9 minutes the
  leaf joins, sends its first Data and is acknowledged.

  fwdatasize uses `Rand = {0}`, which is a possible draw, so that the
  violation lies within the 5 radio events of its scenario:
  1. beacon;
  2. best beacon;
  3. `ConnectAck` with `next_window_min` 7;
  4. the child's `Connect` at the first Beacon window;
  5. the child's Data in its Child window at about 6 minutes.

  A parent gives 7 minutes when its own queue delays the Child window it
  offers by whole minutes.
- **Cloud.** Two connections and two ids reach every slot-reuse and color
  case. listindex needs a third connection for a hole below a live slot. Two
  messages per connection, with 2-byte reads of 2- and 3-byte frames, give a
  frame split over two reads and a read that holds a delimiter and the first
  byte of the next frame. This is the case where a wrong `n_consumed` loses a
  message. The cloud run sends `Info` of both ids with incorrect firmware, and
  `Halted`. These are the messages whose effects its properties tell apart.

### Fairness

The cloud run `accept` assumes `WF_vars(Accept)` and, for every slot,
`WF_vars(Read(i))` (`Cloud!FairSpec`). The loop blocks in `poll(None)`, which
returns whenever an event is pending, and it handles every event that `poll`
returns. So a pending `SERVER_TOKEN` event, and a pending event of a client's
token, are handled. Nothing else is assumed fair. Peers may send forever, and the
operator may issue any commands.

In the other models no fairness is assumed. Time advances only through the event queue or the
firmware clock, so every behaviour that reaches the horizon has made progress.
The deadline property is an invariant on time, not a temporal formula.

The model's rng is adversarial: two leaves may draw the same Connect delay
forever, and the code has no backoff to break that. For this reason
`AllUplinkedByDeadline` is checked only where nothing contends (chain3). The
contention livelock is listed as a hazard.

### Arms never taken in the simulator

The simulator runs never take these arms:

- `ListenForBeaconsOther` is dead in the simulator, which sends nothing but
  Beacons on the public channel. A firmware radio can take it, since it accepts
  any decodable packet.
- `ListenForBestBeaconOther` needs a beacon of other hops to arrive within the
  900 ms best-beacon listen. None of the topologies here produces one.
- `ListenForConnectOther` needs two sinks that draw the same children channel.

The arms are kept because the code has them.

## Mutants

Each property of each passing run is broken by a plausible bug in a mapped
definition (PROJECT.json `mutants`):

| mutant | breaks |
|---|---|
| overlap test without clearance | `QueueSeparated` |
| `delay` that skips the leading clearance | `DelayIsEarliestFit` |
| `Connect` sent on the node's own channel | `TypeOK` (chain3) |
| a sink that forgets its Beacon window | `NoPanic` |
| recipients' events not cancelled | `OneEventPerNode` |
| recipients on any channel | `ReceptionsTargetListeners` |
| Data batch without the node's own data | `AllUplinkedByDeadline` |
| `Timer::after(end)` for `Timer::at(end)` | `NoFirmwarePanic` |
| palette index one past the entries left | `TypeOK` (cloud) |
| slab insert that always appends | `SlabWithinPeak` |
| color popped on every report | `ColorIdentifiesNode` |
| the next Parent window shortened for clock drift instead of extended | `DataMeetsListeningParent` (chain3, star3) |
| a Child window delayed instead of dropped when a Parent is pushed | `ImplementsSchedule` |
| a decoded frame drained with the byte after its delimiter | `FramesDecodedInOrder` |

## Not modelled

- Decoding of received bytes (`from_bytes`). The firmware model receives
  decoded messages. Also left out as output only: the JSON `Display` of
  messages, event logs and the simulator logger.
- Peripheral, clock and LoRa initialisation of the firmware (HAL I/O), and the
  contents of its log lines.
- The cloud's ELF extraction and CRC computation (`elf.rs`, `crc.rs`), defmt
  decoding of `Log` messages and the event file (output only), stdin parsing
  and the addresses of connections. A write of `send_message` that would
  block (a node that stops reading) is not modelled: writes to an open
  connection succeed. So the stall of the whole loop in its sleep-and-retry
  loop is not checked. Their effect is the nondeterministic
  CRC of an `Info` report and the accepted connection.

## Plan for later work

1. A focused harness of one relay with a Parent window, receiving any message at
   any listening time. It would:
   - take the arms above that the simulator never reaches;
   - check the re-anchoring hazard of `SendConnectAck` (a Child window moved
     onto the Parent window, which drops a child that already has its ack).
   The firmware model is the natural host, once its state space allows a
   relay cycle.
2. An abstract specification of the tree (the window scheduler now has one) (parent relation, data reaching a sink)
   with a refinement mapping from `Sim`.
3. chain4 and the children scenarios of the tests.
4. The debug-build overflow of the firmware's payload counter (`main.rs:207`),
   which needs three acknowledged data cycles.
