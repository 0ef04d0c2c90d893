# TLA+ models of MIDI-to-IP

The repository lets several Atari ST computers play MIDI Maze over IP. Each ST
has a SidecarTridge cartridge (an RP2040) whose firmware stands in for the MIDI
port; a central orchestrator joins the cartridges into a ring. This directory
holds TLA+ models of the parts where processors, callbacks and connections
interleave, the TLC configurations that check them, and proofs checked by TLAPS.
Paths below are relative to the repository; `midi.c` is `rp/src/midi.c`.

## 1. The system

| Part | Source | State it keeps | Operations |
| --- | --- | --- | --- |
| BIOS hook on the ST | `target/atarist/src/userfw.s` | the trap #13 vector, registers of a call | install, `Bconstat`, `Bconin`, `Bconout` |
| Boot menu on the ST | `target/atarist/src/main.s`, `inc/sidecart_*.s` | none of its own | poll the sentinel, send keys, launch |
| MIDI IN path | `midi.c`, `commemul.c` | `midiInQueue`, three words of the shared ROM image | push, publish, advance, flush |
| Orchestrator link, OUT path | `midi.c` | `midiNetState`, `midiNetPcb`, backoff, `midiOutQueue` | poll, lwIP callbacks, reload |
| Command bus | `commemul.c`, `chandler.c`, `include/tprotocol.h` | DMA ring, parser step, pending command, token words | capture, parse, dispatch, acknowledge |
| Menu and launch | `emul.c`, `term.c` | sentinel word, `midiActive`, countdown, command level | keys, countdown, `cmdFirmware` |
| WebSocket codec | `midi_ws.c`, `orchestrator/ws.py` | decoder state | feed, encode |
| Settings | `settings.c`, `aconfig.c`, `gconfig.c` | flash sectors | load, put, save |
| Wi-Fi | `network.c` | association state, current address | connect, poll, link and address callbacks |
| Start-up and exit | `main.c`, `emul.c`, `reset.c` | none of its own | the two configurations, emulation, booster |
| Orchestrator relay | `orchestrator/orchestrator.py` | `Rooms`, a `Registry` per room, a handler task per connection | join, relay, drain, drop, finish, heartbeat |
| Rooms REST and reaper | same | `_used`, `_empty_since`, `_meta`, the rooms file | create, delete, reap, save, load |
| Inspector | same | per-player decoder state | feed |
| Hatari gateway | `hatari-gateway/gateway.py` | two FIFOs, a socket, bytes in hand | open, connect, upgrade, select loop, end |
| Terminal, display, SELECT, LED, cartridge emulation, u8g2 | `rp/src/*` | screens, GPIO, PIO | output and hardware set-up |

How they interact. The ST can only *read* cartridge memory. It learns of things
by reading words the RP has written into the shared ROM image (head byte,
status, acknowledge counter, sentinel, token) and it says things by reading
addresses in the ROM3 window, each of which a PIO/DMA pair deposits in a ring as
one sample. Before launch the samples are words of command frames; after launch
each is a bare MIDI event (bit 8 OUT byte, bit 9 advance, bit 10 deactivate).
The RP's main loop runs `chandler_loop` (drain the ring), `network_safePoll`
(lwIP callbacks), `midi_net_poll` and `term_loop` in turn, on one core. The
orchestrator is one asyncio loop: a handler per connection, a heartbeat per
WebSocket player, a reaper, and HTTP responders that create and delete rooms.

What makes it hard: two processors that share memory with no lock and no atomic
access wider than a word; one bus with two meanings; an asynchronous network API
whose answers come late; links and processors that restart without the other
side knowing; tasks that suspend in the middle of a relay while the ring changes.

What makes each part correct:

* IN path: bytes reach the program in order, at most once, exactly once while
  nothing is flushed; `Bconstat` does not lie; `Bconin` does not hang.
* Link: no leaked connection, no state without a way out, no byte of one session
  in the next, reconnection goes on; the endpoint should be the configured one
  (it need not be: `net_late`).
* Menu and launch: the gate is up while a program uses the hook and down while
  frames are sent; the hook never chains through an unsaved vector.
* Relay: each ring is one cycle of served players of one room, below the cap;
  chunks are not duplicated or reordered; a stuck or dead player does not stop
  the others; the reaper only takes quiet rooms.
* Command bus: commands are executed in order, success is reported only for one
  that was executed, and a key gets through within its attempts.
* Codec: the data of the frames arrives byte for byte however the stream is cut;
  each ping has its pong.
* Gateway: verbatim both ways; blocking calls in both directions never wait for
  each other for ever; when Hatari leaves, the gateway leaves the ring.
* Device: settings are those last saved, or an initial part of them after a power
  cut within a save; power saving stays off; the address belongs to a live link;
  the start always ends.
* Rooms file: a restart opens the rooms that were open before.

`PROJECT.json` lists the hazards line by line.

## 2. What is modelled

### `MidiIn`: the IN path, one step per memory access

`rp` and `st` are the program counters of the two processors. `byteWord`,
`statWord` and `ackWord` are the shared words, `adv` the advance samples in the
DMA ring, `limit` what one `commemul_poll` still has to drain. The n-th byte
received is the number n, 0 is the byte published for an empty queue. Actions
follow `midi_rom3_consumer` (`ConsumeAdvance`, then `PublishByte`,
`PublishStatus`, `PublishAck`), `midi_net_recv_cb` (`NetRecv`), the flushes
(`LinkDrop`, `CleanupFlush`) and the hook (`ReadStatus`, `ReadByte`,
`SnapshotAck`, `FireAdvance`, `SeeAck`). `SteadySpec` leaves the flushes out,
`Spec` has them.

`ByteChannel` says what the path promises with no mention of a bus: bytes arrive
in bursts, at most `Cap` wait, what finds no room is lost, and the waiting ones
are taken in order. `MidiIn!ImplementsChannel` maps `midiInQueue` to the waiting
bytes and takes a byte as taken at the moment the RP pops it for the hook.

### `MidiNet`: the orchestrator link

One action per lwIP callback, per `midi_net_poll` and per menu command: they run
to completion on one core, and what interleaves is the order of the answers.
`pcbs` is what lwIP still holds, so a PCB the firmware has forgotten is visible;
`lookups` counts DNS callbacks still to come. With `PatientUser` the menu is not
used to change the endpoint while one is to come; without it the link may be a wrong
one (`net_late`) and its other properties fail too (section 3). A queued byte is represented by
the PCB of its session, so a byte in the wrong session is visible. Failures of
`tcp_new`, `tcp_connect`, `tcp_write`, refused or reset connections, a bad 101,
lost Wi-Fi, and peers that vanish without a packet are all actions or disjuncts.
A TCP write is modelled as handing over a whole prefix of the queue.

### `BootGate`: menu, launch, warm reset

Models both meanings of the bus. A frame is two samples, its header and the
rest, which is enough for the gate to change between them; `Bits` says how each
looks to `midi_rom3_consumer` (the magic word 0xABCD has bit 9 set, other words
depend on data: the constant `WordBits`). Actions are the boot code, `check_keys`,
`check_commands`, `send_sync` on the ST; `commemul_poll`, a sample,
the rest of `chandler_loop`, `term_loop`, the countdown on the RP. `cmdFirmware`
is split into its two writes, gate then sentinel, because the ST reads the
second. `punctual`, chosen once, says whether the timing is the usual one (the ST
has booted before the countdown ends, replies come in time) or any.

### `SyncCommand` and `CommandCall`: a command, word by word

Where `BootGate` has two samples per frame, `SyncCommand` has every word: magic,
command, size, token, a parameter and the checksum. The ST is `send_sync`: it
reads the seed, sends the frame, then compares token and seed until both agree or
`COMMAND_TIMEOUT` is over, up to four times. The RP is `commemul_poll`,
`tprotocol_parse` with its 10 ms restart, `handle_protocol_command` with its one
pending slot, the callbacks and the two writes of the reply, and `term_loop`,
which takes the published key. `MagicLike` are calls whose parameter equals the
header. The ring overruns; the main loop stays away (`MaxFaults` times per call)
longer than the parser or the ST waits. `CommandCall` is the promise without bus
and token: a call may be executed any number of times while it lasts, never after
a later one, and succeeds only when executed.

### `WsStream`: both WebSocket codecs over a stream

One direction at a time: `down` is `encode_frame` read by `midi_ws_handshake_recv`
and `midi_ws_decode`, one action per state of its `switch`; `up` is
`midi_ws_build_frame` read by `FrameDecoder` and `WsConn.recv`. A byte is a tuple
that says what the encoder meant; a decoder that has lost its place reads garbage
and delivers 0, so misframing is visible in the data. The sizes are scaled, with
all three length forms kept: payloads up to `Short` in one byte (125), then `Ext`
length bytes (2), then `Wide` (8). Every read returns any number of bytes.

### `Gateway`: one thread between two FIFOs and a socket

`pc` is the blocking call the thread is in: `sendall`, `recv`, the pong inside
`recv`, `os.write`. Each step is taken when the call can go on, so a wait is a
state. The orchestrator is the part of `handle_conn` a neighbour sees: it takes a
byte, waits until its target has room, and drops a target that has none for five
seconds; alone in a ring the gateway's player is its own target, which closes the
circle of waits. Hatari is external: it opens, writes, reads and closes.

### `SettingsFlash` and `Device`: power-on to power-off

`SettingsFlash` is the sector of the app's settings: ten entries of 127 bytes one
behind the other (`FOLDER` ... `ROOM` behind the magic entry) in five pages of
256, and what `settingsLoadAllEntries` makes of a sector some pages of which are
blank. 127 is `sizeof(SettingsConfigEntry)` with the short enumerations of the
ARM ABI. The assumption says what the real sizes give: no page ends within a
value, so an entry that is cut never passes the checks of its key and type. An
erase and the programming of one page are atomic; half-erased flash cells are
not modelled.

`Device` is `main`: the two configurations, the Wi-Fi attempts of `emul_start`,
and the main loop as far as it polls the network, saves settings and ends. The
callbacks of `network.c` happen only inside `cyw43_arch_poll` (`Polling`).
`PowerCut` may come anywhere and leaves the flash alone; `Restart` also counts the
booster starting the app. The driver and lwIP are external: a link comes only
after a join was asked for, an address only over a link; lwIP keeps the address
when the link drops, and reports an address only when it changes.

### `Relay`: rooms, rings, handlers

An action is what runs between two points where a coroutine may suspend:
`recv()`, and `wait_for(drain())`, which may suspend for a turn at any time
(before Python 3.12 it runs `drain()` as another task) and lasts while the
target's buffer is over the high-water mark (`full`). `handle_ws` does not
suspend between its gates and `Rooms.get`, since awaiting `drain()` below the
mark returns at once, so its gate and the prologue of `handle_conn` are one
action and the fallback of `Rooms.get` is unreachable. Registries are objects:
`rooms` maps keys to them, `reg` is the one a handler holds, and a room created
again has a new one. `_drop_player` goes by key, `finally` by object, as in the
code. `wrote` records the chunks written to each connection. A peer may close,
reset, stop reading, or die silently; `Keepalive` only sees TCP carriers,
because behind the reverse proxy the socket of a WebSocket leads to the proxy.
`Save` is what
`create`, `delete` and the reaper do after they have changed the rooms; it may
fail, and the file then keeps what it had. `Restart` is the end of the
orchestrator, by a signal or not, and its start: the players' connections are
gone and the rooms come from the file, with nothing known of their use (a room
used before the restart is reaped only after it is used again). `MCRelay` adds
the symmetry of the connections.

## 3. What the runs check

| Run | Shows |
| --- | --- |
| `in_steady` | no phantom byte, `Bconstat` keeps its word (in `HandOver`), the path implements `ByteChannel`, accepted bytes are delivered |
| `in_flush` | with flushes at any point: at most once, in order, and no `Bconin` hangs |
| `net` | endpoints by name and by address, and carriers, changed by the menu at any moment but during a lookup, also after a reset of the ST in mid-session, peers that vanish and every error: no stuck state, no orphan PCB, no replay either way, reconnection goes on |
| `boots` | two starts of the ST, a reset anywhere, usual and unusual timing: vector saved before the hook, gate up in GEM after the first start, automatic launch, acknowledges come, no left-over gate takes the save-vector frame |
| `sync_calls` | three keys with four attempts each over a ring of twelve words: implements `CommandCall`, an acknowledged key is held by the terminal, no call is given up, every key is typed |
| `ws_frames` | three frames each way, every length form, every cut: nobody protests, the same bytes, each ping its pong |
| `gateway_bridge` | TCP and WebSocket: verbatim, and OUT, IN and the end of Hatari make progress (except inside `recv`, see `gateway_ping`) |
| `device_power` | three starts, two saves, power cuts in between, a network that comes and goes: the settings, power saving, the address, the end of the start |
| `relay_ring` | four connections for a ring of three: the cap, always one cycle, no duplicate, no reordering |
| `relay_rooms` | rooms created, deleted, created again, reaped, saved and loaded by a restart, both carriers: isolation, served rings, rooms that survive, quiet reaping, a stuck player freezes nobody, a dead one leaves |

Two runs show a disagreement between the code and what the repository says of it.

`net_late`: the endpoint is changed in the menu while its name is being looked up.
`midi_net_reload` does not cancel the lookup and `midi_net_dns_found` does not look
whose answer it gets (`midi.c:472-482`), so the link comes up to the old host and
stays there, though `midi.c:834-836` says a reload reconnects to the new endpoint
(`ConnectedToConfigured`). With the endpoint left alone during lookups it holds (TLC); the passing run
`net` leaves it out with `PatientUser`, and does not claim the property.

`gateway_ping`: after a heartbeat ping `_WsSocket.recv` has answered and reads on
with a blocking read, though `gateway.py:178-179` says that reads never block. The
bytes of the Atari wait in the FIFO for another player's data; in a lock-step ring
the others may be waiting for them.

Other disagreements the models show; each is reproduced by the change given:

* A flush between the hook's status read and its byte read gives the program a 0
  nobody sent, though `midi.c:117-120` says a fresh "ready" is never paired with a
  stale byte (`NoPhantomByte` in `MidiIn_flush.cfg`).
* What else comes of a menu change during a lookup (`net_late`): it resets the state,
  so that `midi_net_poll` starts a second lookup, though `midi.c:492-493` says the
  state keeps it from doing so. The second answer overwrites `midiNetPcb`, and lwIP
  goes on serving a connection the firmware has forgotten, whose bytes enter the
  session of the other (`MidiNet_net.cfg` with `PatientUser = FALSE`: `NoOrphanPcb`,
  `LinkInv` and both replay properties fail).
* A peer that vanishes during the WebSocket handshake leaves a state without a
  timeout, though `STORY-04-error-reconnect-status.md:21-22` says a peer back
  online recovers the stream (`Recovers` without its exception `AwaitsGonePeer`).
* After a warm reset the sentinel still says START, so the ST goes to GEM with the
  gate down, though `midi.c:717-719` says it is set before the ST emits MIDI
  (`GateUpInGem` without its `boots = 1`).
* With `"deact"` in `WordBits`: a key's frame is in flight when the countdown
  expires, and a word of it with bit 10 set lowers the gate just raised. The same
  race without bit 10 only costs the key, though `midi.h:33-34` says it cannot be.
* All four attempts of a call may time out unserved when the main loop is away for
  longer than about 1.4 s; the ST then sends another call with the same token, the
  RP executes the first and ignores the second as pending, and its reply is taken
  for the second's, though `sidecart_functions.s:229` says that the seed proves a
  real response (`SyncCommand` with `MaxFaults = 4` violates `NotGivenUp` and
  `BusInv`; section 4 says what excludes it).
* Bytes the gateway has read behind the end of the 101 answer are kept in
  `_initial`, which `select` does not see: they wait for the next frame. `InMoves`,
  a part of `BridgeMoves`, excepts them.
* With a static address `network_wifiStaConnect` finds the address before there is
  an association and returns success at once, though `docs/programming.md:579`
  says it blocks until the connection is established. `IpMeansLink` is about DHCP.
* A link that comes up in the last pass of the wait is reported as a timeout, and
  the next attempt takes it down (`WaitPolled`).
* After a link drop that ends with the same address, lwIP has nothing to report and
  `currentIp` may stay 0; `midi_net_poll` then never connects (`Leased`).
* A 101 answer of more than 512 bytes, first frames included, resets the link
  (`midi.c:330`). `HsMax` is large enough here.
* `gconfig_init` passes more entries than its table has (`gconfig.c:57`), trusting
  that an empty key follows it.
* SELECT is described as a reset button, but nobody installs its callbacks.
* Bytes sent while the link is down are queued, though `midi.c:507-508` says
  dropped; a lone player is echoed its own bytes, though the docstring of
  `orchestrator.py` says it is not (later documents say it is); two handlers may
  await the same target after a join, though `orchestrator.py:630-631` says there
  is a single source.

A mutant of the model accompanies each property of each passing run
(`PROJECT.json`, "mutants"); the mutated operators stand next to the originals.

### Bounds

* IN path: a queue of two bytes fills and overflows with bursts of two; the
  acknowledge counter wraps (its width is a constant, at least 2 values); the ST
  has at most one advance outstanding, so deeper queues add no new interleaving.
  The proofs remove these bounds from everything but liveness.
* Link: three PCBs are more than can be alive together when `NoOrphanPcb` holds,
  so a leak shows before the pool is exhausted; two menu changes lead from one
  endpoint or carrier to the other and back; two queued bytes can be of two sessions.
  The user of `net` is patient, because without that the link is not correct (above).
  The proofs remove every bound but that.
* Boot: two boots give a left-over gate and its removal; three frames let one be
  pending while another is sent and a field of the menu be entered and left.
* Command bus: three calls let a late reply of the first meet the third; the ring
  of twelve words is full with the second frame, so a repeated frame overruns it; one
  fault per call, of any kind and at any moment, is what the four attempts of the code
  are proved to outlast. With two faults TLC refutes `NotGivenUp` and `BusInv` here.
* WebSocket: three frames put a control frame between two data frames, and each
  length form next to each other; reads go up to more than a whole frame, so that
  one read ends a frame, holds one and begins another.
* Gateway: FIFOs and sockets of two items fill, singly and together, with three
  bytes one way and two the other.
* Device: three starts, so that a save can be cut, its remains loaded, and another
  save cut; two saves differ in an early and in the last page. The layout is the real one.
* Relay: three players in a ring have distinct neighbours, and a drop changes a
  third player's target; a fourth connection tries the cap; two chunks meet in
  one buffer or follow each other. With rooms, three registries let one key be
  deleted and created twice while handlers of the first still run; one restart,
  once someone has been served, meets every state of the file.

### Fairness

* `MidiIn`: both processors run on. Nothing makes the program call the hook
  (only `AcceptedIsDelivered` assumes a program that keeps calling `Bconin`).
* `MidiNet`: the main loop polls, the backoff elapses. The rest is assumed of the
  network, not of the code: lookups and SYNs end one way or another, and what is
  asked for again and again is eventually granted.
* `BootGate`: both processors run on; the countdown's ten seconds pass (it needs
  strong fairness: a key being processed may disable it for a while).
* `SyncCommand`: both processors run on, the ST's timeout passes when nothing
  answers. That the program makes another call is not assumed.
* `Gateway`: its thread runs on, the emulated Atari reads its MIDI IN, the relay
  reads, passes on and gives up a drain after its time limit. That Hatari writes
  or leaves, that others play and that the orchestrator pings is not assumed.
* `Device`: the processor runs on during the start and thirty seconds pass. Neither
  the network nor power is assumed to do anything.
* `Relay`: the event loop runs what is ready, its timers fire, the kernel's
  keepalive gives up on a dead TCP peer. Nothing is assumed of a peer: in
  particular a live peer may stop reading for ever.

## 4. What is proved

`MidiIn_proofs`, for every `InCap`, `AckMod`, and any amount of traffic:

* `TypeCorrect`: `Spec => []TypeOK`, flushes included. The strengthening is
  `limit <= adv`: a poll never drains more than is there.
* `HandOverCorrect`: `SteadySpec => []HandOver`. `HandOver` is the discipline of
  the hand-over: an advance in the ring means the hook waits and the counter is
  the one it remembered; while the RP works on an advance the ring is empty;
  outside that window a raised status means the byte word is the queue's head.
  It is inductive together with the types. None of the properties is: that the
  byte read is not 0 needs that the queue cannot lose its head between the two
  reads, and that needs that only the hook's own advance pops.
* `SteadyReads`: `NoPhantomByte` and `BconstatKeepsItsWord` follow.
* `ChannelRefinement`: `SteadySpec => ImplementsChannel`; each step maps to
  `Arrive`, `Take` or a stutter (`ChannelStep`).

* `DeliveredOnceInOrder`: `Spec => []AtMostOnceInOrder`, flushes included.
  `HandOver` does not survive a flush, so the strengthening is another one.
  `AckInv` is the acknowledge protocol without the data: one advance at most is
  on its way, and the counter leaves the hook's snapshot only once it is served.
  `OrderInv` says that what the program has lies before what is on its way to
  it: delivered bytes before the queue, before the byte word and before the
  hook's register; that register at or before the queue until the RP pops,
  strictly before it from the pop on, and before the byte word once the RP has
  republished. A flush only empties the queue, and what arrives later is later.

The assumption is `MidiInAssumption` alone: a queue of at least one byte and a
counter of at least two values. The facts on sequences come from the library;
`PushBurst`, `PopAscends` and `BurstAscends` say what a push and a pop do to
an ascending queue.

The same holds of the other modules: each theorem is about every value of the
constants that the module's named assumption admits, unless it says more.

`Relay_proofs`, for any connections, carriers, rooms and cap:

* `TypeCorrect`: `Spec => []TypeOK`, the cap included. `RoomShape` adds what it
  rests on: two keys never share a registry, and the file can be loaded (`Loads`
  has a witness, since a room was open with each key the file holds).
* `RoomsCorrect`: `Spec => []RoomsInv`. `RingInv` adds that nobody is in a ring
  twice, so that `Registry.remove` leaves no second entry, and that a connection not
  yet accepted is untouched: not closed, not pinged, nobody's target.
* `RingIsOneCycle`: `Spec => []OneCycle` for rings of any size. That every player
  is reached needs an induction along the ring; see the remark below.
* `RestartKeepsRooms`: `Spec => RoomsSurvive`, and `ReaperTakesQuiet`:
  `Spec => ReapOnlyQuiet`, action properties, from `FileInv`: the file is that of
  the open rooms unless a save has failed, and a room that has a stamp has seen
  nobody since.
* `ChunksOnceInOrder`: `Spec => []OnceInOrder`. `WroteInv` adds that what was
  written was read before, so that the next chunk read is a later one.

`MidiNet_proofs`:

* `TypeCorrect`: `Spec => []TypeOK`, whatever user and network do.
* `LinkNotStuck`, `NoPcbLeaks`, `OutNotReplayed`, `InNotReplayed` (`[]LinkInv`,
  `[]NoOrphanPcb`, `[]NoReplayOut`, `[]NoReplayIn`) under `NoLateAnswers`: a patient
  user, or no endpoint given by name. The hypothesis is needed (section 3). One
  invariant serves all four: `LinkShape`, which relates the state to the PCB, to the
  one lookup it may be waiting for and to the sessions of both queues. None of the
  four is inductive: that a callback meets the current PCB rests on nothing else
  being under way, and that on no lookup being left over.

`Device_proofs`, for any layout that satisfies `SettingsFlash`'s assumption:

* `DeviceCorrect`: `Spec => []DeviceInv`. `LoadedIsPrefix` says that a sector of
  which only the first pages are programmed loads as a first part of the settings
  saved, `FlashShape` which pages those are during a save and after a power cut,
  `AttemptShape` where attempts may have been counted.
* `PowerSaveStaysOff`, `LeasedIpMeansLink`: `[]PowerSaveOff`, `[]IpMeansLink`.
  `PowerShape` says that an associated chip that saves power has the flag set that
  ends it, and the end of the poll still before it.

`Gateway_proofs`, for FIFOs, sockets and reads of any size:

* `BridgeCorrect`: `Spec => []BridgeInv`. The bytes of one direction lie in several
  places (a FIFO, the bytes in hand, what came with the 101 answer, a socket).
  `OutRuns` and `InRuns` say that each place holds consecutive bytes and begins
  where the one before it ends; `PlaceShape` and `QueueShape` say which may hold
  any at each blocking call. What `OfKind` picks from a socket of mixed frames is a
  recursive function; its properties are proved from its defining equation.

`BootGate_proofs`, for any number of boots and keys:

* `StartCorrect`: `Spec => []BootInv`. That the hook has its vector needs `OnlySave`:
  while the boot code saves the vector no other command is on the bus, so that a
  changed seed means the RP has executed that one.
* `GateUpAtFirstBoot`: `Spec => []GateUpInGem` if `"deact" \notin WordBits`; with
  it the property is false (section 3). `SaveIsLast` and `GateDownAtBoot` say that
  the gate is down and nothing is behind the save-vector frame while it is
  executed, `GateStaysUp` that nothing in the ring lowers the gate from then on.
* `DeactivateFirst`: `Spec => NoLeftoverGate`, from `DeactFirst`: with a gate left up,
  a deactivate sample lies before any save-vector frame in the ring.

`SyncCommand_proofs`, for any number of calls, retries and faults and any ring, but
where a condition is named:

* `TypeCorrect`: `Spec => []TypeOK`: the unread words fit the ring.
* `ExecutedInOrder`: the commands that the callbacks execute are those sent, in the
  order sent. `Order` says so of the checksums waiting in the ring and of the pending
  command; the ring may lose any words and the parser may restart anywhere, because
  a checksum is accepted only behind the very words it sums.
* `NoCallGivenUp`: `[]NotGivenUp`, with more than two retries for each fault of a call
  and a ring of more than one frame. The code has three retries and 16,384 words, so
  one fault per call is covered; with more the code makes no such promise. For the
  ring of twelve words the condition is sharp: TLC refutes `NotGivenUp` for one fault
  and two retries and for two faults and four, and not for two and five. A ring that
  no call fills (25 words) bears two faults with three retries, but one of 60 words
  does not bear three.
* `AckIsTrue`: `[]BusInv`; `CallsImplemented`: `ImplementsCalls`, each step mapping to
  one of `CommandCall` or a stutter (`StepImplements`). Both suppose `Sizes`, two
  retries for each fault: calls may then be given up, but with nothing left in the
  ring (`NothingLeft`), and that is what keeps a reply from the call after it.
* The argument is a count, `Budget`: a timeout with a fault behind it is paid by the
  fault; one without means that something had been left in the way, and then the ring
  is empty and the parser at a header or about to restart, so that the attempt that
  follows is `Clean`. A clean attempt is followed word by word: what was sent is what
  was parsed and what waits in the ring (`Arriving`, `FrameParsed`), then its own
  command is pending (`Answering`), then its token is there (`Done`); only a fault
  makes it time out. So attempts spent are at most twice the faults, and one more in a
  clean attempt, and the one that gives up was not interrupted by the RP being away.
* The strengthening for the other two: `Seeds`, the seed counts the commands executed
  and the token stays behind it but between the two words of a reply; `Tokens`, frames
  of earlier calls bear smaller tokens than the current attempt's, so that a reply
  with that token answers the current call; `Kept`, what was executed last is with the
  terminal.

`WsStream_proofs`, for frames of any number and size, any base and width of the length
field, any mask key length and any cut of the stream (the code's are 125, 256, 2, 8, 4):

* `FramesCorrect`, `StreamCorrect`, `PingsCorrect`: `Spec => []FrameInv`,
  `[]SameStream`, `[]PingsAnswered`, in both directions. One invariant serves all
  three. The state does not say which frames were sent, so it is stated about a history:
  some `h` exists (`Log`) that lists them with the place in the stream, the data and the
  pings up to each; the bytes not decoded yet are those of `h` from one position on
  (`Holds`), and the decoder's state is that of a decoder at this position (`At` for
  each state of `midi_ws_decode`, `Up` between two frames of `FrameDecoder`). A send
  extends `h`; a read moves bytes; a decoding step moves the position by what it took.
* Beneath it, `EncodedShape` says which byte each position of a frame holds, and
  `NextDigit` that a number is got back from its digits: while the firmware reads them,
  `remaining` is the length divided by the weight of the digits to come, and
  `NumberIs` says the same of the digits read at once by `FrameDecoder`.
* That nothing is held back when all is read needs both ends of the last read: no
  decoder stops inside a frame whose bytes are all in hand (`AllDecoded`).

The library's induction theorems cannot be used (they take an operator), but an
induction over numbers can be had as a minimum: the set of the counterexamples, if
not empty, has a least element (`WFMin` of `WellFoundedInduction` with
`NatLessThanWellFounded`), and the step excludes it. `OneCycle`, `LoadedIsPrefix`,
the lemmas on `OfKind` and on the digits of a length are proved so.

Every safety property that a passing run checks is stated by a theorem, some under the
hypotheses named above, which the constants of its run satisfy. Out of the prover's
reach and left to TLC: liveness and everything under fairness (`BconinReturns`,
`AcceptedIsDelivered`, `Recovers` and the other leads-to properties).

## 5. Not modelled

* u8g2, which is 27,000 of the repository's 35,600 lines of implementation: vendored
  drawing code. For the same reason the share of lines the modules stand for is
  small; of the repository's own control code what is left out is listed here.
* Rendering, LED, logging and telemetry (pure output); the contents of prompts; the
  inspector, which observes and decides nothing that is relayed.
* A `malloc` that fails in `settings_init` (`settings.c:238-241`, `254-258`), after
  which `main.c:125` saves no entry at all; data behind a CLOSE in the same pbuf
  (`midi_ws.c:226-231`), which a peer that obeys RFC 6455 does not send.
* A frame of which `_WsSocket.recv` has a part only: in `Gateway` frames are whole.
* Two listeners filling one ring at once: `relay_ring`, where the cap is tried, has TCP.
* Reverse DNS, admission headers and the admin key; a rooms file that cannot be read.
* Wi-Fi scan, access-point mode, mDNS and DNS servers; lwIP's and the driver's own
  data structures.
* SHA-1, base64 and header parsing of the WebSocket handshake: a match or not.
* The 2^32 - 1 transfers of the capture DMA; PIO programs; SELECT, whose callbacks
  are never installed; `reset_device`, which no path reaches; `settings_erase`,
  which nobody calls.

## 6. Plan

Done in this order: `ByteChannel`, `MidiIn` and its proofs (the byte path the
game depends on), `MidiNet` (what feeds it), `BootGate` (what switches it on),
`Relay` (what connects them); then `SyncCommand` and `CommandCall`, `WsStream`,
`Gateway`, `SettingsFlash` and `Device`.

Next, in order:

1. A composition: two cartridges and the relay, end to end in order.
2. Theorems about what the two ends of the composition promise each other.

## 7. Running

    tlc -config MidiIn_steady.cfg MidiIn.tla
    tlapm MidiIn_proofs.tla

Each run of `PROJECT.json` names its module and its `.cfg`.
