# TLA+ specifications of the Orion security I/O module

Specifications, model-checking configurations and machine-checked proofs for the
code in `src/`: an ESP32 gateway for the Bolid Orion RS-485 bus, the emulated bus
device, and the PC library that talks to it. Paths below are relative to `src/`;
`lib/` stands for `firmware/esp32_orion_slave/lib/OrionSlave/`, `main.cpp` for
`firmware/esp32_orion_slave/src/main.cpp`, `proxy/` for `pc/orion_proxy/src/`.

## 1. The system and its parts

An Orion bus has one master (the C2000M console) that polls devices; a device speaks
only when asked. The gateway listens to such a bus, and may take over as the master.

| Part | State | Operations | Hard behaviour |
|---|---|---|---|
| `OrionMaster` (`lib/orion_master.*`) | mode, master detection, DE pin, auto-poll position, keys | `notifyBusRequest`, `switchToMaster/Monitor`, `poll`, `cmd*`, `setPollRange` | never drive a line another master drives; 32-bit clock differences; transactions that block while the world goes on |
| `OrionBusMonitor` (`lib/orion_bus_monitor.*`) | last request, device table, event ring | `poll`, `processPacket`, `getEvent`, `checkOfflineDevices` | telling requests from answers by timing alone; answers decoded by the last request |
| Gateway loop (`main.cpp`) | both objects above, one UART, mode switch, serial commands | `setup`, `loop`, `handleExternalSerialInput`, `handleModeSwitch`, `onPacket` | order of the loop's stages, debounce, resets, two readers of one UART |
| Gateway keys (`main.cpp`, NVS) | key in flash and in two objects, boot counter | `setup`, `SET_KEY`, `POST /api/config`, `REBOOT` | power loss between two writes |
| `OrionSlave` (`lib/orion_slave.*`) | zones, keys, event ring | `poll`, `processPacket`, one handler per command, `pushEvent` | events popped before they are delivered; ring at its limits |
| PC library (`pc/src/orion_protocol.c`, `orion_commands.c`) | keys of a context | `orion_transact`, `orion_cmd_*` | lost and late answers; nobody checks whose answer it is |
| PC serial port, CRC (`pc/src/orion_serial.c`, `orion_crc.c`) | descriptor | open, read with timeout, flush | pure I/O and a table |
| PC sniffer (`pc/src/orion_sniffer.c`) | byte buffer | `orion_sniffer_run` | finding its place in the stream again after a disturbance, by length alone |
| Device tracker (`proxy/device_tracker.c`) | device table, event ring, lock | `tracker_on_packet`, `tracker_check_timeouts`, `tracker_format_*` | lock taken twice; ring; offline rule |
| TCP server (`proxy/proxy_server.c`) | client slots, subscriptions | accept, commands, broadcast, disconnect | slots shared by threads without a lock on POSIX; descriptors closed and reused in the middle of a broadcast; `QUIT` |
| HTTP server (`proxy/http_server.c`) | live event ring | handlers, `http_server_push_event` | a ring written by one thread and read by another without a lock on POSIX |
| Proxy program (`proxy/main.c`, `proxy_config.c`) | threads, serial port | sniffer thread, scan, main loop | one serial port, three users |
| Tray icon, names, dashboard, simulator, examples | - | - | user interfaces and constant tables |

How they interact. `loop()` calls `busMonitor.poll()`, `busMaster.poll()`, the serial
command handler and the mode switch handler in turn. The monitor calls back `onPacket`
for each frame, which tells the master of requests (`notifyBusRequest`), but only in
MONITOR mode. Both objects read the same UART. On the other side of a bus, the PC
library sends one frame to an `OrionSlave` and takes whatever arrives before its
timeout as the answer. The proxy runs the sniffer, a scan, TCP clients and HTTP clients
over one serial port and one tracker.

What makes each part correct:

- master: silent while passive; takes the bus only after a long enough silence; gives
  it back; reaches every device;
- monitor: the table says who is alive, what they are and what happened, in order;
- keys: every copy of a key agrees with what the operator was told, across power loss;
- device and library: a command does what was asked of the zone that was named; each
  event arrives once, in order, and none is lost;
- proxy: no call blocks for ever, the tracker's table and its event log agree, silent
  devices go offline; clients come and go during broadcasts without taking each other's
  packets, subscriptions or slots;
- framing: whatever noise came before, a frame that is separated well enough is taken.

## 2. Modules

| Module | Models | Notes |
|---|---|---|
| `Clock` | ages of `millis()` differences, saturated | used by all modules with time |
| `OrionMaster` | `lib/orion_master.*`, one action per method | a transaction is three steps: the frame leaves with DE high, the wait, the end |
| `Framing` | `orion_sniffer_run`, and the first halves of `OrionBusMonitor::poll` and `OrionSlave::poll`, on one line with noise | byte by byte; the other modules take frames whole |
| `BusMonitor` | `lib/orion_bus_monitor.*` after framing and CRC | `ProcessPacket`, `CheckOfflineDevices`, `GetEvent` |
| `MonitoredBus` | `BusMonitor` + a C2000M + devices | frames as `orion_master.cpp` and `orion_slave.cpp` build them |
| `Gateway` | `OrionMaster` + `BusMonitor` + `main.cpp` + a C2000M + devices | stages of `loop()`, UART, switch, serial commands, resets |
| `GatewayKeys` | NVS and RAM copies of the key, the boot counter | every flash write is a step of its own |
| `Cipher` | the byte cipher both sides use | a byte is the set of its 1 bits, XOR the symmetric difference |
| `EventFifo` | what the event queue of a device promises | abstract |
| `EventChannel` | what the operator may rely on of a device's events, over everything in between | abstract |
| `EventQueue` | the ring of `lib/orion_slave.cpp:85-105` | refines `EventFifo` (`QueueIsFifo`) |
| `OrionSlave` | command handlers, zones, keys | extends `Cipher` and `EventQueue` |
| `OrionLink` | PC library + `OrionSlave` + a line that loses and delays | any answer is accepted, as in the code; refines `EventChannel` (`ReportsLikeChannel`) |
| `DeviceTracker` | `proxy/device_tracker.c` and its callers: sniffer thread, main loop with TCP commands, check and scan, HTTP thread | every lock and unlock is a step; scans write without the lock |
| `ProxyServer` | the client slots of `proxy/proxy_server.c`, the main loop and the sniffer thread in them, the kernel's descriptors | tests and `send()` of a broadcast are separate steps |
| `*Proofs` | theorems about the module of that name | see section 5 |
| `MC*` | small instances for TLC | sets of addresses, keys, commands |

Correspondence. Variables carry the source's names without the underscore (the comment
at each variable gives the field). Variables marked *history* record what really
happened; no action reads them. Definitions marked *faulty variant* are what a plausible
bug would make of the definition after them. They are used by no specification and
serve to show that each property can fail.

- **Time.** A `uint32_t` difference `millis() - t` is an age in ticks. It saturates
  where the code stops distinguishing, except `trafficAge`, which is kept modulo
  `MillisPeriod`: `switchToMaster` compares the raw difference, and the wrap (49.7 days
  in reality) is part of the model. `millis()` never returning exactly 0 at a request
  is assumed (0 is the code's "never"). After switching to MASTER the first poll is due
  at once.
- **Transactions.** `sendAndReceive` blocks the loop. In `Gateway` the clock, the bus and
  the operator go on meanwhile; the loop does not.
- **Clocks of the monitor.** `_last_request_time` in `BusMonitor` saturates too. The wrapped
  difference would also take a frame that comes 49.7 days after the last request, to within
  50 ms, for an answer.
- **UARTs.** The bus and the external serial cable are taken as separate. In the source
  both `busMonitor` and `busMaster` are constructed on `Serial1`, `ORION_BAUD` is not
  defined and `getGlobalKey` does not exist, so it does not compile as it stands; the
  comments in `setup()` give the intent that is modelled (UART2 for the bus).
- **Frames.** Outside `Framing` a frame arrives whole or not at all; a wrong CRC is a lost
  frame. The contents of a frame are bytes where a property depends on them (`MonitoredBus`,
  `OrionLink`) and only sender and address in `Gateway`.
- **Sending.** `SCAN` is a sequence of `Command`s. In `Gateway` one command, `ARM`, stands
  for all the bus commands of the cable: they differ in the frame only.
- **`Gateway` and the UART flush.** `sendAndReceive` empties the UART before the mode is
  checked and consumes the answers itself, so the monitor misses both. The actions do
  exactly that; no property is stated about it because any command shows it.
- **`OrionLink`.** The host may give up at any moment while it waits: that covers the
  500 ms timeout and a bad CRC. A request that comes while the device is busy is either
  read alone or thrown away with the one before it (`SlaveReads`). `orion_serial_flush`
  discards some prefix of what is on its way. An event is its number; the value
  `misread` says that bytes that are no event were returned as one. The application of
  the device (alarms, refusing ARM) is nondeterministic.

- **`DeviceTracker`.** A thread is at a place (`at`) of an operation (`op`); an operation
  that locks waits at `lock`, works at `body` and what follows, and gives the lock back at
  `unlock`. The two writes of a scan's answer (`online`, then `last_seen`) are two steps.
  `event_count` and `event_write_pos` are always equal and are one variable. An event is
  its id. `overdue` holds the devices for which `now - last_seen` exceeds the timeout for
  the `now` that the check read before it took the lock. One TCP command is handled per
  round of the main loop; `GET_EVENTS` with a negative count (an empty answer) and the
  HTTP handlers that read without the lock (`/api/devices`, `/api/events`) are left out.
  `Recursive` chooses between the critical section of Windows and the spin flag of POSIX.
- **`Framing`.** A byte is a number below `ByteSize` and the limits of
  `pc/include/orion_protocol.h:9-13` are constants. A CRC is right exactly for the members
  of `Frames`. Time is counted in byte times: each step of the line takes one. The sniffer
  blocks in `read()` and takes each byte at once; the firmware finds bytes in its UART at
  the next `poll()`, at most `MaxStall` later. A behaviour looks at one of the two pollers
  (`poller`), chosen at the start, beside the sniffer. `owed` is the frame the poller has
  still to deliver; for the device it is dropped when somebody uses the line again.
- **`ProxyServer`.** The build for POSIX: `srv_lock` is empty there, and Windows only has
  fewer interleavings. The listening socket's backlog is part of `Accept`. The receive
  buffer is left out: after `Receive` any number of lines follows, in any order. Lines of a
  client that has closed since, which `recv()` still delivers, are taken as received before. Commands
  that change no slot are `Query`. The HTTP thread appears only as somebody who takes the
  descriptors the main loop gives back; the broadcasts a scan makes in the main loop
  itself are left out, since nothing can change a slot meanwhile. What is stored in a slot after
  its descriptor (`proxy_server.c:558-564`) is one step. `sniffer.sock` is the descriptor
  read by the test of a broadcast; the compiler may use it for `send()` or read the slot
  again (`SendTo`). `client_count` counts every QUIT for ever, so `MaxQuits` bounds it.

## 3. Runs

Bounds that cap the state space are named constants of the modules: `RxMax`, `MaxBoots`,
`MaxIds`, `MaxFrames`, `MaxQuits` and the `MaxEvents` of `DeviceTracker`; the others are the
code's own limits made small.

| Run | Configuration | Shows |
|---|---|---|
| `monitored_bus` | `MCMonitoredBus.cfg` | `PresenceTracksAnswers`, `LogListsLatestEvents`, `IdentityAsAnswered` with two devices and all queries |
| `monitored_bus_zones` | `MCMonitoredBusZones.cfg` | **bug:** the monitor reads a status answer one field early and puts the number of zones into the state of zone 2 (`ZonesAsReported`) |
| `gateway` | `MCGateway.cfg` | of the class as `main.cpp` uses it, `TransmitsOnlyAsMaster` and `EntersAfterSilence`; of the whole, `EntersAfterBusSilence` and `PassiveAsksNobody`; with every serial command, switch and reset |
| `gateway_loop` | `MCGatewayLoop.cfg` | liveness: `SwitchChangeObeyed`, `EveryDevicePolled`, with the mode commanded over the cable as well |
| `keys` | `MCGatewayKeys.cfg` | `RunsWithConfirmedKey`, `KeysAgreeUnlessSerial`, `BootCountsIncrease` with power loss anywhere |
| `link` | `MCOrionLink.cfg` | `EventsInOrder`, `AnswersReadable`, `ActsAsMeant`; the ring refines the bounded FIFO, and the link the channel |
| `link_key` | `MCOrionLinkKeys.cfg` | **bug:** a late answer taken for the acknowledgement of a key change lets `orion_cmd_arm` disarm another zone |
| `tracker` | `MCDeviceTracker.cfg` | `LogMatchesTable`, `LogAlternates`, `ListsLatestEvents`, and, under fairness, `SilentGoesOffline`, `OperationsEnd`, with a recursive lock |
| `tracker_status` | `MCDeviceTrackerStatus.cfg` | **bug:** `GET_STATUS` hangs on POSIX, with the lock held |
| `framing` | `MCFraming.cfg` | `SnifferReportsAligned`, `MonitorHearsSeparated`, `DeviceServesInTime`: which frames each receiver cannot miss on a noisy line |
| `proxy` | `MCProxyServer.cfg` | `CountTracksClients`, `NoStaleSubscription`, `NoSharedDescriptor`, `SubscribersHearPackets`, `NoPacketTwice` while slots are closed and reused during broadcasts |
| `proxy_crash` | `MCProxyServerCrash.cfg` | **bug:** a client that leaves under traffic ends the proxy with SIGPIPE |

Why the bounds are enough:

- `monitored_bus`: two devices interleave on one bus; the ring has two slots and wraps;
  zone 1 is the one events are about, and zone 2 has the number of a field of the status
  answer, which `monitored_bus_zones` needs;
  the offline timeout spans several checks; the answer may come in the first tick after
  the request or never. The C2000M repeats a request no sooner than the monitor's 50 ms
  gap (`MinRepeat`): with faster repeats a request is taken for an answer and puts a
  silent device online, so `PresenceTracksAnswers` holds only under that assumption.
- `gateway`: one device, one frame in the UART, a gap of two ticks so that requests
  repeated within it are seen. The detection timeout is three ticks and `MillisPeriod` six,
  so silences longer than one wrap of the clock occur. What `main.cpp` never calls or
  reaches of the class (`setPollRange`, requests notified in MASTER mode, the fallback in
  `poll()`) is in `OrionMaster`, whose specification lets the methods be called in any
  order; that one is covered by `OrionMasterProofs` alone.
- `gateway_loop`: two devices, and no C2000M, since nothing notified in its absence can
  stop the round of polls. The serial commands are MASTER_ON and MASTER_OFF, given or not
  at any moment. The others are left out for a reason each: `loop()` serves the cable until
  it is empty, so a stream of ARM holds it there for ever; each REBOOT starts the
  debounce time again, so a stream of them puts the switch off for ever; POLL_ON and
  POLL_OFF change nothing but `autoPolling`, on which `EveryDevicePolled` is conditional, and
  their interleavings take TLC too long. An edge that falls into the debounce time or
  into a transaction occurs with these bounds.
- `keys`: three keys, four boots: two successive key changes with a power loss in each.
- `link`: two keys that differ in bit 0, the pair with the most dangerous confusion: ARM
  (0x64) and RESET_ALARM (0x65), zones 2 and 3. The ring has two slots and three events,
  so it fills, refuses and wraps (`MaxIds` stops a step of the device that would queue a
  fourth); two frames under way are the fewest for a late answer
  to meet the next request.
- `tracker`: one device, since the devices do not touch each other's state and the hazards
  are between the three threads; the ring of three wraps, the buffer holds two lines, so a
  list is cut by the ring, the request or the buffer in turn; four events let a device
  come, go and come back.

- `framing`: bytes are 3 bits wide so that `expected_total`, a `uint8_t`, wraps as it does
  for lengths 254 and 255; the noise bytes are an impossible length (7, which also wraps
  the monitor's total) and a possible one (1); one frame holds the beginning of another, so a receiver out
  of step finds plausible candidates. Gap and stall are one byte time each: the proof
  (section 5) covers every pair with `MaxStall <= Gap`.
- `proxy`: three clients for two slots, so one is rejected and a slot passes from one
  client to another within one broadcast; a fourth descriptor for the HTTP thread.

`CHECK_DEADLOCK FALSE` is set in the `OrionLink` runs, where at the bound on the number of
events the operator may have nothing left that the model lets happen, and in the
`ProxyServer` runs, where SIGPIPE ends the process.

Fairness. `MCGatewayLoop` assumes that the Arduino runtime calls `loop()` for ever, so that
a transaction ends (a frame is finite and the wait has a timeout), and that time passes:
weak fairness of `LoopStep` and of `Tick`. Nothing is assumed of the switch, the serial
commands, the C2000M or the devices. In `DeviceTracker` the threads run (weak
fairness of each), time passes, and a thread that waits for the lock gets it if it becomes
free again and again (strong fairness of `Enter`): neither lock is fair, but the bus is
idle between packets and the main loop sleeps in each round. Packets, commands and
requests need not come.

## 4. Known disagreements without a run

Found while modelling, and covered by a property only in part, if at all.

Gateway and device:

- `lib/orion_master.cpp:53` compares a wrapped difference: 49.7 days after the last
  request `switchToMaster` refuses for another 30 s. `EntersAfterSilence` shows that the
  wrap never errs in the dangerous direction.
- `lib/orion_bus_monitor.cpp:164`: a request repeated within 50 ms is taken for the
  answer (see `MinRepeat` above).
- `firmware/esp32_orion_slave/README.md:158` says that MASTER mode is refused for 30 s after
  C2000M traffic: a reset, or traffic heard in MASTER mode, is forgotten.
  `EntersAfterBusSilence` excuses exactly these cases.
- `lib/orion_bus_monitor.cpp:164`: a device's answer that comes after the gateway left
  MASTER mode is taken for a request, and a C2000M is "detected" on a bus without one.
- `main.cpp:194` compares the switch with its last level and not with the mode. MASTER_ON
  while the switch lies at LOW takes the bus, and the switch, which is down, does nothing about it until it has
  been moved up and down again. The comment at 184-187 and
  `firmware/esp32_orion_slave/README.md:168` say "Switch DOWN (connected to GND)" is
  "MONITOR mode (safe, passive)". `SwitchChangeObeyed` speaks of changes of the
  switch only.
- `lib/orion_master.h:48` says "If master traffic detected while in MASTER mode, immediately
  falls back to MONITOR"; `main.cpp:310` tells the master of requests only in MONITOR mode,
  so a C2000M that appears in MASTER mode is never noticed and the fallback in `poll()`
  (`lib/orion_master.cpp:99`) is never taken in this firmware.
- `lib/orion_slave.cpp:431` removes an event before its answer is sent: a lost answer loses
  the event, although `pc/include/orion_commands.h:118` speaks of the "next unconfirmed
  event". `EventsInOrder` promises no gap only until a command fails.
- `lib/orion_bus_monitor.cpp:18` calls the framing "immune to FreeRTOS scheduler jitter"
  (as does `firmware/esp32_orion_slave/README.md:99`). It is only as long as `loop()` comes
  round within the 5 ms timeout: with `MaxStall` 2 and `Gap` 1 TLC finds noise that
  swallows the next frame. `sendAndReceive`, for one, blocks `loop()` much longer.
- `main.cpp:410`: `SET_KEY` does not tell `OrionMaster`, although `orion_master.h:59` says
  "same as bus monitor"; `KeysAgreeUnlessSerial` states what remains true.

PC library and proxy:

- `pc/src/orion_sniffer.c:157` throws the whole candidate away when the CRC is wrong,
  although the comment at line 20 says "If CRC fails, shift forward and try again". Out of
  step, the sniffer may stay so: `SnifferReportsAligned` speaks only of frames it meets idle.
- `pc/src/orion_commands.c:111`: a NACK is reported as success.
- `proxy/proxy_server.c:196`: `SCAN_DEVICE` sets `online` but not `last_seen`: a device the
  sniffer never heard stays online for ever, one it heard long ago is lost at the next
  check. `SilentGoesOffline` speaks of devices with a `last_seen`.
- `proxy/device_tracker.c:291`: an answer to `GET_EVENTS` that is too long loses the latest
  events, not the oldest.
- `proxy/proxy_server.c:678`: what `send()` returns is not looked at. A client that reads too
  slowly fills its socket buffer and loses text without notice; "sent" in
  `SubscribersHearPackets` and `NoPacketTwice` means that `send()` was called.
- `proxy/proxy_server.c:431`: `QUIT` leaves `client_count` as it was; `CountTracksClients`
  says by how much the count is off for ever after.
- `proxy/proxy_server.c:557`: on POSIX a new client may be sent raw packets that the client
  before it had asked for, until line 559. A packet's text may also reach a
  descriptor that was closed and reused after the test at 676: the connection of an HTTP
  client, or a newcomer, who may then get the same packet twice. `NoPacketTwice` and
  `SubscribersHearPackets` show that clients that stay are not affected.
- `pc/orion_proxy/README.md:28` describes MONITOR mode as listening only; `SCAN_DEVICE`, `READ_STATUS`,
  `ARM` and the others (`proxy/proxy_server.c:186-391`, `http_server.c:526-568`) transmit in
  either mode. `SCAN` (`proxy_server.c:181`) answers that a scan is queued and queues none.
- The sniffer thread, the TCP commands and the HTTP thread read from one serial port, and
  `orion_transact` takes whatever comes (`pc/src/orion_protocol.c:164`).
- `proxy/http_server.c:657`: `recv` has no timeout, so one silent connection holds up the
  dashboard and the shutdown that waits for the thread.
- `proxy/http_server.c:305`: `/api/events` never shows the first event, whose id is 0.
- `pc/src/orion_commands.c:174`: a late status answer is returned as an event; in `link`,
  `EventsInOrder` excludes it only until a command fails.

## 5. Proofs

Checked by TLAPS for every value of the constants that the named assumptions allow.

- **`OrionMasterProofs`** (from `MasterAssumption`). `MasterInv` adds to the type invariant:
  DE is high only while a frame leaves; a transaction runs only in MASTER mode; while the
  traffic is recent, its age modulo the clock's period is its real age; and the flag is
  down only when the traffic is old. The last two are what makes the two checks of
  `switchToMaster` safe across wraps. From it: `MasterTypeCorrect`, `PassiveIsSilent`
  (`TransmitsOnlyAsMaster`), `MasterAfterSilence` (`EntersAfterSilence`) and
  `PollAfterSilence` (`NoPollOverMaster`: auto-poll starts nothing while a notified request
  is recent, for callers that notify in MASTER mode, which `main.cpp` does not).
- **`GatewayProofs`** (from `MasterAssumption`, `MonitorAssumption`, `GatewayAssumption`). Every step of the
  loop is a step of the class `OrionMaster` or leaves it alone (`GatewayDrivesMaster`), so
  `MasterInv` holds in the gateway, and with it `PassiveIsMute` (`PassiveAsksNobody`): a
  transaction that is still under way when the mode changes has sent its frame before. `HeardInv`
  relates what the class was told to what was read: a request read while passive was
  notified, so the class knows it, and any frame taken for an answer instead came within the answer
  gap of such a request. Hence `MasterAfterBusSilence` (`EntersAfterBusSilence`).
- **`GatewayKeysProofs`** (from `KeysAssumption`). `KeysInv` says at each place of `setup()`
  and `loop()` which copies of the key agree and how the announced boot count relates to
  the flash. From it: `KeysTypeCorrect` (`TypeOK`), `ConfirmedKeySurvives`, `KeysAgree`,
  `BootsAreDistinct`.
- **`OrionLinkProofs`** (from `QueueAssumption`, `SlaveAssumption`, `LinkAssumption`; the bounds
  `MaxIds` and `MaxFrames` are any). The cipher first: with
  equal global keys every byte is read as sent; with different ones it is shifted by their
  XOR whatever the message key, so it is never read as sent (`SameKeyReads`, `OtherKeyShifts`,
  `ReadsOnlyWithSameKey`). So a frame under the wrong key is still a valid frame, and what the
  link promises needs the keys to agree. Then the queue of the device. `RingInv`: the write
  index is the read index plus the count, around the ring. With it a push appends to
  `Contents` and a pop takes its head, so `RingIsFifo`: the ring implements `EventFifo` for
  every capacity. Last the link. `OrderInv`: the events got, those in answers on
  their way and those in the queue are one rising sequence. `SyncInv`: until a command
  fails, host and device are in one of four situations (`Quiet`, `Sent`, `Answered`, `Lost`) that say
  which frame is on the line, under which key, and that no event is missing. It is needed because
  the device changes its key when it acknowledges, before the host does. From them `OrderCorrect` (`EventsInOrder`),
  `ReadableCorrect` (`AnswersReadable`), `MeantCorrect` (`ActsAsMeant`), with `RingIsFifo`
  `DeviceQueueIsFifo`, and the refinement `LinkIsChannel` (`ReportsLikeChannel`): a step of the
  device that queues an event is a `Happens`, an answer taken for an event a `Reports`
  (`ReceiveReports`), a command that fails a `Fails`, and all the others stutter. `BoundInv` adds that the
  host holds a key of the operator and that neither the line nor the events outgrow their
  bounds, hence `LinkTypeCorrect` (`LinkTypeOK`). What is left when a command has failed and the
  two keys differ is `KeyedInv`: the device's key and the key of every frame under way are keys of
  the operator, so a frame is read shifted by the XOR of two of them. ARM reads as RESET_ALARM or DISARM only if these differ in exactly bit 0 or
  exactly bits 0 to 2, so for all other sets of keys `orion_cmd_arm` never disarms anything
  (`KeysThatArm`); run `link_key` shows the defect with a pair that does.
- **`DeviceTrackerProofs`**. `LockInv`: the lock is held exactly by the thread between
  `tracker_lock` and `tracker_unlock`, once or, in the nested call, twice. `LogInv`: a
  device is online exactly if its last event says so, it answered a scan since, or the
  sniffer is about to record it. The last case is why the two writes of
  `tracker_on_packet` need the lock; the unlocked writes of scans only ever set `online`.
  From them `MutualExclusion` and `LogMatches` (`LogMatchesTable`), for any number of
  devices and both kinds of lock, and `LogTellsNews` (`LogAlternates`), since
  what is about to be recorded is not what was recorded last. `TypeInv` adds to the types what each place of a thread
  implies (`TrackerTypeCorrect`). `ListInv`: the ring holds each of the last `RingSize` events in
  the slot of its position, and a listing under way is a prefix of the last `Count` of them. Recording
  needs the lock the listing holds, and positions less than a lap apart differ modulo the
  ring's size (`SlotsDiffer`); hence `ListsLatest` (`ListsLatestEvents`) for every ring.
  `StatusHangs` is the general form of what run `tracker_status` finds: without a recursive
  lock a thread in the nested call of GET_STATUS is there for ever, and keeps all others out.
- **`MonitoredBusProofs`** (from `MonitorAssumption`, `BusAssumption`; all but the types also from
  `Patient`: the C2000M repeats a request no sooner than `RESPONSE_GAP_MS`, as otherwise the repeat
  is taken for the answer). `Linked`: the monitor's last request is the last
  request of the C2000M, and as old up to the gap. So every frame is taken for what it is. On it
  rest `PresenceInv` (the monitor's age of a device is the time since it spoke, up to the
  limit, and the periodic check is never later than one period), `TableInv` and `LogInv` (the ring
  from its oldest slot is the sequence of events sent). From them `MonitorTypeCorrect`,
  `PresenceCorrect`, `LogCorrect` and `IdentityCorrect`, for any number of devices, any
  timings and every log size. `EventsKeepZones` complements the bug of `monitored_bus_zones`: on a bus
  where nobody asks for the status (`~AsksStatus`) the events alone leave every zone as its
  device last reported it, so the status answers are all that goes wrong.
- **`FramingProofs`** (from `FramingAssumption`). The sniffer's candidate and what it still
  expects always make one packet; with `AlignedInv` (the candidate is the part of the frame
  that was sent) this gives `SnifferReportsWhatItIsReadyFor`. `LagInv` relates the three
  clocks: what is in the UART, the age of the last byte read and the silence on the line.
  It is why, if `MaxStall <= Gap`, a poll falls into the silence and empties the buffer; `MonitorInv` adds
  that buffer and UART together then hold exactly the frame's bytes, hence `MonitorHears`. For
  the device, which serves a request only after the silence that follows it, `DeviceInv` says
  that a request that came alone is either in buffer and UART together, or whole in the buffer
  while the silence is shorter than one gap and two polls: `DeviceServes` (`DeviceServesInTime`).
- **`ProxyServerProofs`** (from `ProxyAssumption`). `OwnInv`: a slot's descriptor is open and its
  client is there, except in the slot the main loop is just closing, and no descriptor is
  in two slots. `CountInv` adds what each place of the loop has still to count. `HearInv`:
  during a broadcast every client that the packet is due to has a slot, subscribed, that the sniffer has
  still to reach if the client was not served, and has passed if it was. The slots' own steps
  keep it because a client that stays never changes slots. From them the six theorems of `proxy`.
  `QuitsDoNotCrash` completes what run `proxy_crash` finds: while clients leave by QUIT only
  (`StayInv`: nobody else has left), no interleaving of the two threads raises SIGPIPE.

Only model-checked: all liveness (`SwitchChangeObeyed`, `EveryDevicePolled`,
`SilentGoesOffline`, `OperationsEnd`), which is out of the prover's
reach, as is `ENABLED`. Every invariant and every action property of a passing run is proved.

## 6. Not modelled

- Statistics counters, JSON and text rendering, LEDs, heartbeat, WiFi access point, logging.
- The computation of the CRC and the serialisation of a packet.
- Restarts of the emulated device: there is no application in the repository that sets
  it up, so what survives is not known.
- The PC serial port, the tray icon, the dashboard, the simulator, the example program:
  I/O and user interfaces.
- Of the proxy: the ring of live events (written and read at once on POSIX, so what a reader
  sees of an entry depends on the compiler), who of three readers of one serial port gets
  which byte (the kernel's choice, and nothing is promised of it), the shutdown, the
  configuration file.

## 7. What could come next

1. `LiveEvents`: the ring of `http_server.c` under the critical section of Windows, with the
   dashboard that polls it.
2. `ProxyBus`: the sniffer, a scan and the commands of two clients over one serial port,
   composed with the frames of `OrionLink`; which command may take whose answer.
3. Shutdown of the proxy: stop flag, joins, and who still uses what is destroyed.
4. Proofs: an abstract broadcast (each packet once to everyone who stays) that `ProxyServer`
   implements, as `OrionLink` does `EventChannel`.
