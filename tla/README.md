# TLA+ models of the smart home devices

The repository holds the firmware of a family of small devices: AVR nodes on an
RS485 bus, Ethernet modules under the Nut/OS real-time kernel, and wall panels.
What can go wrong in them is seldom in one function. It is in an interrupt that
comes between two assignments, an event that stays signaled after its wait, a
UART that finishes a byte at the wrong moment, a packet that is lost. The modules
in this directory model the parts where that happens, TLC explores them on small
instances, and TLAPS proves the invariants and the promises about single steps for
every value of their constants.

Run, in this directory: `tlasany M.tla`, `tlc -config X.cfg M`, `tlapm MProofs.tla`.

- [1 The system](#1-the-system)
- [2 Modules and how they correspond to the code](#2-modules-and-how-they-correspond-to-the-code)
- [3 Runs, bounds and fairness](#3-runs-bounds-and-fairness)
- [4 Proofs](#4-proofs)
- [5 Where code and comments disagree](#5-where-code-and-comments-disagree)
- [6 Observations without a run](#6-observations-without-a-run)
- [7 What is abstracted and what is not modelled](#7-what-is-abstracted-and-what-is-not-modelled)
- [8 Plan](#8-plan)

## 1 The system

```
   SCADA, OpenHAB                         other panels, MQTT/UDP (broadcast)
      | Modbus/TCP, HTTP, MQTT                     |
  +---+----------------+---------------+   +-------+------------+
  | mmnet_485_server   | alarm_and_    |   | mmnet_mqt_udp_     |
  |  Modbus/TCP server | charger       |   | server: wall panel |
  |  TCP/RS485 tunnel  |  SPI loop ----+-> | (mmnet_wall_board: |
  +---+----------------+ pwm2313 slave |   |  MQTT to a broker) |
      | RS485, half duplex             |   +--------------------+
  +---+------------+  +----------------+
  | pump_mega32    |  | one_wire_temp  |     mega8_weather, StarterKit, dzBinLib
  +----------------+  +----------------+     stand alone
```

`Status`: **M** modelled, in whole or in its control (the component entries of
PROJECT.json say which operations are missing); `-` left out, with the reason in
section 7.

| Component | State it keeps | Operations and interactions | What is hard | Correct when | Status |
|---|---|---|---|---|---|
| Serial Modbus slave (`pump_mega32/src/modbus_pkt.c`, `modbus_ascii.c`; the same files in `one_wire_temp`) | receive buffer, `process_rx_packet_flag`, `uart_auto_protocol`, timer, counters | receive interrupt fills, timer interrupt ends a frame, main decodes and replies | main and two interrupts share everything without a lock | the frame being answered is not touched; each frame is answered at most once and in its own framing; the receiver starts clean | M |
| Half-duplex transmitter (`uart.c`) | `send_buf_pos`, `inSend` and the driver pin, interrupt enables | main starts and primes; UDRE interrupt sends; TXC interrupt releases the line | two writers of one buffer position; the TXC flag is cleared by software | the line is released, but never before the last byte; every byte once and in order | M |
| Pump controller (`pump.c`) | relays, `active_pump`, `system_failed`, timers, latches | a pass of the main loop; a one-second interrupt that may reset everything | reset in the middle of a pass; multi-byte loads; latches that outlive what set them | never two pumps; no pump runs dry; a failed system stops; high pressure stops the pumps | M |
| Stored settings (`temp_sens_eeprom.c`, `modbus_reg.c`, `ui_menu.c`) and event log (`errlog.c`) | settings in RAM and in EEPROM cells, request flags, EEPROM port, `log_pos`, ring of records | the main loop asks, a nested five-second interrupt writes cell by cell; anybody logs | power loss between two cells; interrupts in the four-cycle window of an EEPROM write; two users of one port | what the display calls saved is saved; no cell holds another's value; the newest events are in the log | M |
| TCP/RS485 tunnel (`mmnet_485_server/main/tunnel.c`; copy in `alarm_and_charger`) | socket, `runCount`, `stop`, mutex, five events, two buffers | a control thread, two threads per client, three interrupts | sticky events, time-outs, sessions that end in any order, a buffer taken over from an interrupt, a 16-bit index loaded byte by byte | one session at a time; the line driven by one thread, for whole messages; bytes in order, once; always accepts again | M |
| Modbus/TCP server (`modbus.c`, `modbus-lib/modbus_pkt.c`), activity watchdog (`servant.c`), outputs (`io_dig.c`, `web_cgi.c`) | connection, reply event, `network_activity`, event counts, output ports | a server thread, a web thread, the main loop, a one-second timer | requests are noticed by comparing counters later; the countdown against a late request; requests refused after they wrote | outputs fall back when communications are lost, and only then; a vanished master frees the server | M |
| Stored configuration (`runtime_cfg.c`) | `ee_cfg` in RAM, bytes and CRC in EEPROM | the setup form changes, saves, loads, resets; read at start-up | power loss in a save | a restart finds one whole configuration | M |
| 1-Wire thermometers (`onewire.c`, `ds18x20.c`, `io_temp.c`, map in `runtime_cfg.c`) | slots, permanent numbers, map in the configuration | a scan of the buses, a measurement per second, the setup page | a search that depends on the last one; devices that move; slots and numbers of different ages | a search finds each device once; each thermometer is in its place and is measured | M |
| Wall panel switches (`mmnet_mqt_udp_server/main/io_dig.c`, `mqtt_map.c`, `mqtt_udp_glue.c`) | debouncers, `dio_state`, change flags | a sampling thread toggles and broadcasts, a receiving thread notes; several panels | flags cleared after a send that may wait; loss, restart, start-up before the network | panels at rest agree; nothing is echoed; a bouncing contact toggles once | M |
| Wall board (`mmnet_wall_board/main/mqtt_main.c`, `io_dig.c`, calls of `libemqtt.c`) | connection, item to send, flag, mutex, change flags | a sampling thread hands over an item and waits, the client thread publishes, subscribes and reads | packets taken for each other, strings on another thread's stack, restarts asked for and forgotten | an item is alive until it is sent; an acknowledgement belongs to its message; the board ends up subscribed and agrees with the broker | M |
| Charger (`charger.c`), with button and lamp of the SPI loop (`io_spi.c`) | a state per battery, PWM, `load_enabled` and the lamp that shows it (the relay itself is still a TODO, `charger.c:142`) | one pass per half second | states that switch before they look; decisions one pass old | an empty battery puts flag and lamp out; nothing is charged without mains | M |
| Modbus register map, other registers (`modbus_reg.c`) | counters, inputs | one variable each | a multi-register write that fails half way (in `Server`) | – | in part |
| LCD queue, PWM slave, displays, drivers, web pages, codec, checksums, start-up, weather station, StarterKit, dzBinLib | – | – | bit timing, formatting; the slave cannot run as built | – | - |

## 2 Modules and how they correspond to the code

### ModbusSlave, RequestReply

One action per interrupt handler (`RxByte`/`RxOverrun` are
`modbus_rx_byte` with and without room, `TimerCallout` the timer call-out with
`modbus_timeout_occured`, `TxComplete` the TXC interrupt), because a handler runs
with interrupts off. `modbus_process_rx` is split at each access to a variable an
interrupt writes: `Poll`, the two `if`s on `uart_auto_protocol` (`AskRtu`,
`AskAscii`), the two more of `modbus_send_packet` (`EncodeRtu`, `EncodeAscii`),
`StartTx`, the counters, and the three final assignments `ClearPos`,
`ClearCorrupt`, `ClearFlag`. A byte is `colon`, `crlf` (the pair) or `other`. How
decoding ends (not for us, bad checksum, exception, answered) is chosen from what
that buffer may yield.

`RequestReply` is what the master may rely on: listening, then handling one frame,
answered at most once, then listening again, for ever. `KeepsPromise` says that the
slave implements it, with `process_rx_packet_flag` for the phase.

### UartTx, HalfDuplexLine

The UART's two registers and its flag TXC are the hardware; `Enable`, `TestUdre`,
`ClearTxc`, `WriteByte`, `Advance`, `Disable` are the steps of `send_next_byte` as
main executes it inside `modbus_start_tx`, `IsrUdre` is the same loop as an
interrupt, `IsrTxc` the end of the reply. `slack` is the one instruction an AVR
executes after a return from interrupt; most handlers end with `sei`, after which the
next one may come before they return (`Return`). Other handlers are a parameter, and
the run has them all: short ones; long ones with interrupts masked (`log_event` writes
five EEPROM bytes between `cli` and `sei`); long ones that enabled interrupts again
(the timer's, which flushes the EEPROM after its `sei`). `driver` is the pin
that switches the line driver on, and with it `inSend`, which changes in the same
instructions; `txPc` is where main is.

`HalfDuplexLine` is the promise: driver on, every byte once and in order, driver off.
`KeepsLine` is about every reply that is not `raced`. A reply is raced when the UDRE
interrupt comes between main's test of UDRE and its store of `send_buf_pos`
(`Overtaken`), for which another handler has to delay main there, or when it begins
before the UART has got rid of a raced one (`Dirty`). Handlers may come at any other
time and in any number. `WithinReply` is about raced replies as well.
`CalmSendingEnds` is about replies during which no other handler runs, whatever
disturbed the replies before them.

### Pump

`EverySecond` is `pump_every_second` with the reset it may call. The main loop's
pass is `Sense` (sensors, latches, `process_din`), `set_pump_state` in four steps
with the two arguments of `pump_onoff` loaded one after the other, `sanity_checks`
with the multi-byte loads split into low byte and rest, and
`process_pump_failure` as test and store. A pass takes less than a second
(`passed`). An unused sensor is out of `enabled`; with none, the binary input rules.
`Orders` is the choice `pump_control` makes between its two latches: high comes first.

### Tunnel

Threads of Nut/OS run until a call that may block; each action goes from one such
call to the next, except where an interrupt can tell the difference: each load of
the 16-bit `rx_idx` is two, low byte first (`LoadLow`, then `RecvPeek`, `RecvLook` or
`RecvMeasured`), and the copy comes after, with interrupts off. `RecvWrite` is
`NutTcpDeviceWrite` with its three results: all of it, an error, or part of it, after
which the code writes the last bytes of the buffer instead of the rest (`RecvShort`).
Both waits of a transmission may end by themselves: that for its end on a line that
is too slow for the message (`Slow`; the speed is a field of the setup page), that for
the last byte after ten milliseconds (`EmptyOrLate`). `spoilt` and `timely` note when a
session or a message was hit. Events are sticky: `Post` signals, `Consume` waits, time-outs are
alternatives. `TxNext`, `TxSentAll` and `RxComplete` are the interrupts,
`ShiftOut` the hardware, `PeerClose` the client going away.

### WallSwitch

`Process` is a pass of `dio_process` up to its first send (read and debounce,
apply what came from the network, toggle, copy the flags), `SendChannel` one
`mqtt_udp_send_channel`, in which the thread may wait, `EndPass` the clearing of
the flags by the copy. `Receive` is `mqtt_udp_recv_item`. `Lose`, `Restart` and
`NetworkStarted` are the network and the power. Four history variables say
what a panel may not know: `said` (the last broadcast of a channel), `behind` (the
channels of which it missed news, or said something that crossed the news of another),
`since` (time since a press), `events` (the bound).

### WallBoard

Two threads, each action from one blocking call to the next. `DioProcess`, `Offer`
and `ItemSent` are a pass of `dio_process` with `mqtt_send_item`: toggle, hand the
item over, wait until `mqtt_send_flag` falls, clear the flags of the snapshot.
`Connect`, `ExpectConnack`, `Subscribe`, `ExpectSuback`, `Publish`, `ExpectPuback`,
`Ping` and `Read` are the places of `mqtt_recv`. Each `expect_packet` and
`read_packet` may take a packet, with what follows it in the same read, or nothing,
or find the connection broken, as the code does. The broker (external) refuses,
acknowledges before or after it echoes, drops the connection, and has other clients.
An acknowledgement says only whether it answers the message sent last, which is all
`msg_id` is compared with. `behind` names the channels of which a publication was lost
in one of the ways the code has, `reached` what the broker took.

### Settings

The main loop's handlers are split where they store something an interrupt reads:
`SetSpeed`/`StoreLow` (a 16-bit store), `Report`/`LoadFlags`/`StoreFlags`
(`eeprom_write_request |= what`), `FindSlot`/`LogEvent` (the slot is computed before
interrupts go off). `Tick5sec` takes the requests, and `WriteAddress`, `WriteData`,
`Arm`, `Write` are the instructions of one `EEPROM_write`, between any two of which a
nested tick may come: `Retry` logs an event through the same port, `Interrupt` is any
handler long enough to let EEMWE fall. `PowerLoss` comes at any step and starts with
what the cells hold. `excuse` records what the display does not know of: an address
previewed, a write spoiled, a request half made when the flush looked at it.

### Server, RuntimeCfg

`RuntimeCfg` is the configuration in RAM and EEPROM with the form's operations and
`CfgRestart`, which may come in the middle of a save. `Server` extends it with the
thread of `modbus.c` (`CreateSocket`, `Accept`, `HaveMemory`, the three ends of a
read, `Process`, `Sent`, `EventWait`), `item.cgi` (`WebItem`, `WebDone`), the
one-second timer (`EverySecond`), the main loop's comparison of event counts
(`MainLoop`) and a master that asks ahead and leaves without closing. A request may be
`refused`, or be `broken`: registers are written one by one, a later one or the read
of function 0x17 fails, and the answer is an exception, which is not counted.
`slipped` notes that one of these wrote. A restart takes its outputs from the stored
configuration, and the timer falls back to the start values of the one in RAM: that is
where the two meet.

### OneWire, Thermometers

`OneWire` is `ow_rom_search` as a pure function: a bus is a wired AND of the devices
that still listen, and a walk over the bits yields the ROM found and the last
difference. `Thermometers` runs it device by device (`Search`, `NextBus`), with
`DS18X20_find_sensor`, the slots of `search_sensors` and the numbers of
`ow_map_add_found`; `Measure` and `Rescan` are the main loop, `SetupPage` the pages
that edit, clear, load and save the map and switch the options `IO_1W1` and `IO_1W8`
on and off: with both off nothing is scanned or measured, with the second off only the
first bus (`Enabled`, `Searched`, `Measured`). Devices move, buses are shorted, a device
leaves in the middle of a search (`Disturb`). A temperature is the device that
measured it, which is what `RightNumber` is about.

### Charger

A pass of `charger_main_loop` is one action: `StateAction`, the charge current again
in the new state, `Display`. `SpiLoop` carries the lamp out and the button in, at its
own pace. Voltages are where they lie between the code's thresholds and change at will.
No code drives the relay of the load (`charger.c:142` and `155` say "TODO relay
control"): `load_enabled` is a flag, and what leaves the device is the green lamp,
"on = load is on". The properties are about these two.

### MC modules and proof modules

`MCModbusSlave` gives the slave its small constants, `MCWallSwitch` the sets of
inputs in use, `MCThermometers` four devices chosen so that their searches branch
differently at each of three bits. `TunnelProofs`, `WallSwitchProofs`,
`WallBoardProofs`, `SettingsProofs`, `ServerProofs` and `ThermometersProofs` extend the
module they are about. `ModbusSlaveProofs` is about both halves of the slave's serial
port and extends `ModbusSlave` and `UartTx`; `PumpProofs` is about the two controllers
and extends `Pump` and `Charger`. That is why the general names of `UartTx` and
`Charger` have a prefix (`UartInit`, `ChargerNext`).

## 3 Runs, bounds and fairness

| Run | Bounds, and why they are enough | Shows |
|---|---|---|
| `slave` | buffer of 3 elements, time-out of 2 call-outs, counters modulo 2. Three elements tell empty, partial, ASCII, RTU and full apart; two call-outs contain one that does nothing; modulo 2 wraps at once. 33 000 states | an RTU frame is preceded by silence (`RtuFrameIsQuiet`); framing of replies (`ReplyFraming`); the frame in work is not touched (`FrameUntouched`); a clean start (`FreshOnRelease`); `RequestReply` is implemented (`KeepsPromise`, with its liveness) |
| `uart` | replies of 1, 2 and 5 bytes; short, masked and nested handlers at any moment, any number of them. The two registers make 3 bytes the longest special case. 31 000 states | main sends at most one byte behind the reply (`WithinReply`); a reply that is not raced implements `HalfDuplexLine` (`KeepsLine`); an undisturbed one ends (`CalmSendingEnds`) |
| `pump` | one sensor or none; times 1, 10, 5 and 14 s for 20, 600, 300 s and 12 h, a byte of 4 values for 256. The order pressure < startup < long run < retry of the code is kept, and each counter crosses a byte boundary. 247 000 states | pumps exclude each other (`NeverBoth`); no dry run beyond its limit (`DryBounded`); failed means off (`FailedIsOff`); after a high reading no pump runs (`HighStops`) |
| `tunnel` | buffer and threshold 2, a byte of 2 values for 256, so that an index of the buffer takes both of its bytes; messages of 3 bytes (more than the UART holds), of which the line carries 1 in the 1.5 s, 2 messages, 2 received bytes, any number of sessions. 598 000 states | sessions do not overlap (`SessionsDontOverlap`); TCP gets what was stored, once and in order, until a session is spoilt (`Relayed`); a message that finds the line silent and whose waits do not expire goes out whole (`WholeMessage`); always accepts again (`Reaccepts`) |
| `wall` | two panels with a switch each for the same channel, one with a button the other follows, debouncers of 2 samples for 8, two events (changes, losses, restarts) altogether. Two make a press and its loss, a press and a restart, or two broadcasts that cross. 325 000 states | `Agreement`, `NoEcho`, `NoBounce` |
| `board` | topics 0 and 1, a switch at 0, one read error before a restart, two events (local changes, foreign publications, breaks, refusals), two packets on their way. Two packets are the least that can be coalesced or out of order; two events make a change meet a break. 284 000 states | an item's strings outlive its use (`ItemAlive`); no loop without a sleep (`NeverSpins`); an acknowledgement belongs to its message (`AckedIsTaken`); rest means agreement with the broker, but for named losses (`Agreement`); subscribed again and again (`Resubscribes`) |
| `settings` | two addresses, one low and two high bytes of the speed, delay 1, two log slots, two events per uptime, one spoiled write between two saves. Two high bytes show a torn speed, two slots a full log. 1 035 000 states | what the display calls saved is saved (`DisplayHonest`); cells keep their own values (`CellsOwn`); the log has the newest events (`LogKept`); a request ends in the EEPROM (`Saves`) |
| `server` | start values 0 and 1, one address, 2 s of silence for 30 and 3 s at the start for 60, one request ahead. One request waiting while one is answered is what the close of a connection can lose. 280 000 states | without communications the outputs have their start values, but for a request under way or one refused after it wrote (`LostIsDefault`); a restart finds a whole configuration (`CfgWhole`); a loss is noticed (`LossNoticed`); a vanished master frees the server (`GoneIsFreed`) |
| `thermo` | ROMs of three bits, four devices, two buses, three slots, two numbers, two events. Four devices on three bits make searches with no, one and two differences; three slots are one less than the devices, two numbers one less than the slots; both 1-Wire options on or both off at first. 727 000 states | the search against its reference (`SearchInOrder`); every thermometer has one slot (`AllFound`) and its place (`NumberedInPlace`); scans end and every slot of a bus that is on shows what reading it gives (`Reports`) |
| `charger` | a PWM of four steps. 46 000 states | on an empty battery the lamp "load is on" is out after four passes (`EmptyIsDark`); no charging without mains (`NoMainsNoPwm`); `load_enabled` is set again only with mains (`LoadNeedsMains`) |
| `server_lost`, `thermo_number` | as `server`, with 3 s of silence and 4 s at the start, so that a request is more than a second old when it is missed; as `thermo` | the code does not do what a comment says: section 5 |

Deadlock is checked in every run: no part of the system may stop, and the bounds on the
environment never leave a state without a step.

Types are not among the runs' properties: the type invariant of every module with a
run is proved for every value of the constants (section 4).

**Fairness.** The main loops of the firmwares have no blocking call, so `Main` of the
slave and `Transmit` are weakly fair. A timer interrupt comes again and again
(`TimerCallout`, the server's `EverySecond`, `Tick5sec`), and a handler that has begun ends
(`Flush`). An interrupt that is pending is served when no other masks it, which
happens again and again: strong fairness of the transmit interrupts and of the shift
register in `UartTx`, where other handlers hold them up for a time; weak in `Tunnel`, where nothing does.
Nut/OS runs every ready thread in turn, hence weak fairness of `Ctl`, `Xmit`, `Recv`
of the tunnel, of the server's `Thread` and `MainLoop`, of the board's two threads,
and of `Scan`, `Rescan` and `Measure`, which are parts of one main loop; a thread that waits
for TCP is released by the socket time-out (`XmitEnd`, `ReadNothing`). Nothing is
assumed of the environment: bytes, clients, pressure, devices and hands may come or
not. The one exception is the board's broker: connecting succeeds now and then
(strong fairness of a successful `Connect`), because a board that is never let in
cannot subscribe. `WallSwitch`, `Charger` and `Pump` state no fairness and claim no
liveness; as built, nothing runs the last two.

**Abstract specifications.** `KeepsPromise` and `KeepsLine` are refinements by
`INSTANCE ... WITH`. `RequestReply` carries its own fairness, so its run checks that
the code makes progress, too; `HalfDuplexLine` says what a step may do, and that it
comes to its end is `CalmSendingEnds`. `SearchInOrder` compares the search with a
reference definition: on a quiet bus the ROMs read are the greatest of those
plugged in.

**Mutants.** Each property of a passing run is paired in PROJECT.json with a
plausible bug (a dropped guard, an off-by-one, a forgotten reset) in a mapped
definition; with it, TLC finds the property violated. The altered definitions stand
before the ones they replace.

## 4 Proofs

Every invariant, every action property and every refinement the passing runs check is
also a theorem, but for what is liveness. The theorems are for arbitrary constants under the
named assumptions `SlaveAssumption`, `UartAssumption`, `PumpAssumption`,
`TunnelAssumption`, `WallAssumption`, `BoardAssumption`, `SettingsAssumption`,
`CfgAssumption`, `ServerAssumption`, `BitsAssumption`, `ThermometersAssumption` and
`TopAssumption`, which say that sizes and times are naturals, positive where the code
divides or indexes by them, that factory settings are settings, that the erased byte is
none of them and not zero, and that no device has the ROM a silent or a shorted bus
reads. No theorem has a hypothesis besides these.

**ModbusSlave.** `IndInv` is `TypeOK /\ ReleaseOrder /\ OneReply`. `ReleaseOrder`
is needed because the flag is the only lock: while main is not idle the flag is up,
a frame is decoded only uncorrupted, and each of the three final assignments
relies on the one before. It also says that the timer is down while an RTU frame
waits, without which a second time-out could touch the buffer. `OneReply` says
that `uart_auto_protocol` can only turn to RTU while a frame is held, so that a
frame answered under the first `if` is not answered again under the second. From it:
`TypeCorrect`, `QuietBeforeRtu`, `FrameSafe`, `FreshBuffer`, and `PromiseKept`,
the safety part of the refinement. `FramedLikeRequest` needs `Framing` besides: until
main releases a frame, its framing only turns from ASCII to RTU, when its own time-out
fires, and what was encoded under the first test is not encoded under the second.

**UartTx.** Main and the UDRE interrupt move the same `send_buf_pos`, and nothing keeps
other handlers from delaying main anywhere. `PosBound` holds for raced replies, too:
two increments for one byte take the position one past the reply and no further,
because main's next test ends the loop. With the types it gives `SentWithinReply`.
`LineInv` adds `Regular`, for as long as the reply is not raced: with the driver off
the UART is at rest and nothing is left for main to write (`OffRest`); it is at rest
until main enables it (`OnRest`); what main has tested still holds when it writes
(`InLoop`), which is what being raced would break; the TXC flag is up over a byte on
its way only as long as somebody is sure to clear it again (`FlagTells`); position, UART
and line together lose and repeat no byte (`Accounted`). From it: `LineKept`, the whole
of `KeepsLine`, for handlers of every kind.

**Pump.** `NeverBoth` alone is not inductive: `Switch` closes a relay chosen two steps
before. `OtherOff` says how far the pass has gone in opening the other one, and
survives the reset because the reset only opens relays. `FailedKeepsOff` does the same
for `FailedIsOff`. From them: `TypeCorrect`, `PumpsExclude`, `FailedOff`.
`HighKeepsOff` follows the order to switch off through the steps of `set_pump_state`
in the same way: `HighPressureStops`. `DryRunsEnd` is about time: only a pump asked
for by `have_below` works (`Requested`), the count a pass checks is at most one second
old, although it is loaded in parts with the interrupt between them (`Checked`), and
what a pass lets go on leaves room for the ticks until the next one checks (`InTime`).

**Tunnel.** `SessionInv` counts the threads (`Counted`: `runCount` is the number of
live ones) and says where the start events may still be signaled (`Started`). The
start event of the receive thread can outlive its session, that of the transmit thread
cannot; as the transmit thread starts second, the control thread knows that both have
started. `LineInv` adds the mutex: `LineOwned`. `RxInv` bounds the buffers. A measure
that the interrupt tears is less than 256 too large (`CopyBounded`, from a lemma about
the two halves of a number), so `BufferSafe` promises that much and no more.
`RelayedInOrder` needs `Exact`: in a session that is not spoilt the measure is what
the buffer holds, because the byte that would make it another is what spoils it. For
`SentWhole`, `Stages` follows a message as long as it is timely: silence before, busy
while bytes are left, then exactly one of three ways to end. It holds for every speed
of the line; what an expired wait leaves behind is what makes the next message not
timely. `NoOverlap` and `TypeCorrect` complete the list.

**WallSwitch.** `Debouncing` relates the shift register to the time since the last
press: a register that shows `run` equal samples has had `run` passes to see them,
and a released level needs a full register after a pressed one. From it:
`BouncesFiltered`, for every register width and number of panels. `NothingEchoed`
follows from an invariant (`EchoInv`, in the proof module) that an input nobody
uses is never debounced to pressed. `PanelsAgree` rests on `Following`: for every panel
and channel, either the panel is about to say something itself, or the last news on
their way to it are what was said last, or, with none on their way, what it has noted or
shows is. It holds for any number of panels and hands, broadcasts that cross included.

**WallBoard.** `ItemAlive` needs to know who may hold the mutex and what a pending
item points to: `Holding` (the client thread is in the middle of a publication only
over a pending item), `Topical` (its channel has a topic), `Offered` (a sender that
offers has a channel to offer). No step of the reconnection touches the flag, which is
why an error cannot leave the sender's strings in use. From it: `TypeCorrect`,
`ItemsAlive`, `SendsAtOnce`. `AckedTaken` follows the acknowledgements on their way:
one that answers the message sent last is there only if the broker took that message.
`BoardAgrees` follows the publications on their way in both directions; proving it
showed which losses `behind` had not named, and the model names them now.

**Settings.** `CellsOwn` is about one store at the end of four steps. `Aimed` says
what the port holds in between: the cell of the write under way or, after another
handler's write, the validity byte; and that every write left in the job pairs a cell
with a value of its own. From it: `TypeCorrect`, `OwnValues`. `Room` bounds the
events while a slot is reserved; with `Ring`, which says which events the slots hold
and which one is reserved, it gives `NewestKept`. `Shown` gives `DisplayTellsTruth`: between
flushes the settings in force are the saved ones, or a request for them is under way
and shown; a flush has every cell saved or still to write, or writes the map only.

**Server.** `LostIsDefault` is strengthened to `Changing`: without communications the
outputs can differ from the start values only while a request that will be counted is
under way, or once an exception, which is not counted, had written (`slipped`).
`CfgWhole` is an invariant of the configuration alone and is inductive with its types.
From them: `TypeCorrect`, `OutputsFallBack`, `WholeConfiguration`.

**Thermometers.** `NextFindsNext` is about one search, for any length of a ROM: resumed
at the last difference of the ROM found before (`Resumes`), it finds the next smaller
one, and the difference it reports is where the search after it resumes, or none when
nothing smaller is there. A walk over the bits is a recursive function; what it yields
is shown bit by bit, by the least bit at which it would be wrong (`Reached`, and
well-foundedness of the naturals). Over it `SearchesInOrder` needs `GoesOn`;
`ScanFindsAll` adds `SlotsOfRead` and `OneSlot`, which say of which buses and ROMs the
slots are; `NumberedInPlace` is inductive as it stands (`NumbersInPlace`). `TypeCorrect`
includes that no search yields a ROM nobody has.

**Charger** (in `PumpProofs`). `ChargerInv`: `Starving` says in which states a charger can
be after one, two and three passes on an empty battery, `Shown` that the lamp is told of
a cleared flag at once, `Entered` that charge and idle, which set `load_enabled` before
they look at the mains, were entered with mains. From them: `ChargerTypeCorrect`,
`EmptyGoesDark`, `NoChargeWithoutMains`, `EnabledWithMains`.

Only model-checked: liveness (`CalmSendingEnds`, `Reaccepts`,
`Resubscribes`, `Saves`, `LossNoticed`, `GoneIsFreed`, `Reports`, and the fairness in
`KeepsPromise`), for which TLAPS has no support, and the properties of section 5 that
hold outside the runs.

## 5 Where code and comments disagree

Two have a run with a counterexample; PROJECT.json quotes the lines.

| Run | Source | Behaviour |
|---|---|---|
| `server_lost` | `servant.c:49` | outputs are to fall back "if communications are lost"; a master's write is answered, and about a second later the timer sets the output back, because `main_loop` has not compared the event counts in between |
| `thermo_number` | `runtime_cfg.c:119` | `ow_id_map` starts as zeros and is never reset: the register of a number nobody has reports slot 0, and that of a missing device whichever device has its old slot |

The modules state more properties that comments, or the sense of the code, claim and the
code does not keep. They are in no run; with the constants below TLC finds each of them
violated. Where a property of a run names an exception, this is what it is like without.

| Property | Constants | Source | Behaviour |
|---|---|---|---|
| `StartsOver` (`MCModbusSlave`, under `RtuSpec`, a master that keeps sending) | as `slave` | `modbus_pkt.c:110` | after an overrun every RTU time-out takes the branch "start over" again, because `rx_corrupt` stays set: the slave is deaf to RTU until an ASCII frame comes |
| `SendingEnds` (`UartTx`) | `Lengths = {2}`, `Interference = {"masked"}` | `uart.c:117` | the UDRE handler clears the TXC flag before it finds the reply exhausted; served late, it clears the flag the release depends on: the driver stays on |
| `DriverCoversWire` (`UartTx`) | the same | `uart.c:157` | in a raced reply a TXC flag releases the driver while the UART holds a byte |
| `LowAsks` (`Pump`) | as `pump` | `pump.c:75` | "Turn pump on here" (`pump.h:17`): `have_above`, once set, is never cleared and is tested first; after one high reading low pressure starts no pump again |
| `RetryRevives` (`Pump`) | as `pump` | `pump.c:216` | the retry falls between the test of `active_pump` and the store of `system_failed`: the failure of the old attempt is charged to the new one, and the next retry is twelve hours away |
| `NeverSpoilt` (`Tunnel`) | as `tunnel` | `tunnel.c:458`, `483` | "getting all recvd data": a byte that arrives between the load of `rx_idx` and `cli` is dropped; after a short write the last bytes of the buffer are sent instead of the rest, so that bytes reach TCP twice or never |
| `Measured` (`Tunnel`) | as `tunnel` | `tunnel.c:458` | a byte between the two loads of `rx_idx` makes 511 of 256: that many are copied to TCP |
| `ShortWhole` (`Tunnel`) | `Lengths = {1, 3}`, rest as `tunnel` | `tunnel.c:594` | a message slower than 1.5 s leaves `sendDone` and `txEmpty` signaled; every later message is cut off |
| `ChangesAreSent` (`MCWallSwitch`) | `Hands <- DiSwitch`, `Switches = {4}`, `MaxEvents = 2` | `io_dig.c:137` | the send loop stops at mask 0x10; channels 4 and 5 have topics and are never sent |
| `PressCounts` (`WallBoard`) | `Topics = {0}`, `Buttons = {0}`, `Switches = {}` | `io_dig.c:146` | a release returns before the previous level is stored: a button works once after power-up |
| `DelayHonoured` (`Settings`) | `Delay = 2` | `temp_sens_eeprom.c:315` | "delay each write operation for 60 sec": the timer is set and counted, and tested by nobody |
| `AlwaysDefault` (`Server`) | as `server` | `modbus_reg.c:50`, `modbus_pkt.c:398` | a request that writes some registers and is then refused is not counted: without communications it changes outputs, and nobody sets them back before communications have come and gone again |
| `OwnOrError` (`Thermometers`) | as `thermo` | `ds18x20.c:72` | a shorted bus reads zeros, whose CRC is right: 0 degrees |
| `ScansEnd` (`Thermometers`, under `PluggingSpec`) | as `thermo`, one bus, no device a thermometer, the history `read` left empty | `ds18x20.c:13` | devices plugged in and out for ever keep the search from its end, and the main loop with it |

Other properties the modules state outside the runs hold there: `EmptyFrameFollowsAscii`,
`RepliesCounted`, `DriverOwned` (proved), `NoLongRun`, `SendingReturns`, `ValidLast`,
`DefaultsWhenQuiet`.

## 6 Observations without a run

Pump firmware:

- `uart.c:157`: when another handler delays main inside `send_next_byte`, main and
  the UDRE interrupt may send a byte twice or skip one, and send the byte behind the
  reply. `KeepsLine` excludes these replies (`raced`) and, when one ends before the
  UART is at rest, the reply after it.
- `timer0.c:105`: the timer handler enables interrupts before its five-second part, so
  that handlers nest; `uart` has such handlers.
- `pump.c:271`: `uptime` is loaded in four parts; a carry between them may end the
  start-up grace a little early. `DryBounded` holds nevertheless.
- `PumpControl.c:53-75`: the main loop calls neither `pump_control` nor anything that
  does. The model is of the loop `pump.c` is written for.
- `timer0.c:52-72`: `softDivider` is a signed char that is never reset: after the
  first ten ticks the branch "20 Hz" is taken on every tick, until the char turns
  negative.
- `temp_sens_eeprom.c:183`: any interrupt of more than four cycles between EEMWE and EEWE
  loses the write, silently, while the display shows the settings as saved; a nested
  `log_event` sends it to the validity byte. `EEPROM_read`, disturbed by a flush, reads
  the validity byte. `DisplayHonest` and `Saves` name these (`excuse`).
- `temp_sens_eeprom.c:268`: low and high byte of the speed are separate cells: power loss
  between them leaves a speed nobody set. The validity byte is not withdrawn first.
- `temp_sens_eeprom.c:303-309`: a flush that ends between `ui_report_unsaved(1)` and the
  store of the request clears the mark of unsaved settings, although these are still to be
  saved; the next flush saves them.
- A previewed address (`ui_menu.c`) is in force at once and is saved by whatever flush
  comes next. A sensor's number 0xFF is never written, so a sensor that lost its number
  has it again after a restart. `log_pos` is 0 at every start: the first event of an
  uptime overwrites slot 0, however new the record in it.
- `modbus_reg.c`: the check of functions 0x10 and 0x17 compares `byteCnt * 2` with the
  number of registers: a master that follows the standard is always refused.

485 server:

- `modbus-lib/modbus_pkt.c`: replies to functions 6, 8 and 0x10 over TCP are copied from
  the serial receive buffer. Exceptions do not count as activity. A header and body
  that arrive in two segments close the connection.
- `modbus_reg.c:50-59`: registers are written one by one until one fails, and function 0x17
  writes before it reads (`modbus_pkt.c:396-407`): the exception that is answered does not
  undo, and is not counted.
- "Load factory defaults" leaves start values, port directions, speeds and the sensor
  map as they are. Power loss in a save loses the whole configuration, the MAC
  address included.
- `io_temp.c`: `temperatureRescanCnt` is never counted down: the rescan every 240 s
  happens once after start-up. A device without a number takes another entry of the
  map at every scan. The last
  device on a bus that is no thermometer is still given a slot. Slots of other buses
  keep their last temperature when `IO_1W8` is switched off, and all slots when
  `IO_1W1` is off as well.
- `tunnel.c:367`: a message received after the wait for the one before it expired is put
  into `txbuf` while the interrupts still send from there, before the line is locked.

Panels and board:

- `mmnet_mqt_udp_server/main/io_dig.c:146`: news that arrives while `dio_process` waits
  in a send, of a channel it had taken up in the same pass, is wiped out with the flag.
  `Agreement` excuses it through `behind`; without the excuse two panels disagree at
  rest after a few presses. It needs a send that waits, which depends on the
  UDP stack.
- Two panels that toggle one channel at the same time send each other opposite or
  equal states and may stay different; nothing in the protocol orders them. The run has
  such broadcasts: whoever hears an older one after its own is `behind`. A switch
  at a Di input toggles its channel at every power-up, because the previous level
  starts as undefined.
- `mqtt_main.c`: `read_packet` drops what follows the first packet of a segment, and
  `expect_packet` any packet of another type; its time-out is 60 ms where the comment says
  seconds, and its error result, 255, is never below 0. A publication that failed is not
  repeated. `need_restart`, set while subscribing, is overwritten at the end; the read
  errors then bring the restart, which is why `Resubscribes` holds. Those errors are
  never reset by a success, so a healthy idle connection is dropped after 1000 time-outs.
- The board does not sample its inputs while the broker cannot be reached and an
  item is pending.

Charger (nobody calls `charger_main_loop` in the firmware as built):

- `charger.c:415-424`: the green lamp never flashes on battery, the next branch
  overwrites it. `load_enabled` may be set on an empty battery for up to two passes
  when mains power returns briefly; a button held keeps the lamp as it is.
  `ch_failed` is never entered. `charger.c:142` and `155`: the relay of the load is
  not driven yet, nothing reads `load_enabled` but the display.

## 7 What is abstracted and what is not modelled

Checksums are perfect: a damaged frame is recognised, and a CRC stands for the
structure it was computed from. Message contents, topics and registers are left out
where no property is about them; of a message to RS485 only the length matters. A
Nut/OS event is a sticky flag and its mutex excludes; both are external and taken
from how the code uses them. In `Tunnel` the UDRE interrupt is served within a byte
time and the threads start within 1.5 s. In `WallSwitch` broadcasts reach a panel in
the order they were sent, and a debouncer is its last sample and the length of its
run, which is all the code compares. Channels above 5 have no topic. In `WallBoard` a
TCP segment holds whole packets. In `Settings` a log record is one cell, and an
interrupted EEPROM write leaves the old or the new value. In `Server` the outputs are
one register and the configuration two fields. `Thermometers` has no bit errors but
those that end a search.

Not modelled because there is nothing a model would add: DHT11, BMP180, ADC and PWM
drivers and the bit timing of 1-Wire (one actor, physical timing), displays and web pages
(formatting), checksums (pure functions), the registers that set or read a single
variable, start-up code that runs once, `dcon.c`, `logbuf.c` and the panel's LCD
and web server (compiled out: `HAVE_DCON`, `ENABLE_LOGBUF`, `SERVANT_LCD`,
`ENABLE_HTTP` are 0), `libemqtt.c` beyond what the board calls and the MQTT/UDP library
(third party), the CubeMX project, the Java bit helpers, `unused/`, `save/` and
`attic/`. The LCD queue of the charger stays empty, because nothing calls the menu that
fills it. The PWM slave cannot receive as built: where its interrupt is
enabled, bit numbers are used as masks, and its loop waits for more bytes than a
transfer has. `one_wire_temp`, the charger's `tunnel.c`, the pump's `temperature.c` and
the wall board's `modbus.c` and `runtime_cfg.c` are the modelled files again, the first
byte for byte, the others with small changes.

The definitions stand for some 3300 of 65 000 lines. Most of the rest are copies
of the same files in six firmwares, drivers, pages, displays and generated or third-party
code; the lines that hold state several actors share are, as far as we know, covered.

## 8 Plan

Built in this order, the most critical first: `ModbusSlave` with `RequestReply`;
`UartTx` with `HalfDuplexLine`; `Pump`; `Tunnel`; `WallSwitch`; their proofs;
`WallBoard`; `Settings`; `RuntimeCfg` and `Server`; `OneWire` and `Thermometers`; `Charger`;
their proofs; then the invariants and step properties that were only checked, component
by component, until every one of the runs' was proved.

Still worth proving are safety properties the modules state outside the runs
(`ValidLast`, `DefaultsWhenQuiet`, `RepliesCounted`, `NoLongRun`).
