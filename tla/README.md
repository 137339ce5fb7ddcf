# DevEdge IoT Developer Kit: verification development

TLA+ models, TLC model-checking runs and TLAPS proofs for the T-Mobile DevEdge
IoT Developer Kit SDK: firmware update libraries (`libs/`), the `tmo_shell`
application and the smaller samples (`samples/`), all C on Zephyr.

Every definition is translated from the C source; the lines each one stands for
are listed in `PROJECT.json` under `map`. Zephyr, the vendor drivers and the
bootloader are not part of the repository: they are modelled from how the code
uses them.

## 1. Inventory

| Component | State it keeps | Operations | Interacts with | What is hard |
|---|---|---|---|---|
| MCU firmware update (`libs/dfu_gecko`) | flash slots, file handles, chunk counters, state machine, all file-scope statics | verify, program slot page by page, erase slot, reboot | file system, flash, bootloader, shell | partial failures, power loss, left-over statics, sizes at a chunk boundary |
| Modem firmware update (`libs/dfu_murata_1sc`) | file handles, chunk counters, state machine; the modem's upload session | precheck of the image, header, chunks, install, reset | file system, modem ioctls, shell | retries after a failure, ignored ioctl results, last chunk |
| WiFi firmware update (`libs/dfu_rs9116w`, and a copy in `tmo_shell`) | file handle, chunk counters, state machine; the coprocessor's bootloader session | header request, content requests, end of file | file system, RSI driver, shell | errors re-enter the outer loop, last chunk |
| Firmware download (`tmo_dfu_download.c`) | file list, base URL | download of each file, computing its SHA-1 | HTTP download, file system | results of failed steps are dropped |
| HTTP client (`tmo_http_request.c`, `tmo_http_mock_socket.c`) | byte counters, retry count, progress | download with `Range` resumption, JSON upload | sockets, file system | lost connections, short files, retries of what was already written |
| Certificate download (`tmo_certs.c`) | PEM parser state in statics | fetch, parse, store, register | HTTP client, TLS credentials | parser state between fetches |
| Shell sockets (`tmo_shell.c`) | table of sockets, fragment size | create (TCP/TLS/UDP/DTLS), connect, send, receive, bulk transfers, close, SMS | Zephyr sockets, modem, WiFi; descriptors shared with the web demo thread | table full, failed close, reused descriptors, index and descriptor mixed up |
| WiFi shell (`tmo_wifi.c`) | request flags, scan results | connect, disconnect, scan, status | net management events | results arriving late |
| BLE demo (`tmo_ble_demo.c`) | connections, subscriptions, button, outputs, semaphore of the notification thread | connect, disconnect, subscribe, notify, write outputs, button interrupt, advertise | BLE stack, sensors, ISR, tone player | callbacks and the interrupt between two reads of the thread, a thread that waits for a connection |
| GNSS (`tmo_gnss.c`) | state of the thread, restart request, the values of the location, timing of the first fix | set up, poll, generate the location for a central | receiver and driver, shell, BLE and web demos | values read while they are stored, requests in the middle of a setup, sentences from before a cold start |
| Modem shell (`tmo_modem.c`, `tmo_modem_psm.c`, `tmo_modem_edrx.c`) | shared ioctl buffer, timer encodings | AT pass-through, PSM and eDRX timers | modem driver | encodings at the limits |
| Power management (`tmo_pm.c`, `tmo_pm_sys.c`) | device states and locks (in Zephyr) | suspend, resume, on, off, lock; system off | drivers, GNSS thread | a device switched while its thread is at work |
| Wake-up samples (`wake_sleep`, `illuminance`, `as6212_sample`) | suspended thread, wake sources | sleep, wake | timer, button ISR | a wake-up between test and suspend |
| Battery and charger (`tmo_bq24250.c`, `tmo_battery_ctrl.c`, `tmo_adc.c`) | converter semaphore, interrupt flag, registers last read | read voltage and version, discharge for shipping, report the charger | I2C, ISR, shell, web and BLE demos | an interrupt while the registers are being read, a converter shared by threads, a detached battery |
| Tone player (`tmo_tone_player.c`, `tmo_buzzer.c`) | timer flag, timer, file | play a file, tone, jingle, timer handler | timer, file system, PWM shared with the BLE demo | failed start, several players of one channel |
| Web demo (`tmo_web_demo.c`) | settings, transmit flag | transmit thread, settings | HTTP client, battery, GNSS | values gathered at different times |
| Pairing over BLE (`tmo_smp.c`) | display options | pairing callbacks, commands | BLE stack | - |
| Button debounce (`samples/button_press_cb`) | timestamps, pressed flag, callback | interrupt, debounce timer, init, deinit | GPIO interrupt, kernel timers (interrupt context), main thread | edges between the steps of set-up and shutdown, bounces, a release at the timeout |
| MQTT publisher (`samples/mqtt_publisher_aws`) | connected flag, client, poll fds | connect with retries, publish, keep alive, disconnect | MQTT library callbacks, sockets | connection lost between publishes, time-outs |
| Bluetooth, sensor and letimer samples | none to speak of | demo loops | Zephyr | - |
| File shell, SNTP, ping, LED, buzzer and board tests | none to speak of | one-shot commands | file system, sockets, GPIO | - |
| E-Kermit (`samples/tmo_shell/src/ek18`, `tmo kermit`) | protocol state, window slots with retry counts, packet sent last, file and buffers, files left open | send, receive, read a packet, answer, repeat, cancel | console line, the other Kermit, file system | lost, damaged, repeated, echoed and early packets, cancelled files, a device that never times out, statics that outlive a session |

What makes each component correct, in a line:

- Firmware writers: the device never loses its last bootable image, a success
  means the whole image is at its place, nothing unverified is written, every
  update ends.
- Downloads: what is stored is in order and complete when success is reported,
  giving up is not too early, nothing leaks, every command ends.
- Shell sockets: a record for every socket and the right one, no command but those
  for text messages calls the driver for a socket of another thread, transfers are
  in order and end.
- Button: each press is reported once and as what it was; a module that was shut
  down is quiet.
- E-Kermit: files arrive in order and whole whatever the line does, unless the
  device alters them itself (text mode, failed reads), both ends agree on the
  end, a session ends and leaves nothing open.
- BLE demo and tones: what a central was told is what the kit has on record, who
  connects is served, a note that sounds is ended.
- Battery: one thread at a time converts, the level the kit is switched off at is
  that of its battery, changes of the charger are reported.
- GNSS: the location is fresh, the time to fix is that of the last cold start, a
  receiver that comes back is set up again.
- MQTT: a lost connection is noticed, and every try starts afresh.

## 2. Modules

| Module | Models | Kind |
|---|---|---|
| `ImageTransfer` | what every firmware writer promises | abstract specification |
| `GeckoDfu`, `MC_GeckoDfu` | `libs/dfu_gecko`, `tmo dfu update 0`, `tmo bootloader erase` | implements `ImageTransfer` |
| `GeckoDfuProofs` | theorems about `GeckoDfu` | proofs |
| `MurataDfu`, `MC_MurataDfu` | `libs/dfu_murata_1sc` and the modem's side of the session | implements `ImageTransfer`, for regular images |
| `MurataDfuProofs` | theorems about `MurataDfu` | proofs |
| `Rs9116Dfu`, `MC_Rs9116Dfu` | `libs/dfu_rs9116w` and its copy in `tmo_shell` | implements `ImageTransfer`, for regular images |
| `HttpDownload`, `MC_HttpDownload` | `tmo_http_download` and the file lists of `tmo dfu download` | component |
| `DownloadProofs` | theorems about `HttpDownload` and `Rs9116Dfu`, the way of an image of the WiFi coprocessor | proofs |
| `SocketTable`, `MC_SocketTable` | the socket table of the shell and its bulk transfers | component |
| `SocketTableProofs` | theorems about `SocketTable` | proofs |
| `ButtonPress`, `MC_ButtonPress` | `button_press_cb`: module and sample | component |
| `KermitSession`, `MC_KermitSession` | `tmo kermit` (ek18) against another Kermit over a faulty line | component and its environment |
| `KermitSessionProofs` | theorems about `KermitSession` | proofs |
| `TonePlayer` | tone files, jingle, tones: the users of the buzzer | component |
| `BleDemo`, `MC_BleDemo` | the BLE demo's thread, interrupt, callbacks and commands | composition with `TonePlayer` (EXTENDS), which shares the buzzer |
| `Battery`, `MC_Battery` | the converter, the discharge command and the charger's thread | composition of three files around one converter |
| `PeripheralProofs` | theorems about `Battery` and `BleDemo`, the peripherals that several threads use | proofs |
| `MqttPublisher`, `MC_MqttPublisher` | `mqtt_publisher_aws` with the library, the broker and the network | component and its environment |
| `MqttPublisherProofs` | theorems about `MqttPublisher` | proofs |
| `Gnss`, `MC_Gnss` | the GNSS thread, its readers, and the power management of the receiver | composition of `tmo_gnss.c`, `tmo_pm.c` and `tmo_pm_sys.c` |
| `TimerProofs` | theorems about `Gnss` and `ButtonPress`, the components whose steps hang on the passing of time | proofs |

A proof module extends the component it is about. `DownloadProofs`,
`PeripheralProofs` and `TimerProofs` are about two components each, which share no
variables. For this the specifications of `Rs9116Dfu`, `BleDemo` and `ButtonPress`
have names of their own (`WifiInit`, `WifiNext`, `WifiSpec`, `wifiVars`,
`WifiTypeOK`, `WifiIInv`, and `Ble...` and `Button...` likewise), and so have their
places (`dfu_pc`, `notif_pc`, `main_pc`).

Conventions: variables and actions carry the names of the C variables and
functions they stand for; `pc` is the place of the one thread that runs the
component (`dfu_pc`, `notif_pc` and `main_pc` in three of them); a *ghost*
variable is one the code does not have and no action reads as a guard; a
definition that starts with `F_` is a faulty variant of the one after it, which
the properties are tried on, and is used nowhere else. What prints, logs or
formats is left out. Failures (of the flash, the file system, the modem, the
network) are actions or parameters of actions, never assumed away.

### GeckoDfu

State: the pages of the two slots (`flash`), the running slot, the files of each
slot, the open handles, and every file-scope static of the library (`state`,
`requested`, `chunk_check`, `chunk_cnt`, `offset`, `page`, ...). Flash and files
survive `PowerLoss`; the statics are initialized again by `Boot`. `Download` and
`EraseSlot` are the shell commands, `OpenFiles` to `VerifyFails` the checks
before the loop, `FirstTurn`, `InBetweenTurn`, `LastTurn` and `LastChunk` the
branches of one turn of `dfu_gecko_write_image`. A page operation may take or not
(`faulted` remembers), power may be lost between the erase and the write of a
page, and a downloaded file may be any image with any published digest.
A digest is modelled as the image it was computed from: SHA-1 is taken to be
free of collisions. The length of an image is not looked at, by the code or by the
model: an image that is longer than slot 0 is written on into slot 1 (`overrun`
remembers, `Overlong` says when). What lies behind slot 1 is not part of the model,
nor what the device does next while the code it runs is overwritten. The bootloader
is external: it starts a slot whose first page has an image header, the preferred one
first.

### MurataDfu

State: the modem (`version` and its upload `session`: announced image, header,
pieces received, closed), the library's statics, the open file. `Precheck` reads the
header, `Measure` the payload to its end and announces its size and CRC; a read that
fails there is repeated (`MeasureFails`), and the file system may go on failing from
then on (`failing`). `SendHeader` sends the header, `SendChunk` and
`SendLastChunk` the ioctls of the loop, `Install` the last stage. An ioctl may
fail without notice (`lost`); a failed read ends the attempt, and the next
attempt starts with what it left (`resumed`). The modem is external: it installs
a session that is closed and whose payload is the announced image.

### Rs9116Dfu

State: the chunks the bootloader has taken, the file and its position, the buffer
and the statics. `ReadHeader`, `SendChunk` and `LeaveLoop` are the state machine
with its inner and outer loop. The driver may refuse a chunk, the file may be
shorter than its header says, and a chunk read as a header yields a member of
`Words`, so that the size it is taken for may be smaller or larger than the image.

### HttpDownload

State: the units stored in each file, the statics `http_total_received` and
`http_content_length`, the locals of `tmo_http_download` (`fail_count`,
`last_rcvd_cnt`, `ret`, `sock`), the rest of the answer under way, the list of
files still to fetch. One action per step of the function; the server answers a
request with the range asked for, the whole resource or an error page, with or
without a length, and any answer may break off after any unit. The first answer
that breaks off may leave an error in `ret`, which the retries do not touch.

### SocketTable

State: the table `socks`, the descriptors of the system `fds`, `max_fragment`
and the bulk transfer under way. Commands run one at a time in the shell thread;
a bulk transfer is one step per socket call. The web demo thread opens and
closes a socket of its own at any time, which is how descriptors and record
indices get out of step. A close may fail with or without releasing the
descriptor; `lost` counts the former (at most `MaxLost`). Every step that calls
the driver says for which descriptor (`CallFor`); the ghost `strayed` remembers
a call for a socket of another thread. The commands for text messages
(`TextMessage`) change nothing else; single sends and receives address a
descriptor as a bulk transfer does and are left out.

### ButtonPress

State: the pin, whether the interrupt is armed, the module's statics, the two
timers (remaining time or `Off`) and the place of the main thread. An edge
interrupt (`Edge`), the two timer handlers and a millisecond of time (`UnitPasses`)
may fall between any two statements of the main thread; a handler itself is not
interrupted. Time since the press is counted up to `TimeCap`, beyond the longest
time-out.

### KermitSession

State: `k` is `struct k_data` with the result of the command, `slots` the window
slots with their retry counts, `disk` the files, `handles` the files littlefs
has open, `toDev` and `toPeer` the packets on the line. `Start` initializes what
`K_INIT` does and leaves what it leaves. A packet is read and answered in one
step, as `ekermit_main` does between two reads of the line: the actions are the
branches of `kermit()` (`BadPacket`, `Echo`, `PreviousPacket`, `OtherPacket`,
`Received`, `Acked`, ...), the files' functions are operators they are built
from. A command may be one for text (`-T`, or the attribute of the file): then a
CR goes before each newline that is sent, and what is received is written once
for each stretch without CR (`Stored`, `Writes`). A read of a file may fail,
which the code does not look at (`FewerUnits`, `NextUnits`). A damaged length
makes the device take what follows for a part of the packet, or wait for more
characters (`Aged`, `Swallow`, `ReadsOn`). The other Kermit (`Peer...`) is
external: it follows the protocol with the liberties a Kermit has, among them
time-outs. It does not stream: the device offers a window
(`kermit.c:1097-1107`), and the other one is taken not to use it. `tx_data` has
nothing to repeat, as the console waits for room (`prj.conf:148`). As a sender
it goes from one packet to the next (`Following`): `says` is the packet it
repeats until it is acknowledged, `file` and `pos` how far it has come in what
it was told to send (`sending`). The ghosts `unwanted` and `shorts` count the
packets that cost the device a retry or a slot when it reads them; `altered`
remembers that the device put something into a file that is not of it,
`swallowed` that a packet was lost in another. The line (`Lose`, `Damage`,
`Loopback`, `EarlyTimeout`), the users and the file system may fail at any time.

### BleDemo and TonePlayer

State: connection and subscriptions, the semaphore the thread waits on, the
button as the interrupt and as the thread last saw it, the buzzer with its four
users. Each access of the thread to a variable it shares is a step, so that the
interrupt and the stack's callbacks fall between any two. `sound` is what the
channel was set to last: nothing, a note, or the output that a central writes.
`told` and `raced` are ghosts. The LEDs, the characteristics that are only read
and the contents of the beacons are left out.

### Battery

State: `adc_sem` and where each client of the converter is; the battery's level;
the charger, the flag its interrupt sets and where its thread is; where the
discharge command is. A client that waits 500 ms goes on without the semaphore,
as the code ignores the result. A voltage is what it depends on: the level and whether
the battery is being charged. The status of the charger is read twice in a round:
whether there is a battery, then, after the voltage, which table the voltage is looked
up in. A read that fails gives any status (`StatusRead`), as its byte is not
initialized. The tables are not in the repository: the right one gives the level back,
the other one any level (`Percent`).

### MqttPublisher

State: where the thread is, its counters, the flag and the descriptor it polls,
the state of the library's client, the sockets, the broker's end of the
connection and the packets under way. The library is external and runs in the
same thread: it calls back from `mqtt_input`, `mqtt_live` and the functions that
write, which is how a connection can be lost in the middle of any of them.

### Gnss

State: where `gnss_thread` is and how long it sleeps, `current_state` and
`restart_setup`, the values of the location (each as the number of the sentence
it is from), the flags of the time to fix, the command of the shell that sleeps.
Time passes in ticks of 250 ms, the shortest sleep; a thread's steps take none,
but a sentence or a reader may fall between any two of them. The receiver and
its driver are external: power and boot, the commands taken, a sentence at most
every second. `Reset` brings every static back to its initial value.

## 3. Runs

### What they show

| Run | Expected | Shows |
|---|---|---|
| `gecko` | pass | Whatever the order of downloads, updates, erases, failures and power losses: the running slot is only touched by a forced erase and, page after page, by an image too long for slot 0 (`RunningSlotUntouched`), without these a bootable slot remains (`NeverBricked`), only genuine pages are written (`OnlyGenuine`), success means every chunk is at its place (`UpdateComplete`), the loop ends (`LoopEnds`), and the writer implements `ImageTransfer` |
| `murata` | pass | The modem is told to install only the whole announced image, and payload, header and announcement are of one image (`InstallsWholeImage`), updates end, unless they repeat a read that fails for ever (`UpdateEnds`), and the writer implements `ImageTransfer` |
| `rs9116` | pass | Complete means the bootloader has every chunk, in order and with the right flags, and nothing follows the end (`CompleteMeansWhole`), updates end, `ImageTransfer` |
| `http` | pass | Units are stored in order and once across retries (`StoredInOrder`), success means the whole resource and `-EAGAIN` five fruitless attempts in a row (`WholeOrError`), no descriptor leaks (`NoSocketLeak`), commands end |
| `sockets` | pass | Every socket has a record and only one, which describes it, also after failed closes as long as there are records to spare (`OneRecord`); as long as no close has failed, no command but those for text messages calls the driver for another thread's socket (`OthersUntouched`); bulk transfers are in order and complete (`BulkInOrder`) and end (`BulkEnds`) |
| `button` | pass | One report per press, a normal one only for a released button (`OneReport`), nothing armed or running after the shutdown (`DeinitIsQuiet`), detected presses are reported (`PressReported`) |
| `kermit` | pass | What is received is a prefix of the file (`InOrder`), success means whole files at both ends, both unless the device altered them itself, and neither end leaves the other one alone (`WholeAtEnd`), the device does not give up early (`GivesUpLate`), sessions that end well leave no file open (`NoHandleLeak`), and sessions end (`Completes`) |
| `ble` | pass | What the central was told is on record (`ToldIsRecorded`), whoever connects is served although the thread was parked (`Served`), a note always has somebody left to end it, and an output that was left on can be read (`SomebodySilences`) |
| `battery` | pass | After the boot one thread at a time converts (`AloneOnAdc`), the kit is switched off for shipping only if its battery was at or below the set point at the last reading, or that was disturbed at boot or looked up in the wrong table (`ShipsDischarged`), changes of the charger are reported (`ChargerReported`) |
| `mqtt` | pass | Flag, descriptor, socket and library agree wherever the connection is lost (`SessionTrue`), the broker gets whole rounds of the two messages the code sends, in order (`PublishesInOrder`), the program recovers for ever (`Recovers`) |
| `gnss` | pass | A location is of the last two sentences, value by value (`FreshLocation`), the time to fix is that of the last cold start (`TimedByColdStart`), a powered receiver is set up again (`SetUpAgain`) |
| `sockets_sms` | violation | `SmsThroughSocket`: a text message goes through the descriptor that is the index of the record |

The type invariant of a module is a conjunct of one of its invariants, so that
TLC checks it in the same run.

### Conditions of the properties

The passing properties state what the code does guarantee; where it guarantees
something only in part, the condition is part of the property and a name says so.
`Regular` images of `MurataDfu` and `Rs9116Dfu` have several chunks, the last one
not full; `Proper` transfers were not disturbed by a resumption or a refused
chunk; `status = "clean"` in `HttpDownload` means the server announced a length
and honoured the ranges and the writes succeeded. In the modules with
interrupts and commands the conditions are ghosts that name the window: `raced`
(`BleDemo`), `lost`, `settled` and `blind` (`Battery`), `overtaken`, `deaf` and `had`
(`Gnss`), `overrun`, `forced` and `faulted` (`GeckoDfu`), `failing` (`MurataDfu`),
`lost` (`SocketTable`), and in `KermitSession` `altered`, `swallowed`, `iofaults` (in
`WholeAtEnd`) and the first session (in `GivesUpLate`). What happens
without the conditions is told under *Observations*.

### Bounds

| Run | Bounds | Why they are enough |
|---|---|---|
| `gecko` | images of 2049, 4097 and 2050 bytes; slots of 2 pages; digests of the first two published | 2049 is an image that fits, its last chunk a single byte; 4097 has three chunks, with a first, a middle and a last turn, and is longer than a slot, so that in slot 0 it runs on into slot 1 and in slot 1 behind both; 2050 has no published digest. `CntCap` 4 is above any chunk count. An image of one chunk, whose loop never ends, is not in the instance; the theorems cover it |
| `murata` | payloads of 3073, 1500, 2048 and 1000 bytes | four chunks with a short last, two, two full ones, and one: every branch of the loop, and every way in which it goes wrong |
| `rs9116` | images of 12289, 8000, 8192 and 4000 bytes, one file cut short | as for `murata`, with chunks of 4096 bytes |
| `http` | resources of three units and one; a list of two files | a break can fall before, between and after units; two files show what one leaves to the next. Attempts are counted up to five by the code itself |
| `sockets`, `sockets_sms` | 3 records, 2 descriptors, one kind of socket per protocol, both families and interfaces; 2 failed closes; bulk sizes 0, 1, 4 cut to 3; fragments 1 and 2 | as in the code (16 and 15) there is a record more than descriptors; the second failed close exhausts the table. Fragments smaller than the size give several calls, short ones included. Bulk transfers do not touch the table, so they are started only while no close has failed (`BulkBound`) |
| `button` | debounce 2, time-out 6 and 3 ms, `TimeCap` 8 | the code has 50 and 10000 and 5000; all that matters is which of the two ends first, and room between them for edges |
| `kermit` | files of 5, 0 and 1 units, 3 units in a packet, buffers of 2; sequence numbers modulo 4; 2 slots, no retry; 2 faults of the line, 1 of the file system; 2 sessions; 2 packets under way in a direction; the other Kermit gives up after 2 time-outs; four ways to send and three to receive, text and `-k` among them | a file of several packets and buffers with a last one that is not full, an empty one, at which the device fails, and one of a single packet, which it only sends: that several files are received one after the other is what the theorems cover; numbers wrap within a session; two faults can hit a packet and the answer to its repetition; the second session meets what the first one left. `P_RETRY` 0 makes the limit of retries reachable; two time-outs let the other Kermit be swallowed once and give up the second time |
| `ble` | songs of 2 notes, a jingle of 2; 2 interrupts of the button; 2 connections | a press and its release can fall into any two gaps of a round; a second connection meets what the first one left |
| `battery` | three clients (the version of the board, the shell, the BLE demo), levels up to 2, a charger that charges or finds no battery (a failed read gives any of the four states), 2 changes | two give adc_sem twice and the third meets it; one change can fall into the window and another after it |
| `mqtt` | rounds per connection 3, attempts 3, 2 packets under way, 4 faults | three rounds, as in `overlay-sample.conf`, have a first, a middle and a last one; four faults exhaust the attempts (10 in the code) and hit the connection that follows |
| `gnss` | 3 sentences, 3 commands | three sentences are more than the two a location may mix; off, on and a third command can fall into one setup |

### Fairness

Liveness is checked under weak fairness of the thread's own steps only, never of
users, servers, failures or the pressing of buttons.

- `gecko`, `murata`, `rs9116`: weak fairness of `Update`. The update runs to its end in
  the shell thread, which the kernel schedules; its calls are synchronous.
- `http`: `WF_vars(Download)`. The same thread; every request returns after
  `HTTP_CLIENT_REQ_TIMEOUT` at the latest.
- `sockets`: `WF_vars(Transfer)`. Receives do not wait (`ZSOCK_MSG_DONTWAIT`);
  sends return when the driver has taken or refused the data.
- `button`: `WF` of time, of expired timers and of the main thread. Timers are
  served by the kernel's tick interrupt.
- `kermit`: the device reads what has arrived and, in a packet whose length was
  damaged, goes on reading (`ReadsOn`), the other Kermit reads and times out, what
  nobody reads is discarded. Nothing forces a user or a fault.
- `ble`: boot and the notification thread; not the timer of the songs, the users
  of the buzzer or the interrupt, which liveness does not need.
- `mqtt`: the application thread, the end of its sleep, the answers of the broker
  and the network coming back; faults are bounded.
- `gnss`: the thread, a shell that sleeps, and time.
- `battery`: no liveness is stated, hence no fairness.

Deadlock is checked in every run but `kermit`, where the bounded sessions are over
in the end and a sender may wait for ever, and `battery`, where the kit is off.

## 4. Proofs

Every invariant the passing runs check, every action property and the three
refinements of `ImageTransfer` are theorems, for every value of the constants their
assumptions allow. Each invariant rests on an inductive one (`IInv`, `WifiIInv`,
`BleIInv`, `ButtonIInv`, and in `KermitSessionProofs` the parts named there) that
TLC has checked on the runs' instances before it was proved; each `...Invariant`
theorem says that it holds in every state, with a step for each action.

Of each liveness property the part that is a safety property is proved as well: a
number, or a lexicographic order of numbers, that every step of the component lowers
until it is done (`LoopAdvances`, `UpdateAdvances`, `WifiUpdateAdvances`,
`CommandAdvances`, `BulkAdvances`, `RoundAdvances`, `PassAdvances`), or an invariant
that whatever is awaited is still under way (`Awaited`, `SetUpDue`, `NoLostWakeUp`).
These are defined in the proof modules, next to their theorems, and TLC has checked
them on the runs' instances.

### GeckoDfu

`GeckoDfuProofs` proves, for every set of images, sizes and slot length:

| Theorem | Statement |
|---|---|
| `Invariance` | `Spec => []IInv` |
| `TypeCorrect` | `Spec => []TypeOK` |
| `Authenticity` | `Spec => []OnlyGenuine` |
| `AlwaysBoots` | `Spec => []NeverBricked` |
| `Completeness` | `Spec => []UpdateComplete` |
| `RunningSlotSafe` | `Spec => RunningSlotUntouched` |
| `NotLeftEarly` | `Spec => []LoopReachesLastChunk` |
| `TurnsRunOut` | `Spec => LoopAdvances` |
| `Refinement` | `Spec => TransferSpec` |

Assumption: `ConstAssumption` of `GeckoDfu` (sizes positive and below
`(uint32_t)-1`, `CntCap` above every chunk count). That an image fits into its slot is
not assumed, as the code does not make sure of it: what a longer one does is part of
the properties (`Overlong`, `overrun`).

Argument: none of the properties is inductive by itself. `IInv` adds what the
loop relies on.

- `InUpdate`: an update in progress is for the slot the device does not run from.
- `FreshStatics`, `VerifyStart`: which statics are fresh when an update begins.
  `chunk_cnt` and `offset` are fresh only in a new boot; the state machine makes
  sure that a second update never reaches the loop with stale ones.
- `Verified`: in the loop the file is the one the digest belongs to, and
  `chunk_check` is the number of its chunks.
- `Counting`: how `chunk_cnt`, `page`, `offset` and the file position hang
  together, with the degenerate case of a single chunk.
- `Written`: the pages before `page` hold the chunks of the image, unless a page
  operation failed.
- `RunningBootable`: the running slot keeps its header unless it was erased with
  force or an image ran on into it.

The central lemma is `ReadProgramsOnePage`: a turn of the loop changes at most one
page, the one of its chunk, counted from the slot being updated. `PagePlace` says where
that is: in the slot, behind both slots, or, for an image that is too long for slot 0,
in slot 1. `LossHitsOnePage` says the same of a power loss. From them follow
`RunningSlotSafe` (the two slots are disjoint), `AlwaysBoots` (a power loss leaves the
running slot's header), `Completeness` (at the end `page` is
`chunk_check`) and, with `Counting`, the `Refinement`: every turn is a `Deliver`,
the last one a `Finish`, all else a `Begin`, a `Leave` or a stutter. `Counting` also
gives the progress of the loop: its condition `offset <= fw_image_size` holds until
the last chunk (`LoopFact`), and `chunk_check - chunk_cnt` goes down in every turn.

### Gnss

`TimerProofs` proves, for every number of sentences and commands:

| Theorem | Statement |
|---|---|
| `GnssInvariance` | `Spec => []IInv` |
| `LocationFresh` | `Spec => []FreshLocation` |
| `TimeToFixTrue` | `Spec => []TimedByColdStart` |
| `SetupNeverForgotten` | `Spec => []SetUpDue` |

Assumption: `GnssAssumption` of `Gnss` (both bounds are natural numbers).

Argument: `FreshLocation` is not inductive, since it says nothing of when a value
was read. `IInv` adds that: after a sentence the receiver is quiet for four ticks
(`Quiet`), a poll takes no time (`Position`), the values a poll has stored are
those of the driver or of a sentence that has come since and left the receiver
quiet (`Polled`), and after the pause of one tick the others are one tick older
(`Lagging`), so that a second sentence cannot have come. The shell's commands
leave the receiver as quiet as it is or power it, which takes longer
(`PowerManagement`, `Undisturbed`). `Timing` relates the flags of the time to fix;
it is inductive together with the thread's position.

`SetUpDue`, what `SetUpAgain` needs besides fairness, has an invariant of its own
(`SetupInv`): a setup under way still has its state (`UnderWay`), and the receiver has
booted before the first command and taken every command sent so far (`Accepted`),
unless the shell has asked for another setup meanwhile or the receiver was asleep. The
power management takes the receiver's power or leaves it with what it took
(`PowerKept`), and power comes back only with a command that asks for a setup at its
end (`SetupUndisturbed`).

### MurataDfu

`MurataDfuProofs` proves, for every set of images and sizes:

| Theorem | Statement |
|---|---|
| `ModemUpdateInvariant` | `Spec => []IInv` |
| `ModemGetsWholeImage` | `Spec => []InstallsWholeImage` |
| `ModemRefinement` | `Spec => TransferSpec` |
| `ResumedCountsToo` | `Spec => []Counted` |
| `ModemUpdateAdvances` | `Spec => UpdateAdvances` |

Assumption: `ConstAssumption` (sizes below `MaxU32`, a number above them all).
Argument: `Stages` says which image is open in each stage and that the
offset is that of the next chunk, `OwnSession` that the session in the modem is
about that image, `Position` where a regular transfer that was not resumed is in
its file, `Content` that the modem has the pieces sent so far. The central lemma
is `TurnFact`: in the loop of such a transfer a turn sends the next piece, and the
test of the code for the last chunk (`chunk_cnt` against the number of chunks, the
remainder as size) is true of the last chunk only. This is where the size has to
be no multiple of the chunk size. `Counted` holds of resumed transfers too, which read
the file from its beginning but go on counting; with it every step of an update
lowers `StepsLeft`, the chunks and stages that are left, but a read of the payload that
fails and is repeated (`MeasureFails`), which leaves everything as it was.

### HttpDownload and Rs9116Dfu

`DownloadProofs` proves, for every length, list of files and answer, and for every
set of images, sizes and files:

| Theorem | Statement |
|---|---|
| `DownloadInvariant` | `Spec => []IInv` |
| `ResumedInOrder` | `Spec => []StoredInOrder` |
| `SuccessIsWhole` | `Spec => []WholeOrError` |
| `SocketClosed` | `Spec => []NoSocketLeak` |
| `WifiUpdateInvariant` | `WifiSpec => []WifiIInv` |
| `WifiGetsWholeImage` | `WifiSpec => []CompleteMeansWhole` |
| `WifiRefinement` | `WifiSpec => TransferSpec` |
| `DownloadAdvances` | `Spec => CommandAdvances` |
| `WifiAdvances` | `WifiSpec => WifiUpdateAdvances` |

Assumptions: `ConstAssumption` of `HttpDownload` and `RpsAssumption` of `Rs9116Dfu`
(files are not empty, sizes are below `MaxU32`).

Argument, download: `InStep` says that what is stored and what
is still under way are together the units up to the end, which a break and a
request with a range keep; `Counted` that `fail_count` counts the attempts since
the last unit, with the exception of an attempt that has just received one;
`Complete` carries the first over to the return of the function.

Argument, WiFi: the header is chunk 0, read before the loop; turn 0 sends what is
in the buffer and every later one reads (`Position`), so that the position in the
file and the number of the next chunk agree after turn 0. The lemma `WifiTurn`
says that a turn sends the chunk of its number, flagged as the end only if it is
the last. A refused chunk ends the validity of all this
(`disturbed`), which is why the properties except it.

Argument, progress: a download goes round two loops, and `fail_count` starts again
whenever something has come. Six numbers are needed, in lexicographic order: the files
to come, the stage of the command, the units missing, the attempts left, the stage of
the attempt and the answer to come. `StageLeft`, `UnitComes`, `AttemptCounts` and
`AttemptGoesOn` each show which of them a step lowers.

### SocketTable

`SocketTableProofs` proves, for any number of records and descriptors:

| Theorem | Statement |
|---|---|
| `SocketInvariant` | `Spec => []IInv` |
| `EverySocketRecorded` | `Spec => []OneRecord` |
| `EveryUnitInOrder` | `Spec => []BulkInOrder` |
| `NoCommandTouchesOthers` | `Spec => []OthersUntouched` |
| `BulkShrinks` | `Spec => BulkAdvances` |

Assumption: `ConstAssumption` (there is a record at least, and a descriptor).
Argument: the hard part is that a creation always finds a record. `Accounted`
says that there are at most as many open records as sockets of the shell plus
failed closes; a descriptor that can still be opened is not among the former, so
that there are fewer open records than records as long as `MaxFds + lost <=
MaxSockRec` (`Reachable`), a pigeonhole argument with cardinalities. `Described`
says that open records describe different sockets; it holds until a close fails,
and `OthersUntouched` needs no more. A bulk transfer may wait once for each
unit, so that `BulkLeft` counts four steps for a unit missing and what is left
of the current wait; `CallMoves` says that a call moves a unit unless the peer
has closed.

### ButtonPress

`TimerProofs` proves, for every length of the time-outs:

| Theorem | Statement |
|---|---|
| `ButtonInvariant` | `ButtonSpec => []ButtonIInv` |
| `ReportedOnce` | `ButtonSpec => []OneReport` |
| `ShutDownIsQuiet` | `ButtonSpec => []DeinitIsQuiet` |
| `PressTimed` | `ButtonSpec => [](Awaited /\ ReportedInTime)` |

Assumption: `ConstAssumption`. Argument: `Transient`, `Deinitialized` and
`Initialized` say what each point of set-up and shutdown knows of the interrupt and
the timers; `TimersRun` and `Overdue` relate the running time-out to the time since
the press, so that a press that was reported as long is not reported again when
it ends; `InPhase` says that the module's idea of the button is the pin's as long
as no bounce has swapped the two. `Awaited` adds that the time-out of a press runs
until it is reported or released; with the sum in `TimersRun` no unreported press is
older than the configuration says.

### Battery and BleDemo

`PeripheralProofs` proves, for any clients, levels and changes of the charger, and
for any number of edges, connections and notes:

| Theorem | Statement |
|---|---|
| `BatteryInvariant` | `Spec => []IInv` |
| `OneReader` | `Spec => []AloneOnAdc` |
| `OffOnlyDischarged` | `Spec => []ShipsDischarged` |
| `PrintedIsTrue` | `Spec => []ChargerReported` |
| `BleInvariant` | `BleSpec => []BleIInv` |
| `CentralKnowsRecord` | `BleSpec => []ToldIsRecorded` |
| `BuzzerIsEnded` | `BleSpec => []SomebodySilences` |
| `ThreadIsWoken` | `BleSpec => []NoLostWakeUp` |
| `RoundsEnd` | `BleSpec => RoundAdvances` |

Assumptions: `BatteryAssumption`, `BleAssumption` and `NotesAssumption` (bounds
are natural numbers, a jingle and a song have a note). Argument, battery: once
the threads that went without the semaphore have left an empty converter, the
semaphore and the thread inside add up to one (`Lock` in `Settled`); what the
thread of the charger has read is the charger's state unless the flag is set or
an interrupt fell into the window (`SeenTrue`); what the command has read is the
level there was unless it was disturbed (`ReadTrue`), which is what it judges by
the right table. Argument, BLE: the thread records the button it compared before
it notifies it, so that each point of its loop knows what the central was told
(`Notified`), as long as the interrupt does not fall in between; only a
subscribed central was told anything (`Subscribed`). A note is ended by the
timer of the song, the jingle or the shell's tone, and only the write of a
central makes its output sound; that a timer which is armed is running
(`Playing`) is what makes it inductive. `NoLostWakeUp` is inductive by itself;
`RoundLeft` counts the steps of a round, two for each note of the jingle.

### MqttPublisher

`MqttPublisherProofs` proves, for any number of rounds, attempts, packets under way
and faults:

| Theorem | Statement |
|---|---|
| `PublisherInvariant` | `Spec => []IInv` |
| `ApplicationKnowsSession` | `Spec => []SessionTrue` |
| `BrokerGetsWholeRounds` | `Spec => []PublishesInOrder` |
| `PassesEnd` | `Spec => PassAdvances` |

Assumption: `MqttAssumption`. Argument: `Progress` says how far the connection is
by where the thread is, `UnderWay` which packets can be in it then (none before the
broker has answered, its answer alone while the thread awaits it, later only
acknowledgements), and `Position` how many messages the broker has by where the
thread is in its round. `PassLeft` counts two steps for each attempt to connect and
seven for each round; only what is handled during a sleep leaves it as it is.

### KermitSession

`KermitSessionProofs` proves, for any number and length of files, packets and
buffers of any size, any sequence numbers, slots, limits, and any number of
sessions and faults:

| Theorem | Statement |
|---|---|
| `TypesHold` | `Spec => []Types` |
| `NoLeak` | `Spec => []NoHandleLeak` |
| `GivesUpInTime` | `Spec => []GivesUpLate` |
| `KeepsOrder` | `Spec => []InOrder` |
| `EndsWhole` | `Spec => []WholeAtEnd` |

Assumption: `ConstAssumption` of `KermitSession`. That there are more than two
sequence numbers is what the protocol needs; the code has 64.

Argument: nothing can be said of one end without what the other one knows and what
is on the line between them, so the invariant comes in layers.

- `Lines` is the protocol itself, for either direction. What is on the line to
  the receiver is the packet it wants, the one before, or damaged (`Asks`);
  every copy of the wanted one is the packet the sender says now (`Only`). An
  answer that acknowledges the sender's packet is under way only if the receiver
  has taken it (`Replies`, `Answered`). This holds whatever is lost, damaged,
  echoed or sent again; it is where three sequence numbers are needed, so that
  the packet wanted, the one before and the one after it differ (`NextNumber`).
- `StateSays`: the type of the packet the device sent last follows from its state.
- `SendFiles`, `PeerState`, `RecvState`: with `Lines` each end is level with the
  other or one packet ahead of it, and in both cases it is known at which file and
  position it is.
- `FilesKept`: what is compared of the files holds until the device alters one
  (`altered`): by text it sends or writes, by a read that failed, by a buffer it writes
  twice. `Faithful` is the comparison, the next two parts; `SendEnds`, what the
  device knows of the other Kermit at the end, holds with altered files too.
- `GotWell`, `DataFits`, `Copies`: a data packet continues what the receiver has,
  in the file or in the buffer, so that the copy stays a prefix of the file. This
  holds also when writes fail, as a failed write ends the session.
- `FilesDone`: the files before the one under way are complete. A failed last flush
  goes unnoticed, which is why this one, and `WholeAtEnd`, need `iofaults = 0`.
- `Counts`, `SlotsLost`: the retry counts of free slots are zero except that of
  the slot in use; a slot that is lost is one of a short packet or of a
  cancellation, which can happen once. The second is a pigeonhole argument with
  cardinalities.
- `Leaks`: what `NoHandleLeak` says, which only the step from one session to the next can
  disturb.
- `NoWord`: a device that runs has not sent an error packet, so that the other Kermit
  has not failed; and as that takes no packet but the one sent last, it has finished
  only if the device has said B. With `Lines` this gives the last part of
  `WholeAtEnd`: while the device runs, the other Kermit is there to time out for
  both, unless it gave up, was aborted or is through.

### Only model-checked

- Liveness, which is out of the prover's reach: `LoopEnds`, `UpdateEnds`,
  `CommandEnds`, `BulkEnds`, `PressReported`, `Completes`, `Served`, `Recovers`,
  `SetUpAgain`. Of all but `Completes` the safety part is proved (see above). What
  remains for TLC is that a step is possible and taken (`ENABLED` and fairness), and
  the induction over the number that goes down. `Completes` depends on what
  both ends do for each other, for which no such number was found; what is proved
  for it is that a device that runs is not left alone (`WholeAtEnd`).
- That the bounds of the runs (`CntCap`, `TimeCap`, faults, sessions) cut nothing off
  that matters is argued under *Bounds*, not proved; the theorems hold for every
  value of them.

## 5. Findings and observations

The violation run `sockets_sms` refutes what the repository says of the command;
`PROJECT.json` quotes the line. The models also show the following, for which no
run is kept; the conditions of the properties name most of them.

- MCU: an image of exactly one chunk never meets the test for the last chunk,
  and the loop goes on for ever (hence `chunk_check > 1` in `LoopEnds`). An
  image longer than its slot is written on into the slot behind it, also when
  that is the running one, and is reported as a success (hence `Overlong` and
  `overrun`). A flash operation that fails is not noticed (hence `faulted`). The
  last page ends with the tail of the chunk before it: the second read of the
  last turn (`dfu_gecko_lib.c:564`) has no `memset` before it, whereas the
  comment at line 402 speaks of zero padding.
- Modem: a piece the modem did not take is not noticed (`lost`). A payload that is
  a multiple of 1024 bytes ends with a piece of 0 bytes; one of a single chunk
  repeats the stage for ever. An update tried again after a failed read
  (`dfu_murata_1sc.c:500`) goes on with the counters of the failed one and leaves
  out chunks. The measuring of the payload ends at a read of 0 bytes only
  (`dfu_murata_1sc.c:468`): with a file system that goes on failing it never does
  (hence `failing` in `UpdateEnds`).
- WiFi: after a refused chunk (`dfu_rs9116w.c:269`) the update goes on without it.
  A file that is cut short is completed with cleared buffers. A size that is
  a multiple of the chunk size has one turn too many. The shell reports success
  whatever the result.
- Downloads: the condition on the HTTP status is never true, so that error pages
  and whole resources sent in answer to a range request are appended to the file.
  Writes that fail are counted as received. The computed SHA-1 is not compared
  with anything, an early exit returns the byte count of the download before
  (`tmo_http_request.c:412`), and negative results are added to the number of bytes. The
  error of a first answer that broke off (`tmo_http_request.c:470`, `503`) is returned
  although the retries, whose results are dropped, have made the file whole (hence no
  converse in `WholeOrError`).
- Sockets: a bulk receive goes on for ever when the peer has closed the
  connection, and a bulk send or receive of size 0 does (hence the exceptions of
  `BulkEnds`). A secure socket that finds the table full sets its protocol flag in
  the record that has the number of its interface (`SecureCreate`). The record of a
  failed close names a descriptor that may become another thread's (hence `lost = 0` in
  `OthersUntouched`).
- Button: a release just at the time-out is reported by neither handler (hence
  the exception of `PressReported`); the state the handler tests is one it has
  itself overwritten; the time stamp handed to the callback is that of the
  release; the timers are initialized after the interrupt was enabled; a bounce
  swaps presses and releases for good (`button.c:71`).
- Kermit: a packet of one to three characters and a cancelled file each cost a
  window slot for the rest of the session; the retry counts survive `K_INIT`; an
  empty file that is received ends the session with an error after it was
  acknowledged; a file that replaces a longer one keeps the longer one's end; a
  failed session leaves its file open; a NAK overwrites the packet kept for
  repetition; the result of the last flush is not looked at; a sender whose last
  acknowledgement is lost waits for ever. Text mode does not skip CRs as its
  comment says (`zephyrio.c:441`): it writes the whole buffer as often as there
  are stretches without CR. A read of a file that fails (`zephyrio.c:396`) is
  not noticed, and what the buffer held is sent (hence `altered`, for both). A
  damaged length makes the device read the next packets as a part of the damaged
  one (`zephyrio.c:157`), at the worst until the other Kermit gives up (hence
  `swallowed` in `Completes`).
- BLE and tones: a bounce between comparison and notification leaves a central
  with "released" for a held button; a refused `ibeacon` argument leaves
  advertising off; a song whose file cannot be opened leaves its note sounding;
  the buzzer that a central switched on sounds on after it has left, until somebody
  writes the output or plays a note; LEDs are switched off at a connection while the
  digital output keeps its value;
  `play_single_note` and `cancel_playback` have no caller.
- Battery: `adc_sem` starts at 0 and is given by every thread that went without
  it, so that two can overlap at boot; a change of the charger between the
  reading of the registers and the clearing of the flag goes unnoticed; a
  discharge that is broken off for a detached battery leaves the LEDs on; a
  status that cannot be read is parsed from an uninitialized byte
  (`tmo_bq24250.c:90`), so that a battery may seem to be detached, which ends
  the discharge, or to be charged, and then its voltage is looked up in the
  wrong table (`tmo_battery_ctrl.c:44`) and the kit may be switched off above
  the set point (hence `blind`); the same when the charger is plugged or
  unplugged between voltage and status; a press shorter than a round is not
  noticed; at a level below the set point the kit is switched off before the
  button is looked at.
- MQTT: the sample's `README.rst:268-287` shows three messages a round at the
  subscriber, of quality 0, 1 and 2; the code (`main.c:446-470`) sends two, none
  of quality 2, which is what `PublishesInOrder` says; acknowledgements of
  messages are not awaited; the broker's address is resolved once for all
  attempts; zero iterations mean for ever to the Kconfig option (`Kconfig:12`),
  whereas the loop (`main.c:446`) is left at once, so that with 0 nothing is
  ever published (the theorem covers that value, the run has 3).
- GNSS: `pm on` in the middle of a setup is overwritten at its end
  (`tmo_gnss.c:194`); a receiver suspended during its setup misses commands that
  are not sent again; `pm on` on an active receiver cold-starts it; after a setup
  with a fix the time to fix is nearly zero; the results of the setup, and of
  switching the receiver off with the kit, are ignored.

## 6. What is not modelled

`PROJECT.json` lists every component with its status and reason. Within the
modelled ones: `tmo_http_json` (one request, answer printed), the building of
URLs and file names, the DTLS credentials and profiles kept in the modem, the
AT pass-through of `tmo modem`, single sends and receives (they change no state
of the shell), the encodings of Kermit packets, the LEDs and beacons of the BLE
demo, the tables of the battery's level (not in the repository). One-shot
commands, demo loops, the certificate parser and the encoders of the modem's
timers are conversions or pure input and output; the WiFi shell and the pairing
callbacks hand results on without acting on them; the web demo is represented by
its sockets. The wake-up samples have a hazard of their own (a wake-up just before
the thread suspends itself), listed in `PROJECT.json` without a property.

## 7. Plan

Done: every module of section 2. The modules left to write are small:
`WakeSleep` (the wake-up samples), and the algorithms of `tmo_certs.c` and of the
modem's timers against a reference definition.

Proofs done: every invariant, every action property, the refinements, and of the
liveness properties the numbers that go down until they hold. Next:
what holds of `KermitSession` beyond a single session (that a later one is as
short of slots as `K_INIT` leaves it is in `Counts` for the first session only),
and the wake-up samples once they are modelled. Liveness stays with TLC.
