# Wi-PRO on the ESP32: a verification project

This directory holds TLA+ models of the firmware in `src/firmware` and of the host programs in
`src/controller`, the TLC configurations that check them on small instances, and proofs, checked by
TLAPS, that hold for every value of the constants. Line numbers refer to the repository at the
commit under `src/`.

## 1. The system

Boards (ESP32-S3) measure the distance to each other with Wi-Fi fine time measurement (FTM) and
capture channel state information (CSI) of every frame they hear. Each board prints what it measures
on its serial console; a *controller* per board reads the console, turns records into events and
sends them to a *server*, which publishes them and sends commands back.

A board runs three threads that matter: the **executor** (cooperative; all `embassy` tasks, switching
only at an `await` that suspends), the **Wi-Fi task** of the driver (`csi_rx_callback`, the ESP-NOW
callbacks) and the **event-loop thread** of ESP-IDF (`handle_ftm_report_event`). The last two preempt
the first. The host programs are `tokio` tasks joined by bounded channels.

### 1.1 Inventory

| component | state | operations | what is hard | what makes it correct |
|---|---|---|---|---|
| **FTM exchange** `ftm.rs` | `FTM_REPORT_METADATA`, `FTM_RADIO_DONE`, `FTM_STATE`, the task's place in `initiate_ftm` | `initiate_ftm`, `handle_ftm_report_event`, `set_burst`, `set_mute` | a wait without timeout, a signal and a report left over, four ways to return | a report is that of the exchange begun; every accepted exchange ends |
| **CSI pipeline** `csi.rs` | `CSI_CHANNEL` (10), `FTM_CSI_STATE` | `csi_rx_callback`, `csi_processing_task`, `reset_ftm_csi_buf`, `dump_csi_buf`, `calculate_precise_timestamp_ns` | two bounded buffers, filled and drained by different threads | frames in order, printed at most once, none of another sender in a record |
| **Contact scheduling** `ftm.rs`, `peers.rs` | `PEER_LIST` (64), the loop's timer | `contact_loop`, `next_peer_to_contact`, `add_or_update`, `remove_stale` | the list is shared by three tasks and unlocked during an exchange | no peer starves, pauses neither too short nor too long, only stale peers leave |
| **Peer discovery** `scan.rs` | the scan timer | `scan_task`, `do_scan` | scans block the executor; they may fail or hear nothing | as above |
| **ESP-NOW** `espnow.rs` | packet counters, `FTM_NOTIFY_CHANNEL` (8) | `send_ftm_notification`, the receive callback, `ftm_notification_task` | packets lost on a full channel; a notification of an unknown board | a notification names its exchange; the board survives it |
| **MAC clock** `wifi.rs`, `csi.rs` | `MAC_LAST_LOWER`, `MAC_UPPER_BITS` | `get_mac_counter`, `mac_counter_keepalive`, `csi_rx_timestamp_wrap` | four unsynchronised accesses by two threads; a wrap between a frame and its callback | the 64-bit time is the clock's |
| **Serial link** `ftm.rs`, `csi.rs`, `wipro.rs`; `tlv.rs`, `esp_io.rs` | the line being printed; the reader's line buffer, `ESP_MAC`, the event channel (100) | printing an FTM record, a frame, a range; `parse`, `parse_ftm`, `parse_csi`, `parse_range`, `handle_message`, the reader task | logs of other threads and restarts tear records; fields are counted by hand; the channel fills; the reader ends | what arrives is what was measured, in order, once |
| **Beacon** `espnow.rs`, `wifi.rs` | `BEACON_STATE`, socket and bound address, the station's connection | `beacon_task`, `set_beacon`, `try_connect`, `disconnect` | addresses come and go between two beacons; sends fail in two ways | the socket is bound to the address the board has |
| **Controller** `bin/controller.rs`, `esp_io.rs`, `config.rs` | two bounded channels, the log directory | the `select!` loop, `write_task`, `handle_user_input`, `Config::init` | channels that fill, tasks that end on the first error; programs that share a log directory | commands and events get through, in order, without a hole; no log is overwritten |
| **Server** `bin/server.rs`, `srv.rs`, `ipc_publisher.rs` | `clients`, three bounded channels | `run_server`, broadcast, `run_publisher` | controllers that come and go; an error ends the loop; waits in a circle | events are recorded and published in order; a broadcast reaches every client or the server ends |
| **Terminal UI** `tui.rs` | logs, input line, scroll position | key handling, draining of server events | the UI drains its channel only between two frames | the server is never held up for good |
| **Range estimation** `wipro.rs` | `num_l1_iters` | `process_report`, `l1_interp`, `estimate_range` | board and host pair entries with CSI each in its own way; 48-bit differences | each entry gets the CSI of its time, on both sides |
| **Console** `console.rs` | the line being read, `CONFIG`, `FTM_STATE`, `WIPRO_STATE`, `WIFI_STATE` | `console_task`, `handle_command` and the setters | bytes come in parts and may not decode; settings change while tasks use them | a line is handled whole and once; what was accepted is in force |
| **Wi-Fi setup** `wifi.rs`, `sta.rs`, `main.rs` | `WIFI_STATE`, `CONFIG` | start-up sequence, `set_channel`, `set_promi` | driver calls, no logic | – |
| **LED** `led.rs`, **scripts** | – | – | – | – |

### 1.2 How they meet

`contact_loop` picks a peer and awaits `initiate_ftm`, which resets the CSI buffer, asks the driver for
a session and suspends on `FTM_RADIO_DONE`. Meanwhile the Wi-Fi task pushes CSI into `CSI_CHANNEL`,
`csi_processing_task` moves it into the buffer or to the console, and scans and notifications change
`PEER_LIST`. The event thread stores the report's metadata and signals; `initiate_ftm` fetches the
report and prints it with the buffered CSI as one record, and `contact_loop` looks the peer up *again*
to notify it. The controller's reader cuts the console output into lines and finds the records. From
there an event passes four bounded channels (reader to select loop, the sockets, server to publisher)
and a command four the other way (UI to server, the sockets, select loop to the port's writer); the
server tells the UI of both through one more. Apart from all this, `beacon_task` joins the access point
and sends UDP beacons from the address it is given; it shares the executor with the console that turns
it on and off and sets what the other tasks read. Where a controller or a server keeps its logs is
decided once, at its start.

## 2. The modules

| module | models | checked by | proved in |
|---|---|---|---|
| `FtmExchange` | abstract: one exchange at a time, answered for the peer asked or given up | – | – |
| `FtmSession` | one exchange, the CSI pipeline and the driver, three threads | `MCFtmSession*` | `FtmSession_proofs` |
| `PeerContact` | the peer list and all that share it | `MCPeerContact*` | `PeerContact_proofs` |
| `MacClock` | the 64-bit clock, one action per atomic access, and the CSI time stamps | `MCMacClock*` | `MacClock_proofs` |
| `FtmLink` | the way of records, frames and ranges from the board's prints to the controller | `MCFtmLink*` | `FtmLink_proofs` |
| `HostPromise` | abstract: files without a hole, subscribers in the files' order, commands without a hole | – | – |
| `HostNet` | controllers, server, publisher and UI, and the channels between them | `MCHostNet` | `HostNet_proofs` |
| `Beacon` | the beacon task, its command and the station below it | `MCConsole` | `Beacon_proofs` |
| `Console` | the console task and its settings, composed with `Beacon` | `MCConsole` | `Console_proofs` |
| `OutputDir` | the choice and making of a log directory by programs that share a path | `MCOutputDir*` | `OutputDir_proofs` |

An operator whose name ends in `_Bug...` is a plausible mistake in the definition that follows it. No
specification uses one; each property of a passing run was checked to fail once the mistake replaces
the definition (`PROJECT.json`, `mutants`).

### FtmSession

The executor's code between two suspensions is one action, since nothing else on the executor can
come between: `InitiateFtm` is `initiate_ftm` up to `FTM_RADIO_DONE.wait()`, `ResumeReport`,
`ResumeNoMetadata` and `ResumeNoReport` are its three ways on from there, `InitiateRefused` is the
failure at the session request, which undoes the buffering. `StoreReport` and `SignalReport` are the
two halves of `handle_ftm_report_event`: the metadata is visible before the signal. `CsiRxCallback`
is the callback (`try_send` drops on a full channel); `CsiBuffer`, `CsiDropFull`, `CsiStream` and
`CsiSkipEmpty` are the branches of `csi_processing_task`. Lengths are abstracted: any frame may be one
without data, for which the last prints no record. Frames are their sender and a stamp; the record's
entries are not needed here. `handler` is the event thread's program counter; `target` is the peer
argument of the running `initiate_ftm`; `streamed`, `published` and `report` record what was printed.

`WakeupComing` is the counterpart of `ReportMatchesSession`: that one says that no wakeup is left over,
this one that none is missing while the task waits, which it does without a timeout. `WorkRunsOut` adds
that each step that brings no new session or frame leaves less to do (`Duty` counts what is between an
accepted session and the task's return).

The embassy mutexes need no actions of their own: no guard in the modelled code is held across a
suspending `await`, so an executor task never finds one taken.

### PeerContact

`peers` is `PEER_LIST` as a function from listed peers to entries; `rank` is an entry's place in the
vector, which decides between peers equally overdue. The actions are the stretches between yields:
a look of the contact loop (`ContactIdle`, `ContactSkips`, `ContactStarts`), the end of an exchange
(`ContactFails`, `ContactNotifies`, `ContactUnlisted`), a notification taken from the channel
(`NotifyAdds`, `NotifyPanics`), and a scan, which occupies the executor from `ScanStarts` to
`ScanFails` or `ScanFinds`. `Tick` passes time; timers fire at their deadline or any time later.
`overtook` and `listed` are history: they are read by properties only.

### MacClock

A call of `get_mac_counter` is five steps: read the hardware, load the last reading, store the new one,
count a wrap, load the count. Two threads call it. A time is an epoch and a value below `Modulus`
(2^32); the hardware shows only the latter. `Tick` assumes what `mac_counter_keepalive` (every 60 s) and
a scheduler that does not hold a thread up for 71 minutes provide: the clock does not run past a stored
or a pending reading by a whole wrap. `overlaps` is history: it counts the calls begun while another was
in progress, and `AheadByOverlaps` says that the count is never further ahead of the true one than that,
so the error of finding 4 is one wrap for each such call and no more. Delays between a frame and its
callback are assumed to be at least 1 µs and shorter than a wrap; a callback in the very microsecond of
its frame is not modelled.

### FtmLink

A `print!` is one action, because other threads may log between two of them. The line is a sequence
of tokens: the opening three fields of a record, an entry, the `CSI` mark, a CSI frame (five fields),
a foreign line, the end of a record; and the messages of one print, the reply to `id`, a range and a
frame of another sender (`Single`). `ReportBegins` lays out all that `initiate_ftm` is going to print
from there on: `RangeTokens` is `process_report`, where each entry takes its first frame near it
(`MatchesOnBoard`) and is skipped when it has none or one too short (`Ranged`), and a range stands for
the CSI it was made of; `RecordTokens` is the record itself. `Fields`, `EntryFields`, `CsiOf` and
`ParseFtm` are `parse` and `parse_ftm`: the first 0x02 of a line, the next 0x03, entries from the fifth
field on, each frame to the first entry it is near (`Receiver`), the last frame of an entry over those
before it. A parsed entry keeps its number when others are not retained, so that a report's place tells
which entry it is. `ReadLine` and `ReadEvent` are the reader task for a line without and with an event;
`ReadEvent` waits while the channel is full; `ReaderEnds` is a line that is not UTF-8, an error of the
port, or its end, after which nothing is read again. `sent` and `whole` are history: what was begun,
and for each line ever put on the wire the message it holds in one piece, or that it is only a log.

The serial wire is external: it loses nothing, adds nothing and has no bound (`wire`). What the code
sees of its faults is modelled: text of other threads and restarts of the board within a line, a line
that is not UTF-8, and the end of the port (`ReaderEnds`). `NothingLost` rests on that assumption.

`Faithful` restates what an event should hold without tokens or fields. `NothingLost` compares what
the controller has with `whole`: `DueUpTo` counts the messages behind the reply to `id` that the reader
has passed; there are as many events, the n-th of them is the n-th of those messages, and each line on
the wire still holds what `whole` says, whatever tore the records between. `RangesAgree` sets the
board's pairing beside the host's: they differ where frames compete, and it says exactly where they do
not.

### HostNet

One controller per board, one server. A handler of a `select!` loop is an action up to the next await
that may wait: `ServerReceives` takes the message and makes the client known, `SendsNote` sends the UI
one message (`notes` counts those the server must get rid of before it goes on), `ServerPublishes` sends
to the publisher and writes the files. `TakesCommand` and `SendsCommand` are the two halves of the
controller's handler around `send_command(..).await`, during which it takes no event. `BroadcastSends`
sends to one client; `BroadcastFails` is the `?` at `server.rs:141`, which ends `run_server`.
`PublisherTakes` and `Publishes` or `PublishFails` are the publisher's two waits: its channel has room
again while it sends. `UiDrains`, `UiPollsNothing`, `UiTypes` and `UiSends` are one turn of the UI's
loop: while it sends a command it drains nothing. `Logs` is a log line of anyone on the server, dropped
when the channel is full. `WriteFails` ends the writer as `write_task` does; the select loop then goes
on without it.

The sockets are external: a pair of unbounded queues per controller, in order, cut short when the
connection breaks. A broken connection stays broken (what the library may do to mend it is not in the
repository); a send on it fails or the message vanishes, a receive fails or never happens.
`orders`, `sentTo`, `read` and `written` are history.

`KeepsPromise` says that all of it implements `HostPromise` (`Promise == INSTANCE HostPromise`): five
variables, of which the channels, sockets, tasks and failures are the hidden machinery. There, an event
is recorded only after all earlier ones of its board, an event is shown only behind those shown before,
and a board is only given the next command meant for it; losses are what never happens.

`StuckOnlyInCircle` has two parts. `UnderWayGoesOn` states that a message under way always has a task
that can move. `WaitsAreServed` says who waits for whom: the reader waits for the loop, the loop for the
writer, the server for the publisher or the UI, the UI for the server, and wherever one waits, the last of
the chain can go on, also after failures: nobody waits for a task that has ended. Both are stated with the
guards of the actions, whose waits are the operators the actions themselves use (`EventAccepted`,
`CommandAccepted`, `NoteAccepted`, `IpcAccepted`, `UiCommandAccepted`). The one exception is real:
`CircularWait`, in which the server waits for room in the UI's channel and the UI for room in the
server's. With the code's capacities of 1024 it takes a server held up for as many commands, typed on
regardless, and as many log lines meanwhile: far-fetched, but nothing in the code rules it out.

### Beacon

A round of `beacon_task` does not suspend, so no command comes between its parts; the driver's threads
do. `RoundOff`, `RoundLooks` and `RoundWithoutIp` are its beginning, up to the address it finds;
`RoundJoins`, `RoundJoinFails` and `RoundWaitsForIp` are `try_connect`; `Binds`, `BindFails`, `Sends`,
`SendOutOfMemory` and `SendFails` are the rest. `BeaconOn` and `BeaconOff` are the console's command,
with `disconnect` inside the latter. Every call to the driver may fail: `esp_wifi_connect`
(`RoundJoinFails`), `esp_wifi_disconnect` (the second half of `Disconnect`) and, before or behind
either and whatever the other does, `esp_wifi_set_config`, whose result the code ignores
(`SetsConfig`). So a board told to stop may still have its network set, or stay joined, and while a
network is set the driver may join it by itself (`Reconnects`, after the comment at `wifi.rs:379`).
That the board leaves the network is therefore no property; that it beacons no more is (`FallsSilent`).
`Sends` needs a socket bound to the address the station has then: a socket for an address that is gone
only fails.

### Console

`Console` extends `Beacon`: its state is the beacon's, the bytes on their way to the board, the line
buffer and the settings. A line is sent in two pieces, the second with the newline, and `read_line`
takes one piece or two (`Chunks`): `ReadsLine` is a line in full, which is handled at once and the
buffer cleared; `ReadsPart` is the error `WouldBlock`, with which `read_line` leaves what it has read
in the buffer (`KeepPart`); `ReadFails` is a chunk that is not UTF-8, which `read_line` drops, with
its newline if it has one. So the next line is appended to what is left, and `HandleMixed` lets such a
mixture be any command or none. `With` is all the setters, `Accepted` all their tests, those of the
console and those behind it (`set_burst`, `set_channel`). The console runs while the beacon task
sleeps: both are on the executor, and a round does not suspend. The other tasks' readings of the
settings are in their own modules.

### OutputDir

`FindsPath`, `FindsNothing`, `Stamps`, `MakesDir` and `OpensFiles` are the calls to the file system and
to the clock between a program's start and its first line of log, in the order of `Config::init`,
`connect_serial`, `ServerConfig::init` and `run_server`, which are alike here. Only the second of the
time matters, since the name holds no more. A directory stands for its five files. `began` and `before`
are history, read only in `OutputDir_proofs`: the second a program looked at the path, and who had a
directory by then. That the host's clock is not set back is an assumption (`Tick`).

## 3. The runs

| run | question | bounds, and why they are enough |
|---|---|---|
| `session` | Do exchanges keep reports, frames and sessions apart, lose no wakeup, end, and implement `FtmExchange`? | 2 peers and a stranger, 3 frames, a channel of 2, buffers of 0 or 2: both buffers overflow, and frames of one exchange are still queued when the next begins |
| `session_leak` | Does buffering end with the exchange? (no: finding 1) | as `session` |
| `contact` | Does nobody starve, are pauses right, do notifications name their exchange, do only stale peers leave? | 3 boards on a list of 2, 2 scan records, clock to 4, stale after 2: lists overflow, peers leave and come back, an exchange may outlast its peer; the sequence number wraps at 2 |
| `contact_unlisted` | Is the peer still listed after its exchange? (no: finding 2) | as `contact` |
| `contact_full` | Is a full list handled? (no: finding 3) | as `contact` |
| `clock` | Is the 64-bit time exact, is no wrap lost, and how many are counted too often? | a clock of 5 ticks over 3 epochs, 2 threads, 3 overlaps: every interleaving of two calls with several wraps; with 3 threads (5 million states) all of it holds as well |
| `clock_race` | Is only a wrap counted? (no: finding 4) | as `clock` |
| `link` | Do torn or delayed messages ever arrive as something else, is anything whole lost, doubled or out of order, and when do board and host pair alike, and is only the first entry lost? | 2 of 7 reports or a frame, 2 logs, restarts or ends of the reader, a channel of 1: a record can be torn twice, or once and followed by another; frames compete for entries, miss them or sit at the edge |
| `link_first` | Is every entry parsed? (no: finding 5) | as `link` |
| `host` | Do events and commands keep their order without a hole, does a broadcast reach all or end the server, who waits for whom and can everything wait for everything, and do they implement `HostPromise`? | 2 controllers, every channel holds 1, 2 events, 2 commands, 1 failure: each channel fills, a connection breaks in the middle of a broadcast, the circle of server and UI closes. With `MaxFaults = 2` (1.9 million states) all of it holds as well; the smaller value keeps the run short |
| `console` | Are lines handled whole and what they say in force, does the socket follow the address, do beacons resume or end as told? | 3 lines, one garbled in either piece or both, of 8 commands (3 rates, settings, 2 values refused); 2 addresses, so that a renewal may change the address: a line may be joined with what is left of the one before and followed by a clean one |
| `logs` | Is a log ever overwritten? (yes: finding 6) | 3 programs in 2 seconds, the path there or not |

`MaxFrames`, `Horizon`, `Epochs`, `MaxOverlaps`, `MaxReports`, `MaxBreaks`, `MaxEvents`, `MaxCommands`,
`MaxFaults`, `MaxLines`, `MaxGarbled` and `MaxSeconds` bound behaviours and nothing in the code; the
capacities are the code's own, made small so that they are reached. `CHECK_DEADLOCK FALSE` stands in the
runs of `FtmLink`, `HostNet` and `OutputDir`, where the bounds let everything come to rest. The contact,
clock and host runs use symmetry; none of them has a liveness property.

### Fairness

* `FtmSession`: weak fairness of the processing task and of the resumed contact task (the executor
  polls every woken task), of the event thread (it finishes what it began), and of the driver's
  report. The last is an assumption on the driver: the code has no timeout for it
  (`ftm.rs:122`). Nothing obliges the loop to start an exchange or a station to send.
* `Beacon`: weak fairness of the rounds (the executor polls the task when its timer fires), strong
  fairness of joining, binding and sending: each can fail, and the code retries it for ever, so the
  assumption is that no failure of the network stack is for ever. Nothing obliges the access point to
  let the board in or DHCP to give it an address; `BeaconsResume` speaks of boards that have one.
* `Console`: strong fairness of its reading (the executor polls the task in every pause of the beacon
  task, so again and again, but not continuously), besides the beacon's own. Nobody is obliged to
  type. `FallsSilent` speaks of a board whose last beacon command said 0.
* `FtmLink` states no liveness: `NothingLost` says where everything is at any moment, which is more.
* `HostNet` has no fairness: instead of liveness it states that somebody can always go on
  (`StuckOnlyInCircle`), which needs none.
* `PeerContact` and `MacClock` state no liveness: starvation is ruled out by the stronger bound on
  overtaking.

### Findings

1. `session_leak`: two of `initiate_ftm`'s returns (`ftm.rs:142`, `146`) leave `FtmCsiState.active`
   set; the doc comment (`csi.rs:43-45`) says the dump clears it. Until the next exchange the peer's
   CSI is buffered or dropped instead of printed.
2. `contact_unlisted`: the branch "Shouldn't happen" (`ftm.rs:163`) does, when a scan during the
   exchange drops the peer as stale.
3. `contact_full`: `ftm_notification_task` unwraps the error the scan handles ("Peer list full"):
   a notification from one board too many restarts this one.
4. `clock_race`: two overlapping calls of `get_mac_counter` count a wrap that did not happen; the
   board's time is 71 minutes ahead from then on. It gets no worse than one wrap for each call that
   began during another (`AheadByOverlaps`).
5. `link_first`: `parse_ftm` starts one field late and loses the first entry of each record, and no
   other that has a frame to itself (`LaterEntriesParsed`).
6. `logs`: `README.md:83` promises "a unique subfolder to ensure you don't overwrite existing log
   files"; the name is unique to the second, and the path is looked at long before it is made
   (`config.rs:58-69`). Two programs started together share the directory, and the second truncates
   the first one's files (`esp_io.rs:35-39`). Only these: a program that starts later spares what is there
   (`LostOnlyToContemporary`).

## 4. The proofs

All hold for every value of the constants that satisfies the named assumptions of the module.

* **`FtmSession_proofs`** proves every safety property of run `session`: `TypeCorrect`, `ReportsMatch`,
  `WakeupsKept`, `WorkDecreases`, `BufferCorrect`, `InOrder`, `NeverTwice`, `SilenceExplained`.
  `ReportMatchesSession`, `WakeupComing` and `BufferIsPeers` are inductive relative to `TypeOK`.
  `WorkRunsOut` is an action property that needs `ReportMatchesSession`: the duty to wake the task
  passes from driver to handler to signal to task and never back (`DutyPassedOn`) only because no two of
  them hold it at once. With `WakeupComing` it is the safety half of the liveness in
  `ExchangeSpec`: there is always a next step to take, and only so many; that the step is
  taken is the fairness, which stays with TLC. `ReceptionOrder` and `NoFrameTwice` are not inductive:
  their invariant `OrderInv` orders the frames *everywhere* – everything printed or buffered was
  received before everything in the channel, and the channel is sorted below `rxCount`.
  `ImplementsExchange` shows that `Safety` implies the safety part of `FtmExchange`: a resumed exchange
  is an `Answer` or a `GiveUp`, any other step of the pipeline a stutter; it needs
  `ReportMatchesSession` for the peer named and `BufferIsPeers` for the CSI inside.
* **`PeerContact_proofs`** proves every property of run `contact`. For `BoundedOvertaking`
  (`NoStarvation`) the invariant (`OvertakeInv`) says: q has overtaken a waiting p at most once, and
  once it has, p now stands *ahead* of q – longer overdue, or listed first – for as long as both are
  listed. The case that needs care is `Retain`: the places change, but not their order (`ScanChanges`).
  `TypeOK` is not inductive: that no two entries share a place needs the places to be the numbers up
  to the length of the list (`ListOK`), or an appended entry might meet a place already taken.
  `Punctual` (`LoopIsPunctual`) and `OnlyStaleLeave` (`StaleLeave`) are action properties that follow
  from that invariant, one action at a time; the pauses rest on bounds of the least of a finite set
  (`IdlePauseBounds`). `SyncNamesExchange` (`NotificationNamesExchange`) needs `ExchangeNamed`: while
  an exchange lasts and its peer stays listed, the entry keeps the number the exchange began with.
* **`MacClock_proofs`** proves every property of run `clock`. For `ClockTyped`, `ClockExact` and
  `StampsExact` the invariant (`ExactInv`) follows the one call in progress: before its load the count
  matches the reading stored last, between its store and its count it lags by exactly the wrap the call
  has seen. For `NoWrapLost` (`WrapsKept`) calls overlap in any number and order, and the reading stored
  last may go back. Its invariant (`LostInv`) sets the wraps counted *and those of the calls between
  their store and their count* (`Pending`) against the epoch of every reading stored or compared with; a
  reading two epochs ahead of what a call has seen is what the bound on delays rules out.
  `AheadByOverlaps` (`AheadNoFurther`) is the bound on the other side. A call counts a wrap at most
  once, so what was counted since the last time nobody was calling is at most the calls begun since
  then, and all of those but the first overlapped another. What makes the first one too many harmless
  (`DriftInv`) is that time has to pass before any call of that busy period can see a true wrap: either
  the clock has wrapped since the period began, which pays for one count, or of the calls that read in
  the period's first epoch the newest has compared, or will, with a reading no later than its own, so
  one call of the period counts nothing (`Spared`).
* **`HostNet_proofs`** proves every property of run `host`. `StuckOnlyInCircle` (`NeverStuckElsewhere`,
  with `WaitsServed`) holds because no capacity is 0, so that a full channel is one its receiver can
  take from (`FullQueue`), and because whoever ends lets the others' sends fail instead of wait.
  `CommandsInOrder` (`CommandsGivenInOrder`) follows from `CommandsInv`: what was written, the writer's
  channel, the command in the loop's hand and the socket are, one behind the other, the commands sent to
  the board (`Piece`), for as long as the writer lives. `BroadcastsComplete` needs the numbers of the
  commands from the UI's hand back to the last one broadcast to grow (`NumbersInv`) and what each client
  is still owed in the middle of a broadcast (`SentInv`). `EventsConserved` (`NoEventLost`) is the same
  for events, from the reader to the files (`EventsInv`), with the event the server is handling between
  socket and file. `PublishedAsRecorded` needs everything published, being sent and in the publisher's
  channel to stand in the files in that order (`ShownInv`). `HostKeepsPromise` is the refinement:
  `KeepsPromise`, every step a step of `HostPromise` or a stutter. It uses all of these invariants: that
  an event is recorded behind all earlier ones is `EventsInv`, that a board is given the *next* command
  is `CommandsInv`, and that a number sent is new to the board is `NumbersInv` with `SentInv`.
* **`Beacon_proofs`** proves `TypeCorrect` and `BeaconBound`; `TypeOK` is inductive as it stands,
  `BoundToStation` relative to it.
* **`Console_proofs`** carries `BeaconBound` over to the board with its console: `ConsoleDrivesBeacon`
  shows that `ConsoleSpec` implies the beacon's `Init /\ [][Next]_vars`, because whatever is read, line,
  part or mixture, changes the beacon's variables only as one of its commands does; `BoardBound`
  follows. The invariant needed is small, that a line in full names a line that was typed
  (`ShapeInvariant`): otherwise its command would be of no known kind. The rest of the module proves the
  safety properties of the console itself. The invariant (`LinesInv`) says that the pieces on their way
  are those of consecutive lines up to the last one typed (`StreamOK`), and what the buffer may hold
  (`BufferOK`): the half of the current line that has been read, or something left over from a line that
  did not decode, with every line since. So a line that decodes, and follows one that does, is handled
  as it was typed (`HandledWhole`), from which `LinesIntact` (`LinesHandledWhole`) follows.
  `ConsoleTypeOK` (`ConsoleTyped`) needs the values that pass the tests to be ones the tasks can work
  with (`AcceptedNumbers`). `InForce` (`SettingsInForce`) goes by the step (`CleanStepTells`): as long
  as every line decodes, the line handled is the one whose newline was just read, and it changes the
  setting of its name and no other.
* **`FtmLink_proofs`** proves every property of run `link`. None is inductive. The invariant (`LinkInv`)
  has to know, besides shapes, what every torn line can look like: `PrintInv` says that the open line is
  a run of the tokens of one report that ends where `toPrint` begins (`Printing`), and `WireInv` that
  each line on the wire either holds no message or one that the reader takes for exactly what `whole`
  says (`LineOK`). That logs and restarts cannot forge a message is `LineEnds`: a line that has an
  opening token and a closing one behind it holds the record from its first token to its last. That the
  parser makes of such a record what `Faithful` demands is `RecordParsed`, which shows the mark found
  where the frames begin (`RecordFields`), each frame's receiver to be the first near entry past the one
  lost (`ReceiverIs`), and so the claims of `Faithful` to be the frames received (`CsiIs`). `EventsInv`
  then gives each event a message it was made of (`Made`), from which `EventsAreReports`
  (`EventsUnmixed`) follows. `RangesAgree` (`PairingsAgree`) needs, beyond that, that a frame which is
  the only one near a time, and near no other, is both the board's first match and the host's last claim
  (`OnlyPairFiled`), and so does `LaterEntriesParsed` (`LaterEntriesKept`). For `NothingLost`
  (`NothingIsLost`) `CountInv` ranks the messages due: reading a line moves the count of messages passed
  and that of events by the same one or none (`StepMoves`), and `GateInv` ties the identity gate to the
  reply having been read.
* **`OutputDir_proofs`** shows what finding 6 leaves of the README's promise, from no assumption at all:
  a log is lost only to a program that looked before the log's directory was made, or in the very second
  it is named by (`LostOnlyToContemporary`, `LaterStartsHarmless`). The invariant (`DirInv`): whoever
  looks once anyone has made a directory finds the path, so it takes a subdirectory named by a second no
  earlier than the one it looked in, while the directories made by then are named by seconds no later; and
  a log in use belongs to a program that chose its directory. `DirsTyped` is its type invariant.

Model-checked only: liveness under fairness (`KeepsTrying`, `BeaconsResume`,
`FallsSilent` and the liveness part of `ExchangeSpec`), which the prover does not reach. Nothing in the
models is recursive (`HostNet` folds a sum in the guard of a bound): where the code loops over entries
or frames, the definition names the first or last index that satisfies the loop's test, so no statement
here needs an induction over data.

## 5. What is not modelled, and why

* The numerical part of `wipro.rs` (FFTs, interpolation, range from the impulse response, the mean) is
  floating point arithmetic. `process_report` has no suspending `await`: its prints come before the
  record's, and a range is the CSI it is made of. The mean is taken over all entries although those
  without CSI are skipped (`wipro.rs:332`, `359`); it is logged and nobody reads it.
* The length of a CSI frame: it is clamped when copied (`csi.rs:172`) but not when sliced.
* The text of help and logs. (`help` offers a burst of 25, `console.rs:63`; `set_burst` takes 24. The
  doc comment of `IPCPublisher::send`, "Err if channel is full", `ipc_publisher.rs:29`, does not
  describe the code, which waits.)
* `should_init` in `contact_loop` is constantly true, so its other branch (`ftm.rs:291-296`) has no
  action.
* The driver's configuration at boot, the LED and the scripts have no state the other parts depend on.
* ESP-NOW's own peer table (a peer heard only by notification is not in it, so its notifications
  fail) is the driver's; `send_ftm_notification` returns an error that is ignored, and in
  `PeerContact` any notification may be lost.

## 6. Plan

Done: the session and its abstract exchange, contact scheduling, the clock, the serial link with the
pairing of ranges, the host programs and their abstract promise, the beacon and the console that
commands it, the log directories, and the proofs of section 4: every safety property of a passing run
and both refinements, liveness apart. Left:
`HostNet` with a controller that restarts under the same server, and the controller's own commands.
