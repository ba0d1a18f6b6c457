# Verification of the Livox driver and SDK

This directory holds TLA+ modules for the concurrent core of this repository:
the ROS driver `livox_ros_driver2` (`src/livox_ros`) and the Livox SDK
(`sdk/livox_sdk`) that it vendors and builds. TLC model-checks the modules on
small instances; TLAPS proves the most important results for every value of the
constants. Paths below are relative to the repository.

`PROJECT.json` lists, machine-readably, what this text explains: components,
runs, mutants (a plausible bug for every property, which the property catches),
the lines each definition stands for, findings, hazards and theorems.

    tlc -workers 2 -config commands.cfg MCCommandTable     # one run
    tlapm CommandTable_proofs.tla                          # one proof module

## 1. The system

### 1.1 Processes

| thread | started by | what it runs |
|---|---|---|
| detection loop | `DeviceManager` | sends the broadcast every second, reads the lidars' answers, `OnTimer` |
| cmd loop | `DeviceManager` | acknowledgements and pushed state, `OnTimer` |
| data loop | `DeviceManager` | point and IMU packets, `OnTimer` |
| raw data thread | `PubHandler` | turns packets into frames, hands them to `Lds` |
| point cloud / IMU poll threads | `DriverNode` | pop frames, publish to ROS |
| main | ROS | start and destruction of `DriverNode` |

The callbacks the driver gives to the SDK run on the three IO loops; the
callbacks it gives to `PubHandler` run on the raw data thread.

### 1.2 Components

The way of a lidar through the system: the SDK *detects* it, asks for its
firmware type, sends it a network configuration and *announces* it to the
driver; the driver *configures* it, setting by setting; once all settings are
answered it is *Sampling*, and its *frames* flow from packets to ROS.

| component | files | state | operations | model |
|---|---|---|---|---|
| point cloud pipe | `comm/ldq.cpp`, `comm/semaphore.cpp`, `lds.cpp`, `lddc.cpp`, `driver_node.cpp` | one lock-free ring per lidar, a semaphore, exit flags | push, pop, signal, wait, sweep of the lidars, exit | `PointCloudPipe` |
| command table | `command_handler/general_command_handler.cpp` and the handler of each family, `comm/generate_seq.cpp` | `commands_` by sequence number | send, acknowledge, expire, call back | `CommandTable` |
| bring-up in the SDK | `general_command_handler.cpp`, `device_manager.cpp` | `devices_` with four flags each, a retry counter | detection, firmware query, network configuration, info change | `LidarBringUp`; view mode: `LidarParams` |
| configuration in the driver | `call_back/livox_lidar_callback.cpp` | `set_bits`, `connect_state`, `config_mutex_` | send the settings, eight callbacks with retries | `LidarConfig` |
| frame assembly | `comm/pub_handler.cpp`, `call_back/lidar_common_callback.cpp` | raw packet queue, points per lidar, the shared synchronisation flag, last publication | packet in, `CheckTimer` in two time modes, frame out, `Uninit` | `FrameAssembly` |
| driver life cycle, lidar index | `driver_node.cpp`, `livox_ros_driver2.cpp`, `lds_lidar.cpp`, `comm/cache_index.cpp`, `parse_cfg_file` | `lidars_`, handle to index, callbacks, `is_initialized_`, `request_exit_` | make and destroy a node, fill `lidars_`, register callbacks, get an index | `DriverNode` |
| IMU path | `comm/lidar_imu_data_queue.cpp`, `lds.cpp`, `lddc.cpp` | unbounded queue under a mutex, semaphore | push, pop, publish | `DriverNode` |
| topics and messages | `lddc.cpp` | publishers by index | choose the topic, say whose message it is, pop or not | `DriverNode`; the fields of a point: not modelled |
| SDK life cycle, sockets | `device_manager.cpp`, `livox_lidar_sdk.cpp` | sockets, threads, device maps | init, detection thread, destroy | `SdkLifecycle` |
| IO loops | `base/io_loop.cpp`, `base/io_thread.cpp`, `base/multiple_io`, `base/wake_up` | delegates, posted tasks, `quit_` | poll, run tasks, add and remove a delegate, join | `SdkLifecycle` (epoll), timers in `CommandTable` |
| point data observers | `data_handler/data_handler.cpp` | observers under a mutex | add, remove, call | `SdkLifecycle` |
| firmware upgrade | `upgrade/`, `upgrade_manager.cpp` | state machine, offset, try count, thread | request, transfer, complete, poll, destroy | `Upgrader`; reading the file: not modelled |
| log collection | `logger_handler/` | handler, queue and file per lidar, `cond_`, the directory | create, transfer, end, write, delete the oldest, destroy | `LogCollection` |
| builders, parsers, parameters | `command_impl.cpp`, `build_request.cpp`, `parse_lidar_state_info.cpp`, the `OnCommandCmd` of each family | none | build a request, dispatch a packet, parse and print pushed state | `LidarParams` |
| SDK configuration file | `parse_cfg_file.cpp` (SDK), `params_check.cpp` | none | parse, check, put ports right, choose sockets | `LidarParams` |
| driver configuration file | `parse_livox_lidar_cfg.cpp` | none | settings and extrinsics of each lidar | `DriverNode` |
| debug point cloud | `debug_point_cloud_handler/` | files | start, data, stop | not modelled |
| sockets and operating system | `base/network`, `comm/comm_port.cpp` | – | bind, send, CRC | as an environment only |
| containers, samples, 3rd party | `docker`, `config`, `samples`, `3rdparty` | – | – | out of scope |

### 1.3 Interactions

* `LidarBringUp` sends its queries and configurations through the command table
  and calls the info-change callback that starts `LidarConfig`.
* `LidarConfig` sends its settings through the command table and retries from
  the callbacks; when `set_bits` is empty it sets `connect_state` to Sampling.
* `FrameAssembly` hands each frame to `Lds::StoragePointData`, where `PointCloudPipe` begins:
  an offered frame of the pipe is one lidar's entry in a frame published there.
* `PointCloudPipe` reads `connect_state` on the poll thread (its variable
  `sampling`), without a lock.
* `DriverNode` puts these pieces in one process, each reduced to what its neighbours
  see of it: a ring to a queue, the exchange of settings to `LidarInfoChange` and
  `SettingAnswered`, a frame and an IMU sample to a handle and a number. What it
  adds is the index that connects them and the order of start and exit.
* `SdkLifecycle` has the loops that all callbacks of the others run on; the
  others assume it initialised. `Upgrader` sends through the command table
  and sees the verdicts of a lidar that is not a HAP.
* `LogCollection` is fed by the cmd loop, and its `Destory` runs inside the one of the SDK.
* `LidarParams` is what the commands of `LidarBringUp` and the setters say, byte by byte.

`LidarBringUp`, `LidarConfig` and `Upgrader` meet the command table at one interface: the
sequences of verdicts a callback may see. `CommandTable!VerdictShape` states that
interface for each way of sending, and `VerdictsHaveShape` proves it. They assume of a command
only that it gets one of these: `LidarConfig` by counting the commands under
way, `LidarBringUp` by keeping whether there are some, `Upgrader` by keeping each.

### 1.4 What is hard in this code

* **Order of table and socket.** A command to a Mid360 is sent before it is in
  the table; one to a HAP is put there twice; one with a port before it is sent.
* **Three timers, one table.** Every IO loop expires entries while another reads
  the answers; callbacks run after the lock is released.
* **Sequence numbers** wrap, and answers are matched by number alone.
* **Lock-free rings**: free-running 32-bit counters, `volatile` for a barrier.
* **A wake-up decided on two unlocked reads** (ring empty? count zero?).
* **Exit** joins a thread that may be blocked on a semaphore nobody signals.
* **Settings and answers race**: a fast answer while later settings are sent.
* **Retries** from callbacks, on time-out only; refusals and null responses.
* **One synchronisation flag for all lidars**, set when a packet arrives and read when an
  earlier one is processed; two clocks in one cloud; unsigned differences of time stamps.
* **One static counter** and four flags per lidar, loaded and stored in separate
  steps by several loops; a callback registered while the loops already run.
* **Loops that outlive `Uninit`**: they are joined by the next `Init`, over sockets whose
  descriptors the system uses again.
* **A state machine run by its callbacks**, with a destructor that polls its state
  from another thread and does not wait for the callback that stored it; a failing send calls back twice.
* **A writer, a cleaner and the network** share a directory by file names with the
  resolution of a second; packets are acknowledged before they are kept.
* **The same fact in several tables**: a port is in the file, the request, the socket, the dispatch
  and the family handler; a parameter in the setter, the parser, its field and the printer.
* **An index given by two threads** and looked up without a lock by two others.

`PROJECT.json` has these under "hazards", each at its line with the properties
that would catch it going wrong.

### 1.5 What makes each component correct

* pipe: frames leave whole, in order, once, dropped only when the ring is full;
  no lost wake-up; destruction ends the thread.
* command table: an answer is credited to its own command; every command is
  called back; at most one final verdict; an answer in time is a success.
* bring-up: a detected lidar is asked until its type is known; it is announced
  once, after it accepted its configuration, and always in the end.
* configuration: Sampling only after all settings were answered; retries do not
  multiply; the lidar ends up configured.
* frame assembly: no point is lost, repeated or reordered; a frame carries the time of
  its first point; frames come at the rate configured; no packet stays behind; it can be ended.
* driver node: what is published as a lidar's is that lidar's, all of it, in order; a
  setting goes out as the file has it; the node can be destroyed.
* SDK life cycle: loops handle only packets of their own session; nothing is used after it was
  closed or removed; an initialised SDK listens; `Uninit` ends and callbacks cease.
* upgrade: the lidar has every block before the transfer is called complete;
  no callback begins on a destroyed upgrader; the caller returns.
* logs: a file holds the packets of its number in order; the cleaner leaves the open file
  alone; no writer is forgotten; `Destory` ends.
* parameters: what was set is what is reported; what a lidar is told to send has a
  socket and is taken for what it is.

## 2. Modules

| module | lines of thought |
|---|---|
| `FrameFifo` | abstract: a bounded FIFO of frames per lidar |
| `PointCloudPipe` | the rings, semaphore and threads; implements `FrameFifo` |
| `CommandPromise` | abstract: what a caller may expect of one command |
| `CommandTable` | sequence numbers, table, loops, network; implements `CommandPromise` for commands sent with a port |
| `FrameStream` | abstract: the stream of points of each lidar, cut into frames |
| `FrameAssembly` | packets to frames in `PubHandler`; implements `FrameStream` |
| `LidarBringUp` | detection to announcement in the SDK |
| `LidarConfig` | announcement to Sampling in the driver |
| `DriverNode` | a node from its file to its end: index, topics, settings, IMU, exit |
| `SdkLifecycle` | `Init` and `Uninit` against loops, detection thread, observers |
| `Upgrader` | the firmware upgrade of one lidar |
| `LogCollection` | the log of a lidar, from packets to files |
| `LidarParams` | parameters, ports and addresses from the file to the lidar and back |
| `*_proofs` | theorems about the module of that name; `Driver_proofs` about `DriverNode` and `LidarConfig`, `LidarBringUp_proofs` also about `LidarParams` |
| `MC*` | instances for TLC |

### 2.1 PointCloudPipe

A step is one access to a variable that another thread may touch. `p_pc` is the
raw data thread inside `Lds::PushLidarData`: test for full (`PushCheckFull`), the
fields of the slot (`WriteField`), `wr_idx++` (`WriteIndex`), test for empty, `GetCount`,
`Signal`. `c_pc` is the poll thread: `DistributePointCloudData`, `Wait`, the sweep
(`ScanLidar`, `ScanEnd`), `PollingLidarPointCloudData`, the publisher's loop and its pop
field by field. `main_pc` is `~DriverNode`. A frame is a record of two fields
(base time and points), so that a torn frame is visible; what the points are does
not matter. `ProgramOrder` says whether the accesses to a slot take effect in program
order: TRUE on amd64, where the compiler keeps the volatile accesses in order,
FALSE on arm64, for which the images are also built. Every publisher but
the PCL one pops; the PCL one (`Format`) returns without a pop in a ROS 2 build.

`FrameFifo` is what the driver promises without rings or threads; `RefinesFifo` maps
`seen`, `accepted` and `published` to it. A frame may be dropped only when the
abstract queue is full, so `RefinesFifo` also says that the ring has its full capacity.

### 2.2 CommandTable

One command is one call of `SendCommand`; `pc[c]` is where the sending thread is, and
`Family[c]` fixes the order of its steps (port, mid360, hap). `commands` is the
table, `todo[l]` the callbacks that loop `l` took out of the table under the lock
and has not called yet. Time is abstract: an entry may expire at any moment after it
was added. The network loses, delays and reorders. A failing `sendto` reports
SendFailed at once while the entry stays in the table, as in the code. `GetSeq` has one guard
that is not in the code: 65535 numbers are not used up while one of them is still in
use; without it an answer could be credited to another command.

### 2.3 LidarBringUp

The steps of `HandleDetectionData`, of `QueryFwTypeCallback` and of
`LivoxLidarInfoChange`; `call[l]` is what loop `l` runs and with which lidar. Steps end
where the shared counter or the flags are loaded or stored. `queries` and `cfgs` keep only *that*
a command is under way to a lidar: a verdict may be the last one or not. This covers
every number of commands at once — a failed send leaves two behind, since the entry
in the table expires too — without a bound. `count += 1` on a plain static variable may
lose one of two simultaneous increments. Left out: view mode, a slave SDK
(it never queries), address conflicts, lidars without a user configuration.

### 2.4 LidarConfig

One lidar, `LidarInfoChangeCallback` (`pc`, `left`) against the callbacks of its
commands. `config_mutex` is held while settings are sent; the callbacks of the
settings take it. `outstanding[k]` counts the commands of a kind that will still get a
verdict, `retry[k]` the callbacks that are about to send again. Whether the lidar is
in the user's configuration (`known`) and whether it is a HAP (`hap`) is chosen
initially. Specification, invariant and `ConfigTypeOK` have names of their own, so that
`Driver_proofs` can extend this module and `DriverNode` together.

### 2.5 FrameAssembly

`arriving` is the packet the SDK's data loop has in the observer between the store of
`is_timestamp_sync_` and the push; the SDK holds the mutex of its observers meanwhile, so there is
one at most and the observer is not removed under it. `pc` is the raw data thread: the
test of `is_quit_`, the wait (which ends by notification, after 500 ms or for no reason, so at
any time), the pop with `PointCloudProcess`, and `CheckTimer`, whose two reads of
shared state, flag and clock, are steps. A packet stands for its points; they share a tick. `TimeTypes[l][n]`
says whether packet `n` of lidar `l` may carry a synchronised stamp, from the lidar's clock, or not, in which
case `GetEthPacketTimestamp` takes the host's, `HostEpoch` ahead. `sync_end`, `no_sync_frames`,
`first_time` and `sent` are history. The model starts when the driver is set up (observer, callbacks and
extrinsic parameters in place, thread running). Left out: coordinates, packets without points or of an unknown
data type, the IMU sample itself.

`RefinesStream` maps what is collected, queued and arriving of a lidar to the
stream of `FrameStream`, and `frame_` to the pieces cut off it.

### 2.6 DriverNode

`main_pc` is the thread of ROS: `MakeNode`, then in the order of `InitLdsLidar` and
`LdsLidar::InitLivoxLidar` the start of the SDK, the devices of the file (`FillDevice`), the
four registrations, the poll threads; then `~DriverNode`. `p[k]` is the producer of a kind
(`"pcl"`: the raw data thread, `"imu"`: the data loop), `c[k]` the poll
thread. A handle is a number, its place `map_index[h]`. `inserting` is a
lidar whose entry is being inserted in `map_index_` by the cmd loop while `GetIndex`, which takes
no lock, searches: the search may miss (`Lookups`). `imu_callback = "assigning"` is a `std::function`
half assigned, which a sample may find empty. A file is a sequence of entries with the members the
JSON object has, an entry without an address is passed over; `Int8` is the cast every setting goes through. The SDK, `LdsLidar` and
`PubHandler` are singletons that survive the node, and so do `is_initialized`, `request_exit` and the raw
data thread. `stored` (which packets of a lidar were kept) and the node in a message (`by`) are history: the
promise to a reader of a topic is relative to the `multi_topic` of the node that published it. `Fits` are the
values that survive the cast and the type of their setting. `LidarId` is the `uint8` a custom message has for the handle: the
low octet, which is the first number of the address, so the lidars of a network mostly share it (the two of the run do). Left out: the fields of a point, replay files (`invalid data_src`), a lidar of an unknown
handle at index `SlotCount`, which the code checks.

### 2.7 SdkLifecycle

`app` is the thread of the application, at its place in `DeviceManager::Init` or
in `LivoxLidarSdkUninit`. A loop has its descriptor (`open[l]`: the session of the socket behind it, 0 for
none), what its multiplexer watches (`delegate[l]`), the tasks posted to it and the place of its thread
(`l_pc[l]`). Between the poll (`Poll`) and the read (`Receive`) the descriptor may have been closed, or
closed and opened again. Tasks are posted, and run at the end of a turn (`RunTasks`). A lidar
of a type found by broadcast is registered by the detection loop, which opens
its sockets (`Register`); in view mode the answer to a query does (`Command`). `crashed` is the use
of a null `CommPort`. `late` is a history flag: a loop opened a socket for a session that was
over. Left out: poll, select and kqueue (the image uses epoll), the wake-up pipe, more than one lidar.

### 2.8 Upgrader

`upgrade_event_table` is the table of the code, row by row; `FsmEventHandler` looks the event up, sets
the state and runs the handler, which sends at most one command. A call of it is two steps: up to the state and the command it sends,
and the read of `observer_` after that (`Observe`); a last state sends no command. `calls[t]` counts the calls on thread `t`,
an IO loop or `upgrade_thread_`, that have `observer_` still to read. The next answer may arrive, on another loop, before the call that
sent the command has read it, and the destructor may free the upgrader: it polls the state and joins
`upgrade_thread_`, but waits for no loop. `pending` keeps each command with its offset:
the lidar may have handled it although its answer is lost. A failing send reports at once, inside the call that sends (`by`), and
leaves its entry, so two verdicts come (§2.2). `PromptStart` says that `upgrade_thread_` gets to run in the first 100 ms, before the destructor
first looks: in the code the initial state is also the final one. Left out: reading the
file and its checksum, the progress the observer is told, several lidars (each has an upgrader of its own).

### 2.9 LogCollection

`h_pc` is the cmd loop inside `LoggerManager::Handler`, `w_pc` the writer of a lidar, `c_pc` the cleaner, `d_pc` the
caller of `Destory`. A packet is its file and transaction number; `Flag` says which are the first and the
last. The writer takes the whole queue (`SaveToFile`), then writes packet by packet. A file
name is the second and the number of the file, so a file created twice in a second is continued. `StartCleaning` lists the
directory when it is too big, `RemoveOldest` takes the first of the list. Left out: two types
of log with the same code, `Start` and `Stop` of a log, which only send a command, the serial number.

### 2.10 LidarParams

One lidar of one type, with a file (`cfg`) or in view mode. `LivoxLidarSdkInit` parses, checks and opens sockets
(`channel_info_`: address and port to the address bound, where `InetAddr` has no address for a text with a number of 256); `UpdateLidarCfg` and the setters build requests;
the lidar (external) stores what a request holds and pushes what it has; `OnData` dispatches on the port of the lidar, the
handler of its family tests it again, and the parser and the printer follow. A pushed state is a table from keys to parameters: each key
occurs once, the order does not matter. A value is abstract, but its
length, its address fields, the field it is copied to and the field it is printed from are those
of the code, one entry for each `case` of the parser and each member of the printer. `by` and `arg` are history: who set it, and
to what. Left out: the framing and CRC of a packet, the text form of numbers, log requests. `ParamsInit`, `ParamsNext` and
`ParamsTypeOK` have names of their own, so that `LidarBringUp_proofs` can extend this module too.

`FlowsReachHost` has three exceptions, two of them with multicast: the state flow, whose socket is not the one the file names
(finding `params_multicast.cfg`), and a data port equal to the detection port, for which `CreateDataSocket` opens no socket of the
multicast address. No file of the repository has such a port; the proof showed that the property is false without this clause. The third
(`AsDocumented`) is an address with a number of 256, which the lidar is told as 0 and which `inet_addr` takes for the broadcast address; one
file of the run has it.

## 3. Runs

Every passing run checks deadlock only where the system cannot stop; all these
systems may stop (no more frames, no more commands, the node destroyed), so the
cfgs turn it off and liveness properties say what must still happen.

| run | instance | what it shows |
|---|---|---|
| `pipe` | 2 lidars, ring 2, counters mod 4, 5 and 2 frames, exit at any time | the first ring goes round twice and its counters past their end, the second ring races it for the semaphore: `SlotExclusion`, `FramesIntact`, `NoLostWakeup`, `RefinesFifo`, `FramesDelivered`, `SignalEndsExit` |
| `commands` | 3 commands, one per family, 2 sequence numbers, 2 loops, failing sends | `OwnAnswer`, `AnswerCounts`, `RefinesPromise`, `CallbackComes` |
| `commands_early` | 2 commands to a Mid360 | **violated**: `TimeoutIsTrue` |
| `frames` | a lidar that gains synchronisation (4 packets), one without (1), interval 2 ticks, 4 ticks | `RefinesStream`, `OneFramePerInterval`, `NoSyncRate`, `LastPacketTaken`, `UninitEnds` |
| `config` | 2 settings, one refused; known or not, HAP or not | `SamplingMeansAnswered`, `EventuallyConfigured` |
| `bringup` | 1 lidar, 3 loops, gives up after 2 failures | `QueryNeverLost`, `ToldOnce`, `ToldMeansConfigured`, `EveryoneTold` |
| `upgrade` | 3 blocks, 2 loops, limits 3 and 4, one failing send, lidar known or not | `NothingSkipped`, `NoneToCome`, `UpgradeEnds` |
| `lifecycle` | 2 sessions, view or not, lidar in the file or found, one socket that fails | `OwnSession`, `BroadcastUsable`, `RemovedIsQuiet`, `Listens`, `UninitEnds`, `LoopsFallSilent` |
| `logger` | a file of 4 packets and one of 2, 4 deliveries, room for 2, 2 seconds | `ContentsInOrder`, `WritersKnown`, `OpenFileKept`, `DestoryEnds` |
| `params` | 16 files (each type, multicast, one thing wrong in some), every setter | `ReportIsWhatWasSet`, `FlowsReachHost` |
| `driver` | 2 lidars whose addresses begin with one number, 2 places, 2 files, a popping format with a topic each and PCL with one for all, 2 deliveries | `TopicCarriesItsLidar`, `SentAsConfigured`, `Promptly`, `ExitEndsOrParks` |
| `driver_blind_spot` | blind spots of 50, 127, 128 and 200 cm | **violated**: `BlindSpotAsConfigured` |

The other cfgs are checks to be run by hand: questions answered once, of which the project keeps
the answer and the means to ask again.

| cfg | module | what TLC says |
|---|---|---|
| `pipe_pcl.cfg` | `MCPointCloudPipe` | `ExitEndsOrParks` holds of a publisher that never pops |
| `pipe_weak.cfg` | `MCPointCloudPipe` | without program order `FramesIntact` is violated |
| `pipe_parks.cfg` | `MCPointCloudPipe` | `ExitEnds`, without the exception for a parked thread, is violated |
| `bringup_count.cfg` | `MCLidarBringUp` | `GaveUpAfterRetries` is violated |
| `bringup_loader.cfg` | `MCLidarBringUp` | `LoaderLeftAlone` is violated |
| `config_refused.cfg`, `config_send_fails.cfg`, `config_imu.cfg` | `MCLidarConfig` | `SamplingMeansApplied`, `NoNullResponse`, `ImuEventuallyEnabled` are violated |
| `upgrade_skips.cfg` | `MCUpgrader` | `XferSucc` is violated |
| `upgrade_observer.cfg` | `MCUpgrader` | `ObserverRead` is violated |
| `driver_same_id.cfg` | `MCDriverNode` | `IdTellsLidars` is violated |
| `lifecycle_mute.cfg` | `MCSdkLifecycle` | `ScanRuns` is violated |
| `params_multicast.cfg` | `MCLidarParams` | `PushesReachHost` is violated |

### 3.1 Bounds, and why they are enough

* **Ring of 2, counters modulo 4.** The code has powers of two and 2^32; what
  counts is that the size divides the range of the counters, and that both wrap.
  The theorems hold for every such pair.
* **5 and 2 frames** (`MaxFrames`, one bound per lidar): three overrun a ring of two, five take
  the counters past their end with a full ring; the second lidar needs two to meet the first
  in the semaphore at every point. The theorems have no such bound: `MaxFrames` is any
  function to the naturals.
* **3 commands, 2 numbers, 2 loops.** A number is reused while old answers may be
  delayed; a timer and an answer, or two timers, race. `OwnAnswer`, `AnswerCounts`
  and `RefinesPromise` are proved for any number of each.
* **4 packets, 4 ticks, interval 2**: two synchronised frames, each from its first packet to the
  next multiple of the interval, need two packets each. The packet of the other lidar and its IMU data flip
  the flag at every point. The theorems on `FrameAssembly` hold for any
  `TimeTypes` and `MaxTime`. `StampMod` (2^64) is beyond every stamp, so that only negative differences wrap.
* **2 settings** are the fewest for an answer to one to race the sending of the other.
  `MaxOutstanding` (commands of one kind under way) is 1 in the passing run: `OneUnderWay`
  holds with 2 as well, so the bound cuts no behaviour of a lidar that is not a HAP.
* **1 lidar, 3 loops** in `bringup`: the loops race for the flags of one lidar. Lidars
  meet only in the retry counter, which `bringup_count.cfg` has two for; the invariants are
  proved for any number. `MaxRetry` is 10 in the code; 0 or 1 reaches "give up".
* **3 blocks, one failing send**: a block that is neither first nor last can be lost, repeated and
  answered late. Two loops let a callback begin while another has `observer_` to read. Limits of 3 and 4 keep the two limits of the code (10 and 30) different and reach both.
* **2 sessions, one failing socket**: the loops of a session meet the sockets of the next; a
  failed `Init` is followed by another. A third session repeats the second, since a session is only ever compared with
  the one before.
* **4 deliveries, 2 seconds, room for 2**: a file with all its packets, or parts of two; the directory is
  too big as soon as a third packet is written; two files share a second or do not.
* **1 call, 2 updates, 1 push** in `params`: a setter overwrites, or is overwritten by, what the SDK
  sets, and the push comes before, between or after. Each file differs from the
  documented one in one thing. The integers stay small: `UintModulus` 16 instead of 2^32.
* **2 places, 2 deliveries, 1 info change** in `driver`: two lidars fill the table; a frame of each, two
  of one, a frame and a sample meet at every point of start and exit. `MaxNodes` is 1:
  a second node gets "already inited" and a process that publishes nothing (§4); the violation run has two.

### 3.2 Fairness

Threads that can run do run: weak fairness of the raw data thread, the poll thread, the
destructor once begun, senders, loops and callbacks; in `FrameAssembly` the push and `Uninit` once begun;
in `DriverNode` start and exit once begun, in `SdkLifecycle` `Init` and `Uninit`, in `LogCollection` the writer, the cleaner
and `Destory`. `DestoryObservers` is strongly fair: the mutex of the observers is free again and again, and a
mutex of the C library that never lets one of two threads in is not the code's fault. The cleaner's ten
minutes are left out of the fairness, so `DestoryEnds` does not wait for them. Entries get old enough to
expire (weak fairness per command: the timer is periodic). Nothing forces a
frame, a command, an exit, the registration of a callback or, in `CommandTable`, an answer or a
successful send. The bring-up modules and `Upgrader` need the lidar: one that is asked
again and again answers in time once, a send tried again and again succeeds once
(strong fairness), and it answers the broadcast of each second. A callback of `Upgrader` returns (weak fairness of each `Observe`),
if the observer the application gave does. Without this no retry could
ever end, and the code has no bound on its retries but the counter of the firmware query.

## 4. Findings

Two runs state what a message, comment or document of the repository says, and TLC
finds the code doing otherwise:

* `commands_early`: the general `SendCommand` enters a command for a Mid360, Mid360s or Avia2
  in the table after it was sent. An acknowledgement read in between is dropped; the
  answered command is reported as `kLivoxLidarStatusTimeout`.
* `driver_blind_spot`: the parser casts every setting to `int8_t`; a blind spot above 127 cm, of a documented
  range to 200, goes out as another number (or as none: 255 would read as "not set").

Found in the same way, with a cfg to be run by hand:

* `bringup_count.cfg`: the retry counter of the firmware query is one static variable for
  all lidars and is tested first. After the failures of one lidar the next answer,
  of any lidar, is thrown away; a lidar in its loader is then taken for one that runs its application.
* `config_refused.cfg`: the callbacks test the status, not `ret_code`: a refused setting counts
  as set, with the message "successfully set …".
* `config_send_fails.cfg`: SendFailed comes with a null response that the callbacks of the settings
  dereference.
* `config_imu.cfg`: in the callback of the IMU switch the null test precedes the test
  for a time-out, so the retry is dead code.
* `pipe_weak.cfg`: `volatile` counters order nothing on arm64: a frame may be popped
  before its points are written.
* `upgrade_skips.cfg`: a failed send of a block calls back twice; the second time another block is in progress, whose
  retry and answer both advance the offset: a block is skipped and "Xfer firmware succ" is said.
* `lifecycle_mute.cfg`: the detection thread is started before `is_stop_detection_` is
  cleared; in a second session it may leave at once, and `Init` reports success.
* `upgrade_observer.cfg`: the callback that stores the last state reads `observer_` after it, while the destructor waits for the state
  and for no loop: with a prompt start and every send successful, the upgrader can be freed under the callback.
* `driver_same_id.cfg`: `livox_ros/README.md:181` calls `lidar_id` the "Lidar device id number"; it is the first number of the address,
  so two lidars of one network have the same.
* `bringup_loader.cfg`: `is_get_loader_mode` is stored before `is_loader_mode`; a detection in between sends a network
  configuration to a lidar in its loader.
* `pipe_parks.cfg`: `~DriverNode` waits for ever for a poll thread blocked on the semaphore, which nobody signals on exit (`Parked`, the exception in
  `ExitEndsOrParks`); `SignalEndsExit` says when it does return.
* `params_multicast.cfg`: with `multicast_ip` a Mid360 is told to push its state to the group, but no
  command socket is bound to it.

Noticed, with no cfg of their own. In the driver: the poll thread of the IMU parks as the one for point clouds does;
a node after the first finds "already inited" and `request_exit_` still set, and its poll threads spin; an invalid `data_src` leaves
`lds_` null and the destructor uses it; a lidar the file does not name gets a place and no handle there, so two of them
share the topic `lidar_0_0_0_0` and the id 0, a second info change sends it a configuration of
zeros, and its IMU queue grows as long as it is not Sampling; on the shared IMU topic a message does not say whose it is; of two
entries with one address the last counts; lidars beyond the 32nd are passed over without a word; a lidar announced before the
driver registered its callback is never configured (the exception in `EveryoneTold`);
a lidar that gains synchronisation within a frame mixes two clocks in it, and the
offsets computed at `lddc.cpp:395` wrap; after a pause without synchronisation frames come in a burst until
`last_pub_time_` has caught up; the default rotation at `pub_handler.h:67` has the row 0 1 1.

In the SDK: a HAP's callback may be called twice with contradicting statuses (`VerdictShape`); a lidar in
its loader can be announced twice (the exception in `ToldOnce`); a failed `Init` undoes nothing, `Uninit` then returns
at once, and the next `Init` finds its addresses in `channel_info_` and adds no delegates (the exception of
`failures` in `Listens`); a lidar registered while `Uninit` runs leaves sockets open
(`late`), and a loop that holds a packet when `comm_port_` is reset crashes; data sockets of the view mode are closed, but
their delegates never removed; `commands_` is not cleared by `Destory`, which declares locals of that name; an observer that removes
itself waits for the mutex it is called under; `SetPointDataCallback` stores callback and client data unlocked.
The upgrader is polled as finished before it began if its thread starts late (`PromptStart`), waits for ever for a lidar the SDK does
not know, and counts a reboot it gave up as success. Logs: a packet before its lidar is known uses a null
handler (`crashed`); what is queued when `Destory` comes was acknowledged and is lost; a late
duplicate of a first packet splits a file, and a late last packet of one closes the next; an
`OnLoggerCreate` after the handlers were cleared starts a writer only the next `Destory` joins; logs of a type from 2 on
are never cleaned. Parameters: `IpToU8` takes 256 for 0, where `inet_addr` finds no address, and accepts a trailing dot; `ForceHeatEn`, `SetPpsSyncMode`,
`LogParamSet`, `WorkModeAfterBoot` and `CurGlassHeatState` can be set or pushed but are not parsed; negative offsets of an
attitude are printed unsigned; an empty value at the end rejects the message; the ports of HAP and Avia2 are taken
as they come, and any port is cut to 16 bits; the update of a viewed lidar is sent once; a point port
equal to the detection port opens no socket.

## 5. Proofs

All theorems hold for every value of the constants that meets the named assumptions
beside their declaration (a positive ring size that divides the range of the counters,
at least one sequence number, the two loops that detection and acknowledgements need, and the like).

| module | theorem | states |
|---|---|---|
| `PointCloudPipe_proofs` | `TypeCorrect` | `Spec => []TypeOK` |
| | `SlotsAreExclusive` | in program order: `[]SlotExclusion` |
| | `RingSafety` | in program order: `[]FramesIntact` |
| | `RingRefinesFifo` | in program order: the pipe implements `FrameFifo` |
| | `WakeUp` | `[](SemaphoreBinary /\ NoLostWakeup)`, with any memory order (`SemaphoreBinary`, the part of the invariant that bounds the count, has no run of its own) |
| `CommandTable_proofs` | `TypeCorrect` | `Spec => []TypeOK` |
| | `AnswersMatch` | `Spec => []OwnAnswer` |
| | `AnswersCount` | `Spec => []AnswerCounts` |
| | `PortKeepsPromise` | `Spec => RefinesPromise` |
| | `VerdictsHaveShape` | `Spec => []VerdictShape` |
| `FrameAssembly_proofs` | `TypeCorrect`, `NoSyncRateHolds`, `OneFramePerIntervalHolds` | `[]TypeOK`, `[]NoSyncRate`, `OneFramePerInterval` |
| | `ImplementsStream` | `PubHandler` implements `FrameStream`: `Spec => RefinesStream` |
| `Driver_proofs` | `TypeCorrect`, `TopicsCarryTheirLidars`, `SettingsAreSent` | of `DriverNode`: `[]TypeOK`, `[]TopicCarriesItsLidar`, `[]SentAsConfigured` |
| | `ConfigTypeCorrect`, `SamplingIsAnswered`, `NeverTwiceUnderWay` | of `LidarConfig`: `[]ConfigTypeOK`, `[]SamplingMeansAnswered`, `[]OneUnderWay` |
| `LidarBringUp_proofs` | `TypeCorrect`, `QueryIsNeverLost`, `IsToldOnce`, `ToldIsConfigured` | `[]TypeOK`, `[]QueryNeverLost`, `[]ToldOnce`, `[]ToldMeansConfigured` |
| | `ParamsTypeCorrect`, `FlowsAreHeard`, `ReportIsFaithful` | of `LidarParams`: `[]ParamsTypeOK`, `[]FlowsReachHost`, `[]ReportIsWhatWasSet` |
| `SdkLifecycle_proofs` | `TypeCorrect`, `PacketsOfOwnSession`, `BroadcastIsUsable`, `RemovedObserverIsQuiet`, `InitialisedListens` | `[]TypeOK`, `[]OwnSession`, `[]BroadcastUsable`, `[]RemovedIsQuiet`, `[]Listens` |
| `Upgrader_proofs` | `TypeCorrect`, `BlocksInOrder` | `[]TypeOK`, `[]NothingSkipped` |
| | `NoCallbackBegins` | with `PromptStart`: `Spec => []NoneToCome` |
| `LogCollection_proofs` | `TypeCorrect`, `FilesInOrder`, `WritersAreKnown`, `OpenFileIsKept` | `[]TypeOK`, `[]ContentsInOrder`, `[]WritersKnown`, `OpenFileKept` |

The inductive invariants, and why the properties alone do not suffice:

* **Rings.** `FramesIntact` says nothing of the slots. `RingInv` ties the wrapped
  counters to the lengths of the histories (`wr_idx = Len(accepted) % CounterMod`, at
  most `QueueSize` apart) and each waiting frame to its slot. `ProducerInv` and
  `ConsumerInv` say what has been written, or read, of the slot in progress. The
  arithmetic of the two moduli is in lemmas of their own. With it `SlotExclusion`
  follows: a writer in its slot has fewer than `QueueSize` frames waiting.
* **Wake-up.** `WakeInv` names for every Sampling lidar with frames whoever will
  serve it: a count on the semaphore, a producer about to test or signal, a sweep not past the
  lidar. The proof that each step hands this on to another is the argument that two unlocked
  tests suffice.
* **Commands.** `UniqueInv`: commands whose number is in use have different numbers;
  `EntryInv`: an entry belongs to a command that carries its number. So an answer
  finds its own command or none (`OwnAnswer`). `EntryWaits`: a command that entered the
  table first and whose answer is still possible is in the table unless it timed out
  (`AnswerCounts`). `PortInv`: its only entry is gone for good once a final verdict was
  decided (`RefinesPromise`). For `VerdictShape`, `ShapeInv` lists for each step of a command's thread what its callback
  may have been told, with and without an entry in the table and with and without a message on its way: the two entries
  of a HAP account for every second verdict, and there is no third entry.
* **Frames.** `RateInv`: the frame after next is due at `first_time` plus a multiple of the interval, and
  never before `now`. For `OneFramePerInterval` the stamps must be followed from the observer on: `OrderInv`
  says that synchronised packets are taken in the order of their stamps and that none still to come is
  earlier than the last frame's end; `FrameInv` that what was collected since is synchronised, in order and not
  earlier. So the difference in `CheckTimer` does not wrap, the new end is at least a millisecond later, and two
  different multiples of the interval are an interval apart.
* **Stream.** The mapping counts what is arriving, queued and collected of a lidar; that an action of
  `FrameAssembly` appends one packet to it, moves packets within it or cuts a piece off its front is a fact about
  the recursive function `OfLidar`. The library's induction takes an operator, so `NatInd` states it for a set of naturals,
  from the well-foundedness of `<`; with it `OfLidar` is shown to exist, to distribute over
  concatenation and to ignore the packets of other lidars. Every step is then one of `FrameStream` or a stutter.
* **Topics.** `TopicCarriesItsLidar` looks at what was published; the proof follows a sample from the lidar's
  place on. `IndexInv`: no two lidars share a place, and a place has the handle of its lidar or
  none, whoever gave it and although the look-up is not locked (a search that misses drops the sample, it never finds another's
  place). `QueueInv` and `HandInv`: a queue holds samples of the lidar of its place, in order and after the one in hand;
  `KeptInv`: what was stored is published, in hand or queued; `OutInv`: what was published of a lidar came in that
  order. A publisher keeps the name it was made with, and `PubsInv` says that this is still the name of its place, because
  nothing fills a place anew: the second node fails in `InitLdsLidar` (`PhaseInv`). Of the id in a custom message the theorem
  says which octet it is, not that it tells lidars apart.
* **Settings.** `SettingInv`: a place has the settings of the last entry of its lidar among those filled so far, and
  what was sent is what the place has. The places are complete before the callback that sends is
  registered (`PhaseInv`, `SilentInv`). A setting that fits comes through `Int8` unchanged, and none becomes the value that means
  "not set".
* **Configuration.** `BitsInv`: a setting is still to be sent, has its bit set, or was
  answered; `LockInv` and `QuietInv` say when the lock is held and that nothing
  happens before. `OnceInv`: a command is with the lidar or with the callback that sends it again, and with neither
  before `LidarInfoChangeCallback` sends it; so it is never under way twice (`OneUnderWay`).
* **Bring-up.** `QueryNeverLost` is inductive with `TypeOK`. For `ToldOnce` and
  `ToldMeansConfigured`, `AnnounceInv` shows that a lidar with an application is never taken for
  one in its loader (`LoaderKnown`), so only the cmd loop announces it, after an accepted
  configuration (`CmdAnnounces`); with one loop, test and set of `is_callback` in two steps
  do no harm (`ToldOnceStored`).
* **Flows.** `FlowsReachHost` looks at what the lidar holds; `WireInv` and `HeldInv` say the same of each parameter on its way
  (`FlowHeard`, for addresses that are the same to the lidar and the socket: `AddressesGood`, `SameAddress`), so that a lost or late request does no harm. `SocketInv` says what is open: what `CreateChannel` opens for the
  file, and a lemma per kind of socket that no later one closes or rebinds an earlier one (`Grown`). In view mode the sockets
  are opened when the lidar's answer arrives, and before that the SDK has set nothing (`NothingSet`); a
  request announces no more parameters than it has (`RequestInv`).
* **Reports.** `SoundInv` says of each parameter, from the request to the push, that its value has the length of its field and is,
  as printed, what was given (`Sound`). It begins with the setters (`AllSettersFit`: each writes the length the parser copies)
  and with the flows of the file (`FlowIsSound`), and ends with three facts on the tables: the printer reads the field the parser
  writes (`PrintedAsParsed`), no field belongs to two parameters (`OneKeyPerField`, by the inverse table), so what was parsed is printed
  (`PrintedIsParsed`). The proof asked for two facts of the configuration that `Config` now states: an address is a text of
  numbers, and a lidar is only viewed with a `host_ip` (`LivoxLidarSdkInit` refuses to start with neither file nor address).
* **Sessions.** `OwnSession` looks only at a loop that handles a packet. `SessionInv` follows the socket from where
  it is opened: in the order in which `Init` starts the loops anew, each is fresh or still of the session before; what a
  loop watches, is about to watch or holds is of the session the loop belongs to. `DetectionInv` ties the steps of
  the detection thread to those of `Uninit` (the socket and the `CommPort` go only after the join), and `ListenInv` follows a
  socket from its task to the loop's table.
* **Upgrade.** `AloneInv`: commands come one after the other, in the state that sent them, so a late answer
  meets the state it belongs to; `Transferred` says what the lidar has in each state. A send that fails recurses into
  the state machine and breaks `AloneInv`, which is why `NothingSkipped` and `NoneToCome` speak of `failures = 0`
  (`upgrade_skips.cfg` skips a block otherwise). `NoneToCome` is all that the state, which is all the destructor waits for, can
  promise: the callback that stored it may be running still (`upgrade_observer.cfg`). With failing sends, the commands under way are at most one more than
  the sends that failed, which bounds them for `TypeCorrect`.
* **Log files.** `WriterInv`: the last packet in the open file is not later than `trans_index`, unless the cleaner
  has deleted the file; so the test against `trans_index` is a test against the file. The proof showed that the clock
  must have a first second (`MaxTime > 0`), which `LogAssumption` now says. For `OpenFileKept`, `DiskTimes`: no name on disk
  is of a later second than the open file's, and what is not on the cleaner's list is not earlier than what is. So when
  the first of the list is the open file, the others are of its second, or it is the only one and too big by itself.

Every invariant, action property and refinement that a passing run checks is proved, under the conditions of the
table (program order for the rings, `PromptStart` for the upgrade). Only model-checked:

* the liveness properties (`FramesDelivered`, `ExitEndsOrParks`, `SignalEndsExit`, `LastPacketTaken`, `UninitEnds`,
  `CallbackComes`, `EventuallyConfigured`, `EveryoneTold`, `UpgradeEnds`, `LoopsFallSilent`, `DestoryEnds`,
  `Promptly`): fairness and `ENABLED` are beyond the prover.

## 6. Plan, and what is not modelled

Planned, in the order of importance:

1. **Composition** of `FrameAssembly` with the pipe (the pieces cut by the one are
   the frames the other delivers or drops), and of `LidarBringUp`, `LidarConfig` and the `sampling` flag: from
   detection to the first published frame.
2. An **abstract life cycle** of a session that `SdkLifecycle` implements.

Not modelled:

* the **debug point cloud** handler: three functions that open, append and close a file per lidar;
* the **fields of points and messages** (`lddc.cpp`, `PointCloudProcess`), framing and CRC of packets
  (`sdk_protocol.cpp`), the firmware image and its checksum: sequential arithmetic in which a property would restate
  the assignment; a unit test says more;
* **poll, select and kqueue** and the Windows code: the images use epoll;
* the `livox_lidar_api` functions that only forward to a handler, beyond the setters of `LidarParams`;
* **PA** lidars, whose type the SDK knows but the driver does not configure;
* sockets, clocks and the allocator of the operating system are environment: they fail, lose and reorder as their
  interfaces allow. Containers, samples and vendored libraries are out of scope.
