# A formal model of the INDI device watchdog

TLA+ modules, TLC runs and machine-checked proofs about the program in
`src/source/indi-device-watchdog`. The program connects to an INDI server as a
client, looks at a list of configured devices every five seconds, compares the
Linux device file with the INDI device, connects and disconnects INDI devices,
and has the INDI server restart a driver (a `stop` and a `start` command written
to a pipe) when the Linux device is there but the INDI device is not.

## 1. Inventory

### Components

| component | state | operations | correct when |
|---|---|---|---|
| Restart manager (`indi_driver_restart_manager.*`) | `driverRestartMap_`, a counter per driver | `requestRestart`, `requestImmediateRestart`, `reset`; private `restart` writes the pipe | one request in `restartTriggerLimit_` is granted per driver; a stopped driver is started again |
| Device watchdog (`indi_device_watchdog.*`) | `connected_`, `client_`, `deviceConnections_` (per device its configuration and an INDI base device), `deviceConnectionsMutex_`, the listeners' connections | `run`, `handleDeviceConnection`, `resetIndiClient`, six listeners | devices that are plugged in end connected, absent ones disconnected, missing ones have their driver restarted, at a pace; the main loop goes on |
| INDI client (`indi_client.*`) | the library's state, detached connection threads, eight signals | `connect`, `disconnect`, `isConnected`, notifications from the listener thread | attempts do not pile up and do not outlive the client they connect |
| `wait_for` (`wait_for.h`) | a start time by the system clock | polls a condition every 100 ms, throws after a timeout | outlasts the attempt it waits for, and ends |
| Device data (`device_data.*`) | four configured fields, one base device | getters, setters, printing | |
| Configuration loader (`device_data_persistance.*`) | none | `load` | bad input ends the program in order |
| Verbosity option (`option_level.h`) | a level | `validate` | `-v`, `-vv`, `-v 2` in any mixture set the level they say |
| `main` (`main.cpp`) | the options stored so far, a caught error | parses and stores options, shows help or an error, sets the log level, loads the configuration, constructs and runs the watchdog | starts with all that was configured or says why not |
| Logging (`logging.*`) | none that matters later | start-up | |

Outside the repository, and modelled only as far as the code relies on it: the
INDI library (`INDI::BaseClient`, its listener thread, its base devices), the
INDI server with its FIFO, the drivers, the Linux device files.

### Interaction

* `run()` calls the client (`connect`, `isConnected`, `sendNewSwitch`), the
  restart manager, and the file system, from its own thread.
* `IndiClientT::connect` starts a detached thread; when it fails it calls back
  into the watchdog and clears `connected_` (no lock).
* The library's listener thread calls `addIndiDevice` and `removeIndiDevice`,
  which need `deviceConnectionsMutex_`; `run()` holds it during a whole round,
  the restart (a blocking open of a FIFO) and the reset of the client included.
* A base device is a handle that shares its data with the client that announced
  it: the watchdog reads and writes the switch that the listener updates.
* The server reads the pipe on its own time; devices of a restarted driver
  disappear and come back as messages to the listener.

### What is hard here

Two threads and a mutex held across blocking calls; handles that outlive the
client that made them; callbacks that wait while their client is dropped; a
switch written locally before the driver has agreed; a restart made of two
commands with a crash in between, after which a new process has to find out from
the Linux device alone that a driver is down; a counter that paces restarts over
rounds that a restart cuts short; lost links, timeouts longer than the wait for
them, detached threads that nobody joins, and a wall clock for a deadline.
`PROJECT.json` lists each such hazard at its line, with the properties that cover
it.

## 2. Modules

| module | what it is |
|---|---|
| `RestartCounter` | the arithmetic of `requestRestart` as operators on `driverRestartMap_`, shared by the two machines below |
| `RestartManager` | the restart manager with the pipe, the server's end of it, and the deaths of both processes |
| `RestartThrottle` | abstract: what the manager promises, as refusals still due; `RestartManager` implements it, and so does `WatchdogProcess`, the program that asks |
| `IndiWorld` | external: device files, server, drivers, link, and their faults |
| `DeviceWatchdog` | `run()` with all it calls, the client's two threads, the listeners; composes `IndiWorld` and `RestartCounter` |
| `WatchdogProcess` | `DeviceWatchdog` as a process that is killed and started anew, with the two commands of a restart apart and the answers of `requestRestart` |
| `SlowWorld` | `DeviceWatchdog` with a world that lags behind by a bounded number of rounds |
| `RestartPacing` | `DeviceWatchdog` with a history variable that counts rounds |
| `PacedRestarts` | abstract: at most one restart a session, and one per driver of k devices in `RestartTriggerLimit` / k rounds |
| `Connecting` | the connecting half of `run()` with its clock: `connect`, the detached threads, `wait_for` poll by poll |
| `ServerSession` | abstract: one attempt at a time, none in a session, sessions end by the reset; both `Connecting` and `DeviceWatchdog` implement it |
| `Main` | `main`, the verbosity option, the configuration loader, the watchdog's constructor; composes with `Connecting`, to which it hands the timeout |
| `MCDeviceWatchdog`, `MCWatchdogProcess`, `MCSlowWorld`, `MCRestartPacing`, `MCMain` | devices, drivers, orders, command lines and files for TLC |
| `RestartCounterProofs` | lemmas about the counters, for the three proofs that need them |
| `RestartManagerProofs`, `DeviceWatchdogProofs`, `RestartPacingProofs`, `ConnectingProofs`, `MainProofs` | theorems about the module of that name |
| `WatchdogProcessProofs` | theorems about `WatchdogProcess`, on top of those about `DeviceWatchdog` |
| `VerbosityProofs` | theorems about the options' sum and the types of `Main` |

### RestartManager and the code

| here | there |
|---|---|
| `driverRestartMap` | `driverRestartMap_`; its domain is the set of keys |
| `job` | the call of `restart()` in progress: before the open (`open`), between the two commands (`half`); `counted` if `requestRestart` made it |
| `answer` | what `requestRestart` returned last |
| `RequestGranted`, `RequestDeclined`, `RequestImmediateRestart`, `Reset` | the public methods |
| `WriteStop`, `WriteStart`, `OrderLost` | lines 51-64; both commands end with `std::endl`, which flushes, so they are two steps |
| `path` | what `std::ofstream` finds: a FIFO, nothing it can open, or nothing, in which case it creates a file |
| `ProcessDies` | the process ends (a signal, or `SIGPIPE`) and is started anew; counters live in memory only |
| `cut` | history: drivers whose start command was lost that way |

### DeviceWatchdog and the code

`pc` says where `run()` is: `connect` and `wait` (lines 325-341), `loop` (345),
`sleep` (346), `look` (the head of the `for` and the reads of
`handleDeviceConnection`, 350 and 271), `decide` (278-302; the file is tested
here, after the switch), `turnOn`, `turnOff` (291, 304), `request`, `restart`
(173), `reset`, `renew` (64-111 before and after the old client is gone). `next`
is the iterator. `HeldByRun` is the scope of the lock guard.

`deviceConnections[d]` abstracts the base device held for `d`: none; *live*, the
one the present client has; or one kept from a client or an announcement that is
gone, with the last data of its `CONNECTION` switch. `baseDevices[d]` is what the
present client knows of `d`. `calls` holds callbacks that wait for the mutex, with
a flag that is cleared when their client is dropped.

Three things the code leaves to others are constants:

* `StaleCallback`: a callback that waits for the mutex while `resetIndiClient`
  drops its client. `"joined"`: the library waits for its listener before the
  client is gone (a deadlock then: the mutex is held by `run()`). `"prompt"`: the
  callback gets the mutex before the next client connects. `"late"`: at any time
  later. `one_device` and all proofs allow any, `SeenIsKnown` being about the first two;
  the liveness runs assume `"prompt"`.
* `QuickWorld`: whether server, drivers and library settle within the five
  seconds between two rounds. Safety and pacing do not need it, recovery does.
  `SlowWorld` puts a number in its place (`MaxLag`).
* `PipeIsFifo`: whether an order reaches the server.

The restart is one step here; `RestartManager` and `WatchdogProcess` have its two
commands apart. In `WatchdogProcess`, `halfway` says that the first is flushed and
the second is not, `stops` what the server has still to stop, `answer` what
`requestRestart` returned last; `ProcessDies` may
happen at any step, takes all that `DeviceWatchdog` keeps in memory, and leaves the
drivers, the pipe's contents and the switch commands already sent. Messages and
property updates reach no state of the watchdog. The branch for the INDI API before version 2 differs in
syntax only. The destructor is not modelled, as `run()` does not return.

### Connecting, Main and the code

`Connecting` counts time in polls of 100 ms. `pc` is `connect` (the test in
`connect()`), `announce` (before its thread starts), `poll` and `sleep` (the head and
the foot of `wait_for`'s loop), `opened` and `thrown` (lines 336 and 339), `loop`
(345) and `round` (346-361, the sleep included). `attempts` holds for each thread in
`connectServer` the time it has left; `Latency` is by how much a sleep or a thread may
be late. `elapsed` is the system clock since `start`, which `ClockIsSet` moves and a
sleep, which is steady, does not. `lost` counts lost links, `failures` failed
attempts. `orphaned` remembers that `resetIndiClient` dropped a client under an
attempt, whose thread runs a member function of it.

`Main` has a `stage` for each part of `main()`: `parse` (the split of the command
line), `store` (option by option; what was stored stays when a later one throws),
`notify`'s check of the required option, `report` (help before an error), `level`,
`load` (entry by entry), `construct`, `start`, `running`; `help`, `error` and `aborted`
(an exception that is not caught) end the program, which is why the run's cfg turns
the deadlock check off. Boost's parser and the JSON reader are external: they are
modelled by what they throw, and when. `Level` is `validate()`, with unsigned
arithmetic modulo `MaxUnsigned + 1`. `CallRun` drops the inputs, which nobody reads
any more, so that the states of `run()` do not multiply by them.

## 3. Runs

| run | question | answer |
|---|---|---|
| `restart_manager` | are counters, throttle and drivers right under any requests, lost pipes, deaths on both ends? | yes |
| `one_device` | is the watchdog safe under all nine faults, a slow world and late callbacks? | yes |
| `pacing` | are restarts paced as `PacedRestarts` says, with three devices, two of them of one driver, and a slow world? | yes |
| `recovery` | do two devices of one driver recover from unplugging, crashes, refused connections, disconnections, withdrawn properties and deaths of the watchdog, between the two commands too, without losing a driver to a restart, or restarting it more often than promised, and does `run()` see what its client knows? | yes, in a quick world, from two faults |
| `rounds` | does the main loop go on, whatever crashes, and do restarts come to an end in a world that needs up to two rounds to settle? | yes, unless the library joins its listener |
| `main` | does the program start with all that was configured or end in order, and does it then open a session, for timeouts shorter and longer than the wait, late threads and a clock that is set? | yes |
| `lost_link` | is a broken link established again? | no: nothing ends the session |
| `dead_driver` | is a crashed driver always restarted? | no: not if it crashes while another restart resets the client |
| `hung_driver` | is a driver restarted when connecting its device fails? | no: sending the command counts as success |
| `restart_missing` | are only drivers of missing devices restarted? | no: the watchdog lets go of devices that exist |
| `optional` | may a device have no Linux device? | no: it is switched off when it is connected |
| `unplugged` | is an unplugged device always switched off? | no: not after a quick return and a second loss |

Six are disagreements between the code and what its README, its comments
or its build file say of it; each is a finding in `PROJECT.json` with the line it
quotes.

### Properties

*Safety of the manager.* `NoDriverLost`: when the server has read all that was
written every driver runs, but the one between its two commands and those a death
left there. `ThrottleSpec`: refinement of `RestartThrottle`.

*Safety of the watchdog.* `SeenIsKnown`: of a device that the watchdog holds and its
client knows, `run()` sees what the client knows once the callbacks for it are
through. A restart for one device leaves the base devices of all others behind, with
the data of the client that was dropped; a removal leaves one behind until its
callback has the mutex; and a callback of the dropped client may bring one back. All
of these are replaced when the next client announces the device, provided that no
callback of the dropped one comes after it: under `"late"` one may, and puts an empty
base device in place of the new one, which costs a restart of the driver. For devices
that the client does *not* know nothing replaces the data, which is `dead_driver`.
`RequestedDeviceIsValid`: no callback takes a device away
between its test and its use. `SettledSwitchIsTrue`: the switch written ahead is right when nothing is
under way. `SessionEndsByReset`: nothing else clears `connected_`. `SessionSpec`:
refinement of `ServerSession`. `PacedSpec`: refinement of `PacedRestarts`.

*Safety of the process.* `LostByFaultsOnly`: a driver is lost that stands still, or
will when the server reads on, with no command on its way that starts it; only a
fault adds one, a crash of its own or a death between its two commands, and never a
restart that deaths cut short and the next process repeats. `ThrottleSpec`:
refinement of `RestartThrottle` by the requests that `run()` makes, where a death
forgets the count.

*Connecting.* `SessionSpec`, of `Connecting` this time, for a timeout that fits into
the wait and a clock that is not set: what `DeviceWatchdog` takes for granted.
`AttemptsBounded`: with longer timeouts attempts overlap, but are a wait apart, unless
the link was lost. `ClientOutlivesAttempts`: the sleep of five seconds before a round
is what keeps `resetIndiClient` from dropping a client under an attempt; it does for
every timeout up to five seconds, even when the clock is set, and not beyond.
`AnnouncedIsTrue`: what subscribers of the client would have heard last is so, for a
timeout that fits into the wait (nobody in the repository subscribes).

*Start-up.* `VerbosityAsGiven`: mixtures of `-v`, `-vv` and `-v 2` against a definition
by positions. `StartsAsConfigured`: all entries or none; the first of two entries of a
name wins. `EndsInOrder`: which mistakes abort the program, which give an error, and
when help is shown, in whatever order they come on the command line.

*Liveness.* `RoundsGoOn`; `RestartsCease`; `RunOpensSession`: once `run()` is called a
session opens again and again; `PluggedIsConnected`, `UnpluggedIsDisconnected`: these
two say what happens again and again while the link is up, so that they stay
meaningful next to `lost_link`.

### Bounds

* `RestartTriggerLimit` is 3 everywhere, the number the watchdog passes.
* `MaxPipe` = 3 unread commands: enough for a complete order, the first half of
  the next, and for one that is cut in the middle by a full pipe.
* `MaxFaults`, 1 to 3: two faults are one that starts a recovery and one that hits
  it; after the last one the liveness runs go on for ever. `unplugged` needs three
  (lost, connected by another, lost again). `recovery` has two: a third meets what
  `dead_driver` shows, a stale handle of another device after a reset.
* `MaxLag` = 2 rounds in a row without a settled world (`rounds`). It is as many as the
  counter allows for: with three, a driver is restarted before it has announced its
  device, and so on for ever. The run also assumes that no round comes between the
  announcement of a device and of its `CONNECTION` property (`Whole`): such a round
  lets go of a base device that is not announced again.
* `main`: `MaxWait` and `RoundTime` are 5 polls instead of 50, the timeouts 3 (default),
  4 (fits with the latency), 5 (the attempt and its wait end together) and 12 (three
  attempts overlap, four after a lost link, which is the bound of `AttemptsBounded`);
  the clock is set once, back or ahead; two attempts fail and one link is lost. Command
  lines have up to three options in any order, or the path and three levels; files have
  up to two entries, of one name or two, complete or not. `MaxUnsigned` is 7, so that
  three options reach it and wrap around.
* A withdrawn `CONNECTION` property is a fault of `one_device`, `rounds` and `recovery`,
  and may come at any step, between the look at the switch and the command too. Such a
  request fails and asks for a restart of a driver that lives: at once if it is the
  first, else it costs the base device, and a restart some rounds later. Both end with
  the device connected again (`recovery`), are throttled (`ThrottleSpec`) and cease
  (`RestartsCease`). The round between the announcement of a device and of its
  property, which `Whole` and a quick world leave out, is in `one_device` and `pacing`
  (where it matters to no device, as none is connected automatically) and in the proofs.
* One device is enough for the safety of a handle, as no operation touches two;
  two devices are there where the order in a round matters (a restart of the first
  leaves the second out), with one
  driver (`recovery`) and with two (`dead_driver`); `pacing` has three, two of one
  driver and one of another, none of them connected automatically: requests for
  devices that fail to be switched are left to the proof.
* `WaitIsOver`: the connection timeout is shorter than the five seconds of
  `wait_for`. The default is three; `-T 5` or more breaks it. `Connecting` has the
  longer ones, and `SessionSpec` is what it and `DeviceWatchdog` agree on.

### Fairness

Weak fairness for the thread of `run()`, which the scheduler runs; strong fairness
for `WaitOk`, as `wait_for` looks every 100 ms and does not miss a connection again
and again by landing in its last 100 ms; weak fairness for the end of a connection
attempt, which has a timeout; strong fairness for the listener's messages and for a
callback that waits for the mutex, as the mutex is free during each sleep of five
seconds and a message overtaken by another stays in the stream; weak fairness for
the server to obey, to be started again, and for drivers to announce their devices
and to reply. `WatchdogProcess` adds weak fairness for the first of
the two commands and for the server to obey it; `Main` has weak fairness for its own
steps, for `run()`, for the end of an attempt and for time. None for any fault, for plugging a device in, or for other clients.

## 4. Proofs

Checked by TLAPS for all values of the constants that the named assumptions
(`LimitAssumption`, `MaxPipeAssumption`, `WorldAssumption`,
`ConfigurationAssumption`, `ConnectingAssumption`, `OptionsAssumption`,
`FilesAssumption`) admit:

* `RestartManagerProofs`: `Types`, `Counted`, `Throttled` (the refinement of
  `RestartThrottle`) and `NeverLost`. The types need that a refusal is given only
  below the last step, so no counter reaches the limit. The refinement maps a
  counter to the refusals still due, and needs `CountedIsGranted`: the map does not
  change while a granted restart waits for the pipe. `NoDriverLost` is inductive
  given the types: appending a stop needs the excuse that the restart is half done,
  reading a command moves its effect from the pipe into `running`.
* `DeviceWatchdogProofs`: all five properties of `one_device`, and `SeenIsKnown`, from
  one inductive invariant `IInv`. None of them is inductive alone. The types need
  that a live handle is of a device the client knows (`LiveHandleKnown`, an auxiliary
  fact about the model's own labels) and that the iterator is at a device where one is
  handled; `LiveHandleKnown` needs that an addition that
  waits is of a device still known (the listener delivers nothing while a callback
  waits), and that a client without a connection has no callback waiting.
  `SeenIsKnown` follows from `StaleReplaced`: a handle that is not live, of a device
  the client has, is about to be replaced by an addition that waits. It is kept because
  a stale callback that puts a handle back finds no client with devices
  (`StaleUnlinked`): when it waits, the reset is under way, or over and no attempt has
  begun since. `RequestedDeviceIsValid` needs that a device found connected keeps its handle up to
  the decision. `SessionEndsByReset` needs that no attempt outlives its
  wait, which is the bound `WaitIsOver` carried along (`NoLateAttempt`). The proof covers any
  number of devices and faults and all values of `StaleCallback` and `QuickWorld`.
* `RestartPacingProofs`: `RestartsArePaced`, the refinement of `PacedRestarts`, for any
  distribution of devices over drivers. The invariant relates a counter to the rounds
  since the last order: up to the limit, the counter and the devices of the driver that
  the round has still to deal with are together no more than those rounds times the
  devices of the driver.
* `ConnectingProofs`: types and all four properties of `Connecting`, for every timeout,
  wait, latency and way to set the clock. `ClientOutlives` needs that an attempt has
  less time left than the pause when the pause begins, which is so because at least one
  poll lies between. `SessionsImplemented` needs that the clock of the wait has counted
  at least what the attempt has used, and that the last sleep takes it beyond the
  attempt's end. `Bounded` gives every attempt a latest end, a wait earlier for each
  attempt that came after it and a wait later for each lost link; that none of them is
  past bounds their number.

* `WatchdogProcessProofs`: deaths leave `IInv` intact, as it relates what a process
  has in memory only to the switches the server holds, and a new process holds none of
  these: so `SeenIsKnown`, `RequestedDeviceIsValid`, `SettledSwitchIsTrue` and
  `SessionSpec` hold over any number of deaths. `LostOnlyByFaults` needs in addition that
  `halfway` is set only while `run()` writes to a pipe (`Writing`), and that no step of
  another thread or of the world moves the iterator meanwhile (`Waiting`), so that it is
  the same driver that is stopped and started. `LostStep` then says for every step that
  it adds no lost driver, or one and a fault; `FewAreLost` sums this up: there are never
  more lost drivers than faults. `ThrottledOverDeaths` needs that a restart is still
  granted when its order is complete, however long it waited (`OrderGranted`).
* `MainProofs`: `ConfiguresAll` and `EndsAsMistaken`, for any command lines and files.
  `EndsInOrder` speaks of the whole line and the whole file, `main()` of what it has
  read so far; so the first invariant, `LineInv`, says at each stage what has been
  stored of the first options and which mistakes they do not have, and the second,
  `FileInv`, the same of the entries loaded and of the devices inserted, where the first
  entry of a name stays. A `report` with an error is either of a mistake or of the
  missing required option, and only the second gives way to help.
  `MainBounded`, `MainOutlives`, `MainAnnounced` and `MainSessions` carry the theorems
  about `Connecting` over to the program as it starts: until it is `running` the state is
  one that `Connecting` may begin with (`RunInv`), but for the timeout, which `CallRun`
  sets and `LineInv` keeps a natural number; from then on its steps are `Connecting`'s.
* `VerbosityProofs`: `Verbosity`. What `main()` adds up option by option is compared with a
  sum over the whole line. A sum is proved to be the number of units it is made of
  (`SumOfUnits`), so that the lemmas about finite sets say what one option adds and that
  the order does not matter; that the fold over a finite set adds every element once goes
  by the least length at which it would not (`Smallest`). A number given replaces what the
  options before it have raised, and what has been stored so far is the level of the
  options so far as long as that fits into `unsigned`. `MainTypes`, the types of the
  start-up, needs that the level of the log was set within the enumeration (`StartTypes`)
  and that `run()` keeps its own.

The theorems state every invariant and action property of the passing runs, and their
refinements. Only model-checked: liveness, which is out of this prover's reach
(`RoundsGoOn`, `RestartsCease`, `RunOpensSession`, `PluggedIsConnected`,
`UnpluggedIsDisconnected`), and the six violations, which are counterexamples.

## 5. Plan

Done in this order, the most important behaviour first: restart manager and its
throttle; the watchdog with its world; pacing; recovery; proofs of the safety
properties; the connection with its clock; the start-up; the watchdog as a process
that dies; slow worlds; proofs about the process over its deaths, about the start-up
with its verbosity, and about `run()` as it is started. What would come next:

1. The theorems about `RestartPacing` over deaths: a death forgets the counters, and may
   bring a restart forward; how many restarts a number of deaths adds.
2. A world in which the device and its properties are announced apart (`Whole` dropped),
   and what the code would have to do about it.
3. The destructor, should `run()` ever return.

## 6. Not modelled

Logging and printing; names and paths as text; host, port and paths among the options;
a negative timeout; the old INDI API's pointers; what a compiler may make of the race on
`connected_`; the commented-out `save`; setters that nobody calls.
