------------------------------ MODULE IndiWorld ------------------------------
(***************************************************************************)
(* The world of the watchdog: the Linux device files, the INDI server and  *)
(* its drivers, and the connection between server and client.  None of it  *)
(* is code of the repository; it is modelled from what that code relies    *)
(* on, with the faults the documentation is about.                         *)
(***************************************************************************)
EXTENDS Integers

CONSTANTS
    Drivers,         \* the INDI drivers
    Devices,         \* the INDI device names of the configuration
    DriverOf,        \* indiDeviceDriverName of every device
    WithLinuxDevice, \* the devices whose linuxDeviceName is not empty
    FaultKinds,      \* the faults that may happen
    MaxFaults        \* bound: their number in a behaviour

ASSUME WorldAssumption ==
    /\ DriverOf \in [Devices -> Drivers]
    /\ WithLinuxDevice \subseteq Devices
    /\ MaxFaults \in Nat

VARIABLES
    linux,    \* the devices whose Linux device file exists
    link,     \* the client's connection: none, up, or dead and not noticed
    serverUp, \* the INDI server runs
    health,   \* of every driver
    server,   \* the CONNECTION state the driver of a device holds
    owed,     \* devices with an update the client has not yet received
    request,  \* switch commands the drivers have not yet handled
    orders,   \* drivers ordered restarted in the server's pipe
    faults    \* the number of faults so far

worldVars ==
    <<linux, link, serverUp, health, server, owed, request, orders, faults>>

WorldTypeOK ==
    /\ linux \in SUBSET WithLinuxDevice
    /\ link \in {"none", "up", "dead"}
    /\ serverUp \in BOOLEAN
    /\ health \in [Drivers -> {"well", "wedged", "dead"}]
    /\ server \in [Devices -> {"gone", "off", "on"}]
    /\ owed \in SUBSET Devices
    /\ request \in [Devices -> {"none", "off", "on"}]
    /\ orders \in SUBSET Drivers
    /\ faults \in 0 .. MaxFaults

WorldInit ==
    /\ linux = WithLinuxDevice
    /\ link = "none"
    /\ serverUp = TRUE
    /\ health = [x \in Drivers |-> "well"]
    /\ server = [d \in Devices |-> "off"]
    /\ owed = {}
    /\ request = [d \in Devices |-> "none"]
    /\ orders = {}
    /\ faults = 0

Fault(kind) ==
    /\ kind \in FaultKinds
    /\ faults < MaxFaults
    /\ faults' = faults + 1

DevicesOf(driver) == {d \in Devices : DriverOf[d] = driver}

\* Devices disappear, with all that is under way to and from them.
Vanish(ds) ==
    /\ server'  = [d \in Devices |-> IF d \in ds THEN "gone" ELSE server[d]]
    /\ request' = [d \in Devices |-> IF d \in ds THEN "none" ELSE request[d]]
    /\ owed' = owed \ ds

\* A USB connection is lost: the driver may not notice.
Unplug(d) ==
    /\ d \in linux
    /\ Fault("unplug")
    /\ linux' = linux \ {d}
    /\ UNCHANGED <<link, serverUp, health, server, owed, request, orders>>

Plug(d) ==
    /\ d \in WithLinuxDevice \ linux
    /\ linux' = linux \cup {d}
    /\ UNCHANGED <<link, serverUp, health, server, owed, request, orders, faults>>

\* A started driver announces its device.
DriverAnnounces(d) ==
    /\ serverUp /\ health[DriverOf[d]] # "dead"
    /\ server[d] = "gone"
    /\ server' = [server EXCEPT ![d] = "off"]
    /\ UNCHANGED <<linux, link, serverUp, health, owed, request, orders, faults>>

\* Connecting needs the hardware and a driver that is not wedged.
CanConnect(d) ==
    /\ d \in linux \/ d \notin WithLinuxDevice
    /\ health[DriverOf[d]] = "well"

\* The driver handles a command and tells the state it has reached.
DriverReplies(d) ==
    /\ server[d] # "gone" /\ request[d] # "none"
    /\ server' = [server EXCEPT
         ![d] = IF request[d] = "off" THEN "off"
                ELSE IF CanConnect(d) THEN "on" ELSE @]
    /\ request' = [request EXCEPT ![d] = "none"]
    /\ owed' = owed \cup {d}
    /\ UNCHANGED <<linux, link, serverUp, health, orders, faults>>

\* The driver itself or another client changes the connection.
Toggle(d) ==
    /\ server[d] # "gone"
    /\ \/ /\ Fault("off")
          /\ server[d] = "on" /\ server' = [server EXCEPT ![d] = "off"]
       \/ /\ Fault("on")
          /\ server[d] = "off" /\ CanConnect(d)
          /\ server' = [server EXCEPT ![d] = "on"]
    /\ owed' = owed \cup {d}
    /\ UNCHANGED <<linux, link, serverUp, health, request, orders>>

\* A driver crashes, or hangs: it answers but connects no device any more.
DriverCrashes(driver) ==
    /\ serverUp /\ health[driver] # "dead"
    /\ Fault("crash")
    /\ health' = [health EXCEPT ![driver] = "dead"]
    /\ Vanish(DevicesOf(driver))
    /\ UNCHANGED <<linux, link, serverUp, orders>>

DriverHangs(driver) ==
    /\ serverUp /\ health[driver] = "well"
    /\ Fault("hang")
    /\ health' = [health EXCEPT ![driver] = "wedged"]
    /\ UNCHANGED <<linux, link, serverUp, server, owed, request, orders>>

\* The server stops the driver and starts it anew.
ServerObeys(driver) ==
    /\ serverUp /\ driver \in orders
    /\ orders' = orders \ {driver}
    /\ health' = [health EXCEPT ![driver] = "well"]
    /\ Vanish(DevicesOf(driver))
    /\ UNCHANGED <<linux, link, serverUp, faults>>

LinkBreaks ==
    /\ link = "up"
    /\ Fault("link")
    /\ link' = "dead"
    /\ UNCHANGED <<linux, serverUp, health, server, owed, request, orders>>

ServerCrashes ==
    /\ serverUp
    /\ Fault("server")
    /\ serverUp' = FALSE
    /\ link' = IF link = "up" THEN "dead" ELSE link
    /\ orders' = {}
    /\ Vanish(Devices)
    /\ UNCHANGED <<linux, health>>

\* The server starts all its drivers.
ServerStarts ==
    /\ ~serverUp
    /\ serverUp' = TRUE
    /\ health' = [x \in Drivers |-> "well"]
    /\ UNCHANGED <<linux, link, server, owed, request, orders, faults>>

\* All that happens without a look at the watchdog's state.
World ==
    \/ \E d \in Devices : Unplug(d) \/ Plug(d) \/ DriverReplies(d) \/ Toggle(d)
    \/ \E x \in Drivers : DriverCrashes(x) \/ DriverHangs(x) \/ ServerObeys(x)
    \/ LinkBreaks \/ ServerCrashes \/ ServerStarts
=============================================================================
