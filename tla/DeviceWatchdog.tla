--------------------------- MODULE DeviceWatchdog ---------------------------
(***************************************************************************)
(* IndiDeviceWatchdogT with the IndiClientT it owns: the thread of run(),  *)
(* which connects to the INDI server, inspects every configured device     *)
(* every five seconds under deviceConnectionsMutex_, switches devices on   *)
(* and off and has drivers restarted; and the client's listener thread,    *)
(* whose callbacks need the same mutex.  The INDI library, the INDI server *)
(* with its drivers and the Linux device files are external: they are      *)
(* modelled from what the code relies on.                                  *)
(***************************************************************************)
EXTENDS RestartCounter, IndiWorld, Sequences

CONSTANTS
    DeviceOrder,    \* the keys of deviceConnections_ in the map's order
    AutoConnect,    \* the devices with enableAutoConnect
    StaleCallback,  \* when a callback of a dropped client ends: see below
    QuickWorld,     \* all settles within the five seconds between rounds
    PipeIsFifo      \* the INDI server reads what is written to the pipe

\* A callback may wait for the mutex while run() drops its client.  "joined":
\* the library waits for it before the client is gone; "prompt": it gets the
\* mutex, free from then on, before the next client connects; "late": when it
\* happens to be scheduled.  The code decides none of this.
ASSUME ConfigurationAssumption ==
    /\ DeviceOrder \in Seq(Devices)
    /\ AutoConnect \subseteq Devices
    /\ StaleCallback \in {"joined", "prompt", "late"}
    /\ QuickWorld \in BOOLEAN /\ PipeIsFifo \in BOOLEAN

VARIABLES
    \* The thread of run().
    pc,                  \* where it is
    next,                \* the iterator over deviceConnections_
    indiDeviceConnected, \* handleDeviceConnection's local of this name
    connected,           \* connected_
    driverRestartMap,    \* indiDriverRestartManager_.driverRestartMap_
    deviceConnections,   \* the INDI base device held for every device
    \* The client and its threads.
    connecting,          \* connectToIndiServerBlocking runs in its thread
    baseDevices,         \* what the client knows of every device
    calls                \* callbacks that wait for deviceConnectionsMutex_

runVars ==
    <<pc, next, indiDeviceConnected, connected, driverRestartMap>>
clientVars == <<connecting, baseDevices, calls>>
watchdogVars == <<runVars, deviceConnections, clientVars>>
vars == <<watchdogVars, worldVars>>

\* What a client knows of a device: nothing, a device without a CONNECTION
\* property, or the state of that property.
Views == {"gone", "bare", "off", "on"}

\* A held base device shares its data with the client that announced it
\* ("live") until that client drops the device: then it keeps the last data.
Handles == {"none", "live", "bare", "off", "on"}

Calls == [op : {"add", "remove"}, device : Devices, current : BOOLEAN]

TypeOK ==
    /\ pc \in {"connect", "wait", "loop", "sleep", "look", "decide", "turnOn",
               "turnOff", "request", "restart", "reset", "renew"}
    /\ next \in 1 .. Len(DeviceOrder) + 1
    /\ indiDeviceConnected \in BOOLEAN
    /\ connected \in BOOLEAN
    /\ driverRestartMap \in RestartMaps(Drivers)
    /\ deviceConnections \in [Devices -> Handles]
    /\ connecting \in BOOLEAN
    /\ baseDevices \in [Devices -> Views]
    /\ calls \in SUBSET Calls
    /\ WorldTypeOK

\* The watchdog is constructed: a client without a connection, no devices.
Init ==
    /\ pc = "connect" /\ next = 1
    /\ indiDeviceConnected = FALSE /\ connected = FALSE
    /\ driverRestartMap = EmptyMap
    /\ deviceConnections = [d \in Devices |-> "none"]
    /\ connecting = FALSE
    /\ baseDevices = [d \in Devices |-> "gone"]
    /\ calls = {}
    /\ WorldInit

\* Mutant: the mutex is let go before a switch command is sent.
HeldWhileDeciding ==
    pc \in {"look", "decide", "request", "restart", "reset", "renew"}

\* deviceConnectionsMutex_ is held from the end of the sleep to the end of
\* the round, the restart and the reset of the client included.
HeldByRun ==
    pc \in {"look", "decide", "turnOn", "turnOff", "request", "restart",
            "reset", "renew"}

\* Mutant: a client that is connecting counts as connected.
IsConnecting == link # "none" \/ connecting

isServerConnected == link # "none"
CurrentCalls == {c \in calls : c.current}

\* The client drops its devices: those held keep their last data.
DropDevices ==
    /\ deviceConnections' = [d \in Devices |->
         IF deviceConnections[d] = "live"
         THEN baseDevices[d] ELSE deviceConnections[d]]
    /\ baseDevices' = [d \in Devices |-> "gone"]
-----------------------------------------------------------------------------
(***************************************************************************)
(* run(): connecting.                                                      *)
(***************************************************************************)

\* client_->connect() starts a thread unless the client is connected.
Connect ==
    /\ pc = "connect"
    /\ StaleCallback = "prompt" => \A c \in calls : c.current
    /\ pc' = "wait"
    /\ connecting' = (connecting \/ ~isServerConnected)
    /\ UNCHANGED <<next, indiDeviceConnected, connected, driverRestartMap,
                   deviceConnections, baseDevices, calls, worldVars>>

\* wait_for sees the client connected.
WaitOk ==
    /\ pc = "wait"
    /\ isServerConnected
    /\ connected' = TRUE
    /\ pc' = "loop"
    /\ UNCHANGED <<next, indiDeviceConnected, driverRestartMap,
                   deviceConnections, clientVars, worldVars>>

\* The five seconds of wait_for are over.  Bound: the connection timeout is
\* less (the default is three), so the attempt is over too.
WaitIsOver == ~connecting

\* Mutant: wait_for returns only with the condition fulfilled.
WaitWithoutEnd == WaitOk

\* wait_for throws, for a connection made in its last 100 ms as well.
WaitTimeout ==
    /\ pc = "wait"
    /\ WaitIsOver
    /\ connected' = FALSE
    /\ pc' = "connect"
    /\ UNCHANGED <<next, indiDeviceConnected, driverRestartMap,
                   deviceConnections, clientVars, worldVars>>

\* while (connected_)
LoopTest ==
    /\ pc = "loop"
    /\ pc' = IF connected THEN "sleep" ELSE "connect"
    /\ UNCHANGED <<next, indiDeviceConnected, connected, driverRestartMap,
                   deviceConnections, clientVars, worldVars>>
-----------------------------------------------------------------------------
(***************************************************************************)
(* run(): a round over the devices, with the mutex held.                   *)
(***************************************************************************)
Current == DeviceOrder[next]

\* The state of the CONNECTION property of a held base device.
Switch(d) ==
    IF deviceConnections[d] = "live" THEN baseDevices[d] ELSE deviceConnections[d]
isIndiDeviceConnected(d) == Switch(d) = "on"
HasConnectionSwitch(d) == Switch(d) \in {"off", "on"}
isDeviceValid(d) == deviceConnections[d] # "none"

\* handleDeviceConnection returns false: on to the next device.
Advance ==
    /\ pc' = "look"
    /\ next' = next + 1

\* Nothing is under way between the server and the watchdog.
Settled ==
    /\ orders = {} /\ calls = {}
    /\ link = "up" => owed = {}
    /\ \A d \in Devices :
         /\ request[d] = "none"
         /\ serverUp /\ health[DriverOf[d]] # "dead" => server[d] # "gone"
         /\ link = "up" => /\ server[d] = "gone" <=> baseDevices[d] = "gone"
                           /\ baseDevices[d] # "bare"

\* The sleep ends.
Wake ==
    /\ pc = "sleep"
    /\ QuickWorld => Settled
    /\ pc' = "look" /\ next' = 1
    /\ UNCHANGED <<indiDeviceConnected, connected, driverRestartMap,
                   deviceConnections, clientVars, worldVars>>

EndRound ==
    /\ pc = "look" /\ next > Len(DeviceOrder)
    /\ pc' = "loop" /\ next' = 1
    /\ UNCHANGED <<indiDeviceConnected, connected, driverRestartMap,
                   deviceConnections, clientVars, worldVars>>

\* handleDeviceConnection reads the switch first, then the file system.
Look ==
    /\ pc = "look" /\ next <= Len(DeviceOrder)
    /\ indiDeviceConnected' = isIndiDeviceConnected(Current)
    /\ pc' = "decide"
    /\ UNCHANGED <<next, connected, driverRestartMap, deviceConnections,
                   clientVars, worldVars>>

\* The Linux device is there but the INDI base device is not.
DecideRestart ==
    /\ pc = "decide"
    /\ Current \in linux /\ ~isDeviceValid(Current)
    /\ pc' = "request" /\ next' = next

\* Both are there, not connected, and auto connect is enabled.
DecideTurnOn ==
    /\ pc = "decide"
    /\ Current \in linux /\ isDeviceValid(Current)
    /\ ~indiDeviceConnected /\ Current \in AutoConnect
    /\ pc' = "turnOn" /\ next' = next

\* The Linux device is gone, the INDI device is connected.
DecideTurnOff ==
    /\ pc = "decide"
    /\ Current \notin linux /\ indiDeviceConnected
    /\ pc' = "turnOff" /\ next' = next

DecideNothing ==
    /\ pc = "decide"
    /\ IF Current \in linux
       THEN isDeviceValid(Current)
            /\ (indiDeviceConnected \/ Current \notin AutoConnect)
       ELSE ~indiDeviceConnected
    /\ Advance

Decide ==
    /\ DecideRestart \/ DecideTurnOn \/ DecideTurnOff \/ DecideNothing
    /\ indiDeviceConnected' = FALSE
    /\ UNCHANGED <<connected, driverRestartMap, deviceConnections, clientVars,
                   worldVars>>

\* Mutants: the switch is only written, or always sent as CONNECT.
SendNothing(d, state) == request' = request
SendConnect(d, state) ==
    request' = IF link = "up" /\ server[d] # "gone"
               THEN [request EXCEPT ![d] = "on"] ELSE request

\* sendNewSwitch: heard by a driver that runs behind a working link.
Send(d, state) ==
    request' = IF link = "up" /\ server[d] # "gone"
               THEN [request EXCEPT ![d] = state] ELSE request

\* requestConnectionStateChange writes the property it holds, then sends it.
WriteSwitch(d, state) ==
    baseDevices' = IF deviceConnections[d] = "live"
                   THEN [baseDevices EXCEPT ![d] = state] ELSE baseDevices

\* Without a CONNECTION property the request fails.
SwitchMissing ==
    /\ ~HasConnectionSwitch(Current)
    /\ pc' = "request"
    /\ UNCHANGED <<next, baseDevices, request>>

TurnOn ==
    /\ pc = "turnOn"
    /\ \/ /\ SwitchMissing
          /\ UNCHANGED deviceConnections
       \/ /\ HasConnectionSwitch(Current)
          /\ WriteSwitch(Current, "on")
          /\ deviceConnections' = [deviceConnections EXCEPT
               ![Current] = IF @ = "live" THEN @ ELSE "on"]
          /\ Send(Current, "on")
          /\ Advance
    /\ UNCHANGED <<indiDeviceConnected, connected, driverRestartMap,
                   connecting, calls, linux, link, serverUp, health, server,
                   owed, orders, faults>>

\* Whether or not it was sent, the base device is let go.
TurnOff ==
    /\ pc = "turnOff"
    /\ \/ SwitchMissing
       \/ /\ HasConnectionSwitch(Current)
          /\ WriteSwitch(Current, "off")
          /\ Send(Current, "off")
          /\ Advance
    /\ deviceConnections' = [deviceConnections EXCEPT ![Current] = "none"]
    /\ UNCHANGED <<indiDeviceConnected, connected, driverRestartMap,
                   connecting, calls, linux, link, serverUp, health, server,
                   owed, orders, faults>>

\* requestIndiDriverRestart lets the base device go also when it is declined.
RequestDeclined ==
    /\ pc = "request"
    /\ ~IsRestartConditionReached(driverRestartMap, DriverOf[Current])
    /\ driverRestartMap' = MapAfterDecline(driverRestartMap, DriverOf[Current])
    /\ deviceConnections' = [deviceConnections EXCEPT ![Current] = "none"]
    /\ Advance
    /\ UNCHANGED <<indiDeviceConnected, connected, clientVars, worldVars>>

RequestGranted ==
    /\ pc = "request"
    /\ IsRestartConditionReached(driverRestartMap, DriverOf[Current])
    /\ pc' = "restart"
    /\ UNCHANGED <<next, indiDeviceConnected, connected, driverRestartMap,
                   deviceConnections, clientVars, worldVars>>

\* Both commands in one step (RestartManager has them apart).  A FIFO opens
\* once the server reads it; what is not a FIFO takes the order to nobody.
Restart ==
    /\ pc = "restart"
    /\ PipeIsFifo => serverUp
    /\ orders' = IF PipeIsFifo THEN orders \cup {DriverOf[Current]} ELSE orders
    /\ driverRestartMap' = MapAfterRestart(driverRestartMap, DriverOf[Current])
    /\ deviceConnections' = [deviceConnections EXCEPT ![Current] = "none"]
    /\ pc' = "reset" /\ next' = 1
    /\ UNCHANGED <<indiDeviceConnected, connected, clientVars, linux, link,
                   serverUp, health, server, owed, request, faults>>
-----------------------------------------------------------------------------
(***************************************************************************)
(* resetIndiClient, still under the mutex.                                 *)
(***************************************************************************)

\* Callbacks of a client that is dropped.
CalledOff(cs) == {[c EXCEPT !.current = FALSE] : c \in cs}

\* The listeners and the client are disconnected.  A callback that is already
\* waiting for the mutex is not called off.
Reset ==
    /\ pc = "reset"
    /\ link' = "none"
    /\ DropDevices
    /\ calls' = CalledOff(calls)
    /\ owed' = {}
    /\ pc' = "renew"
    /\ UNCHANGED <<next, indiDeviceConnected, connected, driverRestartMap,
                   connecting, linux, serverUp, health, server, request,
                   orders, faults>>

\* Mutant: connected_ is not cleared.
RenewConnected ==
    /\ pc = "renew"
    /\ StaleCallback = "joined" => calls = {}
    /\ pc' = "loop"
    /\ UNCHANGED <<next, indiDeviceConnected, connected, driverRestartMap,
                   deviceConnections, clientVars, worldVars>>

\* The new client replaces the old, whose destructor may join its listener.
Renew ==
    /\ pc = "renew"
    /\ StaleCallback = "joined" => calls = {}
    /\ connected' = FALSE
    /\ pc' = "loop"
    /\ UNCHANGED <<next, indiDeviceConnected, driverRestartMap,
                   deviceConnections, clientVars, worldVars>>

Run == \/ Connect \/ WaitOk \/ WaitTimeout \/ LoopTest
       \/ Wake \/ EndRound \/ Look \/ Decide \/ TurnOn \/ TurnOff
       \/ RequestDeclined \/ RequestGranted \/ Restart \/ Reset \/ Renew
-----------------------------------------------------------------------------
(***************************************************************************)
(* The client's threads.  The listener is one thread: while a callback     *)
(* waits for the mutex it delivers nothing else.                           *)
(***************************************************************************)

\* connectServer returns true: the client starts without devices.
AttemptSucceeds ==
    /\ connecting /\ serverUp
    /\ connecting' = FALSE
    /\ link' = "up"
    /\ DropDevices
    /\ owed' = {}
    /\ UNCHANGED <<runVars, calls, linux, serverUp, health, server, request,
                   orders, faults>>

\* connectServer returns false: the failed listener clears connected_.
AttemptFails ==
    /\ connecting
    /\ \/ ~serverUp /\ faults' = faults
       \/ Fault("refused")
    /\ connecting' = FALSE
    /\ connected' = FALSE
    /\ UNCHANGED <<pc, next, indiDeviceConnected, driverRestartMap,
                   deviceConnections, baseDevices, calls, linux, link,
                   serverUp, health, server, owed, request, orders>>

Listening == link = "up" /\ CurrentCalls = {}

NewDevice(d) ==
    /\ Listening
    /\ server[d] # "gone" /\ baseDevices[d] = "gone"
    /\ baseDevices' = [baseDevices EXCEPT ![d] = "bare"]
    /\ calls' = calls \cup {[op |-> "add", device |-> d, current |-> TRUE]}
    /\ UNCHANGED <<runVars, deviceConnections, connecting, worldVars>>

\* The client drops the device; who holds it keeps its last data.
RemoveDevice(d) ==
    /\ Listening
    /\ server[d] = "gone" /\ baseDevices[d] # "gone"
    /\ baseDevices' = [baseDevices EXCEPT ![d] = "gone"]
    /\ deviceConnections' = [deviceConnections EXCEPT
         ![d] = IF @ = "live" THEN baseDevices[d] ELSE @]
    /\ calls' = calls \cup {[op |-> "remove", device |-> d, current |-> TRUE]}
    /\ UNCHANGED <<runVars, connecting, worldVars>>

\* newProperty or updateProperty: the callback only logs.
PropertyUpdated(d) ==
    /\ Listening
    /\ server[d] # "gone" /\ baseDevices[d] # "gone"
    /\ d \in owed \/ baseDevices[d] = "bare"
    /\ baseDevices' = [baseDevices EXCEPT ![d] = server[d]]
    /\ owed' = owed \ {d}
    /\ UNCHANGED <<runVars, deviceConnections, connecting, calls, linux, link,
                   serverUp, health, server, request, orders, faults>>

\* A driver withdraws its CONNECTION property, to define it again.
PropertyRemoved(d) ==
    /\ Listening
    /\ Fault("withdrawn")
    /\ server[d] # "gone" /\ baseDevices[d] \in {"off", "on"}
    /\ baseDevices' = [baseDevices EXCEPT ![d] = "bare"]
    /\ UNCHANGED <<runVars, deviceConnections, connecting, calls, linux, link,
                   serverUp, health, server, owed, request, orders>>

\* serverDisconnected has no subscriber in the watchdog.
LinkLost ==
    /\ link = "dead" /\ CurrentCalls = {}
    /\ link' = "none"
    /\ UNCHANGED <<runVars, deviceConnections, clientVars, linux, serverUp,
                   health, server, owed, request, orders, faults>>

Listener(d) == NewDevice(d) \/ RemoveDevice(d) \/ PropertyUpdated(d)

\* Mutant: a base device that is already held is not replaced.
AddIfMissing(d) ==
    /\ ~HeldByRun
    /\ \E c \in calls :
         /\ c.op = "add" /\ c.device = d
         /\ deviceConnections' = [deviceConnections EXCEPT
              ![d] = IF @ # "none" THEN @
                     ELSE IF c.current THEN "live" ELSE "bare"]
         /\ calls' = calls \ {c}
    /\ UNCHANGED <<runVars, connecting, baseDevices, worldVars>>

\* The callbacks' bodies.  What an older client announced has no properties.
AddIndiDevice(d) ==
    /\ ~HeldByRun
    /\ \E c \in calls :
         /\ c.op = "add" /\ c.device = d
         /\ deviceConnections' = [deviceConnections EXCEPT
              ![d] = IF c.current THEN "live" ELSE "bare"]
         /\ calls' = calls \ {c}
    /\ UNCHANGED <<runVars, connecting, baseDevices, worldVars>>

RemoveIndiDevice(d) ==
    /\ ~HeldByRun
    /\ \E c \in calls :
         /\ c.op = "remove" /\ c.device = d
         /\ calls' = calls \ {c}
    /\ deviceConnections' = [deviceConnections EXCEPT ![d] = "none"]
    /\ UNCHANGED <<runVars, connecting, baseDevices, worldVars>>

Client ==
    \/ AttemptSucceeds \/ AttemptFails \/ LinkLost
    \/ \E d \in Devices : \/ Listener(d) \/ PropertyRemoved(d)
                          \/ AddIndiDevice(d) \/ RemoveIndiDevice(d)
-----------------------------------------------------------------------------
(***************************************************************************)
(* The specification.                                                      *)
(***************************************************************************)

\* The client hears of a removed device before its driver announces it anew.
DriverReturns(d) ==
    /\ link = "up" => baseDevices[d] = "gone"
    /\ DriverAnnounces(d)

Next ==
    \/ Run \/ Client
    \/ World /\ UNCHANGED watchdogVars
    \/ \E d \in Devices : DriverReturns(d) /\ UNCHANGED watchdogVars

Spec == Init /\ [][Next]_vars

\* The thread of run() is scheduled, and wait_for, which looks every 100 ms,
\* does not miss the connection again and again; a connection attempt ends; a
\* callback gets the mutex some time, as it is free while run() sleeps; the
\* library, the server and the drivers answer.
Fairness ==
    /\ WF_vars(Run) /\ SF_vars(WaitOk)
    /\ WF_vars(AttemptSucceeds \/ AttemptFails) /\ WF_vars(LinkLost)
    /\ \A d \in Devices :
         /\ SF_vars(Listener(d))
         /\ SF_vars(AddIndiDevice(d)) /\ SF_vars(RemoveIndiDevice(d))
         /\ WF_vars(DriverReturns(d) /\ UNCHANGED watchdogVars)
         /\ WF_vars(DriverReplies(d) /\ UNCHANGED watchdogVars)
    /\ \A x \in Drivers : WF_vars(ServerObeys(x) /\ UNCHANGED watchdogVars)
    /\ WF_vars(ServerStarts /\ UNCHANGED watchdogVars)

FairSpec == Spec /\ Fairness
-----------------------------------------------------------------------------
(***************************************************************************)
(* Safety.                                                                 *)
(***************************************************************************)

\* Once its callbacks are through, what run() sees of a device that its client
\* knows is what the client knows: no data kept from an earlier announcement or
\* from a client that was dropped, over removals, new connections and resets.
\* A callback of the dropped client that runs late puts such data back.
SeenIsKnown ==
    StaleCallback # "late" =>
        \A d \in Devices :
            /\ baseDevices[d] # "gone" /\ isDeviceValid(d)
            /\ \A c \in calls : c.device # d
            => Switch(d) = baseDevices[d]

\* No callback takes the base device away between handleDeviceConnection's
\* test and the switch command, although the lock is taken a function above.
RequestedDeviceIsValid ==
    pc \in {"turnOn", "turnOff"} => isDeviceValid(Current)

\* The watchdog writes its own copy of the CONNECTION switch before the driver
\* has answered.  Whenever nothing is under way between the two, the copy is
\* right again, also after a refused command.
SettledSwitchIsTrue ==
    \A d \in Devices :
        /\ link = "up" /\ server[d] # "gone"
        /\ baseDevices[d] \in {"off", "on"}
        /\ d \notin owed /\ request[d] = "none"
        => baseDevices[d] = server[d]

\* Only the reset of the client ends a session: neither a failed attempt nor a
\* timeout does.
SessionEndsByReset == [][connected /\ ~connected' => pc = "renew"]_vars

\* Attempts, connections and sessions follow each other as ServerSession says,
\* which the timed model of connecting (Connecting) implements as well.
Session == INSTANCE ServerSession WITH
    attempt <- connecting,
    link <- isServerConnected,
    session <- connected /\ pc # "renew"
SessionSpec == Session!Spec
-----------------------------------------------------------------------------
(***************************************************************************)
(* Liveness, and what the documentation says.                              *)
(***************************************************************************)

\* "Try to connect to the INDI server forever": rounds never cease.
RoundsGoOn == []<>(pc = "look")

\* A device with auto connect whose Linux device stays is connected again,
\* unless the link to the server is lost for good (LinkRestored).
PluggedIsConnected ==
    \A d \in AutoConnect : []<>(d \in linux /\ link = "up" => server[d] = "on")

\* A device whose Linux device stays away ends disconnected.
UnpluggedIsDisconnected ==
    \A d \in WithLinuxDevice :
        []<>(d \notin linux /\ link = "up" => server[d] # "on")

\* The watchdog has the connection to a server that runs established again.
LinkRestored == []<>(serverUp => link = "up")

\* A driver is restarted when its Linux device exists but the INDI device
\* does not.
DeadDriverRestarted ==
    \A d \in Devices : []<>(d \in linux => server[d] # "gone")

\* A driver is restarted when connecting its device fails.
HungDriverRestarted ==
    \A d \in AutoConnect :
        []<>(d \in linux /\ server[d] = "off" => health[DriverOf[d]] # "wedged")

\* Having no INDI base device, the ground for a restart, means that the client
\* has none or that its callback waits.
RestartOnlyMissing ==
    pc = "request" /\ ~isDeviceValid(Current) /\ Current \in linux
        => \/ baseDevices[Current] = "gone"
           \/ \E c \in calls : c.device = Current

\* A device without a corresponding Linux device is never switched off.
OptionalLinuxDevice ==
    [][\A d \in Devices \ WithLinuxDevice :
         request'[d] = "off" => request[d] = "off"]_vars
=============================================================================
