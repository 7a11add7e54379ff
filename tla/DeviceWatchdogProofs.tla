------------------------ MODULE DeviceWatchdogProofs ------------------------
(***************************************************************************)
(* Theorems about DeviceWatchdog, for any devices and drivers, any order   *)
(* and configuration, any limit, any faults and each of the three ways a   *)
(* stale callback may end.  One inductive invariant carries them all: the  *)
(* safety properties of the module, and what they need.                    *)
(***************************************************************************)
EXTENDS DeviceWatchdog, RestartCounterProofs

\* Where the iterator of run() points to a device.
AtDevice == pc \in {"decide", "turnOn", "turnOff", "request", "restart"}
InRange == AtDevice => next <= Len(DeviceOrder)

\* run() connects only when no session is open.
NoSession == pc \in {"connect", "wait"} => ~connected

\* A device found connected is not let go before the decision.
LookedAt == pc = "decide" /\ indiDeviceConnected => isDeviceValid(Current)

\* A handle is live only while the client has the device.
LiveHandleKnown ==
    \A d \in Devices : deviceConnections[d] = "live" => baseDevices[d] # "gone"

\* By WaitIsOver, no connection attempt goes on when its wait has ended.
NoLateAttempt == connecting => pc = "wait" /\ ~isServerConnected

\* What a waiting callback will add is still known to the client.
CallsKnown ==
    \A c \in calls : c.current /\ c.op = "add" => baseDevices[c.device] # "gone"

\* A client without a connection has no callbacks waiting.
CallsLinked == link = "none" => CurrentCalls = {}

\* Where callbacks end promptly, one of a dropped client waits only while no
\* client has a connection or an attempt.
StaleUnlinked ==
    StaleCallback # "late" /\ (\E c \in calls : ~c.current) =>
        /\ \A d \in Devices : baseDevices[d] = "gone"
        /\ ~connecting /\ link = "none"
        /\ pc \in {"renew", "loop", "connect"} /\ (pc = "loop" => ~connected)
        /\ StaleCallback = "joined" => pc = "renew"

\* A handle to a device that the client has is live, or about to be replaced.
Announced(d) == \E c \in calls : c.op = "add" /\ c.device = d /\ c.current
StaleReplaced ==
    StaleCallback # "late" =>
        \A d \in Devices : deviceConnections[d] # "none" /\ baseDevices[d] # "gone"
                            => deviceConnections[d] = "live" \/ Announced(d)

RunInv == InRange /\ NoSession /\ LookedAt /\ RequestedDeviceIsValid
ClientInv == LiveHandleKnown /\ CallsKnown /\ CallsLinked /\ NoLateAttempt
StaleInv == StaleUnlinked /\ StaleReplaced
IInv == TypeOK /\ RunInv /\ ClientInv /\ StaleInv /\ SettledSwitchIsTrue

\* At a device, the device and its driver are configured.
LEMMA CurrentDevice ==
    ASSUME TypeOK, \/ InRange /\ AtDevice
                   \/ next <= Len(DeviceOrder)
    PROVE  Current \in Devices /\ DriverOf[Current] \in Drivers
BY ConfigurationAssumption, WorldAssumption DEF TypeOK, InRange, Current

\* Dropping its devices, the client leaves well typed handles.
LEMMA DropTypes ==
    ASSUME TypeOK, LiveHandleKnown, DropDevices
    PROVE  /\ deviceConnections' \in [Devices -> Handles \ {"live"}]
           /\ baseDevices' = [d \in Devices |-> "gone"]
           /\ baseDevices' \in [Devices -> Views]
           /\ \A d \in Devices :
                deviceConnections[d] # "none" => deviceConnections'[d] # "none"
BY DEF TypeOK, LiveHandleKnown, DropDevices, Handles, Views
-----------------------------------------------------------------------------
(***************************************************************************)
(* Types.                                                                  *)
(***************************************************************************)

\* A step of run() keeps the types.
LEMMA RunTypes ==
    TypeOK /\ InRange /\ LiveHandleKnown /\ Run => TypeOK'
<1> SUFFICES ASSUME TypeOK, InRange, LiveHandleKnown, Run PROVE TypeOK'
  OBVIOUS
<1> USE DEF TypeOK
<1>0. Len(DeviceOrder) \in Nat
  BY ConfigurationAssumption
<1>1. CASE Connect \/ WaitOk \/ WaitTimeout \/ LoopTest
  <2>1. WorldTypeOK'
    BY <1>1 DEF Connect, WaitOk, WaitTimeout, LoopTest, WorldTypeOK, worldVars
  <2> QED BY <1>1, <2>1 DEF Connect, WaitOk, WaitTimeout, LoopTest, clientVars,
                            isServerConnected
<1>2. CASE Wake \/ EndRound \/ Look
  <2>1. WorldTypeOK'
    BY <1>2 DEF Wake, EndRound, Look, WorldTypeOK, worldVars
  <2>2. next' \in 1 .. Len(DeviceOrder) + 1
    BY <1>0, <1>2 DEF Wake, EndRound, Look
  <2>3. indiDeviceConnected' \in BOOLEAN
    BY <1>2 DEF Wake, EndRound, Look, isIndiDeviceConnected
  <2> QED BY <1>2, <2>1, <2>2, <2>3 DEF Wake, EndRound, Look, clientVars
<1>3. CASE Decide
  <2>1. WorldTypeOK'
    BY <1>3 DEF Decide, WorldTypeOK, worldVars
  <2>2. pc' \in {"look", "request", "turnOn", "turnOff"} /\ next' \in {next, next + 1}
    BY <1>3 DEF Decide, DecideRestart, DecideTurnOn, DecideTurnOff, DecideNothing,
                Advance
  <2>3. next <= Len(DeviceOrder)
    BY <1>3 DEF InRange, AtDevice, Decide, DecideRestart, DecideTurnOn,
                DecideTurnOff, DecideNothing
  <2>4. next' \in 1 .. Len(DeviceOrder) + 1
    BY <1>0, <2>2, <2>3
  <2> QED BY <1>3, <2>1, <2>2, <2>4 DEF Decide, clientVars
<1>4. CASE TurnOn \/ TurnOff
  <2>1. Current \in Devices /\ next <= Len(DeviceOrder)
    BY <1>4, CurrentDevice DEF InRange, AtDevice, TurnOn, TurnOff
  <2>2. pc' \in {"look", "request"} /\ next' \in {next, next + 1}
    BY <1>4 DEF TurnOn, TurnOff, SwitchMissing, Advance
  <2>3. request' \in [Devices -> {"none", "off", "on"}]
    BY <1>4, <2>1 DEF TurnOn, TurnOff, SwitchMissing, Send, WorldTypeOK
  <2>4. baseDevices' \in [Devices -> Views]
    BY <1>4, <2>1 DEF TurnOn, TurnOff, SwitchMissing, WriteSwitch, Views
  <2>5. deviceConnections' \in [Devices -> Handles]
    BY <1>4, <2>1 DEF TurnOn, TurnOff, SwitchMissing, Handles
  <2>6. WorldTypeOK'
    BY <1>4, <2>3 DEF TurnOn, TurnOff, WorldTypeOK
  <2> QED BY <1>0, <1>4, <2>1, <2>2, <2>4, <2>5, <2>6 DEF TurnOn, TurnOff
<1>5. CASE RequestDeclined \/ RequestGranted
  <2>1. /\ Current \in Devices /\ DriverOf[Current] \in Drivers
        /\ next <= Len(DeviceOrder)
    BY <1>5, CurrentDevice DEF InRange, AtDevice, RequestDeclined, RequestGranted
  <2>2. driverRestartMap' \in RestartMaps(Drivers)
    BY <1>5, <2>1, DeclineContent DEF RequestDeclined, RequestGranted
  <2>3. WorldTypeOK'
    BY <1>5 DEF RequestDeclined, RequestGranted, WorldTypeOK, worldVars
  <2>4. deviceConnections' \in [Devices -> Handles]
    BY <1>5, <2>1 DEF RequestDeclined, RequestGranted, Handles
  <2> QED BY <1>0, <1>5, <2>1, <2>2, <2>3, <2>4
          DEF RequestDeclined, RequestGranted, Advance, clientVars
<1>6. CASE Restart
  <2>1. Current \in Devices /\ DriverOf[Current] \in Drivers
    BY <1>6, CurrentDevice DEF InRange, AtDevice, Restart
  <2>2. driverRestartMap' \in RestartMaps(Drivers)
    BY <1>6, <2>1, RestartContent DEF Restart
  <2>3. WorldTypeOK'
    BY <1>6, <2>1 DEF Restart, WorldTypeOK
  <2>4. deviceConnections' \in [Devices -> Handles]
    BY <1>6, <2>1 DEF Restart, Handles
  <2> QED BY <1>0, <1>6, <2>2, <2>3, <2>4 DEF Restart, clientVars
<1>7. CASE Reset
  <2>1. WorldTypeOK'
    BY <1>7 DEF Reset, WorldTypeOK
  <2>2. calls' \in SUBSET Calls
    BY <1>7 DEF Reset, CalledOff, Calls
  <2>3. baseDevices' \in [Devices -> Views] /\ deviceConnections' \in [Devices -> Handles]
    BY <1>7, DropTypes DEF Reset
  <2> QED BY <1>7, <2>1, <2>2, <2>3 DEF Reset
<1>8. CASE Renew
  <2>1. WorldTypeOK'
    BY <1>8 DEF Renew, WorldTypeOK, worldVars
  <2> QED BY <1>8, <2>1 DEF Renew, clientVars
<1> QED BY <1>1, <1>2, <1>3, <1>4, <1>5, <1>6, <1>7, <1>8 DEF Run

\* A step of the client's threads keeps the types.
LEMMA ClientTypes ==
    TypeOK /\ LiveHandleKnown /\ Client => TypeOK'
<1> SUFFICES ASSUME TypeOK, LiveHandleKnown, Client PROVE TypeOK'
  OBVIOUS
<1> USE DEF TypeOK
<1>1. CASE AttemptSucceeds
  <2>1. WorldTypeOK'
    BY <1>1 DEF AttemptSucceeds, WorldTypeOK
  <2>2. baseDevices' \in [Devices -> Views] /\ deviceConnections' \in [Devices -> Handles]
    BY <1>1, DropTypes DEF AttemptSucceeds
  <2> QED BY <1>1, <2>1, <2>2 DEF AttemptSucceeds, runVars
<1>2. CASE AttemptFails
  <2>1. WorldTypeOK'
    BY <1>2, WorldAssumption DEF AttemptFails, WorldTypeOK, Fault
  <2> QED BY <1>2, <2>1 DEF AttemptFails
<1>3. CASE LinkLost
  BY <1>3 DEF LinkLost, WorldTypeOK, runVars, clientVars
<1>4. ASSUME NEW d \in Devices, NewDevice(d) \/ RemoveDevice(d)
      PROVE  TypeOK'
  <2>1. WorldTypeOK'
    BY <1>4 DEF NewDevice, RemoveDevice, WorldTypeOK, worldVars
  <2>2. calls' \in SUBSET Calls
    <3>1. \A op \in {"add", "remove"} :
            [op |-> op, device |-> d, current |-> TRUE] \in Calls
      BY DEF Calls
    <3> QED BY <1>4, <3>1 DEF NewDevice, RemoveDevice
  <2>3. baseDevices' \in [Devices -> Views]
    BY <1>4 DEF NewDevice, RemoveDevice, Views
  <2>4. deviceConnections' \in [Devices -> Handles]
    BY <1>4 DEF NewDevice, RemoveDevice, Views, Handles
  <2> QED BY <1>4, <2>1, <2>2, <2>3, <2>4 DEF NewDevice, RemoveDevice, runVars
<1>5. ASSUME NEW d \in Devices, PropertyUpdated(d) \/ PropertyRemoved(d)
      PROVE  TypeOK'
  <2>1. WorldTypeOK'
    BY <1>5, WorldAssumption DEF PropertyUpdated, PropertyRemoved, WorldTypeOK, Fault
  <2>2. baseDevices' \in [Devices -> Views]
    BY <1>5 DEF PropertyUpdated, PropertyRemoved, Views, WorldTypeOK
  <2> QED BY <1>5, <2>1, <2>2 DEF PropertyUpdated, PropertyRemoved, runVars
<1>6. ASSUME NEW d \in Devices, AddIndiDevice(d) \/ RemoveIndiDevice(d)
      PROVE  TypeOK'
  <2>1. WorldTypeOK'
    BY <1>6 DEF AddIndiDevice, RemoveIndiDevice, WorldTypeOK, worldVars
  <2>2. calls' \in SUBSET Calls
    BY <1>6 DEF AddIndiDevice, RemoveIndiDevice
  <2>3. deviceConnections' \in [Devices -> Handles]
    BY <1>6 DEF AddIndiDevice, RemoveIndiDevice, Handles
  <2> QED BY <1>6, <2>1, <2>2, <2>3 DEF AddIndiDevice, RemoveIndiDevice, runVars
<1> QED BY <1>1, <1>2, <1>3, <1>4, <1>5, <1>6 DEF Client, Listener

\* A step of the world keeps its own types.
LEMMA WorldTypes ==
    WorldTypeOK /\ (World \/ \E d \in Devices : DriverReturns(d)) => WorldTypeOK'
<1> SUFFICES ASSUME WorldTypeOK, World \/ \E d \in Devices : DriverReturns(d)
             PROVE  WorldTypeOK'
  OBVIOUS
<1> USE WorldAssumption DEF WorldTypeOK
<1>1. ASSUME NEW d \in Devices, Unplug(d) \/ Plug(d)
      PROVE  WorldTypeOK'
  BY <1>1 DEF Unplug, Plug, Fault
<1>2. ASSUME NEW d \in Devices, DriverReplies(d)
      PROVE  WorldTypeOK'
  BY <1>2 DEF DriverReplies
<1>3. ASSUME NEW d \in Devices, Toggle(d)
      PROVE  WorldTypeOK'
  BY <1>3 DEF Toggle, Fault
<1>4. ASSUME NEW x \in Drivers, DriverCrashes(x)
      PROVE  WorldTypeOK'
  BY <1>4 DEF DriverCrashes, Fault, Vanish
<1>5. ASSUME NEW x \in Drivers, DriverHangs(x)
      PROVE  WorldTypeOK'
  BY <1>5 DEF DriverHangs, Fault
<1>6. ASSUME NEW x \in Drivers, ServerObeys(x)
      PROVE  WorldTypeOK'
  BY <1>6 DEF ServerObeys, Vanish
<1>7. CASE LinkBreaks
  BY <1>7 DEF LinkBreaks, Fault
<1>8. CASE ServerCrashes
  <2>1. faults' \in 0 .. MaxFaults
    BY <1>8 DEF ServerCrashes, Fault
  <2>2. /\ server' \in [Devices -> {"gone", "off", "on"}]
        /\ request' \in [Devices -> {"none", "off", "on"}]
        /\ owed' \in SUBSET Devices
    BY <1>8 DEF ServerCrashes, Vanish
  <2> QED BY <1>8, <2>1, <2>2 DEF ServerCrashes
<1>9. ASSUME NEW d \in Devices, DriverReturns(d)
      PROVE  WorldTypeOK'
  BY <1>9 DEF DriverReturns, DriverAnnounces
<1>10. CASE ServerStarts
  BY <1>10 DEF ServerStarts
<1> QED BY <1>1, <1>2, <1>3, <1>4, <1>5, <1>6, <1>7, <1>8, <1>9, <1>10 DEF World

\* Every step keeps the types.
LEMMA TypeStep ==
    TypeOK /\ InRange /\ LiveHandleKnown /\ [Next]_vars => TypeOK'
<1> SUFFICES ASSUME TypeOK, InRange, LiveHandleKnown, [Next]_vars PROVE TypeOK'
  OBVIOUS
<1>1. CASE UNCHANGED watchdogVars /\ (World \/ \E d \in Devices : DriverReturns(d))
  BY <1>1, WorldTypes DEF TypeOK, watchdogVars, runVars, clientVars
<1>2. CASE UNCHANGED vars
  BY <1>2 DEF TypeOK, WorldTypeOK, vars, watchdogVars, worldVars, runVars, clientVars
<1> QED BY <1>1, <1>2, RunTypes, ClientTypes DEF Next
-----------------------------------------------------------------------------
(***************************************************************************)
(* The thread of run(): a handle survives from its test to its use.        *)
(***************************************************************************)

\* A step of run() keeps its invariant: a device found connected has a handle.
LEMMA RunRun == TypeOK /\ RunInv /\ Run => RunInv'
<1> SUFFICES ASSUME TypeOK, RunInv, Run PROVE RunInv'
  OBVIOUS
<1> USE DEF RunInv, InRange, AtDevice, NoSession, LookedAt, RequestedDeviceIsValid
<1>1. CASE Connect \/ WaitOk \/ WaitTimeout \/ LoopTest
  BY <1>1 DEF Connect, WaitOk, WaitTimeout, LoopTest
<1>2. CASE Wake \/ EndRound
  BY <1>2 DEF Wake, EndRound
<1>3. CASE Look
  <2>1. Current' = Current /\ isDeviceValid(Current)' = isDeviceValid(Current)
    BY <1>3 DEF Look, Current, isDeviceValid
  <2>2. indiDeviceConnected' => isDeviceValid(Current)
    BY <1>3, CurrentDevice
       DEF Look, isIndiDeviceConnected, Switch, isDeviceValid, TypeOK, Handles
  <2> QED BY <1>3, <2>1, <2>2 DEF Look
<1>4. CASE Decide
  <2>1. CASE DecideRestart \/ DecideNothing
    BY <1>4, <2>1 DEF Decide, DecideRestart, DecideNothing, Advance
  <2>2. CASE DecideTurnOn \/ DecideTurnOff
    <3>1. /\ pc = "decide" /\ pc' \in {"turnOn", "turnOff"} /\ next' = next
          /\ UNCHANGED <<connected, deviceConnections>>
          /\ isDeviceValid(Current)
      BY <1>4, <2>2 DEF Decide, DecideTurnOn, DecideTurnOff
    <3>2. isDeviceValid(Current)'
      BY <3>1 DEF isDeviceValid, Current
    <3> QED BY <1>4, <3>1, <3>2 DEF Decide
  <2> QED BY <1>4, <2>1, <2>2 DEF Decide
<1>5. CASE TurnOn \/ TurnOff
  BY <1>5 DEF TurnOn, TurnOff, SwitchMissing, Advance
<1>6. CASE RequestDeclined \/ RequestGranted
  BY <1>6 DEF RequestDeclined, RequestGranted, Advance
<1>7. CASE Restart \/ Reset \/ Renew
  BY <1>7 DEF Restart, Reset, Renew
<1> QED BY <1>1, <1>2, <1>3, <1>4, <1>5, <1>6, <1>7 DEF Run

\* A step of the client takes no handle away while run() holds the mutex.
LEMMA ClientRun == TypeOK /\ LiveHandleKnown /\ RunInv /\ Client => RunInv'
<1> SUFFICES ASSUME TypeOK, LiveHandleKnown, RunInv, Client PROVE RunInv'
  OBVIOUS
<1>1. /\ pc' = pc /\ next' = next /\ indiDeviceConnected' = indiDeviceConnected
      /\ connected' => connected
  BY DEF Client, Listener, AttemptSucceeds, AttemptFails, LinkLost, NewDevice,
         RemoveDevice, PropertyUpdated, PropertyRemoved, AddIndiDevice,
         RemoveIndiDevice, runVars
<1>2. ASSUME HeldByRun, NEW d \in Devices, deviceConnections[d] # "none"
      PROVE  deviceConnections'[d] # "none"
  <2>1. CASE AttemptSucceeds
    BY <1>2, <2>1, DropTypes DEF AttemptSucceeds
  <2>2. ASSUME NEW x \in Devices, RemoveDevice(x)
        PROVE  deviceConnections'[d] # "none"
    BY <1>2, <2>2 DEF RemoveDevice, TypeOK, Views
  <2>3. CASE UNCHANGED deviceConnections
    BY <1>2, <2>3
  <2> QED BY <1>2, <2>1, <2>2, <2>3
          DEF Client, Listener, AttemptFails, LinkLost, NewDevice,
              PropertyUpdated, PropertyRemoved, AddIndiDevice, RemoveIndiDevice,
              clientVars
<1>3. pc \in {"decide", "turnOn", "turnOff"} => HeldByRun /\ Current \in Devices
  BY CurrentDevice DEF RunInv, AtDevice, HeldByRun
<1>4. Current' = Current
  BY <1>1 DEF Current
<1>5. pc \in {"decide", "turnOn", "turnOff"} /\ isDeviceValid(Current)
        => isDeviceValid(Current)'
  BY <1>2, <1>3, <1>4 DEF isDeviceValid
<1>6. InRange' /\ NoSession'
  BY <1>1 DEF RunInv, InRange, AtDevice, NoSession
<1>7. LookedAt' /\ RequestedDeviceIsValid'
  BY <1>1, <1>5 DEF RunInv, LookedAt, RequestedDeviceIsValid
<1> QED BY <1>6, <1>7 DEF RunInv

\* Every step keeps the invariant of run().
LEMMA RunStep == TypeOK /\ LiveHandleKnown /\ RunInv /\ [Next]_vars => RunInv'
<1>1. UNCHANGED watchdogVars /\ RunInv => RunInv'
  BY DEF watchdogVars, runVars, RunInv, InRange, AtDevice, NoSession, LookedAt,
         RequestedDeviceIsValid, isDeviceValid, Current
<1> QED BY <1>1, RunRun, ClientRun DEF Next, vars
-----------------------------------------------------------------------------
(***************************************************************************)
(* The client: what the watchdog holds for live, its client knows.         *)
(***************************************************************************)

\* No connection attempt survives the wait it was started for.
LEMMA AttemptStep == TypeOK /\ NoLateAttempt /\ [Next]_vars => NoLateAttempt'
<1> SUFFICES ASSUME TypeOK, NoLateAttempt, [Next]_vars PROVE NoLateAttempt'
  OBVIOUS
<1> USE DEF TypeOK, NoLateAttempt, isServerConnected
<1>1. CASE Connect \/ WaitOk \/ WaitTimeout
  BY <1>1 DEF Connect, WaitOk, WaitTimeout, WaitIsOver, clientVars, worldVars
<1>2. CASE LoopTest \/ Wake \/ EndRound \/ Look \/ Decide
  BY <1>2 DEF LoopTest, Wake, EndRound, Look, Decide, DecideRestart, DecideTurnOn,
              DecideTurnOff, DecideNothing, clientVars
<1>3. CASE TurnOn \/ TurnOff \/ RequestDeclined \/ RequestGranted
  BY <1>3 DEF TurnOn, TurnOff, RequestDeclined, RequestGranted, clientVars
<1>4. CASE Restart \/ Reset \/ Renew
  BY <1>4 DEF Restart, Reset, Renew, clientVars
<1>5. CASE AttemptSucceeds \/ AttemptFails \/ LinkLost
  BY <1>5 DEF AttemptSucceeds, AttemptFails, LinkLost, runVars, clientVars
<1>6. ASSUME NEW d \in Devices,
             \/ Listener(d) \/ PropertyRemoved(d)
             \/ AddIndiDevice(d) \/ RemoveIndiDevice(d)
      PROVE  NoLateAttempt'
  <2>1. UNCHANGED <<pc, connecting, link>>
    BY <1>6 DEF Listener, NewDevice, RemoveDevice, PropertyUpdated, PropertyRemoved,
                AddIndiDevice, RemoveIndiDevice, runVars, worldVars
  <2> QED BY <2>1
<1>7. CASE UNCHANGED watchdogVars
           /\ (World \/ (\E d \in Devices : DriverReturns(d)) \/ UNCHANGED worldVars)
  <2>1. UNCHANGED <<pc, connecting>>
    BY <1>7 DEF watchdogVars, runVars, clientVars
  <2>2. link = "none" => link' = "none"
    BY <1>7 DEF World, DriverReturns, DriverAnnounces, Unplug, Plug, DriverReplies,
                Toggle, DriverCrashes, DriverHangs, ServerObeys, LinkBreaks,
                ServerCrashes, ServerStarts, worldVars
  <2> QED BY <2>1, <2>2
<1> QED BY <1>1, <1>2, <1>3, <1>4, <1>5, <1>6, <1>7 DEF Next, Run, Client, vars

\* Callbacks wait only under a connection.
LEMMA LinkedStep == TypeOK /\ CallsLinked /\ [Next]_vars => CallsLinked'
<1> SUFFICES ASSUME TypeOK, CallsLinked, [Next]_vars PROVE CallsLinked'
  OBVIOUS
<1> USE DEF CallsLinked, CurrentCalls
<1>1. CASE Reset
  <2>1. \A c \in calls' : ~c.current
    BY <1>1 DEF Reset, CalledOff, TypeOK, Calls
  <2> QED BY <2>1
<1>2. CASE AttemptSucceeds \/ AttemptFails \/ LinkLost
  BY <1>2 DEF AttemptSucceeds, AttemptFails, LinkLost, clientVars
<1>3. ASSUME NEW d \in Devices,
             Listener(d) \/ PropertyRemoved(d)
      PROVE  CallsLinked'
  <2>1. link' = "up"
    BY <1>3 DEF Listener, NewDevice, RemoveDevice, PropertyUpdated, PropertyRemoved,
                Listening, worldVars
  <2> QED BY <2>1
<1>4. ASSUME calls' \subseteq calls, link' = "none" => link = "none"
      PROVE  CallsLinked'
  BY <1>4
<1>5. ASSUME NEW d \in Devices, AddIndiDevice(d) \/ RemoveIndiDevice(d)
      PROVE  CallsLinked'
  BY <1>4, <1>5 DEF AddIndiDevice, RemoveIndiDevice, worldVars
<1>6. CASE Run /\ ~Reset
  <2>1. calls' = calls /\ link' = link
    BY <1>6 DEF Run, Connect, WaitOk, WaitTimeout, LoopTest, Wake, EndRound, Look,
                Decide, TurnOn, TurnOff, RequestDeclined, RequestGranted, Restart,
                Renew, clientVars, worldVars
  <2> QED BY <1>4, <2>1
<1>7. CASE UNCHANGED watchdogVars
           /\ (World \/ (\E d \in Devices : DriverReturns(d)) \/ UNCHANGED worldVars)
  <2>1. calls' = calls
    BY <1>7 DEF watchdogVars, clientVars
  <2>2. link' = "none" => link = "none"
    BY <1>7 DEF World, DriverReturns, DriverAnnounces, Unplug, Plug, DriverReplies,
                Toggle, DriverCrashes, DriverHangs, ServerObeys, LinkBreaks,
                ServerCrashes, ServerStarts, worldVars
  <2> QED BY <1>4, <2>1, <2>2
<1> QED BY <1>1, <1>2, <1>3, <1>5, <1>6, <1>7 DEF Next, Client, vars

\* A step of run() leaves no handle live that its client does not know.
LEMMA RunHandles ==
    TypeOK /\ InRange /\ LiveHandleKnown /\ CallsKnown /\ Run
        => LiveHandleKnown' /\ CallsKnown'
<1> SUFFICES ASSUME TypeOK, InRange, LiveHandleKnown, CallsKnown, Run
             PROVE  LiveHandleKnown' /\ CallsKnown'
  OBVIOUS
<1>1. CASE Reset
  <2>1. \A d \in Devices : deviceConnections'[d] # "live"
    BY <1>1, DropTypes DEF Reset
  <2>2. \A c \in calls' : ~c.current
    BY <1>1 DEF Reset, CalledOff, TypeOK, Calls
  <2> QED BY <2>1, <2>2 DEF LiveHandleKnown, CallsKnown
<1>2. CASE TurnOn \/ TurnOff
  <2>1. Current \in Devices
    BY <1>2, CurrentDevice DEF AtDevice, TurnOn, TurnOff
  <2>2. \A d \in Devices : baseDevices[d] # "gone" => baseDevices'[d] # "gone"
    BY <1>2, <2>1 DEF TurnOn, TurnOff, SwitchMissing, WriteSwitch, TypeOK
  <2>3. \A d \in Devices : deviceConnections'[d] = "live" => deviceConnections[d] = "live"
    BY <1>2, <2>1 DEF TurnOn, TurnOff, SwitchMissing, TypeOK
  <2>4. calls' = calls /\ \A c \in calls : c.device \in Devices
    BY <1>2 DEF TurnOn, TurnOff, TypeOK, Calls
  <2> QED BY <2>2, <2>3, <2>4 DEF LiveHandleKnown, CallsKnown
<1>3. CASE RequestDeclined \/ Restart
  <2>1. Current \in Devices
    BY <1>3, CurrentDevice DEF AtDevice, RequestDeclined, Restart
  <2>2. \A d \in Devices : deviceConnections'[d] = "live" => deviceConnections[d] = "live"
    BY <1>3, <2>1 DEF RequestDeclined, Restart, TypeOK
  <2>3. UNCHANGED clientVars
    BY <1>3 DEF RequestDeclined, Restart
  <2> QED BY <2>2, <2>3 DEF LiveHandleKnown, CallsKnown, clientVars
<1>4. CASE UNCHANGED <<deviceConnections, baseDevices, calls>>
  BY <1>4 DEF LiveHandleKnown, CallsKnown
<1> QED BY <1>1, <1>2, <1>3, <1>4
        DEF Run, Connect, WaitOk, WaitTimeout, LoopTest, Wake, EndRound, Look,
            Decide, RequestGranted, Renew, clientVars

\* Nor does a step of the client's threads.
LEMMA ClientHandles ==
    TypeOK /\ ClientInv /\ Client => LiveHandleKnown' /\ CallsKnown'
<1> SUFFICES ASSUME TypeOK, ClientInv, Client
             PROVE  LiveHandleKnown' /\ CallsKnown'
  OBVIOUS
<1> USE DEF ClientInv
<1>0. \A c \in calls : c.device \in Devices /\ c.current \in BOOLEAN
  BY DEF TypeOK, Calls
<1>1. CASE AttemptSucceeds
  <2>1. \A d \in Devices : deviceConnections'[d] # "live"
    BY <1>1, DropTypes DEF AttemptSucceeds
  <2>2. \A c \in calls' : ~c.current
    BY <1>1 DEF AttemptSucceeds, NoLateAttempt, isServerConnected, CallsLinked,
                CurrentCalls
  <2> QED BY <2>1, <2>2 DEF LiveHandleKnown, CallsKnown
<1>2. ASSUME NEW d \in Devices, NewDevice(d)
      PROVE  LiveHandleKnown' /\ CallsKnown'
  <2>1. /\ \A x \in Devices : baseDevices[x] # "gone" => baseDevices'[x] # "gone"
        /\ baseDevices'[d] # "gone"
    BY <1>2 DEF NewDevice, TypeOK
  <2>2. \A c \in calls' : c \in calls \/ c.device = d
    BY <1>2 DEF NewDevice
  <2> QED BY <1>0, <1>2, <2>1, <2>2 DEF NewDevice, LiveHandleKnown, CallsKnown
<1>3. ASSUME NEW d \in Devices, RemoveDevice(d)
      PROVE  LiveHandleKnown' /\ CallsKnown'
  <2>1. \A c \in calls' : ~c.current \/ c.op = "remove"
    BY <1>3 DEF RemoveDevice, Listening, CurrentCalls
  <2>2. \A x \in Devices : deviceConnections'[x] = "live"
                            => x # d /\ deviceConnections[x] = "live"
    BY <1>3 DEF RemoveDevice, TypeOK, Views
  <2>3. \A x \in Devices \ {d} : baseDevices'[x] = baseDevices[x]
    BY <1>3 DEF RemoveDevice, TypeOK
  <2> QED BY <2>1, <2>2, <2>3 DEF LiveHandleKnown, CallsKnown
<1>4. ASSUME NEW d \in Devices, PropertyUpdated(d) \/ PropertyRemoved(d)
      PROVE  LiveHandleKnown' /\ CallsKnown'
  <2>1. \A x \in Devices : baseDevices[x] # "gone" => baseDevices'[x] # "gone"
    BY <1>4 DEF PropertyUpdated, PropertyRemoved, TypeOK
  <2> QED BY <1>0, <1>4, <2>1
          DEF PropertyUpdated, PropertyRemoved, LiveHandleKnown, CallsKnown
<1>5. ASSUME NEW d \in Devices, AddIndiDevice(d)
      PROVE  LiveHandleKnown' /\ CallsKnown'
  <2>1. PICK c \in calls :
          /\ c.op = "add" /\ c.device = d /\ calls' = calls \ {c}
          /\ deviceConnections' = [deviceConnections EXCEPT
               ![d] = IF c.current THEN "live" ELSE "bare"]
    BY <1>5 DEF AddIndiDevice
  <2>2. deviceConnections'[d] = "live" => baseDevices[d] # "gone"
    BY <1>0, <2>1 DEF CallsKnown, TypeOK
  <2>3. \A x \in Devices \ {d} : deviceConnections'[x] = deviceConnections[x]
    BY <2>1 DEF TypeOK
  <2>4. baseDevices' = baseDevices
    BY <1>5 DEF AddIndiDevice
  <2> QED BY <2>1, <2>2, <2>3, <2>4 DEF LiveHandleKnown, CallsKnown
<1>6. ASSUME NEW d \in Devices, RemoveIndiDevice(d)
      PROVE  LiveHandleKnown' /\ CallsKnown'
  <2>1. \A x \in Devices : deviceConnections'[x] = "live"
                            => deviceConnections[x] = "live"
    BY <1>6 DEF RemoveIndiDevice, TypeOK
  <2>2. calls' \subseteq calls /\ baseDevices' = baseDevices
    BY <1>6 DEF RemoveIndiDevice
  <2> QED BY <2>1, <2>2 DEF LiveHandleKnown, CallsKnown
<1>7. CASE AttemptFails \/ LinkLost
  BY <1>7 DEF AttemptFails, LinkLost, clientVars, LiveHandleKnown, CallsKnown
<1> QED BY <1>1, <1>2, <1>3, <1>4, <1>5, <1>6, <1>7 DEF Client, Listener

\* Every step keeps the invariant of the client.
LEMMA ClientStep == TypeOK /\ InRange /\ ClientInv /\ [Next]_vars => ClientInv'
<1>1. UNCHANGED watchdogVars /\ ClientInv => LiveHandleKnown' /\ CallsKnown'
  BY DEF watchdogVars, clientVars, ClientInv, LiveHandleKnown, CallsKnown
<1> QED BY <1>1, RunHandles, ClientHandles, AttemptStep, LinkedStep
        DEF Next, vars, ClientInv
-----------------------------------------------------------------------------
(***************************************************************************)
(* Data of a dropped client, or of an earlier announcement, is replaced.   *)
(***************************************************************************)

\* Stale callbacks keep to the time without a client that is connected.
LEMMA UnlinkedStep ==
    TypeOK /\ NoLateAttempt /\ StaleUnlinked /\ [Next]_vars => StaleUnlinked'
<1> SUFFICES ASSUME TypeOK, NoLateAttempt, StaleUnlinked, [Next]_vars,
                    StaleCallback # "late", NEW c \in calls', ~c.current
             PROVE  /\ \A d \in Devices : baseDevices'[d] = "gone"
                    /\ ~connecting' /\ link' = "none"
                    /\ pc' \in {"renew", "loop", "connect"}
                    /\ pc' = "loop" => ~connected'
                    /\ StaleCallback = "joined" => pc' = "renew"
  BY DEF StaleUnlinked
<1> USE ConfigurationAssumption DEF StaleUnlinked
<1>1. CASE Reset
  BY <1>1 DEF Reset, DropDevices, NoLateAttempt
<1>2. CASE Connect \/ LoopTest \/ Renew
  BY <1>2 DEF Connect, LoopTest, Renew, clientVars, worldVars
<1>3. CASE Run /\ pc \notin {"connect", "loop", "reset", "renew"}
  <2>1. calls' = calls
    BY <1>3 DEF Run, Connect, WaitOk, WaitTimeout, LoopTest, Wake, EndRound, Look,
                Decide, TurnOn, TurnOff, RequestDeclined, RequestGranted, Restart,
                Reset, Renew, clientVars
  <2> QED BY <1>3, <2>1
<1>4. CASE AttemptSucceeds \/ AttemptFails \/ LinkLost
  BY <1>4 DEF AttemptSucceeds, AttemptFails, LinkLost, clientVars
<1>5. ASSUME NEW d \in Devices, Listener(d) \/ PropertyRemoved(d)
      PROVE  FALSE
  BY <1>5 DEF Listener, NewDevice, RemoveDevice, PropertyUpdated, PropertyRemoved,
              Listening
<1>6. ASSUME NEW d \in Devices, AddIndiDevice(d) \/ RemoveIndiDevice(d)
      PROVE  /\ calls' \subseteq calls
             /\ UNCHANGED <<baseDevices, connecting, link, pc, connected>>
  BY <1>6 DEF AddIndiDevice, RemoveIndiDevice, runVars, worldVars
<1>7. CASE UNCHANGED watchdogVars
           /\ (World \/ (\E d \in Devices : DriverReturns(d)) \/ UNCHANGED worldVars)
  <2>1. UNCHANGED <<calls, baseDevices, connecting, pc, connected>>
    BY <1>7 DEF watchdogVars, runVars, clientVars
  <2>2. link = "none" => link' = "none"
    BY <1>7 DEF World, DriverReturns, DriverAnnounces, Unplug, Plug, DriverReplies,
                Toggle, DriverCrashes, DriverHangs, ServerObeys, LinkBreaks,
                ServerCrashes, ServerStarts, worldVars
  <2> QED BY <2>1, <2>2
<1>8. CASE Run
  BY <1>1, <1>2, <1>3, <1>8 DEF Run, WaitOk, WaitTimeout, Wake, EndRound, Look,
     Decide, DecideRestart, DecideTurnOn, DecideTurnOff, DecideNothing, TurnOn,
     TurnOff, RequestDeclined, RequestGranted, Restart
<1> QED BY <1>4, <1>5, <1>6, <1>7, <1>8 DEF Next, Client, vars

\* A step of run() keeps no handle of a device whose new one it has missed.
LEMMA RunReplaces ==
    TypeOK /\ InRange /\ LiveHandleKnown /\ StaleReplaced /\ Run => StaleReplaced'
<1> SUFFICES ASSUME TypeOK, InRange, LiveHandleKnown, StaleReplaced, Run,
                    StaleCallback # "late", NEW d \in Devices,
                    deviceConnections'[d] # "none", baseDevices'[d] # "gone"
             PROVE  deviceConnections'[d] = "live" \/ Announced(d)'
  BY DEF StaleReplaced
<1> USE DEF StaleReplaced, Announced
<1>1. CASE Reset
  BY <1>1 DEF Reset, DropDevices
<1>2. CASE TurnOn \/ TurnOff
  <2>1. Current \in Devices
    BY <1>2, CurrentDevice DEF AtDevice, TurnOn, TurnOff
  <2>2. baseDevices[d] # "gone"
    BY <1>2, <2>1 DEF TurnOn, TurnOff, SwitchMissing, WriteSwitch, TypeOK,
                      LiveHandleKnown
  <2>3. /\ deviceConnections[d] # "none" /\ calls' = calls
        /\ deviceConnections[d] = "live" => deviceConnections'[d] = "live"
    BY <1>2, <2>1 DEF TurnOn, TurnOff, SwitchMissing, HasConnectionSwitch, Switch,
                      TypeOK
  <2> QED BY <2>2, <2>3
<1>3. CASE RequestDeclined \/ Restart
  <2>1. Current \in Devices
    BY <1>3, CurrentDevice DEF AtDevice, RequestDeclined, Restart
  <2>2. deviceConnections'[d] = deviceConnections[d]
    BY <1>3, <2>1 DEF RequestDeclined, Restart, TypeOK
  <2> QED BY <1>3, <2>2 DEF RequestDeclined, Restart, clientVars
<1>4. CASE UNCHANGED <<deviceConnections, baseDevices, calls>>
  BY <1>4
<1> QED BY <1>1, <1>2, <1>3, <1>4
        DEF Run, Connect, WaitOk, WaitTimeout, LoopTest, Wake, EndRound, Look,
            Decide, RequestGranted, Renew, clientVars

\* Nor does a step of the client's threads: each new device is announced.
LEMMA ClientReplaces ==
    TypeOK /\ StaleInv /\ Client => StaleReplaced'
<1> SUFFICES ASSUME TypeOK, StaleInv, Client, StaleCallback # "late",
                    NEW d \in Devices,
                    deviceConnections'[d] # "none", baseDevices'[d] # "gone"
             PROVE  deviceConnections'[d] = "live" \/ Announced(d)'
  BY DEF StaleReplaced
<1> USE DEF StaleInv, StaleReplaced, Announced
<1>1. CASE AttemptSucceeds
  BY <1>1 DEF AttemptSucceeds, DropDevices
<1>2. ASSUME NEW x \in Devices, NewDevice(x)
      PROVE  deviceConnections'[d] = "live" \/ Announced(d)'
  <2>1. CASE x = d
    <3>1. [op |-> "add", device |-> d, current |-> TRUE] \in calls'
      BY <1>2, <2>1 DEF NewDevice
    <3> QED BY <3>1
  <2>2. CASE x # d
    <3>1. baseDevices'[d] = baseDevices[d] /\ deviceConnections' = deviceConnections
          /\ calls \subseteq calls'
      BY <1>2, <2>2 DEF NewDevice, TypeOK
    <3> QED BY <3>1
  <2> QED BY <2>1, <2>2
<1>3. ASSUME NEW x \in Devices, RemoveDevice(x)
      PROVE  deviceConnections'[d] = "live" \/ Announced(d)'
  <2>1. x # d
    BY <1>3 DEF RemoveDevice, TypeOK
  <2>2. /\ baseDevices'[d] = baseDevices[d] /\ calls \subseteq calls'
        /\ deviceConnections'[d] = deviceConnections[d]
    BY <1>3, <2>1 DEF RemoveDevice, TypeOK
  <2> QED BY <2>2
<1>4. ASSUME NEW x \in Devices, PropertyUpdated(x) \/ PropertyRemoved(x)
      PROVE  deviceConnections'[d] = "live" \/ Announced(d)'
  <2>1. /\ baseDevices[d] # "gone" /\ calls' = calls
        /\ deviceConnections' = deviceConnections
    BY <1>4 DEF PropertyUpdated, PropertyRemoved, TypeOK
  <2> QED BY <2>1
<1>5. ASSUME NEW x \in Devices, AddIndiDevice(x)
      PROVE  deviceConnections'[d] = "live" \/ Announced(d)'
  <2>1. PICK c \in calls :
          /\ c.op = "add" /\ c.device = x /\ calls' = calls \ {c}
          /\ deviceConnections' = [deviceConnections EXCEPT
               ![x] = IF c.current THEN "live" ELSE "bare"]
    BY <1>5 DEF AddIndiDevice
  <2>2. baseDevices' = baseDevices
    BY <1>5 DEF AddIndiDevice
  <2>3. c.current
    BY <2>2 DEF StaleUnlinked
  <2>4. CASE x = d
    BY <2>1, <2>3, <2>4 DEF TypeOK
  <2>5. CASE x # d
    <3>1. deviceConnections'[d] = deviceConnections[d]
      BY <2>1, <2>5 DEF TypeOK
    <3> QED BY <2>1, <2>2, <2>5, <3>1
  <2> QED BY <2>4, <2>5
<1>6. ASSUME NEW x \in Devices, RemoveIndiDevice(x)
      PROVE  deviceConnections'[d] = "live" \/ Announced(d)'
  <2>1. x # d
    BY <1>6 DEF RemoveIndiDevice, TypeOK
  <2>2. deviceConnections'[d] = deviceConnections[d] /\ baseDevices' = baseDevices
    BY <1>6, <2>1 DEF RemoveIndiDevice, TypeOK
  <2>3. \A c \in calls : c.op = "add" => c \in calls'
    BY <1>6 DEF RemoveIndiDevice
  <2> QED BY <2>2, <2>3
<1>7. CASE AttemptFails \/ LinkLost
  BY <1>7 DEF AttemptFails, LinkLost, clientVars
<1> QED BY <1>1, <1>2, <1>3, <1>4, <1>5, <1>6, <1>7 DEF Client, Listener

\* Every step keeps the invariant about stale data.
LEMMA StaleStep ==
    TypeOK /\ InRange /\ ClientInv /\ StaleInv /\ [Next]_vars => StaleInv'
<1>1. UNCHANGED watchdogVars /\ StaleReplaced => StaleReplaced'
  BY DEF watchdogVars, clientVars, StaleReplaced, Announced
<1> QED BY <1>1, UnlinkedStep, RunReplaces, ClientReplaces
        DEF Next, vars, ClientInv, StaleInv

\* Data that is not live is of a device the client does not have.
LEMMA StaleSeen == StaleReplaced => SeenIsKnown
BY DEF StaleReplaced, Announced, SeenIsKnown, Switch, isDeviceValid
-----------------------------------------------------------------------------
(***************************************************************************)
(* The switch the watchdog writes before the driver has answered.          *)
(***************************************************************************)

\* The state SettledSwitchIsTrue is about: nothing is under way for d.
SettledAt(d) ==
    /\ link = "up" /\ server[d] # "gone"
    /\ baseDevices[d] \in {"off", "on"}
    /\ d \notin owed /\ request[d] = "none"

\* Steps that touch none of it, or settle no device anew.
LEMMA SameSettled ==
    ASSUME SettledSwitchIsTrue, NEW d \in Devices,
           SettledAt(d)' => /\ SettledAt(d)
                            /\ baseDevices'[d] = baseDevices[d]
                            /\ server'[d] = server[d]
    PROVE  SettledAt(d)' => baseDevices'[d] = server'[d]
BY DEF SettledSwitchIsTrue, SettledAt

\* A step of the watchdog or its client leaves no wrong copy behind.
LEMMA WatchdogSettled ==
    TypeOK /\ InRange /\ SettledSwitchIsTrue /\ (Run \/ Client) => SettledSwitchIsTrue'
<1> SUFFICES ASSUME TypeOK, InRange, SettledSwitchIsTrue, Run \/ Client,
                    NEW d \in Devices
             PROVE  SettledAt(d)' => baseDevices'[d] = server'[d]
  BY DEF SettledSwitchIsTrue, SettledAt
<1>1. CASE TurnOn \/ TurnOff
  <2>1. Current \in Devices
    BY <1>1, CurrentDevice DEF AtDevice, TurnOn, TurnOff
  <2>2. UNCHANGED <<link, server, owed>>
    BY <1>1 DEF TurnOn, TurnOff
  <2>3. CASE baseDevices' = baseDevices /\ request' = request
    BY <2>2, <2>3, SameSettled DEF SettledAt
  <2>4. ASSUME NEW state \in {"off", "on"},
               WriteSwitch(Current, state), Send(Current, state)
        PROVE  SettledAt(d)' => baseDevices'[d] = server'[d]
    <3>1. CASE d = Current
      BY <2>1, <2>2, <2>4, <3>1 DEF Send, SettledAt, TypeOK, WorldTypeOK
    <3>2. CASE d # Current
      <4>1. baseDevices'[d] = baseDevices[d] /\ request'[d] = request[d]
        BY <2>1, <2>4, <3>2 DEF WriteSwitch, Send, TypeOK, WorldTypeOK
      <4> QED BY <2>2, <4>1, SameSettled DEF SettledAt
    <3> QED BY <3>1, <3>2
  <2> QED BY <1>1, <2>3, <2>4 DEF TurnOn, TurnOff, SwitchMissing
<1>2. CASE Reset \/ LinkLost
  BY <1>2 DEF Reset, LinkLost, SettledAt
<1>3. CASE AttemptSucceeds
  BY <1>3 DEF AttemptSucceeds, DropDevices, SettledAt
<1>4. ASSUME NEW x \in Devices, NewDevice(x) \/ RemoveDevice(x)
      PROVE  SettledAt(d)' => baseDevices'[d] = server'[d]
  <2>1. /\ UNCHANGED <<link, server, owed, request>>
        /\ x # d => baseDevices'[d] = baseDevices[d]
        /\ baseDevices'[x] \notin {"off", "on"}
    BY <1>4 DEF NewDevice, RemoveDevice, worldVars, TypeOK
  <2> QED BY <2>1, SameSettled DEF SettledAt
<1>5. ASSUME NEW x \in Devices, PropertyUpdated(x)
      PROVE  SettledAt(d)' => baseDevices'[d] = server'[d]
  <2>1. /\ UNCHANGED <<link, server, request>> /\ owed' = owed \ {x}
        /\ x # d => baseDevices'[d] = baseDevices[d]
        /\ baseDevices'[x] = server[x]
    BY <1>5 DEF PropertyUpdated, TypeOK
  <2> QED BY <2>1, SameSettled DEF SettledAt
<1>6. ASSUME NEW x \in Devices, PropertyRemoved(x)
      PROVE  SettledAt(d)' => baseDevices'[d] = server'[d]
  <2>1. /\ UNCHANGED <<link, server, owed, request>>
        /\ x # d => baseDevices'[d] = baseDevices[d]
        /\ baseDevices'[x] = "bare"
    BY <1>6 DEF PropertyRemoved, TypeOK
  <2> QED BY <2>1, SameSettled DEF SettledAt
<1>7. CASE UNCHANGED <<baseDevices, link, server, owed, request>>
  BY <1>7, SameSettled DEF SettledAt
<1> QED BY <1>1, <1>2, <1>3, <1>4, <1>5, <1>6, <1>7
        DEF Run, Connect, WaitOk, WaitTimeout, LoopTest, Wake, EndRound, Look, Decide,
            RequestDeclined, RequestGranted, Restart, Renew, Client, Listener,
            AttemptFails, AddIndiDevice, RemoveIndiDevice, clientVars, worldVars

\* What vanishes leaves no copy behind that counts.
LEMMA VanishSettled ==
    ASSUME WorldTypeOK, SettledSwitchIsTrue, UNCHANGED <<link, baseDevices>>,
           NEW ds, Vanish(ds), NEW d \in Devices
    PROVE  SettledAt(d)' => baseDevices'[d] = server'[d]
<1>1. CASE d \in ds
  BY <1>1 DEF Vanish, SettledAt
<1>2. CASE d \notin ds
  BY <1>2, SameSettled DEF Vanish, SettledAt
<1> QED BY <1>1, <1>2

\* Nor does a step of the world: what a driver changes, it tells.
LEMMA WorldSettled ==
    /\ WorldTypeOK /\ SettledSwitchIsTrue
    /\ baseDevices' = baseDevices /\ (World \/ \E d \in Devices : DriverReturns(d))
    => SettledSwitchIsTrue'
<1> SUFFICES ASSUME WorldTypeOK, SettledSwitchIsTrue, baseDevices' = baseDevices,
                    World \/ \E d \in Devices : DriverReturns(d),
                    NEW d \in Devices
             PROVE  SettledAt(d)' => baseDevices'[d] = server'[d]
  BY DEF SettledSwitchIsTrue, SettledAt
<1> USE DEF WorldTypeOK
<1>1. ASSUME NEW x \in Devices, Unplug(x) \/ Plug(x)
      PROVE  SettledAt(d)' => baseDevices'[d] = server'[d]
  BY <1>1, SameSettled DEF Unplug, Plug, SettledAt
<1>2. ASSUME NEW x \in Devices, DriverReplies(x) \/ Toggle(x)
      PROVE  SettledAt(d)' => baseDevices'[d] = server'[d]
  <2>1. /\ link' = link /\ owed' = owed \cup {x}
        /\ x # d => server'[d] = server[d] /\ request'[d] = request[d]
    BY <1>2 DEF DriverReplies, Toggle
  <2> QED BY <2>1, SameSettled DEF SettledAt
<1>4. ASSUME NEW x \in Drivers, DriverCrashes(x) \/ ServerObeys(x)
      PROVE  SettledAt(d)' => baseDevices'[d] = server'[d]
  BY <1>4, VanishSettled DEF DriverCrashes, ServerObeys
<1>5. ASSUME NEW x \in Drivers, DriverHangs(x)
      PROVE  SettledAt(d)' => baseDevices'[d] = server'[d]
  BY <1>5, SameSettled DEF DriverHangs, SettledAt
<1>6. CASE LinkBreaks \/ ServerCrashes
  <2>1. link' # "up"
    BY <1>6 DEF LinkBreaks, ServerCrashes
  <2> QED BY <2>1 DEF SettledAt
<1>7. CASE ServerStarts
  BY <1>7, SameSettled DEF ServerStarts, SettledAt
<1>8. ASSUME NEW x \in Devices, DriverReturns(x)
      PROVE  SettledAt(d)' => baseDevices'[d] = server'[d]
  <2>1. /\ UNCHANGED <<link, owed, request>>
        /\ x # d => server'[d] = server[d]
        /\ link = "up" => baseDevices[x] = "gone"
    BY <1>8 DEF DriverReturns, DriverAnnounces
  <2> QED BY <2>1, SameSettled DEF SettledAt
<1> QED BY <1>1, <1>2, <1>4, <1>5, <1>6, <1>7, <1>8 DEF World

\* Every step keeps the copies true.
LEMMA SettledStep ==
    TypeOK /\ InRange /\ SettledSwitchIsTrue /\ [Next]_vars => SettledSwitchIsTrue'
<1>1. SettledSwitchIsTrue /\ UNCHANGED vars => SettledSwitchIsTrue'
  BY DEF SettledSwitchIsTrue, vars, watchdogVars, clientVars, worldVars
<1> QED BY <1>1, WatchdogSettled, WorldSettled
        DEF Next, TypeOK, watchdogVars, clientVars
-----------------------------------------------------------------------------
(***************************************************************************)
(* The theorems.                                                           *)
(***************************************************************************)

LEMMA InvInit == Init => IInv
<1> SUFFICES ASSUME Init PROVE IInv
  OBVIOUS
<1>1. TypeOK
  <2>1. WorldTypeOK
    BY WorldAssumption DEF Init, WorldInit, WorldTypeOK
  <2>2. next \in 1 .. Len(DeviceOrder) + 1
    BY ConfigurationAssumption DEF Init
  <2> QED BY <2>1, <2>2, EmptyMapContent DEF Init, TypeOK, Handles, Views
<1>2. RunInv
  BY DEF Init, RunInv, InRange, AtDevice, NoSession, LookedAt,
         RequestedDeviceIsValid
<1>3. ClientInv
  BY DEF Init, ClientInv, LiveHandleKnown, CallsKnown, CallsLinked, CurrentCalls,
         NoLateAttempt
<1>4. SettledSwitchIsTrue
  BY DEF Init, WorldInit, SettledSwitchIsTrue
<1>5. StaleInv
  BY DEF Init, StaleInv, StaleUnlinked, StaleReplaced
<1> QED BY <1>1, <1>2, <1>3, <1>4, <1>5 DEF IInv

LEMMA InvStep == IInv /\ [Next]_vars => IInv'
<1> SUFFICES ASSUME IInv, [Next]_vars PROVE IInv'
  OBVIOUS
<1>1. TypeOK'
  BY TypeStep DEF IInv, RunInv, ClientInv
<1>2. RunInv'
  BY RunStep DEF IInv, ClientInv
<1>3. ClientInv'
  BY ClientStep DEF IInv, RunInv
<1>4. SettledSwitchIsTrue'
  BY SettledStep DEF IInv, RunInv
<1>5. StaleInv'
  BY StaleStep DEF IInv, RunInv
<1> QED BY <1>1, <1>2, <1>3, <1>4, <1>5 DEF IInv

\* An order is written only with the counter's consent, however long the pipe
\* keeps it waiting.
OrderGranted ==
    pc = "restart" => IsRestartConditionReached(driverRestartMap, DriverOf[Current])

LEMMA GrantedStep == OrderGranted /\ [Next]_vars => OrderGranted'
<1> SUFFICES ASSUME OrderGranted, [Next]_vars PROVE OrderGranted'
  OBVIOUS
<1> USE DEF OrderGranted
<1>1. CASE RequestGranted
  <2>1. Current' = Current
    BY <1>1 DEF RequestGranted, Current
  <2> QED BY <1>1, <2>1 DEF RequestGranted
<1>2. CASE Run /\ ~RequestGranted
  BY <1>2 DEF Run, Connect, WaitOk, WaitTimeout, LoopTest, Wake, EndRound, Look,
     Decide, DecideRestart, DecideTurnOn, DecideTurnOff, DecideNothing, TurnOn,
     TurnOff, SwitchMissing, RequestDeclined, Restart, Reset, Renew, Advance
<1>3. CASE UNCHANGED <<pc, next, driverRestartMap>>
  <2>1. Current' = Current
    BY <1>3 DEF Current
  <2> QED BY <1>3, <2>1
<1> QED BY <1>1, <1>2, <1>3 DEF Next, Client, Listener, AttemptSucceeds, AttemptFails,
         LinkLost, NewDevice, RemoveDevice, PropertyUpdated, PropertyRemoved,
         AddIndiDevice, RemoveIndiDevice, watchdogVars, runVars, vars

\* The inductive invariant holds in every state.
LEMMA Inductive == Spec => []IInv
BY InvInit, InvStep, PTL DEF Spec

\* The state is always well typed: the iterator stays within the devices, no
\* counter reaches the limit, a handle holds data only.
THEOREM Types == Spec => []TypeOK
BY Inductive, PTL DEF IInv

\* run() sees of a device what its client knows, unless a callback still waits.
THEOREM SeenAsKnown == Spec => []SeenIsKnown
BY Inductive, StaleSeen, PTL DEF IInv, StaleInv

\* A device is not let go between its test and the switch command.
THEOREM RequestsAreValid == Spec => []RequestedDeviceIsValid
BY Inductive, PTL DEF IInv, RunInv

\* The switch written ahead is true once nothing is under way.
THEOREM SwitchesSettle == Spec => []SettledSwitchIsTrue
BY Inductive, PTL DEF IInv

\* Only the reset of the client ends a session.
THEOREM SessionsEnd == Spec => SessionEndsByReset
<1>1. IInv /\ [Next]_vars => [connected /\ ~connected' => pc = "renew"]_vars
  <2> SUFFICES ASSUME IInv, Next, connected, ~connected' PROVE pc = "renew"
    OBVIOUS
  <2>1. pc \notin {"connect", "wait"} /\ ~connecting
    BY DEF IInv, RunInv, NoSession, ClientInv, NoLateAttempt
  <2>2. CASE Run
    BY <2>1, <2>2 DEF Run, Connect, WaitOk, WaitTimeout, LoopTest, Wake, EndRound,
       Look, Decide, TurnOn, TurnOff, RequestDeclined, RequestGranted, Restart,
       Reset, Renew
  <2>3. CASE Client
    BY <2>1, <2>3 DEF Client, Listener, AttemptSucceeds, AttemptFails, LinkLost,
       NewDevice, RemoveDevice, PropertyUpdated, PropertyRemoved, AddIndiDevice,
       RemoveIndiDevice, runVars
  <2>4. CASE UNCHANGED watchdogVars
    BY <2>4 DEF watchdogVars, runVars
  <2> QED BY <2>2, <2>3, <2>4 DEF Next
<1> QED BY <1>1, Inductive, PTL DEF Spec, SessionEndsByReset

LEMMA SessionInit == Init => Session!Init
BY DEF Init, WorldInit, Session!Init, isServerConnected

LEMMA SessionStep ==
    IInv /\ [Next]_vars =>
        [Session!Next]_<<connecting, isServerConnected, connected /\ pc # "renew">>
<1> SUFFICES ASSUME IInv, [Next]_vars
             PROVE  [Session!Next]_<<connecting, isServerConnected,
                                     connected /\ pc # "renew">>
  OBVIOUS
<1> USE DEF isServerConnected
<1>0. /\ connected \in BOOLEAN /\ connecting \in BOOLEAN
      /\ link \in {"none", "up", "dead"}
      /\ connecting => pc = "wait" /\ link = "none"
      /\ pc \in {"connect", "wait"} => ~connected
  BY DEF IInv, TypeOK, WorldTypeOK, RunInv, NoSession, ClientInv, NoLateAttempt
<1>1. CASE Connect
  BY <1>0, <1>1 DEF Connect, worldVars, Session!Next, Session!Attempt
<1>2. CASE WaitOk
  BY <1>0, <1>2 DEF WaitOk, worldVars, clientVars, Session!Next, Session!Open
<1>3. CASE WaitTimeout \/ LoopTest \/ Wake \/ EndRound \/ Look \/ Decide
  BY <1>0, <1>3 DEF WaitTimeout, LoopTest, Wake, EndRound, Look, Decide,
     DecideRestart, DecideTurnOn, DecideTurnOff, DecideNothing, Advance,
     worldVars, clientVars
<1>4. CASE TurnOn \/ TurnOff \/ RequestDeclined \/ RequestGranted \/ Restart
  BY <1>0, <1>4 DEF TurnOn, TurnOff, SwitchMissing, Advance, RequestDeclined,
     RequestGranted, Restart, worldVars, clientVars
<1>5. CASE Reset
  BY <1>0, <1>5 DEF Reset, Session!Next, Session!Reset, Session!Lose
<1>6. CASE Renew
  BY <1>0, <1>6 DEF Renew, worldVars, clientVars
<1>7. CASE AttemptSucceeds
  BY <1>0, <1>7 DEF AttemptSucceeds, runVars, Session!Next, Session!Succeed
<1>8. CASE AttemptFails
  BY <1>0, <1>8 DEF AttemptFails, Session!Next, Session!Fail
<1>9. CASE LinkLost
  BY <1>0, <1>9 DEF LinkLost, runVars, clientVars, Session!Next, Session!Lose
<1>10. CASE \E d \in Devices : \/ Listener(d) \/ PropertyRemoved(d)
                              \/ AddIndiDevice(d) \/ RemoveIndiDevice(d)
  BY <1>0, <1>10 DEF Listener, NewDevice, RemoveDevice, PropertyUpdated,
     PropertyRemoved, AddIndiDevice, RemoveIndiDevice, runVars, worldVars
<1>11. CASE World /\ UNCHANGED watchdogVars
  BY <1>0, <1>11 DEF World, Unplug, Plug, DriverReplies, Toggle, DriverCrashes,
     DriverHangs, ServerObeys, LinkBreaks, ServerCrashes, ServerStarts,
     watchdogVars, runVars, clientVars
<1>12. CASE \E d \in Devices : DriverReturns(d) /\ UNCHANGED watchdogVars
  BY <1>0, <1>12 DEF DriverReturns, DriverAnnounces, watchdogVars, runVars,
     clientVars
<1>13. CASE UNCHANGED vars
  BY <1>13 DEF vars, watchdogVars, runVars, clientVars, worldVars
<1> QED BY <1>1, <1>2, <1>3, <1>4, <1>5, <1>6, <1>7, <1>8, <1>9, <1>10, <1>11,
           <1>12, <1>13 DEF Next, Run, Client

\* The connection keeps the promise of ServerSession, which the timed model of
\* connecting keeps as well.
THEOREM SessionsImplemented == Spec => SessionSpec
BY SessionInit, SessionStep, Inductive, PTL DEF Spec, SessionSpec, Session!Spec
=============================================================================
