----------------------- MODULE WatchdogProcessProofs -----------------------
(***************************************************************************)
(* Theorems about WatchdogProcess, for any devices, drivers, faults and    *)
(* deaths: the invariant of DeviceWatchdog needs nothing that dies with    *)
(* the process, and no driver is lost without a fault of its own.          *)
(***************************************************************************)
EXTENDS WatchdogProcess, DeviceWatchdogProofs, FiniteSetTheorems

\* A restart is cut in two only while it is written, to a pipe.
Writing == halfway => pc = "restart" /\ PipeIsFifo

PInv ==
    /\ IInv /\ Writing
    /\ halfway \in BOOLEAN /\ stops \subseteq Drivers

\* While it is, the watchdog stays where it is.
LEMMA Waiting ==
    ASSUME IInv, [Next]_vars, pc = "restart", pc' = "restart"
    PROVE  Current' = Current
<1>1. ~Run
  BY DEF Run, Connect, WaitOk, WaitTimeout, LoopTest, Wake, EndRound, Look, Decide,
     DecideRestart, DecideTurnOn, DecideTurnOff, DecideNothing, TurnOn, TurnOff,
     RequestDeclined, RequestGranted, Restart, Reset, Renew
<1>2. next' = next
  BY <1>1 DEF Next, Client, Listener, AttemptSucceeds, AttemptFails, LinkLost,
     NewDevice, RemoveDevice, PropertyUpdated, PropertyRemoved, AddIndiDevice,
     RemoveIndiDevice, vars, watchdogVars, runVars
<1> QED BY <1>2 DEF Current

\* The next process finds the watchdog's own state as it was constructed.
LEMMA DeathStep == IInv /\ ProcessDies => IInv'
<1> SUFFICES ASSUME IInv, ProcessDies PROVE IInv'
  OBVIOUS
<1>1. TypeOK'
  <2>1. WorldTypeOK'
    BY WorldAssumption DEF IInv, TypeOK, WorldTypeOK, ProcessDies, Fault
  <2>2. next' \in 1 .. Len(DeviceOrder) + 1
    BY ConfigurationAssumption DEF ProcessDies
  <2>3. driverRestartMap' \in RestartMaps(Drivers)
    BY EmptyMapContent DEF ProcessDies
  <2>4. /\ deviceConnections' \in [Devices -> Handles]
        /\ baseDevices' \in [Devices -> Views] /\ calls' \in SUBSET Calls
    BY DEF ProcessDies, Handles, Views
  <2> QED BY <2>1, <2>2, <2>3, <2>4 DEF ProcessDies, TypeOK
<1>2. RunInv'
  BY DEF ProcessDies, RunInv, InRange, AtDevice, NoSession, LookedAt,
     RequestedDeviceIsValid
<1>3. ClientInv'
  BY DEF ProcessDies, ClientInv, LiveHandleKnown, CallsKnown, CallsLinked,
     CurrentCalls, NoLateAttempt
<1>4. SettledSwitchIsTrue'
  BY DEF ProcessDies, SettledSwitchIsTrue
<1>5. StaleInv'
  BY DEF ProcessDies, StaleInv, StaleUnlinked, StaleReplaced
<1> QED BY <1>1, <1>2, <1>3, <1>4, <1>5 DEF IInv

\* The server obeys half of a restart.
LEMMA StopStep ==
    ASSUME IInv, NEW driver \in Drivers, ServerStops(driver)
    PROVE  IInv'
<1>1. TypeOK'
  <2>1. WorldTypeOK'
    BY DEF IInv, TypeOK, WorldTypeOK, ServerStops, Vanish
  <2> QED BY <2>1 DEF IInv, TypeOK, ServerStops, watchdogVars, runVars, clientVars
<1>2. RunInv'
  BY DEF IInv, RunInv, InRange, AtDevice, NoSession, LookedAt, isDeviceValid, Current,
     RequestedDeviceIsValid, ServerStops, watchdogVars, runVars
<1>3. ClientInv'
  BY DEF IInv, ClientInv, LiveHandleKnown, CallsKnown, CallsLinked, CurrentCalls,
     NoLateAttempt, isServerConnected, ServerStops, watchdogVars, runVars, clientVars
<1>4. SettledSwitchIsTrue'
  BY VanishSettled DEF IInv, TypeOK, ServerStops, watchdogVars, clientVars,
     SettledSwitchIsTrue, SettledAt
<1>5. StaleInv'
  BY DEF IInv, StaleInv, StaleUnlinked, StaleReplaced, Announced, ServerStops,
     watchdogVars, runVars, clientVars
<1> QED BY <1>1, <1>2, <1>3, <1>4, <1>5 DEF IInv

\* A process that may die keeps the invariant of one that does not.
LEMMA InvOverDeaths == IInv /\ [PNext]_processVars => IInv'
<1> SUFFICES ASSUME IInv, [PNext]_processVars PROVE IInv'
  OBVIOUS
<1>1. CASE WriteStop \/ WriteStart \/ Undivided \/ UNCHANGED processVars
  <2>1. [Next]_vars
    BY <1>1 DEF WriteStop, WriteStart, Undivided, processVars, Next, Run
  <2> QED BY <2>1, InvStep
<1> QED BY <1>1, DeathStep, StopStep DEF PNext

LEMMA PInvStep == PInv /\ [PNext]_processVars => PInv'
<1> SUFFICES ASSUME PInv, [PNext]_processVars PROVE PInv'
  OBVIOUS
<1>1. IInv'
  BY InvOverDeaths DEF PInv
<1>2. CASE WriteStop
  <2>1. DriverOf[Current] \in Drivers
    BY <1>2, CurrentDevice DEF WriteStop, PInv, IInv, RunInv, InRange, AtDevice
  <2> QED BY <1>1, <1>2, <2>1 DEF WriteStop, PInv, Writing, vars, watchdogVars, runVars
<1>3. CASE WriteStart \/ ProcessDies
  BY <1>1, <1>3 DEF WriteStart, ProcessDies, PInv, Writing
<1>4. CASE Undivided
  BY <1>1, <1>4 DEF Undivided, PInv, Writing
<1>5. CASE \E driver \in Drivers : ServerStops(driver)
  BY <1>1, <1>5 DEF ServerStops, PInv, Writing, watchdogVars, runVars
<1>6. CASE UNCHANGED processVars
  BY <1>1, <1>6 DEF processVars, vars, watchdogVars, runVars, PInv, Writing
<1> QED BY <1>2, <1>3, <1>4, <1>5, <1>6 DEF PNext

LEMMA PInvAlways == PSpec => []PInv
<1>1. PInit => PInv
  BY InvInit DEF PInit, PInv, Writing
<1> QED BY <1>1, PInvStep, PTL DEF PSpec
-----------------------------------------------------------------------------
(***************************************************************************)
(* What the watchdog promises holds over deaths and restarts of it.        *)
(***************************************************************************)

\* What a process sees of a device is what its own client knows, never what the
\* process before it has seen.
THEOREM SeenOverDeaths == PSpec => []SeenIsKnown
BY PInvAlways, StaleSeen, PTL DEF PInv, IInv, StaleInv

\* A device is not let go between its test and the switch command.
THEOREM RequestsOverDeaths == PSpec => []RequestedDeviceIsValid
BY PInvAlways, PTL DEF PInv, IInv, RunInv

\* The next process takes what it is told for the state of a switch, never
\* what the process before it has written ahead.
THEOREM SwitchesOverDeaths == PSpec => []SettledSwitchIsTrue
BY PInvAlways, PTL DEF PInv, IInv

\* To the server a death is the failure of an attempt, a reset or a lost link.
THEOREM SessionsOverDeaths == PSpec => SessionSpec
<1> DEFINE sessionVars == <<connecting, isServerConnected, connected /\ pc # "renew">>
<1>1. PInit => Session!Init
  BY SessionInit DEF PInit
<1>2. PInv /\ [PNext]_processVars => [Session!Next]_sessionVars
  <2> SUFFICES ASSUME PInv, [PNext]_processVars
               PROVE  [Session!Next]_sessionVars
    OBVIOUS
  <2>1. CASE WriteStop \/ WriteStart \/ Undivided \/ UNCHANGED processVars
    <3>1. [Next]_vars
      BY <2>1 DEF WriteStop, WriteStart, Undivided, processVars, Next, Run
    <3> QED BY <3>1, SessionStep DEF PInv
  <2>2. CASE ProcessDies
    <3>1. connecting => link = "none" /\ ~connected
      BY DEF PInv, IInv, RunInv, NoSession, ClientInv, NoLateAttempt,
             isServerConnected
    <3> QED BY <2>2, <3>1 DEF ProcessDies, PInv, IInv, TypeOK, WorldTypeOK,
         isServerConnected, Session!Next, Session!Fail, Session!Reset, Session!Lose
  <2>3. CASE \E driver \in Drivers : ServerStops(driver)
    BY <2>3 DEF ServerStops, watchdogVars, runVars, clientVars, isServerConnected
  <2> QED BY <2>1, <2>2, <2>3 DEF PNext
<1> QED BY <1>1, <1>2, PInvAlways, PTL DEF PSpec, SessionSpec, Session!Spec
-----------------------------------------------------------------------------
(***************************************************************************)
(* The throttle.                                                           *)
(***************************************************************************)

\* A restart is still granted when its second command is written.
LEMMA GrantedOverDeaths == OrderGranted /\ [PNext]_processVars => OrderGranted'
<1> SUFFICES ASSUME OrderGranted, [PNext]_processVars PROVE OrderGranted'
  OBVIOUS
<1>1. CASE WriteStop \/ WriteStart \/ Undivided \/ UNCHANGED processVars
  <2>1. [Next]_vars
    BY <1>1 DEF WriteStop, WriteStart, Undivided, processVars, Next, Run
  <2> QED BY <2>1, GrantedStep
<1>2. CASE ProcessDies \/ \E driver \in Drivers : ServerStops(driver)
  BY <1>2 DEF ProcessDies, ServerStops, watchdogVars, runVars, OrderGranted, Current
<1> QED BY <1>1, <1>2 DEF PNext

\* A complete order is a grant.
LEMMA OrderThrottled ==
    ASSUME PInv, OrderGranted, WriteStart
    PROVE  Throttle!Next
<1>1. /\ pc = "restart" /\ answer' = Answer(TRUE)
      /\ driverRestartMap' = MapAfterRestart(driverRestartMap, DriverOf[Current])
  BY DEF WriteStart, Restart
<1>2. PICK driver \in Drivers : driver = DriverOf[Current]
  BY <1>1, CurrentDevice DEF PInv, IInv, RunInv, InRange, AtDevice
<1>3. Due(Drivers, driverRestartMap)[driver] = 0
  BY <1>1, <1>2, GrantedIsDue DEF OrderGranted, PInv, IInv, TypeOK
<1>4. Due(Drivers, driverRestartMap')
        = [Due(Drivers, driverRestartMap) EXCEPT ![driver] = RestartTriggerLimit - 1]
  BY <1>1, <1>2, DueAfterRestart
<1>5. Throttle!Grant(driver)
  BY <1>1, <1>2, <1>3, <1>4 DEF Throttle!Grant, Answer, Due
<1> QED BY <1>5 DEF Throttle!Next

\* A refusal is one, and nothing else touches the count.
LEMMA RequestThrottled ==
    ASSUME PInv, Undivided
    PROVE  Throttle!Next \/ UNCHANGED <<Due(Drivers, driverRestartMap), answer>>
<1>1. CASE RequestDeclined
  <2>1. /\ pc = "request" /\ answer' = Answer(FALSE)
        /\ ~IsRestartConditionReached(driverRestartMap, DriverOf[Current])
        /\ driverRestartMap' = MapAfterDecline(driverRestartMap, DriverOf[Current])
    BY <1>1 DEF Undivided, RequestDeclined, Advance
  <2>2. PICK driver \in Drivers : driver = DriverOf[Current]
    BY <2>1, CurrentDevice DEF PInv, IInv, RunInv, InRange, AtDevice
  <2>3. Due(Drivers, driverRestartMap)[driver] > 0
    BY <2>1, <2>2, GrantedIsDue DEF PInv, IInv, TypeOK
  <2>4. Due(Drivers, driverRestartMap')
          = [Due(Drivers, driverRestartMap) EXCEPT ![driver] = @ - 1]
    BY <2>1, <2>2, DueAfterDecline DEF PInv, IInv, TypeOK
  <2>5. Throttle!Decline(driver)
    BY <2>1, <2>2, <2>3, <2>4 DEF Throttle!Decline, Answer, Due
  <2> QED BY <2>5 DEF Throttle!Next
<1>2. CASE ~RequestDeclined
  <2>1. driverRestartMap' = driverRestartMap /\ ~(pc = "request" /\ pc' = "look")
    <3>1. CASE Run
      BY <1>2, <3>1 DEF Undivided, Run, Connect, WaitOk, WaitTimeout, LoopTest, Wake,
         EndRound, Look, Decide, DecideRestart, DecideTurnOn, DecideTurnOff,
         DecideNothing, TurnOn, TurnOff, RequestGranted, Restart, Reset, Renew
    <3>2. CASE ~Run
      <4>1. pc' = pc /\ driverRestartMap' = driverRestartMap
        BY <3>2 DEF Undivided, Next, Client, Listener, AttemptSucceeds, AttemptFails,
           LinkLost, NewDevice, RemoveDevice, PropertyUpdated, PropertyRemoved,
           AddIndiDevice, RemoveIndiDevice, watchdogVars, runVars
      <4> QED BY <4>1
    <3> QED BY <3>1, <3>2
  <2> QED BY <2>1 DEF Undivided, Due
<1> QED BY <1>1, <1>2

\* Every step of the process is a step of the throttle, or none.
LEMMA ThrottleStep ==
    PInv /\ OrderGranted /\ [PNext]_processVars
        => [Throttle!Next]_<<Due(Drivers, driverRestartMap), answer>>
<1> SUFFICES ASSUME PInv, OrderGranted, [PNext]_processVars
             PROVE  \/ Throttle!Next
                    \/ UNCHANGED <<Due(Drivers, driverRestartMap), answer>>
  OBVIOUS
<1>1. CASE WriteStart
  BY <1>1, OrderThrottled
<1>2. CASE Undivided
  BY <1>2, RequestThrottled
<1>3. CASE ProcessDies
  <2>1. Due(Drivers, driverRestartMap') = [x \in Drivers |-> 0] /\ answer' = NoAnswer
    BY <1>3, DueEmpty DEF ProcessDies
  <2>2. Throttle!Forget
    BY <2>1 DEF Throttle!Forget, NoAnswer, Due
  <2> QED BY <2>2 DEF Throttle!Next
<1>4. CASE \/ WriteStop \/ UNCHANGED processVars
           \/ \E driver \in Drivers : ServerStops(driver)
  BY <1>4 DEF WriteStop, ServerStops, processVars, vars, watchdogVars, runVars, Due
<1> QED BY <1>1, <1>2, <1>3, <1>4 DEF PNext

\* The watchdog's requests, over rounds cut short, restarts that wait for the
\* pipe and deaths, are granted and declined as RestartThrottle promises.
THEOREM ThrottledOverDeaths == PSpec => ThrottleSpec
<1>1. PInit => Throttle!Init
  BY DueEmpty DEF PInit, Init, Throttle!Init, NoAnswer, Due
<1>2. PInit => OrderGranted
  BY DEF PInit, Init, OrderGranted
<1> QED BY <1>1, <1>2, GrantedOverDeaths, ThrottleStep, PInvAlways, PTL
        DEF PSpec, ThrottleSpec, Throttle!Spec, Due
-----------------------------------------------------------------------------
(***************************************************************************)
(* A fault costs one driver at most, all else costs none.                  *)
(***************************************************************************)

\* A driver stands still: all that the world says of its being lost.
StandsStill(x) == serverUp /\ health[x] = "dead" /\ x \notin orders

\* No more drivers are lost than those that newly stand still.
LEMMA LostFrom ==
    ASSUME NEW X, stops' \subseteq stops, BeingRestarted' = BeingRestarted,
           \A x \in Drivers \ X : StandsStill(x)' => StandsStill(x)
    PROVE  Lost' \subseteq Lost \cup X
BY DEF Lost, StandsStill

\* The world stops a driver by a fault only.
LEMMA WorldLoses ==
    ASSUME WorldTypeOK, World \/ \E d \in Devices : DriverReturns(d)
    PROVE  \/ \A x \in Drivers : StandsStill(x)' => StandsStill(x)
           \/ /\ faults' = faults + 1
              /\ \E y \in Drivers :
                   \A x \in Drivers \ {y} : StandsStill(x)' => StandsStill(x)
<1> USE DEF StandsStill, WorldTypeOK
<1>1. CASE \E y \in Drivers : DriverCrashes(y)
  <2>1. PICK y \in Drivers : DriverCrashes(y)
    BY <1>1
  <2>2. \A x \in Drivers \ {y} : StandsStill(x)' => StandsStill(x)
    BY <2>1 DEF DriverCrashes
  <2>3. faults' = faults + 1
    BY <2>1 DEF DriverCrashes, Fault
  <2> QED BY <2>2, <2>3
<1>2. ASSUME NEW y \in Drivers, DriverHangs(y) \/ ServerObeys(y)
      PROVE  \A x \in Drivers : StandsStill(x)' => StandsStill(x)
  BY <1>2 DEF DriverHangs, ServerObeys
<1>3. CASE ServerCrashes \/ ServerStarts \/ LinkBreaks
  BY <1>3 DEF ServerCrashes, ServerStarts, LinkBreaks
<1>4. ASSUME NEW d \in Devices, \/ Unplug(d) \/ Plug(d) \/ DriverReplies(d)
                              \/ Toggle(d) \/ DriverReturns(d)
      PROVE  \A x \in Drivers : StandsStill(x)' => StandsStill(x)
  BY <1>4 DEF Unplug, Plug, DriverReplies, Toggle, DriverReturns, DriverAnnounces
<1> QED BY <1>1, <1>2, <1>3, <1>4 DEF World

\* The watchdog itself stops none: it only orders.
LEMMA WatchdogLoses ==
    ASSUME Run \/ Client, NEW x
    PROVE  StandsStill(x)' => StandsStill(x)
BY DEF StandsStill, Run, Connect, WaitOk, WaitTimeout, LoopTest, Wake, EndRound, Look,
   Decide, TurnOn, TurnOff, RequestDeclined, RequestGranted, Restart, Reset, Renew,
   Client, Listener, AttemptSucceeds, AttemptFails, LinkLost, NewDevice, RemoveDevice,
   PropertyUpdated, PropertyRemoved, AddIndiDevice, RemoveIndiDevice, worldVars

\* What a step of the process or of the world may cost.
LEMMA LostStep ==
    ASSUME PInv, [PNext]_processVars
    PROVE  \/ Lost' \subseteq Lost
           \/ faults' = faults + 1 /\ \E y \in Drivers : Lost' \subseteq Lost \cup {y}
<1>1. CASE WriteStop
  BY <1>1 DEF WriteStop, Lost, BeingRestarted, Current, vars, worldVars,
     watchdogVars, runVars
<1>2. CASE WriteStart
  <2>1. /\ UNCHANGED <<serverUp, health>>
        /\ orders' = IF PipeIsFifo THEN orders \cup {DriverOf[Current]} ELSE orders
        /\ halfway' = FALSE /\ stops' = stops \ {DriverOf[Current]}
    BY <1>2 DEF WriteStart, Restart
  <2>2. halfway => PipeIsFifo
    BY DEF PInv, Writing
  <2> QED BY <2>1, <2>2 DEF Lost, BeingRestarted
<1>3. CASE ProcessDies
  <2>1. faults' = faults + 1
    BY <1>3 DEF ProcessDies, Fault
  <2>2. Lost' \subseteq Lost \cup BeingRestarted
    BY <1>3 DEF ProcessDies, Lost
  <2>3. halfway => DriverOf[Current] \in Drivers
    BY CurrentDevice DEF PInv, Writing, IInv, RunInv, InRange, AtDevice
  <2> QED BY <2>1, <2>2, <2>3 DEF BeingRestarted
<1>4. CASE Undivided
  <2>1. stops' \subseteq stops /\ [Next]_vars
    BY <1>4 DEF Undivided
  <2>2. BeingRestarted' = BeingRestarted
    <3>1. halfway' = halfway
      BY <1>4 DEF Undivided
    <3>2. halfway => Current' = Current
      BY <1>4, <2>1, Waiting DEF Undivided, PInv, Writing
    <3> QED BY <3>1, <3>2 DEF BeingRestarted
  <2>3. CASE Run \/ Client
    <3>1. \A x \in Drivers \ {} : StandsStill(x)' => StandsStill(x)
      BY <2>3, WatchdogLoses
    <3> QED BY <2>1, <2>2, <3>1, LostFrom
  <2>4. CASE World \/ \E d \in Devices : DriverReturns(d)
    <3>1. CASE \A x \in Drivers \ {} : StandsStill(x)' => StandsStill(x)
      BY <2>1, <2>2, <3>1, LostFrom
    <3>2. ASSUME faults' = faults + 1, NEW y \in Drivers,
                 \A x \in Drivers \ {y} : StandsStill(x)' => StandsStill(x)
          PROVE  Lost' \subseteq Lost \cup {y}
      BY <2>1, <2>2, <3>2, LostFrom
    <3> QED BY <2>4, <3>1, <3>2, WorldLoses DEF PInv, IInv, TypeOK
  <2> QED BY <1>4, <2>3, <2>4 DEF Undivided, Next
<1>5. CASE \E driver \in Drivers : ServerStops(driver)
  <2>1. PICK driver \in Drivers : ServerStops(driver)
    BY <1>5
  <2>2. BeingRestarted' = BeingRestarted
    BY <2>1 DEF ServerStops, BeingRestarted, Current, watchdogVars, runVars
  <2> QED BY <2>1, <2>2 DEF ServerStops, Lost, PInv, IInv, TypeOK, WorldTypeOK
<1>6. CASE UNCHANGED processVars
  BY <1>6 DEF processVars, vars, watchdogVars, runVars, worldVars, Lost,
     BeingRestarted, Current
<1> QED BY <1>1, <1>2, <1>3, <1>4, <1>5, <1>6 DEF PNext

\* Whatever restarts deaths cut short, and wherever they do, the restarts that
\* the next process completes leave no driver behind.
THEOREM LostOnlyByFaults == PSpec => LostByFaultsOnly
<1>1. PInv /\ [PNext]_processVars => [faults' = faults => Lost' \subseteq Lost]_processVars
  BY LostStep DEF PInv, IInv, TypeOK, WorldTypeOK
<1> QED BY <1>1, PInvAlways, PTL DEF PSpec, LostByFaultsOnly

\* The number of faults never falls.
LEMMA FaultsGrow ==
    ASSUME WorldTypeOK, [PNext]_processVars
    PROVE  faults' = faults \/ faults' = faults + 1
<1>1. CASE World
  BY <1>1 DEF World, Unplug, Plug, DriverReplies, Toggle, DriverCrashes, DriverHangs,
     ServerObeys, LinkBreaks, ServerCrashes, ServerStarts, Fault
<1>2. CASE Run
  BY <1>2 DEF Run, Connect, WaitOk, WaitTimeout, LoopTest, Wake, EndRound, Look, Decide,
     TurnOn, TurnOff, RequestDeclined, RequestGranted, Restart, Reset, Renew, worldVars
<1>3. CASE Client
  BY <1>3 DEF Client, Listener, AttemptSucceeds, AttemptFails, LinkLost, NewDevice,
     RemoveDevice, PropertyUpdated, PropertyRemoved, AddIndiDevice, RemoveIndiDevice,
     worldVars, Fault
<1>4. CASE \E d \in Devices : DriverReturns(d)
  BY <1>4 DEF DriverReturns, DriverAnnounces
<1>5. CASE WriteStop \/ ProcessDies \/ \E driver \in Drivers : ServerStops(driver)
  BY <1>5 DEF WriteStop, ProcessDies, ServerStops, Fault, vars, worldVars
<1> QED BY <1>1, <1>2, <1>3, <1>4, <1>5
        DEF PNext, WriteStart, Undivided, Next, Run, processVars, vars, worldVars

\* At no time are more drivers lost than faults have happened.
OneLostPerFault == IsFiniteSet(Lost) /\ Cardinality(Lost) <= faults

\* Two drivers are never lost to one death, however many share the pipe.
THEOREM FewAreLost == PSpec => []OneLostPerFault
<1>1. PInit => OneLostPerFault
  <2> SUFFICES ASSUME PInit PROVE OneLostPerFault
    OBVIOUS
  <2>1. Lost = {} /\ faults = 0
    BY DEF PInit, Init, WorldInit, Lost
  <2> QED BY <2>1, FS_EmptySet DEF OneLostPerFault
<1>2. PInv /\ OneLostPerFault /\ [PNext]_processVars => OneLostPerFault'
  <2> SUFFICES ASSUME PInv, OneLostPerFault, [PNext]_processVars
               PROVE  OneLostPerFault'
    OBVIOUS
  <2> USE DEF OneLostPerFault
  <2>1. faults \in Nat /\ Cardinality(Lost) \in Nat /\ WorldTypeOK
    BY FS_CardinalityType, WorldAssumption DEF PInv, IInv, TypeOK, WorldTypeOK
  <2>2. faults' \in Nat /\ faults' >= faults
    BY <2>1, FaultsGrow
  <2>3. CASE Lost' \subseteq Lost
    <3>1. IsFiniteSet(Lost') /\ Cardinality(Lost') <= Cardinality(Lost)
      BY <2>3, FS_Subset
    <3>2. Cardinality(Lost') \in Nat /\ Cardinality(Lost) <= faults
      BY <3>1, FS_CardinalityType
    <3>3. Cardinality(Lost') <= faults'
      BY <2>1, <2>2, <3>1, <3>2
    <3> QED BY <3>1, <3>3
  <2>4. ASSUME faults' = faults + 1, NEW y \in Drivers, Lost' \subseteq Lost \cup {y}
        PROVE  OneLostPerFault'
    <3>1. /\ IsFiniteSet(Lost \cup {y})
          /\ Cardinality(Lost \cup {y}) \in {Cardinality(Lost), Cardinality(Lost) + 1}
      BY FS_AddElement
    <3>2. IsFiniteSet(Lost') /\ Cardinality(Lost') <= Cardinality(Lost \cup {y})
      BY <2>4, <3>1, FS_Subset
    <3>3. Cardinality(Lost') \in Nat
      BY <3>2, FS_CardinalityType
    <3> QED BY <2>1, <2>4, <3>1, <3>2, <3>3
  <2> QED BY <2>3, <2>4, LostStep
<1> QED BY <1>1, <1>2, PInvAlways, PTL DEF PSpec
=============================================================================
