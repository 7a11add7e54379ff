------------------------ MODULE RestartPacingProofs ------------------------
(***************************************************************************)
(* RestartPacing implements PacedRestarts, for any devices and drivers,    *)
(* any limit, any faults, and any speed of the world: the argument uses no *)
(* more than the counter, the order of the round, and that a session is    *)
(* open whenever run() is in one.                                          *)
(***************************************************************************)
EXTENDS RestartPacing, DeviceWatchdogProofs, FiniteSetTheorems

\* The part of a round in which a device is at hand or to come.
InRound == pc \in {"look", "decide", "turnOn", "turnOff", "request", "restart"}

\* The devices of a driver that this round has still to deal with.
Ahead(x) == IF InRound THEN Cardinality(From(next, x)) ELSE 0

\* A session is open wherever run() has left its wait behind.
InSession == pc \notin {"connect", "wait", "loop"} => connected

\* Up to the limit the counter never runs ahead of the rounds, even when all
\* the devices this round has still to deal with should be missing.
CountedRounds ==
    \A x \in Drivers :
        \/ age[x] = RestartTriggerLimit
        \/ /\ x \in DOMAIN driverRestartMap
           /\ driverRestartMap[x] + Ahead(x) <= age[x]

AgeOK == age \in [Drivers -> 0 .. RestartTriggerLimit]
PInv == AgeOK /\ InSession /\ OrderGranted /\ CountedRounds

\* What the instance of PacedRestarts takes for its session.
session == connected /\ pc \notin {"reset", "renew"}

\* What a content of the counters means for one driver.
LEMMA Counter ==
    ASSUME TypeOK, NEW x \in DOMAIN driverRestartMap
    PROVE  driverRestartMap[x] \in 0 .. RestartTriggerLimit - 1
BY MapContent DEF TypeOK
-----------------------------------------------------------------------------
(***************************************************************************)
(* How many devices of a driver are ahead.                                 *)
(***************************************************************************)
LEMMA FromIsFinite ==
    ASSUME NEW n \in Nat, NEW x
    PROVE  IsFiniteSet(From(n, x)) /\ Cardinality(From(n, x)) \in Nat
<1>1. IsFiniteSet(n .. Len(DeviceOrder))
  BY ConfigurationAssumption, FS_Interval
<1>2. IsFiniteSet(From(n, x))
  BY <1>1, FS_Subset DEF From
<1> QED BY <1>2, FS_CardinalityType

\* A round has no more of a driver ahead than the driver's share.
LEMMA ShareIsMost ==
    ASSUME NEW n \in Nat \ {0}, NEW x
    PROVE  Cardinality(From(n, x)) <= Cardinality(From(1, x))
<1>1. From(n, x) \subseteq From(1, x)
  BY DEF From
<1> QED BY <1>1, FromIsFinite, FS_Subset

\* The device at hand is the one that is not ahead any more.
LEMMA OneLess ==
    ASSUME NEW n \in 1 .. Len(DeviceOrder), NEW x
    PROVE  Cardinality(From(n, x)) =
             IF DriverOf[DeviceOrder[n]] = x
             THEN Cardinality(From(n + 1, x)) + 1
             ELSE Cardinality(From(n + 1, x))
<1>0. n \in Nat /\ n + 1 \in Nat /\ Len(DeviceOrder) \in Nat
  BY ConfigurationAssumption
<1>1. CASE DriverOf[DeviceOrder[n]] = x
  <2>1. n \in From(n, x) /\ From(n + 1, x) = From(n, x) \ {n}
    BY <1>0, <1>1 DEF From
  <2>2. Cardinality(From(n, x)) \in Nat /\ Cardinality(From(n + 1, x)) \in Nat
    BY <1>0, FromIsFinite
  <2> QED BY <1>0, <1>1, <2>1, <2>2, FromIsFinite, FS_RemoveElement
<1>2. CASE DriverOf[DeviceOrder[n]] # x
  <2>1. From(n, x) = From(n + 1, x)
    BY <1>0, <1>2 DEF From
  <2> QED BY <1>2, <2>1
<1> QED BY <1>1, <1>2

LEMMA AheadType ==
    ASSUME TypeOK, NEW x
    PROVE  Ahead(x) \in Nat
BY FromIsFinite, ConfigurationAssumption DEF Ahead, TypeOK
-----------------------------------------------------------------------------
(***************************************************************************)
(* Three kinds of steps: a round begins, an order is written, all others.  *)
(***************************************************************************)
\* A round begins with Wake alone, an order is written by Restart alone.
LEMMA AgeStep ==
    ASSUME PNext
    PROVE  \/ Wake /\ age' = [x \in Drivers |-> Paced!Older(x)]
           \/ Restart /\ age' = [age EXCEPT ![DriverOf[Current]] = 0]
           \/ Next /\ ~Wake /\ ~Restart /\ age' = age
<1>1. CASE Wake
  BY <1>1 DEF PNext, Wake
<1>2. CASE Restart
  BY <1>2 DEF PNext, Restart
<1>3. CASE ~Wake /\ ~Restart
  <2>1. ~(pc = "sleep" /\ pc' = "look") /\ ~(pc = "restart" /\ pc' = "reset")
    <3>1. CASE Run
      BY <1>3, <3>1 DEF Run, Connect, WaitOk, WaitTimeout, LoopTest, EndRound, Look,
         Decide, DecideRestart, DecideTurnOn, DecideTurnOff, DecideNothing, TurnOn,
         TurnOff, RequestDeclined, RequestGranted, Reset, Renew
    <3>2. CASE ~Run
      <4>1. pc' = pc
        BY <3>2 DEF PNext, Next, Client, Listener, AttemptSucceeds, AttemptFails,
           LinkLost, NewDevice, RemoveDevice, PropertyUpdated, PropertyRemoved,
           AddIndiDevice, RemoveIndiDevice, watchdogVars, runVars
      <4> QED BY <4>1
    <3> QED BY <3>1, <3>2
  <2> QED BY <1>3, <2>1 DEF PNext
<1> QED BY <1>1, <1>2, <1>3

\* All other steps: the round only proceeds, and a refusal is counted when its
\* device is dealt with.
LEMMA OtherStep ==
    ASSUME TypeOK, Next, ~Wake, ~Restart
    PROVE  \/ RequestDeclined
           \/ /\ driverRestartMap' = driverRestartMap
              /\ InRound' => InRound /\ next' \in {next, next + 1}
<1>1. CASE Run
  BY <1>1 DEF InRound, Run, Connect, WaitOk, WaitTimeout, LoopTest, EndRound, Look,
     Decide, DecideRestart, DecideTurnOn, DecideTurnOff, DecideNothing, TurnOn,
     TurnOff, SwitchMissing, RequestGranted, Reset, Renew, Advance
<1>2. CASE ~Run
  <2>1. UNCHANGED <<pc, next, driverRestartMap>>
    BY <1>2 DEF Next, Client, Listener, AttemptSucceeds, AttemptFails,
       LinkLost, NewDevice, RemoveDevice, PropertyUpdated, PropertyRemoved,
       AddIndiDevice, RemoveIndiDevice, watchdogVars, runVars
  <2> QED BY <2>1 DEF InRound
<1> QED BY <1>1, <1>2
-----------------------------------------------------------------------------
(***************************************************************************)
(* The invariant.                                                          *)
(***************************************************************************)

\* A session is open in a round.
LEMMA OpenStep == IInv /\ InSession /\ [Next]_vars => InSession'
<1> SUFFICES ASSUME IInv, InSession, [Next]_vars
             PROVE  InSession'
  OBVIOUS
<1> USE DEF InSession
<1>1. CASE Run
  BY <1>1 DEF Run, Connect, WaitOk, WaitTimeout, LoopTest, Wake, EndRound, Look,
     Decide, DecideRestart, DecideTurnOn, DecideTurnOff, DecideNothing, TurnOn,
     TurnOff, SwitchMissing, RequestDeclined, RequestGranted, Restart, Reset, Renew,
     Advance
<1>2. CASE ~Run
  <2>1. pc' = pc
    BY <1>2 DEF Next, Client, Listener, AttemptSucceeds, AttemptFails, LinkLost,
       NewDevice, RemoveDevice, PropertyUpdated, PropertyRemoved, AddIndiDevice,
       RemoveIndiDevice, vars, watchdogVars, runVars
  <2>2. pc \notin {"connect", "wait"} /\ connected => connected'
    <3>1. CASE AttemptFails
      BY <3>1 DEF AttemptFails, IInv, ClientInv, NoLateAttempt
    <3>2. CASE connected' = connected
      BY <3>2
    <3> QED BY <1>2, <3>1, <3>2 DEF Next, Client, Listener, AttemptSucceeds, LinkLost,
         NewDevice, RemoveDevice, PropertyUpdated, PropertyRemoved, AddIndiDevice,
         RemoveIndiDevice, watchdogVars, runVars, vars
  <2> QED BY <2>1, <2>2
<1> QED BY <1>1, <1>2

\* A request comes from a device that is then behind: the count stays within
\* the rounds.
LEMMA CountStep ==
    IInv /\ AgeOK /\ CountedRounds /\ PNext => AgeOK' /\ CountedRounds'
<1> SUFFICES ASSUME IInv, AgeOK, CountedRounds, PNext
             PROVE  AgeOK' /\ CountedRounds'
  OBVIOUS
<1> USE DEF AgeOK
<1>0. TypeOK /\ Len(DeviceOrder) \in Nat /\ next \in Nat /\ next \in 1 .. Len(DeviceOrder) + 1
  BY ConfigurationAssumption DEF IInv, TypeOK
<1>a. \A x \in DOMAIN driverRestartMap : driverRestartMap[x] \in 0 .. RestartTriggerLimit - 1
  BY <1>0, Counter
<1>1. CASE Wake /\ age' = [x \in Drivers |-> Paced!Older(x)]
  <2>1. \A x \in Drivers : Share[x] = Cardinality(From(1, x)) /\ Share[x] \in Nat
    BY FromIsFinite DEF Share
  <2>2. AgeOK'
    BY <1>1, <2>1, LimitAssumption DEF Paced!Older
  <2>3. /\ driverRestartMap' = driverRestartMap /\ next' = 1
        /\ ~InRound /\ InRound'
    BY <1>1 DEF Wake, InRound
  <2>4. \A x \in Drivers : Ahead(x) = 0 /\ Ahead(x)' = Share[x]
    BY <2>1, <2>3 DEF Ahead, From
  <2>5. ASSUME NEW x \in Drivers, age'[x] # RestartTriggerLimit
        PROVE  /\ x \in DOMAIN driverRestartMap
               /\ driverRestartMap[x] + Ahead(x)' <= age'[x]
    <3>1. age'[x] = age[x] + Share[x] /\ age[x] # RestartTriggerLimit
      BY <1>1, <2>1, <2>5, LimitAssumption DEF Paced!Older
    <3>2. x \in DOMAIN driverRestartMap /\ driverRestartMap[x] <= age[x]
      BY <1>a, <2>4, <3>1 DEF CountedRounds
    <3> QED BY <1>a, <2>1, <2>4, <3>1, <3>2
  <2> QED BY <2>2, <2>3, <2>5 DEF CountedRounds
<1>2. CASE Restart /\ age' = [age EXCEPT ![DriverOf[Current]] = 0]
  <2>1. DriverOf[Current] \in Drivers /\ ~InRound'
    BY <1>0, <1>2, CurrentDevice DEF Restart, IInv, RunInv, AtDevice, InRound
  <2>2. AgeOK'
    <3>1. 0 \in 0 .. RestartTriggerLimit
      BY LimitAssumption
    <3> QED BY <1>2, <3>1
  <2>3. driverRestartMap' = MapAfterRestart(driverRestartMap, DriverOf[Current])
    BY <1>2 DEF Restart
  <2>4. ASSUME NEW x \in Drivers, age'[x] # RestartTriggerLimit
        PROVE  /\ x \in DOMAIN driverRestartMap'
               /\ driverRestartMap'[x] + Ahead(x)' <= age'[x]
    <3>1. Ahead(x)' = 0
      BY <2>1 DEF Ahead
    <3>2. CASE x = DriverOf[Current]
      BY <1>2, <2>3, <3>1, <3>2 DEF MapAfterRestart
    <3>3. CASE x # DriverOf[Current]
      <4>1. age'[x] = age[x] /\ x \in DOMAIN driverRestartMap
        BY <1>2, <2>4, <3>3 DEF CountedRounds
      <4>2. driverRestartMap'[x] = driverRestartMap[x] /\ x \in DOMAIN driverRestartMap'
        BY <2>3, <3>3, <4>1 DEF MapAfterRestart
      <4>3. driverRestartMap[x] + Ahead(x) <= age[x]
        BY <2>4, <4>1 DEF CountedRounds
      <4> QED BY <1>0, <1>a, <3>1, <4>1, <4>2, <4>3, AheadType
    <3> QED BY <3>2, <3>3
  <2> QED BY <2>2, <2>4 DEF CountedRounds
<1>3. CASE RequestDeclined /\ age' = age
  <2>0. PICK y \in Drivers : y = DriverOf[Current]
    BY <1>0, <1>3, CurrentDevice DEF RequestDeclined, IInv, RunInv, AtDevice
  <2>1. /\ next \in 1 .. Len(DeviceOrder)
        /\ InRound /\ InRound' /\ next' = next + 1
        /\ driverRestartMap' = MapAfterDecline(driverRestartMap, y)
        /\ y \in DOMAIN driverRestartMap
    BY <1>0, <1>3, <2>0
       DEF RequestDeclined, IInv, TypeOK, RunInv, InRange, AtDevice, Advance,
           IsRestartConditionReached, InRound
  <2>2. /\ DOMAIN driverRestartMap' = DOMAIN driverRestartMap
        /\ driverRestartMap'[y] = driverRestartMap[y] + 1
        /\ \A x \in Drivers \ {y} : driverRestartMap'[x] = driverRestartMap[x]
    BY <2>1 DEF MapAfterDecline
  <2>3. \A x \in Drivers :
          /\ Ahead(x)' \in Nat /\ Ahead(x) \in Nat
          /\ Ahead(x) = IF y = x THEN Ahead(x)' + 1 ELSE Ahead(x)'
    <3> TAKE x \in Drivers
    <3>1. Ahead(x) = Cardinality(From(next, x)) /\ Ahead(x)' = Cardinality(From(next + 1, x))
      BY <2>1 DEF Ahead, From
    <3> QED BY <1>0, <2>0, <2>1, <3>1, OneLess, FromIsFinite DEF Current
  <2>4. ASSUME NEW x \in Drivers, age[x] # RestartTriggerLimit
        PROVE  /\ x \in DOMAIN driverRestartMap'
               /\ driverRestartMap'[x] + Ahead(x)' <= age[x]
    <3>1. x \in DOMAIN driverRestartMap /\ driverRestartMap[x] + Ahead(x) <= age[x]
      BY <2>4 DEF CountedRounds
    <3>2. CASE x = y
      BY <1>a, <2>2, <2>3, <3>1, <3>2
    <3>3. CASE x # y
      BY <1>a, <2>2, <2>3, <3>1, <3>3
    <3> QED BY <3>2, <3>3
  <2> QED BY <1>3, <2>4 DEF CountedRounds
<1>4. CASE /\ driverRestartMap' = driverRestartMap /\ age' = age
           /\ InRound' => InRound /\ next' \in {next, next + 1}
  <2>1. \A x \in Drivers : Ahead(x) \in Nat /\ Ahead(x)' \in Nat /\ Ahead(x)' <= Ahead(x)
    <3> TAKE x \in Drivers
    <3>1. CASE ~InRound'
      BY <1>0, <3>1, AheadType DEF Ahead
    <3>2. CASE InRound' /\ next' = next
      <4>1. InRound /\ From(next, x)' = From(next, x)
        BY <1>4, <3>2 DEF From
      <4>2. Ahead(x)' = Ahead(x)
        BY <3>2, <4>1 DEF Ahead
      <4> QED BY <1>0, <4>2, AheadType
    <3>3. CASE InRound' /\ next' = next + 1
      <4>1. Ahead(x) = Cardinality(From(next, x)) /\ Ahead(x)' = Cardinality(From(next + 1, x))
        BY <1>4, <3>3 DEF Ahead, From
      <4>2. From(next + 1, x) \subseteq From(next, x)
        BY <1>0 DEF From
      <4>3. next + 1 \in Nat
        BY <1>0
      <4> QED BY <1>0, <4>1, <4>2, <4>3, FromIsFinite, FS_Subset
    <3> QED BY <1>4, <3>1, <3>2, <3>3
  <2>2. ASSUME NEW x \in Drivers, age[x] # RestartTriggerLimit
        PROVE  /\ x \in DOMAIN driverRestartMap
               /\ driverRestartMap[x] + Ahead(x)' <= age[x]
    <3>1. x \in DOMAIN driverRestartMap /\ driverRestartMap[x] + Ahead(x) <= age[x]
      BY <2>2 DEF CountedRounds
    <3> QED BY <1>a, <2>1, <3>1
  <2> QED BY <1>4, <2>2 DEF CountedRounds
<1> QED BY <1>0, <1>1, <1>2, <1>3, <1>4, AgeStep, OtherStep
-----------------------------------------------------------------------------
(***************************************************************************)
(* The refinement.                                                         *)
(***************************************************************************)

\* An order finds the session open and its driver old enough.
LEMMA OrderStep ==
    ASSUME IInv, PInv, Restart, age' = [age EXCEPT ![DriverOf[Current]] = 0]
    PROVE  Paced!Next
<1>1. pc = "restart" /\ pc' = "reset" /\ connected' = connected /\ connected
  BY DEF Restart, PInv, InSession
<1>2. TypeOK /\ next <= Len(DeviceOrder) /\ next \in Nat /\ Len(DeviceOrder) \in Nat
  BY <1>1, ConfigurationAssumption DEF IInv, TypeOK, RunInv, InRange, AtDevice
<1>3. PICK driver \in Drivers : driver = DriverOf[Current]
  BY <1>2, CurrentDevice
<1>4. age[driver] = RestartTriggerLimit
  <2>1. Ahead(driver) \in Nat \ {0}
    <3>1. Ahead(driver) = Cardinality(From(next, driver))
      BY <1>1 DEF Ahead, InRound
    <3>2. next + 1 \in Nat /\ next \in 1 .. Len(DeviceOrder)
      BY <1>2 DEF TypeOK
    <3>3. Cardinality(From(next, driver)) = Cardinality(From(next + 1, driver)) + 1
      BY <1>3, <3>2, OneLess DEF Current
    <3> QED BY <3>1, <3>2, <3>3, FromIsFinite
  <2>2. ASSUME driver \in DOMAIN driverRestartMap
        PROVE  driverRestartMap[driver] = RestartTriggerLimit - 1
    <3>1. driverRestartMap[driver] >= RestartTriggerLimit - 1
      BY <1>1, <1>3, <2>2 DEF PInv, OrderGranted, IsRestartConditionReached
    <3> QED BY <1>2, <2>2, <3>1, Counter, LimitAssumption
  <2>3. age[driver] \in 0 .. RestartTriggerLimit
    BY DEF PInv, AgeOK
  <2> QED BY <2>1, <2>2, <2>3, LimitAssumption DEF PInv, CountedRounds
<1>5. session /\ ~session'
  BY <1>1 DEF session
<1>6. age' = [age EXCEPT ![driver] = 0]
  BY <1>3
<1>7. Paced!Order(driver)
  <2>1. age[driver] >= RestartTriggerLimit
    BY <1>4, LimitAssumption
  <2> QED BY <1>5, <1>6, <2>1 DEF Paced!Order, session
<1> QED BY <1>7 DEF Paced!Next

\* Every step is one of the paced watchdog, or none.
LEMMA PacedStep ==
    IInv /\ PInv /\ [PNext]_<<vars, age>> => [Paced!Next]_<<session, age>>
<1> SUFFICES ASSUME IInv, PInv, [PNext]_<<vars, age>>
             PROVE  Paced!Next \/ UNCHANGED <<session, age>>
  OBVIOUS
<1>1. CASE UNCHANGED <<vars, age>>
  BY <1>1 DEF vars, watchdogVars, runVars, session
<1>2. CASE Restart /\ age' = [age EXCEPT ![DriverOf[Current]] = 0]
  BY <1>2, OrderStep
<1>3. CASE Wake /\ age' = [x \in Drivers |-> Paced!Older(x)]
  <2>1. session /\ session' = session
    BY <1>3 DEF Wake, session, PInv, InSession
  <2> QED BY <1>3, <2>1 DEF Paced!Next, Paced!Round, session
<1>4. CASE Next /\ ~Wake /\ ~Restart /\ age' = age
  <2>1. session => session'
    BY <1>4 DEF session, PInv, InSession, IInv, RunInv, NoSession, ClientInv,
       NoLateAttempt, Next, Run, Client, Listener, Connect, WaitOk, WaitTimeout,
       LoopTest, EndRound, Look, Decide, DecideRestart, DecideTurnOn, DecideTurnOff,
       DecideNothing, TurnOn, TurnOff, SwitchMissing, RequestDeclined,
       RequestGranted, Reset, Renew, Advance, AttemptSucceeds, AttemptFails,
       LinkLost, NewDevice, RemoveDevice, PropertyUpdated, PropertyRemoved,
       AddIndiDevice, RemoveIndiDevice, watchdogVars, runVars
  <2>2. CASE session' = session
    BY <1>4, <2>2
  <2>3. CASE ~session /\ session'
    BY <1>4, <2>3 DEF Paced!Next, Paced!Open, session
  <2> QED BY <2>1, <2>2, <2>3 DEF session
<1> QED BY <1>1, <1>2, <1>3, <1>4, AgeStep

\* Restarts are paced over sessions, resets of the client and rounds cut short:
\* at most one in a session, and one per driver of k devices in
\* RestartTriggerLimit / k rounds.
THEOREM RestartsArePaced == PSpec => PacedSpec
<1>1. PInit => PInv
  BY LimitAssumption DEF PInit, Init, EmptyMap, PInv, AgeOK, InSession, OrderGranted,
     CountedRounds
<1>2. IInv /\ PInv /\ [PNext]_<<vars, age>> => PInv'
  <2>1. IInv /\ PInv /\ PNext => PInv'
    <3> SUFFICES ASSUME IInv, PInv, PNext PROVE PInv'
      OBVIOUS
    <3>1. InSession' /\ OrderGranted'
      BY OpenStep, GrantedStep DEF PInv, PNext
    <3>2. AgeOK' /\ CountedRounds'
      BY CountStep DEF PInv
    <3> QED BY <3>1, <3>2 DEF PInv
  <2>2. UNCHANGED <<vars, age>> /\ PInv => PInv'
    <3> SUFFICES ASSUME UNCHANGED <<vars, age>>, PInv
                 PROVE  PInv'
      OBVIOUS
    <3>1. \A x \in Drivers : Ahead(x)' = Ahead(x)
      BY DEF vars, watchdogVars, runVars, Ahead, InRound, From
    <3>2. AgeOK' /\ InSession' /\ OrderGranted'
      BY DEF vars, watchdogVars, runVars, PInv, AgeOK, InSession, OrderGranted, Current
    <3>3. CountedRounds'
      BY <3>1 DEF vars, watchdogVars, runVars, PInv, CountedRounds
    <3> QED BY <3>2, <3>3 DEF PInv
  <2> QED BY <2>1, <2>2
<1>3. PInit => Paced!Init
  BY DEF PInit, Init, Paced!Init
<1>4. PSpec => Spec
  <2>1. PInit => Init
    BY DEF PInit
  <2>2. [PNext]_<<vars, age>> => [Next]_vars
    BY DEF PNext
  <2> QED BY <2>1, <2>2, PTL DEF PSpec, Spec
<1> QED BY <1>1, <1>2, <1>3, <1>4, PacedStep, Inductive, PTL
        DEF PSpec, PacedSpec, Paced!Spec, session
=============================================================================
