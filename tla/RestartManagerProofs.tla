------------------------ MODULE RestartManagerProofs ------------------------
(***************************************************************************)
(* Theorems about RestartManager, for any set of drivers, any limit and    *)
(* any capacity of the pipe.  The invariants are inductive one after the   *)
(* other: the types, the grant behind a counted restart, the fate of a     *)
(* driver.  The refinement of RestartThrottle uses the first two.          *)
(***************************************************************************)
EXTENDS RestartManager, RestartCounterProofs, SequenceTheorems, TLAPS

(***************************************************************************)
(* Types.                                                                  *)
(***************************************************************************)

\* Whoever finishes a restart leaves the manager's state well typed.
LEMMA FinishTypes ==
    ASSUME TypeOK, Finish, job.driver \in Drivers
    PROVE  /\ driverRestartMap' \in RestartMaps(Drivers)
           /\ job' = NoJob
           /\ answer' \in {NoAnswer} \cup [driver : Drivers, restarted : BOOLEAN]
<1>1. CASE job.counted
  <2>1. MapAfterRestart(driverRestartMap, job.driver) \in RestartMaps(Drivers)
    BY RestartContent DEF TypeOK
  <2>2. /\ driverRestartMap' = MapAfterRestart(driverRestartMap, job.driver)
        /\ answer' = [driver |-> job.driver, restarted |-> TRUE]
        /\ job' = NoJob
    BY <1>1 DEF Finish
  <2> QED BY <2>1, <2>2
<1>2. CASE ~job.counted
  BY <1>2 DEF Finish, TypeOK
<1> QED BY <1>1, <1>2

\* Only a restart in progress has one of the two phases.
LEMMA JobDriver ==
    ASSUME TypeOK, job.phase \in {"open", "half"}
    PROVE  /\ job \in [phase : {"open", "half"}, driver : Drivers, counted : BOOLEAN]
           /\ job # NoJob
BY DEF TypeOK, NoJob

\* One step keeps the types.
LEMMA TypeStep == TypeOK /\ [Next]_vars => TypeOK'
<1> SUFFICES ASSUME TypeOK, [Next]_vars PROVE TypeOK'
  OBVIOUS
<1> USE DEF TypeOK
<1>1. ASSUME NEW driver \in Drivers, RequestGranted(driver)
      PROVE  TypeOK'
  BY <1>1 DEF RequestGranted, serverVars
<1>2. ASSUME NEW driver \in Drivers, RequestDeclined(driver)
      PROVE  TypeOK'
  <2>1. driverRestartMap' \in RestartMaps(Drivers)
    BY <1>2, DeclineContent DEF RequestDeclined
  <2> QED BY <1>2, <2>1 DEF RequestDeclined, serverVars
<1>3. ASSUME NEW driver \in Drivers, RequestImmediateRestart(driver)
      PROVE  TypeOK'
  BY <1>3 DEF RequestImmediateRestart, serverVars
<1>4. CASE WriteStop
  <2>1. job \in [phase : {"open", "half"}, driver : Drivers, counted : BOOLEAN]
    BY <1>4, JobDriver DEF WriteStop
  <2>2. Stop(job.driver) \in Commands
    BY <2>1 DEF Stop, Commands
  <2>3. pipe' \in Seq(Commands)
    BY <1>4, <2>2 DEF WriteStop
  <2>4. job' \in [phase : {"open", "half"}, driver : Drivers, counted : BOOLEAN]
    BY <1>4, <2>1 DEF WriteStop
  <2> QED BY <1>4, <2>3, <2>4 DEF WriteStop
<1>5. CASE OrderLost
  <2>1. job.driver \in Drivers
    BY <1>5, JobDriver DEF OrderLost
  <2> QED BY <1>5, <2>1, FinishTypes DEF OrderLost, serverVars
<1>6. CASE WriteStart
  <2>1. job.driver \in Drivers
    BY <1>6, JobDriver DEF WriteStart
  <2>2. pipe' \in Seq(Commands)
    BY <1>6, <2>1 DEF WriteStart, Start, Commands
  <2> QED BY <1>6, <2>1, <2>2, FinishTypes DEF WriteStart
<1>7. CASE Reset
  BY <1>7, EmptyMapContent DEF Reset, serverVars
<1>8. CASE ProcessDies
  <2>1. job.phase = "half" => job.driver \in Drivers
    BY JobDriver
  <2>2. cut' \in SUBSET Drivers
    BY <1>8, <2>1 DEF ProcessDies
  <2>3. pipe' \in Seq(Commands)
    BY <1>8, EmptySeq DEF ProcessDies
  <2> QED BY <1>8, <2>2, <2>3, EmptyMapContent DEF ProcessDies
<1>9. CASE ServerReads
  <2>1. Head(pipe) \in Commands /\ Tail(pipe) \in Seq(Commands)
    BY <1>9 DEF ServerReads
  <2>2. Head(pipe).driver \in Drivers
    BY <2>1 DEF Commands
  <2> QED BY <1>9, <2>1, <2>2 DEF ServerReads, managerVars
<1>10. CASE ServerDies
  <2>1. pipe' \in Seq(Commands) /\ cut' \in SUBSET Drivers
    BY <1>10, EmptySeq DEF ServerDies
  <2> QED BY <1>10, <2>1 DEF ServerDies, managerVars
<1>11. CASE ServerStarts
  BY <1>11 DEF ServerStarts, managerVars
<1>12. CASE PathChanges
  BY <1>12 DEF PathChanges, managerVars
<1>13. CASE UNCHANGED vars
  BY <1>13 DEF vars, managerVars, serverVars
<1> QED BY <1>1, <1>2, <1>3, <1>4, <1>5, <1>6, <1>7, <1>8, <1>9, <1>10, <1>11,
           <1>12, <1>13 DEF Next

\* The state is always well typed: no counter reaches the limit, whatever is
\* requested, fails or dies.
THEOREM Types == Spec => []TypeOK
<1>1. Init => TypeOK
  BY EmptyMapContent DEF Init, TypeOK
<1> QED BY <1>1, TypeStep, PTL DEF Spec
-----------------------------------------------------------------------------
(***************************************************************************)
(* A counted restart has been granted.                                     *)
(***************************************************************************)

\* The map is not touched between the grant and the end of the restart.
LEMMA CountedStep == TypeOK /\ CountedIsGranted /\ [Next]_vars => CountedIsGranted'
<1> SUFFICES ASSUME TypeOK, CountedIsGranted, [Next]_vars
             PROVE  CountedIsGranted'
  OBVIOUS
<1> USE DEF CountedIsGranted
<1>1. ASSUME NEW driver \in Drivers,
             RequestGranted(driver) \/ RequestImmediateRestart(driver)
      PROVE  CountedIsGranted'
  BY <1>1 DEF RequestGranted, RequestImmediateRestart
<1>2. ASSUME NEW driver \in Drivers, RequestDeclined(driver)
      PROVE  CountedIsGranted'
  BY <1>2 DEF RequestDeclined
<1>3. CASE WriteStop
  <2>1. job \in [phase : {"open", "half"}, driver : Drivers, counted : BOOLEAN]
        /\ job # NoJob
    BY <1>3, JobDriver DEF WriteStop
  <2>2. job'.driver = job.driver /\ job'.counted = job.counted
    BY <1>3, <2>1 DEF WriteStop
  <2> QED BY <1>3, <2>1, <2>2 DEF WriteStop
<1>4. CASE OrderLost \/ WriteStart
  BY <1>4 DEF OrderLost, WriteStart, Finish
<1>5. CASE Reset \/ ProcessDies
  BY <1>5 DEF Reset, ProcessDies
<1>6. CASE ServerReads \/ ServerDies \/ ServerStarts \/ PathChanges
  BY <1>6 DEF ServerReads, ServerDies, ServerStarts, PathChanges, managerVars
<1>7. CASE UNCHANGED vars
  BY <1>7 DEF vars, managerVars
<1> QED BY <1>1, <1>2, <1>3, <1>4, <1>5, <1>6, <1>7 DEF Next

\* A restart that will be counted is one the counter has granted.
THEOREM Counted == Spec => []CountedIsGranted
<1>1. Init => CountedIsGranted
  BY DEF Init, CountedIsGranted
<1> QED BY <1>1, CountedStep, Types, PTL DEF Spec
-----------------------------------------------------------------------------
(***************************************************************************)
(* The throttle.                                                           *)
(***************************************************************************)

\* The end of a restart is a grant to the abstract caller, unless uncounted.
LEMMA FinishThrottled ==
    ASSUME TypeOK, CountedIsGranted, Finish, job # NoJob,
           NEW driver \in Drivers, driver = job.driver
    PROVE  Throttle!Grant(driver) \/ UNCHANGED <<Due(Drivers, driverRestartMap), answer>>
<1>1. CASE job.counted
  <2>1. /\ driverRestartMap' = MapAfterRestart(driverRestartMap, driver)
        /\ answer' = [driver |-> driver, restarted |-> TRUE]
    BY <1>1 DEF Finish
  <2>2. Due(Drivers, driverRestartMap)[driver] = 0
    BY <1>1, GrantedIsDue DEF CountedIsGranted, TypeOK
  <2>3. Due(Drivers, driverRestartMap')
          = [Due(Drivers, driverRestartMap) EXCEPT ![driver] = RestartTriggerLimit - 1]
    BY <2>1, DueAfterRestart
  <2> QED BY <2>1, <2>2, <2>3 DEF Throttle!Grant, Due
<1>2. CASE ~job.counted
  BY <1>2 DEF Finish, Due
<1> QED BY <1>1, <1>2

\* Every step of the manager is a step of the throttle, or none.
LEMMA ThrottleStep ==
    TypeOK /\ CountedIsGranted /\ [Next]_vars
        => [Throttle!Next]_<<Due(Drivers, driverRestartMap), answer>>
<1> SUFFICES ASSUME TypeOK, CountedIsGranted, [Next]_vars
             PROVE  \/ Throttle!Next
                    \/ UNCHANGED <<Due(Drivers, driverRestartMap), answer>>
  OBVIOUS
<1>1. ASSUME NEW driver \in Drivers,
             RequestGranted(driver) \/ RequestImmediateRestart(driver)
      PROVE  UNCHANGED <<Due(Drivers, driverRestartMap), answer>>
  BY <1>1 DEF RequestGranted, RequestImmediateRestart, Due
<1>2. ASSUME NEW driver \in Drivers, RequestDeclined(driver)
      PROVE  Throttle!Decline(driver)
  <2>1. /\ ~IsRestartConditionReached(driverRestartMap, driver)
        /\ driverRestartMap' = MapAfterDecline(driverRestartMap, driver)
        /\ answer' = [driver |-> driver, restarted |-> FALSE]
    BY <1>2 DEF RequestDeclined
  <2>2. Due(Drivers, driverRestartMap)[driver] > 0
    BY <2>1, GrantedIsDue DEF TypeOK
  <2>3. Due(Drivers, driverRestartMap') = [Due(Drivers, driverRestartMap) EXCEPT ![driver] = @ - 1]
    BY <2>1, DueAfterDecline DEF TypeOK
  <2> QED BY <2>1, <2>2, <2>3 DEF Throttle!Decline, Due
<1>3. CASE WriteStop
  BY <1>3 DEF WriteStop, Due
<1>4. CASE OrderLost \/ WriteStart
  <2>1. Finish /\ job.driver \in Drivers /\ job # NoJob
    BY <1>4, JobDriver DEF OrderLost, WriteStart
  <2>2. PICK driver \in Drivers : driver = job.driver
    BY <2>1
  <2>3. Throttle!Grant(driver) \/ UNCHANGED <<Due(Drivers, driverRestartMap), answer>>
    BY <2>1, <2>2, FinishThrottled
  <2> QED BY <2>3 DEF Throttle!Next
<1>5. CASE Reset \/ ProcessDies
  <2>1. driverRestartMap' = EmptyMap /\ answer' = NoAnswer
    BY <1>5 DEF Reset, ProcessDies
  <2>2. Due(Drivers, driverRestartMap') = [x \in Drivers |-> 0]
    BY <2>1, DueEmpty
  <2>3. Throttle!Forget
    BY <2>1, <2>2 DEF Throttle!Forget, NoAnswer, Due
  <2> QED BY <2>3 DEF Throttle!Next
<1>6. CASE ServerReads \/ ServerDies \/ ServerStarts \/ PathChanges
  BY <1>6 DEF ServerReads, ServerDies, ServerStarts, PathChanges, managerVars, Due
<1>7. CASE UNCHANGED vars
  BY <1>7 DEF vars, managerVars, Due
<1> QED BY <1>1, <1>2, <1>3, <1>4, <1>5, <1>6, <1>7 DEF Next, Throttle!Next

\* Per driver one request is granted in RestartTriggerLimit, and only the
\* granted one is answered with TRUE: over failed writes, uncounted immediate
\* restarts, resets and restarts of the process.
THEOREM Throttled == Spec => ThrottleSpec
<1>1. Init => Throttle!Init
  BY DueEmpty DEF Init, Throttle!Init, NoAnswer, Due
<1> QED BY <1>1, ThrottleStep, Types, Counted, PTL
        DEF Spec, ThrottleSpec, Throttle!Spec, Due
-----------------------------------------------------------------------------
(***************************************************************************)
(* No driver is lost.                                                      *)
(***************************************************************************)

\* A command appended for another driver changes nothing for this one, and a
\* start is the last word.
LEMMA AppendWillRun ==
    ASSUME TypeOK, NEW c \in Commands, NEW driver \in Drivers,
           pipe' = Append(pipe, c), UNCHANGED <<serverUp, running>>,
           \/ WillRun(driver) /\ c # Stop(driver)
           \/ c = Start(driver)
    PROVE  WillRun(driver)'
<1>1. /\ Len(pipe) \in Nat /\ Len(pipe') = Len(pipe) + 1
      /\ \A i \in 1 .. Len(pipe) : pipe'[i] = pipe[i]
      /\ pipe'[Len(pipe) + 1] = c
  BY DEF TypeOK
<1>2. CASE c = Start(driver)
  <2>1. \A j \in Len(pipe) + 2 .. Len(pipe') : pipe'[j] # Stop(driver)
    BY <1>1
  <2> QED BY <1>1, <1>2, <2>1 DEF WillRun, Start
<1>3. CASE WillRun(driver) /\ c # Stop(driver)
  BY <1>1, <1>3 DEF WillRun, Start, Stop
<1> QED BY <1>2, <1>3

\* Reading a command changes nothing: its effect is accounted for.
LEMMA ReadWillRun ==
    ASSUME TypeOK, ServerReads, NEW driver \in Drivers, WillRun(driver)
    PROVE  WillRun(driver)'
<1>1. /\ pipe # <<>> /\ pipe' = Tail(pipe) /\ Head(pipe) = pipe[1]
      /\ pipe[1] \in Commands
      /\ Len(pipe) \in Nat \ {0} /\ Len(pipe') = Len(pipe) - 1
      /\ \A i \in 1 .. Len(pipe') : pipe'[i] = pipe[i + 1]
  BY DEF TypeOK, ServerReads
<1>2. serverUp /\ serverUp'
  BY DEF ServerReads
<1>3. CASE pipe[1] = Start(driver) /\ \A j \in 2 .. Len(pipe) : pipe[j] # Stop(driver)
  <2>1. driver \in running'
    BY <1>1, <1>3 DEF ServerReads, Start
  <2>2. \A i \in 1 .. Len(pipe') : pipe'[i] # Stop(driver)
    BY <1>1, <1>3
  <2> QED BY <1>2, <2>1, <2>2 DEF WillRun
<1>4. CASE driver \in running /\ \A i \in 1 .. Len(pipe) : pipe[i] # Stop(driver)
  <2>1. pipe[1] # Stop(driver)
    BY <1>1, <1>4
  <2>2. pipe[1] = [verb |-> pipe[1].verb, driver |-> pipe[1].driver]
    BY <1>1 DEF Commands
  <2>3. driver \in running'
    BY <1>1, <1>4, <2>1, <2>2 DEF ServerReads, Stop
  <2>4. \A i \in 1 .. Len(pipe') : pipe'[i] # Stop(driver)
    BY <1>1, <1>4
  <2> QED BY <1>2, <2>3, <2>4 DEF WillRun
<1>5. ASSUME NEW i \in 2 .. Len(pipe), pipe[i] = Start(driver),
             \A j \in i + 1 .. Len(pipe) : pipe[j] # Stop(driver)
      PROVE  WillRun(driver)'
  <2>1. i - 1 \in 1 .. Len(pipe') /\ pipe'[i - 1] = Start(driver)
    BY <1>1, <1>5
  <2>2. \A j \in (i - 1) + 1 .. Len(pipe') : pipe'[j] # Stop(driver)
    BY <1>1, <1>5
  <2> QED BY <2>1, <2>2 DEF WillRun, Start, Stop
<1> QED BY <1>1, <1>2, <1>3, <1>4, <1>5 DEF WillRun

\* The steps that touch neither the pipe nor the drivers, nor their excuses.
LEMMA SameFate ==
    ASSUME UNCHANGED <<pipe, serverUp, running>>, NEW driver \in Drivers, WillRun(driver)
    PROVE  WillRun(driver)'
BY DEF WillRun

\* One step loses no driver.
LEMMA LostStep == TypeOK /\ NoDriverLost /\ [Next]_vars => NoDriverLost'
<1> DEFINE Excused(driver) ==
      \/ job.phase = "half" /\ job.driver = driver
      \/ driver \in cut
<1> SUFFICES ASSUME TypeOK, NoDriverLost, [Next]_vars, NEW driver \in Drivers
             PROVE  WillRun(driver)' \/ Excused(driver)'
  BY DEF NoDriverLost
<1>0. WillRun(driver) \/ Excused(driver)
  BY DEF NoDriverLost
<1>1. ASSUME NEW x \in Drivers,
             \/ RequestGranted(x) \/ RequestDeclined(x)
             \/ RequestImmediateRestart(x)
      PROVE  WillRun(driver)' \/ Excused(driver)'
  <2>1. UNCHANGED serverVars /\ ~(job.phase = "half")
    BY <1>1 DEF RequestGranted, RequestDeclined, RequestImmediateRestart, NoJob
  <2> QED BY <1>0, <2>1, SameFate DEF serverVars
<1>2. CASE WriteStop
  <2>1. /\ job \in [phase : {"open", "half"}, driver : Drivers, counted : BOOLEAN]
        /\ job.phase = "open"
    BY <1>2, JobDriver DEF WriteStop
  <2>2. job'.phase = "half" /\ job'.driver = job.driver
    BY <1>2, <2>1 DEF WriteStop
  <2>3. CASE driver = job.driver
    BY <2>2, <2>3
  <2>4. CASE driver # job.driver /\ WillRun(driver)
    <3>1. Stop(job.driver) \in Commands /\ Stop(job.driver) # Stop(driver)
      BY <2>1, <2>4 DEF Stop, Commands
    <3> QED BY <1>2, <2>4, <3>1, AppendWillRun DEF WriteStop
  <2>5. CASE driver \in cut
    BY <1>2, <2>5 DEF WriteStop
  <2> QED BY <1>0, <2>1, <2>3, <2>4, <2>5
<1>3. CASE OrderLost
  <2>1. UNCHANGED serverVars /\ ~(job.phase = "half")
    BY <1>3 DEF OrderLost
  <2> QED BY <1>0, <2>1, SameFate DEF serverVars
<1>4. CASE WriteStart
  <2>1. job \in [phase : {"open", "half"}, driver : Drivers, counted : BOOLEAN]
    BY <1>4, JobDriver DEF WriteStart
  <2>2. /\ Start(job.driver) \in Commands
        /\ Start(job.driver) # Stop(driver)
        /\ driver = job.driver => Start(job.driver) = Start(driver)
    BY <2>1 DEF Start, Stop, Commands
  <2>3. /\ pipe' = Append(pipe, Start(job.driver))
        /\ cut' = cut \ {job.driver}
        /\ UNCHANGED <<serverUp, running>>
    BY <1>4 DEF WriteStart
  <2>4. WillRun(driver) \/ driver = job.driver => WillRun(driver)'
    BY <2>2, <2>3, AppendWillRun
  <2> QED BY <1>0, <2>3, <2>4
<1>5. CASE Reset
  <2>1. UNCHANGED serverVars /\ job' = job
    BY <1>5 DEF Reset
  <2> QED BY <1>0, <2>1, SameFate DEF serverVars
<1>6. CASE ProcessDies
  <2>1. CASE serverUp
    <3>1. /\ UNCHANGED <<pipe, serverUp, running>>
          /\ Excused(driver) => driver \in cut'
      BY <1>6, <2>1 DEF ProcessDies
    <3> QED BY <1>0, <3>1, SameFate
  <2>2. CASE ~serverUp
    <3>1. pipe' = <<>> /\ serverUp' = serverUp
      BY <1>6, <2>2 DEF ProcessDies
    <3> QED BY <2>2, <3>1 DEF WillRun
  <2> QED BY <2>1, <2>2
<1>7. CASE ServerReads
  <2>1. job' = job /\ cut' = cut
    BY <1>7 DEF ServerReads, managerVars
  <2> QED BY <1>0, <1>7, <2>1, ReadWillRun
<1>8. CASE ServerDies
  <2>1. CASE job.phase = "half"
    <3>1. serverUp /\ ~serverUp' /\ UNCHANGED <<job, pipe, cut>>
      BY <1>8, <2>1 DEF ServerDies, managerVars
    <3> QED BY <1>0, <3>1 DEF WillRun
  <2>2. CASE ~(job.phase = "half")
    <3>1. pipe' = <<>> /\ ~serverUp'
      BY <1>8, <2>2 DEF ServerDies
    <3> QED BY <3>1 DEF WillRun
  <2> QED BY <2>1, <2>2
<1>9. CASE ServerStarts
  <2>1. /\ ~serverUp /\ serverUp' /\ running' = Drivers
        /\ UNCHANGED <<job, pipe, cut>>
    BY <1>9 DEF ServerStarts, managerVars
  <2> QED BY <1>0, <2>1 DEF WillRun
<1>10. CASE PathChanges
  <2>1. UNCHANGED <<job, pipe, serverUp, running, cut>>
    BY <1>10 DEF PathChanges, managerVars
  <2> QED BY <1>0, <2>1, SameFate
<1>11. CASE UNCHANGED vars
  <2>1. UNCHANGED <<job, pipe, serverUp, running, cut>>
    BY <1>11 DEF vars, managerVars, serverVars
  <2> QED BY <1>0, <2>1, SameFate
<1> QED BY <1>1, <1>2, <1>3, <1>4, <1>5, <1>6, <1>7, <1>8, <1>9, <1>10, <1>11
        DEF Next

\* Once the server has caught up every driver runs, whatever died or failed,
\* except one between its two commands and those a death left there.
THEOREM NeverLost == Spec => []NoDriverLost
<1>1. Init => NoDriverLost
  BY DEF Init, NoDriverLost, WillRun
<1> QED BY <1>1, LostStep, Types, PTL DEF Spec
=============================================================================
