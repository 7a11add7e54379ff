-------------------------- MODULE WatchdogProcess --------------------------
(***************************************************************************)
(* DeviceWatchdog as a process that may die at any time and is started     *)
(* anew, with the two commands of a restart (RestartManager) apart: a      *)
(* death between them leaves the driver stopped, and nothing but its Linux *)
(* device tells the next process so.                                       *)
(***************************************************************************)
EXTENDS DeviceWatchdog

VARIABLES
    halfway, \* restart() has flushed the stop command, not the start command
    stops,   \* drivers with a stop command, and no start, in the pipe
    answer   \* the driver of the last restart requested, and the answer

processVars == <<vars, halfway, stops, answer>>

NoAnswer == [driver |-> "none", restarted |-> FALSE]
Answer(granted) == [driver |-> DriverOf[Current], restarted |-> granted]

PInit == Init /\ halfway = FALSE /\ stops = {} /\ answer = NoAnswer

\* The first command; the rest of the step is Restart's.
WriteStop ==
    /\ pc = "restart" /\ ~halfway
    /\ PipeIsFifo /\ serverUp
    /\ halfway' = TRUE
    /\ stops' = stops \cup {DriverOf[Current]}
    /\ UNCHANGED <<vars, answer>>

\* Mutant: the start command is written first.
StopWrittenLast ==
    /\ pc = "restart"
    /\ PipeIsFifo => halfway
    /\ Restart
    /\ halfway' = FALSE
    /\ stops' = stops
    /\ answer' = Answer(TRUE)

\* With the second command the order is complete, stopped or not.
WriteStart ==
    /\ pc = "restart"
    /\ PipeIsFifo => halfway
    /\ Restart
    /\ halfway' = FALSE
    /\ stops' = stops \ {DriverOf[Current]}
    /\ answer' = Answer(TRUE)

\* The server stops the driver before it reads on.
ServerStops(driver) ==
    /\ serverUp /\ driver \in stops
    /\ stops' = stops \ {driver}
    /\ health' = [health EXCEPT ![driver] = "dead"]
    /\ Vanish(DevicesOf(driver))
    /\ UNCHANGED <<watchdogVars, linux, link, serverUp, orders, faults, halfway,
                   answer>>

\* A signal; or SIGPIPE, when the server has gone between the commands.  All
\* that the watchdog knows is in memory.
ProcessDies ==
    /\ Fault("killed")
    /\ pc' = "connect" /\ next' = 1
    /\ indiDeviceConnected' = FALSE /\ connected' = FALSE
    /\ driverRestartMap' = EmptyMap
    /\ deviceConnections' = [d \in Devices |-> "none"]
    /\ connecting' = FALSE /\ calls' = {}
    /\ baseDevices' = [d \in Devices |-> "gone"]
    /\ link' = "none" /\ owed' = {}
    /\ halfway' = FALSE
    /\ stops' = IF serverUp THEN stops ELSE {}
    /\ answer' = NoAnswer
    /\ UNCHANGED <<linux, serverUp, health, server, request, orders>>

\* The other steps of DeviceWatchdog.  What the pipe holds dies with the
\* server, but for the half that restart() keeps open.
Undivided ==
    /\ Next
    /\ pc = "restart" => pc' = "restart"
    /\ QuickWorld /\ pc = "sleep" /\ pc' = "look" => stops = {}
    /\ stops' = IF serverUp' \/ halfway THEN stops ELSE {}
    /\ answer' = IF pc = "request" /\ pc' = "look" THEN Answer(FALSE) ELSE answer
    /\ UNCHANGED halfway

PNext ==
    \/ WriteStop \/ WriteStart \/ ProcessDies \/ Undivided
    \/ \E driver \in Drivers : ServerStops(driver)

PSpec ==
    /\ PInit /\ [][PNext]_processVars
    /\ Fairness
    /\ WF_processVars(WriteStop)
    /\ \A driver \in Drivers : WF_processVars(ServerStops(driver))
-----------------------------------------------------------------------------
(***************************************************************************)
(* Safety.                                                                 *)
(***************************************************************************)

\* The driver whose restart the present process will still complete.
BeingRestarted == IF halfway THEN {DriverOf[Current]} ELSE {}

\* Drivers that stand still, or will once the pipe is read, with no command on
\* its way that starts them again.
Lost ==
    {x \in Drivers : \/ x \in stops
                     \/ serverUp /\ health[x] = "dead" /\ x \notin orders}
    \ BeingRestarted

\* The watchdog's restarts, cut short by deaths at whatever step and repeated
\* by the next process, cost no driver: one is lost by its own crash or by the
\* death that cuts its restart in two.
LostByFaultsOnly == [][faults' = faults => Lost' \subseteq Lost]_processVars

\* Per driver one request is granted in RestartTriggerLimit, however many of
\* its devices ask in a round that a restart may end; a death forgets the count.
Throttle == INSTANCE RestartThrottle WITH
    due <- Due(Drivers, driverRestartMap)
ThrottleSpec == Throttle!Spec
=============================================================================
