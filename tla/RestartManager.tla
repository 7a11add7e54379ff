--------------------------- MODULE RestartManager ---------------------------
(***************************************************************************)
(* IndiDriverRestartManagerT: the throttled restart of INDI drivers by a   *)
(* stop and a start command written to the pipe of the INDI server.  The   *)
(* two commands are flushed one after the other, so the process can die,   *)
(* or the server can go away, between them.  The server's end of the pipe  *)
(* is external: it reads the commands in order and obeys them.             *)
(***************************************************************************)
EXTENDS RestartCounter, Sequences

CONSTANTS
    Drivers, \* the driver names of the configuration
    MaxPipe  \* bound: commands the pipe holds unread

ASSUME MaxPipeAssumption == MaxPipe \in Nat

VARIABLES
    driverRestartMap, \* driverRestartMap_
    job,        \* the restart in progress: its phase, driver, and caller
    answer,     \* the last result of requestRestart
    pipe,       \* commands written and not yet read by the server
    path,       \* what opening the pipe's path for writing yields
    serverUp,   \* the INDI server runs, and reads the pipe
    running,    \* the drivers the INDI server runs
    cut         \* history: drivers whose restart was cut after its stop

managerVars == <<driverRestartMap, job, answer>>
serverVars  == <<pipe, path, serverUp, running, cut>>
vars == <<managerVars, serverVars>>

NoJob    == [phase |-> "idle", driver |-> "none", counted |-> FALSE]
NoAnswer == [driver |-> "none", restarted |-> FALSE]
Stop(driver)  == [verb |-> "stop", driver |-> driver]
Start(driver) == [verb |-> "start", driver |-> driver]
Paths == {"fifo", "file", "closed"}
Commands == [verb : {"stop", "start"}, driver : Drivers]

TypeOK ==
    /\ driverRestartMap \in RestartMaps(Drivers)
    /\ job \in {NoJob} \cup
         [phase : {"open", "half"}, driver : Drivers, counted : BOOLEAN]
    /\ answer \in {NoAnswer} \cup [driver : Drivers, restarted : BOOLEAN]
    /\ pipe \in Seq(Commands)
    /\ path \in Paths
    /\ serverUp \in BOOLEAN
    /\ running \in SUBSET Drivers
    /\ cut \in SUBSET Drivers

Init ==
    /\ driverRestartMap = EmptyMap
    /\ job = NoJob
    /\ answer = NoAnswer
    /\ pipe = <<>>
    /\ path \in Paths
    /\ serverUp \in BOOLEAN
    /\ running = IF serverUp THEN Drivers ELSE {}
    /\ cut = {}
-----------------------------------------------------------------------------
(***************************************************************************)
(* requestRestart, requestImmediateRestart and restart.                    *)
(***************************************************************************)

\* The restart is over: a counted one updates the map and returns TRUE.
Finish ==
    /\ job' = NoJob
    /\ IF job.counted
       THEN /\ driverRestartMap' = MapAfterRestart(driverRestartMap, job.driver)
            /\ answer' = [driver |-> job.driver, restarted |-> TRUE]
       ELSE UNCHANGED <<driverRestartMap, answer>>

\* requestRestart, granted: restart() is entered.
RequestGranted(driver) ==
    /\ job = NoJob
    /\ IsRestartConditionReached(driverRestartMap, driver)
    /\ job' = [phase |-> "open", driver |-> driver, counted |-> TRUE]
    /\ UNCHANGED <<driverRestartMap, answer, serverVars>>

\* requestRestart, declined: only the counter moves.
RequestDeclined(driver) ==
    /\ job = NoJob
    /\ ~IsRestartConditionReached(driverRestartMap, driver)
    /\ driverRestartMap' = MapAfterDecline(driverRestartMap, driver)
    /\ answer' = [driver |-> driver, restarted |-> FALSE]
    /\ UNCHANGED <<job, serverVars>>

\* requestImmediateRestart: restart() without a look at the counter.
RequestImmediateRestart(driver) ==
    /\ job = NoJob
    /\ job' = [phase |-> "open", driver |-> driver, counted |-> FALSE]
    /\ UNCHANGED <<driverRestartMap, answer, serverVars>>

\* The stream opens (a FIFO blocks until the server reads it) and takes the
\* stop command.
WriteStop ==
    /\ job.phase = "open"
    /\ path = "fifo" /\ serverUp
    /\ Len(pipe) < MaxPipe
    /\ pipe' = Append(pipe, Stop(job.driver))
    /\ job' = [job EXCEPT !.phase = "half"]
    /\ UNCHANGED <<driverRestartMap, answer, path, serverUp, running, cut>>

\* Nobody will read the commands: is_open() is false and nothing is written,
\* or the stream has created an ordinary file where the FIFO was missing.
\* The caller is not told.
OrderLost ==
    /\ job.phase = "open"
    /\ path \in {"closed", "file"}
    /\ Finish
    /\ UNCHANGED serverVars

\* Mutant: the start command is not flushed.
WriteStartUnflushed ==
    /\ job.phase = "half"
    /\ serverUp
    /\ cut' = cut \ {job.driver}
    /\ Finish
    /\ UNCHANGED <<pipe, path, serverUp, running>>

\* The start command follows, and the stream is closed.
WriteStart ==
    /\ job.phase = "half"
    /\ serverUp
    /\ Len(pipe) < MaxPipe
    /\ pipe' = Append(pipe, Start(job.driver))
    /\ cut' = cut \ {job.driver}
    /\ Finish
    /\ UNCHANGED <<path, serverUp, running>>

\* reset()
Reset ==
    /\ job = NoJob
    /\ driverRestartMap' = EmptyMap
    /\ answer' = NoAnswer
    /\ UNCHANGED <<job, serverVars>>

\* The watchdog process dies (a signal; SIGPIPE on a pipe nobody reads) and
\* is started again: the counters are in memory only.  A FIFO open at neither
\* end keeps nothing.
ProcessDies ==
    /\ driverRestartMap' = EmptyMap
    /\ job' = NoJob
    /\ answer' = NoAnswer
    /\ IF serverUp
       THEN /\ cut' = IF job.phase = "half" THEN cut \cup {job.driver} ELSE cut
            /\ pipe' = pipe
       ELSE cut' = {} /\ pipe' = <<>>
    /\ UNCHANGED <<path, serverUp, running>>
-----------------------------------------------------------------------------
(***************************************************************************)
(* The INDI server and the file system, external.                          *)
(***************************************************************************)
ServerReads ==
    /\ serverUp /\ pipe # <<>>
    /\ pipe' = Tail(pipe)
    /\ running' = IF Head(pipe).verb = "stop"
                  THEN running \ {Head(pipe).driver}
                  ELSE running \cup {Head(pipe).driver}
    /\ UNCHANGED <<managerVars, path, serverUp, cut>>

\* The writer's open end keeps the unread commands for the next server.
ServerDies ==
    /\ serverUp
    /\ serverUp' = FALSE /\ running' = {}
    /\ IF job.phase = "half"
       THEN UNCHANGED <<pipe, cut>>
       ELSE pipe' = <<>> /\ cut' = {}
    /\ UNCHANGED <<managerVars, path>>

ServerStarts ==
    /\ ~serverUp
    /\ serverUp' = TRUE /\ running' = Drivers
    /\ UNCHANGED <<managerVars, pipe, path, cut>>

PathChanges ==
    /\ path' \in Paths \ {path}
    /\ UNCHANGED <<managerVars, pipe, serverUp, running, cut>>
-----------------------------------------------------------------------------
Next ==
    \/ \E driver \in Drivers : \/ RequestGranted(driver)
                               \/ RequestDeclined(driver)
                               \/ RequestImmediateRestart(driver)
    \/ WriteStop \/ OrderLost \/ WriteStart
    \/ Reset \/ ProcessDies
    \/ ServerReads \/ ServerDies \/ ServerStarts \/ PathChanges

Spec == Init /\ [][Next]_vars
-----------------------------------------------------------------------------
(***************************************************************************)
(* Properties.                                                             *)
(***************************************************************************)

\* The driver runs once the server has read all that is written, where a
\* server not running now starts with all its drivers.
WillRun(driver) ==
    \/ /\ driver \in (IF serverUp THEN running ELSE Drivers)
       /\ \A i \in 1 .. Len(pipe) : pipe[i] # Stop(driver)
    \/ \E i \in 1 .. Len(pipe) :
         /\ pipe[i] = Start(driver)
         /\ \A j \in i + 1 .. Len(pipe) : pipe[j] # Stop(driver)

\* Whatever crashes and is requested, once the server has caught up every
\* driver runs, except the one whose restart is between its two commands now
\* and those a death of the watchdog left there.
NoDriverLost ==
    \A driver \in Drivers :
        \/ WillRun(driver)
        \/ job.phase = "half" /\ job.driver = driver
        \/ driver \in cut

\* A restart that will be counted is one the counter has granted, also after
\* all that can happen while it waits for the pipe.
CountedIsGranted ==
    job # NoJob /\ job.counted
        => IsRestartConditionReached(driverRestartMap, job.driver)

\* The manager keeps the throttle's promise: its map of counters that run
\* upwards, and appear with the first request, are refusals still due.
Throttle == INSTANCE RestartThrottle WITH
    due <- Due(Drivers, driverRestartMap)
ThrottleSpec == Throttle!Spec
=============================================================================
