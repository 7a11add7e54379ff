--------------------------- MODULE RestartCounter ---------------------------
(***************************************************************************)
(* The arithmetic of IndiDriverRestartManagerT::requestRestart: which      *)
(* request is granted, and what driverRestartMap_ holds afterwards.  The   *)
(* map is a function whose domain is the set of drivers that have an entry *)
(* (std::map<std::string, int>).  RestartManager and DeviceWatchdog share  *)
(* these operators.                                                        *)
(***************************************************************************)
EXTENDS Integers

CONSTANT RestartTriggerLimit \* restartTriggerLimit_; the watchdog passes 3

ASSUME LimitAssumption == RestartTriggerLimit \in Nat \ {0}

\* The map of a freshly constructed or reset() manager.
EmptyMap == [x \in {} |-> 0]

\* Every content driverRestartMap_ can have.
RestartMaps(drivers) ==
    UNION {[S -> 0 .. RestartTriggerLimit - 1] : S \in SUBSET drivers}

\* Mutants: the comparison off by one, either way.
ReachedLate(map, driver) ==
    driver \in DOMAIN map => map[driver] >= RestartTriggerLimit
ReachedEarly(map, driver) ==
    driver \in DOMAIN map => map[driver] >= RestartTriggerLimit - 2

\* A first request is granted at once, a later one when the limit is reached.
IsRestartConditionReached(map, driver) ==
    driver \in DOMAIN map => map[driver] >= RestartTriggerLimit - 1

\* Mutant: the counter is not set back.
RestartUncounted(map, driver) ==
    [x \in DOMAIN map \cup {driver} |-> IF x \in DOMAIN map THEN map[x] ELSE 0]

\* A granted request resets the counter or inserts a new entry.
MapAfterRestart(map, driver) ==
    [x \in DOMAIN map \cup {driver} |-> IF x = driver THEN 0 ELSE map[x]]

\* Mutant: a declined request is not counted.
DeclineUncounted(map, driver) == map

\* A declined request is counted.
MapAfterDecline(map, driver) == [map EXCEPT ![driver] = @ + 1]

\* The counters the other way round: the requests for a driver still to be
\* declined.  This is what the abstract RestartThrottle counts.
Due(drivers, map) ==
    [x \in drivers |->
       IF x \in DOMAIN map THEN RestartTriggerLimit - 1 - map[x] ELSE 0]
=============================================================================
