--------------------------- MODULE PacedRestarts ---------------------------
(***************************************************************************)
(* What the watchdog promises about restarts to those who use the other    *)
(* devices: at most one restart order in a session with the INDI server,   *)
(* and for a driver of k devices at most one in RestartTriggerLimit / k    *)
(* rounds, rounded up.                                                     *)
(***************************************************************************)
EXTENDS Integers

CONSTANTS
    Drivers, RestartTriggerLimit,
    Share \* Share[driver]: the devices of a driver

VARIABLES
    session, \* a session with the server is open for inspection
    age      \* rounds since the driver was last ordered restarted, times its
             \* share; beyond the limit nothing is counted

Init == /\ session = FALSE
        /\ age = [x \in Drivers |-> RestartTriggerLimit]

Open == /\ ~session
        /\ session' = TRUE
        /\ age' = age

Older(x) == IF age[x] + Share[x] < RestartTriggerLimit
            THEN age[x] + Share[x] ELSE RestartTriggerLimit

\* A round over the devices begins.
Round == /\ session
         /\ age' = [x \in Drivers |-> Older(x)]
         /\ session' = session

\* The order ends the session.
Order(driver) == /\ session
                 /\ age[driver] >= RestartTriggerLimit
                 /\ age' = [age EXCEPT ![driver] = 0]
                 /\ session' = FALSE

Next == Open \/ Round \/ \E driver \in Drivers : Order(driver)

Spec == Init /\ [][Next]_<<session, age>>
=============================================================================
