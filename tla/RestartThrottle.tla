-------------------------- MODULE RestartThrottle --------------------------
(***************************************************************************)
(* What IndiDriverRestartManagerT promises its caller, without its map:    *)
(* the first request for a driver is granted, and after every granted      *)
(* request exactly RestartTriggerLimit - 1 requests for the same driver    *)
(* are declined, whatever is requested for other drivers in between.  The  *)
(* count is kept the other way round than in the code: refusals still due. *)
(***************************************************************************)
EXTENDS Integers

CONSTANTS Drivers, RestartTriggerLimit

VARIABLES
    due,    \* due[driver]: refusals still due before the next grant
    answer  \* the driver of the last answered request, and the answer

Init == /\ due = [x \in Drivers |-> 0]
        /\ answer = [driver |-> "none", restarted |-> FALSE]

\* A request with no refusal due is granted.
Grant(driver) ==
    /\ due[driver] = 0
    /\ due' = [due EXCEPT ![driver] = RestartTriggerLimit - 1]
    /\ answer' = [driver |-> driver, restarted |-> TRUE]

\* Any other request is declined and counted down.
Decline(driver) ==
    /\ due[driver] > 0
    /\ due' = [due EXCEPT ![driver] = @ - 1]
    /\ answer' = [driver |-> driver, restarted |-> FALSE]

\* All counts are forgotten together: reset(), or a new process.
Forget == /\ due' = [x \in Drivers |-> 0]
          /\ answer' = [driver |-> "none", restarted |-> FALSE]

Next == \/ \E driver \in Drivers : Grant(driver) \/ Decline(driver)
        \/ Forget

Spec == Init /\ [][Next]_<<due, answer>>
=============================================================================
