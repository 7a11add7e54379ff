--------------------------- MODULE ServerSession ---------------------------
(***************************************************************************)
(* What the watchdog's connection to the INDI server promises to the       *)
(* rounds over the devices: attempts to connect come one at a time and     *)
(* never during a session, a session opens on a connection, and only the   *)
(* reset of the client, with no attempt under way, ends it.                *)
(***************************************************************************)
VARIABLES
    attempt, \* a connection attempt is under way
    link,    \* the client is connected, or has just been found so
    session  \* the devices are inspected

Init == ~attempt /\ ~link /\ ~session

Attempt == /\ ~attempt /\ ~link /\ ~session
           /\ attempt' = TRUE
           /\ UNCHANGED <<link, session>>

Succeed == /\ attempt
           /\ attempt' = FALSE /\ link' = TRUE
           /\ UNCHANGED session

Fail == /\ attempt
        /\ attempt' = FALSE
        /\ UNCHANGED <<link, session>>

\* The connection may be gone by the time it is taken for granted.
Open == /\ ~session /\ link /\ ~attempt
        /\ session' = TRUE /\ link' \in BOOLEAN
        /\ UNCHANGED attempt

\* The server, or the way to it, is gone.
Lose == /\ link
        /\ link' = FALSE
        /\ UNCHANGED <<attempt, session>>

Reset == /\ session /\ ~attempt
         /\ session' = FALSE /\ link' = FALSE
         /\ UNCHANGED attempt

Next == Attempt \/ Succeed \/ Fail \/ Open \/ Lose \/ Reset

Spec == Init /\ [][Next]_<<attempt, link, session>>
=============================================================================
