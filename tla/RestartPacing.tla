--------------------------- MODULE RestartPacing ---------------------------
(***************************************************************************)
(* DeviceWatchdog with a history variable that counts its rounds, to show  *)
(* that its restart orders are paced as PacedRestarts promises.  The code  *)
(* has no such count: its counter counts requests, of which a driver gets  *)
(* one for each of its devices that is missing, and the round that ends    *)
(* with a restart leaves out the devices behind.                           *)
(***************************************************************************)
EXTENDS DeviceWatchdog, FiniteSets

\* The devices of a driver from place n on in the order of a round.
From(n, x) == {i \in n .. Len(DeviceOrder) : DriverOf[DeviceOrder[i]] = x}
Share == [x \in Drivers |-> Cardinality(From(1, x))]

VARIABLE age \* history: rounds since a driver was ordered restarted, as often
             \* as it has devices

PInit == Init /\ age = [x \in Drivers |-> RestartTriggerLimit]

\* Restarts are paced: the promise of the counter, kept over sessions, resets
\* of the client and rounds that a restart cuts short.
Paced == INSTANCE PacedRestarts WITH
    session <- connected /\ pc \notin {"reset", "renew"}
PacedSpec == Paced!Spec

\* Every step of the watchdog, with the count of the rounds.
PNext ==
    /\ Next
    /\ age' = IF pc = "sleep" /\ pc' = "look"
              THEN [x \in Drivers |-> Paced!Older(x)]
              ELSE IF pc = "restart" /\ pc' = "reset"
              THEN [age EXCEPT ![DriverOf[Current]] = 0]
              ELSE age

PSpec == PInit /\ [][PNext]_<<vars, age>>
=============================================================================
