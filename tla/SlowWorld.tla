----------------------------- MODULE SlowWorld -----------------------------
(***************************************************************************)
(* DeviceWatchdog in a world that need not settle between two rounds, but  *)
(* lags behind by a bounded number of them: a restarted driver may need    *)
(* that many rounds to announce its device, and is asked for a restart in  *)
(* each.  The code has no such bound; it is what recovery depends on.      *)
(***************************************************************************)
EXTENDS DeviceWatchdog

CONSTANT MaxLag \* bound: rounds in a row that find the world unsettled

ASSUME LagAssumption == MaxLag \in Nat

VARIABLE lag \* history: how many there have been since the last restart order

\* A device and its properties are announced in one go: no round comes between.
Whole == calls = {} /\ (link = "up" => \A d \in Devices : baseDevices[d] # "bare")

Lag ==
    IF pc = "sleep" /\ pc' = "look"
    THEN /\ Whole
         /\ Settled \/ lag < MaxLag
         /\ lag' = IF Settled THEN 0 ELSE lag + 1
    ELSE lag' = IF pc = "restart" /\ pc' = "reset" THEN 0 ELSE lag

LInit == Init /\ lag = 0
LNext == Next /\ Lag
LSpec == LInit /\ [][LNext]_<<vars, lag>> /\ Fairness

\* A driver that is slow, but not slower than the counter allows for, is not
\* restarted over and over before it has announced its device.
RestartsCease == <>[](pc # "restart")
=============================================================================
