------------------------ MODULE RestartCounterProofs ------------------------
(***************************************************************************)
(* Lemmas about the counters of requestRestart: what the map can hold, and *)
(* that neither answer takes a counter to the limit.                       *)
(***************************************************************************)
EXTENDS RestartCounter, TLAPS

\* A content of the map is a function from some drivers to small counters.
LEMMA MapContent ==
    ASSUME NEW map, NEW drivers
    PROVE  map \in RestartMaps(drivers)
             <=> /\ DOMAIN map \subseteq drivers
                 /\ map \in [DOMAIN map -> 0 .. RestartTriggerLimit - 1]
BY DEF RestartMaps

\* The empty map is one.
LEMMA EmptyMapContent ==
    ASSUME NEW drivers PROVE EmptyMap \in RestartMaps(drivers)
<1>1. DOMAIN EmptyMap = {}
  BY DEF EmptyMap
<1>2. EmptyMap \in [{} -> 0 .. RestartTriggerLimit - 1]
  BY DEF EmptyMap
<1> QED BY <1>1, <1>2, MapContent

\* A grant keeps the counters below the limit.
LEMMA RestartContent ==
    ASSUME NEW drivers, NEW map \in RestartMaps(drivers), NEW driver \in drivers
    PROVE  MapAfterRestart(map, driver) \in RestartMaps(drivers)
<1> DEFINE new == MapAfterRestart(map, driver)
<1>1. DOMAIN new = DOMAIN map \cup {driver}
  BY DEF MapAfterRestart
<1>2. /\ DOMAIN map \subseteq drivers
      /\ map \in [DOMAIN map -> 0 .. RestartTriggerLimit - 1]
  BY MapContent
<1>3. ASSUME NEW x \in DOMAIN map \cup {driver}
      PROVE  new[x] \in 0 .. RestartTriggerLimit - 1
  BY <1>2, LimitAssumption DEF MapAfterRestart
<1>4. new \in [DOMAIN new -> 0 .. RestartTriggerLimit - 1]
  BY <1>1, <1>3 DEF MapAfterRestart
<1> QED BY <1>1, <1>2, <1>4, MapContent

\* So does a refusal: it is given only below the last step.
LEMMA DeclineContent ==
    ASSUME NEW drivers, NEW map \in RestartMaps(drivers), NEW driver \in drivers,
           ~IsRestartConditionReached(map, driver)
    PROVE  MapAfterDecline(map, driver) \in RestartMaps(drivers)
<1> DEFINE new == MapAfterDecline(map, driver)
<1>1. DOMAIN new = DOMAIN map
  BY DEF MapAfterDecline
<1>2. /\ DOMAIN map \subseteq drivers
      /\ map \in [DOMAIN map -> 0 .. RestartTriggerLimit - 1]
  BY MapContent
<1>3. driver \in DOMAIN map /\ map[driver] < RestartTriggerLimit - 1
  BY <1>2, LimitAssumption DEF IsRestartConditionReached
<1>4. map[driver] + 1 \in 0 .. RestartTriggerLimit - 1
  BY <1>2, <1>3, LimitAssumption
<1>5. new \in [DOMAIN new -> 0 .. RestartTriggerLimit - 1]
  BY <1>1, <1>2, <1>4 DEF MapAfterDecline
<1> QED BY <1>1, <1>2, <1>5, MapContent
-----------------------------------------------------------------------------
(***************************************************************************)
(* The refusals still due.                                                 *)
(***************************************************************************)

\* A request is granted exactly when no refusal is due.
LEMMA GrantedIsDue ==
    ASSUME NEW drivers, NEW map \in RestartMaps(drivers), NEW driver \in drivers
    PROVE  /\ Due(drivers, map)[driver] \in Nat
           /\ IsRestartConditionReached(map, driver) <=> Due(drivers, map)[driver] = 0
<1>1. driver \in DOMAIN map => map[driver] \in 0 .. RestartTriggerLimit - 1
  BY MapContent
<1> QED BY <1>1, LimitAssumption DEF Due, IsRestartConditionReached

\* A grant makes all refusals due again, for this driver only.
LEMMA DueAfterRestart ==
    ASSUME NEW drivers, NEW map, NEW driver \in drivers
    PROVE  Due(drivers, MapAfterRestart(map, driver))
             = [Due(drivers, map) EXCEPT ![driver] = RestartTriggerLimit - 1]
<1> DEFINE new == MapAfterRestart(map, driver)
<1>1. DOMAIN new = DOMAIN map \cup {driver} /\ new[driver] = 0
  BY DEF MapAfterRestart
<1>2. \A x \in DOMAIN map \ {driver} : new[x] = map[x]
  BY DEF MapAfterRestart
<1>3. Due(drivers, new)[driver] = RestartTriggerLimit - 1
  BY <1>1, LimitAssumption DEF Due
<1>4. \A x \in drivers \ {driver} : Due(drivers, new)[x] = Due(drivers, map)[x]
  BY <1>1, <1>2 DEF Due
<1> HIDE DEF new
<1>5. Due(drivers, new) = [Due(drivers, map) EXCEPT ![driver] = RestartTriggerLimit - 1]
  BY <1>3, <1>4 DEF Due
<1> QED BY <1>5 DEF new

\* A refusal is one less to come.
LEMMA DueAfterDecline ==
    ASSUME NEW drivers, NEW map \in RestartMaps(drivers), NEW driver \in drivers,
           ~IsRestartConditionReached(map, driver)
    PROVE  Due(drivers, MapAfterDecline(map, driver))
             = [Due(drivers, map) EXCEPT ![driver] = @ - 1]
<1>1. map \in [DOMAIN map -> 0 .. RestartTriggerLimit - 1]
  BY MapContent
<1>2. driver \in DOMAIN map /\ map[driver] \in Int
  BY <1>1 DEF IsRestartConditionReached
<1> DEFINE new == MapAfterDecline(map, driver)
<1>3. DOMAIN new = DOMAIN map /\ new[driver] = map[driver] + 1
  BY <1>2 DEF MapAfterDecline
<1>4. \A x \in DOMAIN map \ {driver} : new[x] = map[x]
  BY DEF MapAfterDecline
<1>5. Due(drivers, new)[driver] = Due(drivers, map)[driver] - 1
  BY <1>2, <1>3, LimitAssumption DEF Due
<1>6. \A x \in drivers \ {driver} : Due(drivers, new)[x] = Due(drivers, map)[x]
  BY <1>3, <1>4 DEF Due
<1> HIDE DEF new
<1>7. Due(drivers, new) = [Due(drivers, map) EXCEPT ![driver] = @ - 1]
  BY <1>5, <1>6 DEF Due
<1> QED BY <1>7 DEF new

\* Without counters nothing is due.
LEMMA DueEmpty ==
    ASSUME NEW drivers PROVE Due(drivers, EmptyMap) = [x \in drivers |-> 0]
BY DEF Due, EmptyMap
=============================================================================
