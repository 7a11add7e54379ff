----------------------------- MODULE MainProofs -----------------------------
(***************************************************************************)
(* Theorems about Main, for any command lines, any files and any largest   *)
(* unsigned.  Two invariants, one after the other: what the stages know of *)
(* the command line, and what they know of the file.  run() disturbs       *)
(* neither, whatever its steps; and what ConnectingProofs shows of run()   *)
(* holds for the timeout that main() hands it, from the first option on.   *)
(***************************************************************************)
EXTENDS Main, ConnectingProofs

(***************************************************************************)
(* The command line.                                                       *)
(***************************************************************************)
Names(m) == {args[i].name : i \in 1 .. m}

\* What store() has made of the first m options, and what it has not found.
Stored(m) ==
    /\ \A i \in 1 .. m :
         IF args[i].name = "verbose" THEN ~LevelThrows(args[i])
         ELSE args[i].form # "junk"
    /\ \A i, j \in 1 .. m :
         i # j /\ args[i].name = args[j].name => args[i].name = "verbose"
    /\ DOMAIN vm = Names(m)
    /\ \A i \in 1 .. m :
         args[i].name # "verbose" => vm[args[i].name] = args[i].n

\* The parser has passed the whole line.
Parsed == \A i \in 1 .. Len(args) : ~Stumbles(i)

\* All of the command line is right, and asks for a watchdog.
Accepted ==
    /\ Parsed /\ Stored(Len(args))
    /\ Given("device-config") /\ ~Given("help")

LineInv ==
    /\ args \in Seq(Options)
    /\ next \in Nat \ {0}
    /\ stage = "parse" => next = 1 /\ DOMAIN vm = {}
    /\ stage = "store" =>
         Parsed /\ next <= Len(args) + 1 /\ Stored(next - 1)
    /\ stage = "report" =>
         /\ DOMAIN vm \subseteq Names(Len(args))
         /\ \/ errorMsg /\ Misspelt
            \/ /\ Parsed /\ Stored(Len(args))
               /\ errorMsg = ~Given("device-config")
    /\ stage \in {"level", "load", "construct", "start"} => Accepted

\* A step that leaves the line and the map alone leaves what was stored.
LEMMA StoredUnchanged ==
    ASSUME UNCHANGED <<args, vm>>
    PROVE  /\ \A m \in Nat : Names(m)' = Names(m) /\ Stored(m)' = Stored(m)
           /\ Parsed' = Parsed /\ Accepted' = Accepted /\ Misspelt' = Misspelt
BY DEF Names, Stored, Parsed, Accepted, Misspelt, Positions, Given, Stumbles,
       UnknownOption, MissingArgument, LevelThrows

\* One more option, stored without an exception.
LEMMA StoreStep ==
    ASSUME args \in Seq(Options), NEW m \in Nat, m < Len(args), next = m + 1,
           Stored(m), StoreOption
    PROVE  Stored(m + 1)'
<1> DEFINE name == args[m + 1].name
<1>1. args' = args /\ \A i \in 1 .. m + 1 : i \in 1 .. m \/ i = m + 1
  BY DEF StoreOption
<1>2. name \notin DOMAIN vm \/ name = "verbose"
  BY DEF StoreOption, Option, Repeated, Given
<1>3. /\ DOMAIN vm' = DOMAIN vm \cup {name}
      /\ \A k \in DOMAIN vm : k # name => vm'[k] = vm[k]
      /\ name # "verbose" => vm'[name] = args[m + 1].n
  <2>1. CASE name = "verbose"
    <3>1. vm' = Put(vm, "verbose",
                    Level(IF Given("verbose") THEN vm["verbose"] ELSE 0,
                          args[m + 1]))
      BY <2>1 DEF StoreOption, Option
    <3> QED BY <3>1, <2>1 DEF Put
  <2>2. CASE name # "verbose"
    <3>1. vm' = Put(vm, name, args[m + 1].n)
      BY <2>2 DEF StoreOption, Option
    <3> QED BY <3>1, <2>2 DEF Put
  <2> QED BY <2>1, <2>2
<1>4. DOMAIN vm = {args[i].name : i \in 1 .. m}
  BY DEF Stored, Names
<1>5. \A i \in 1 .. m : args[i].name \in DOMAIN vm
  BY <1>4
<1>6. \A i \in 1 .. m + 1 :
        IF args[i].name = "verbose" THEN ~LevelThrows(args[i])
        ELSE args[i].form # "junk"
  BY <1>1 DEF Stored, StoreOption, Option
<1>7. \A i, j \in 1 .. m + 1 :
        i # j /\ args[i].name = args[j].name => args[i].name = "verbose"
  BY <1>1, <1>2, <1>5 DEF Stored
<1>8. DOMAIN vm' = {args[i].name : i \in 1 .. m + 1}
  <2>1. {args[i].name : i \in 1 .. m + 1} = {args[i].name : i \in 1 .. m} \cup {name}
    BY <1>1
  <2> QED BY <2>1, <1>3, <1>4
<1>9. \A i \in 1 .. m + 1 :
         args[i].name # "verbose" => vm'[args[i].name] = args[i].n
  <2> TAKE i \in 1 .. m + 1
  <2>1. CASE i = m + 1
    BY <2>1, <1>3
  <2>2. CASE i \in 1 .. m
    BY <2>2, <1>2, <1>3, <1>5 DEF Stored
  <2> QED BY <1>1, <2>1, <2>2
<1> QED BY <1>1, <1>6, <1>7, <1>8, <1>9 DEF Stored, Names, LevelThrows

\* The steps of the command line keep what is known of it.
LEMMA LineStep ==
    ASSUME LineInv, [MainNext]_allVars
    PROVE  LineInv'
<1> USE DEF LineInv
<1>1. CASE Parse
  <2>1. UNCHANGED <<args, vm, next>> /\ stage = "parse"
    BY <1>1 DEF Parse
  <2>2. Stored(0)
    BY <2>1 DEF Stored, Names
  <2>3. CASE stage' = "store"
    <3>1. Parsed
      BY <1>1, <2>3 DEF Parse, Parsed
    <3> QED BY <2>1, <2>2, <2>3, <3>1, StoredUnchanged
  <2>4. CASE stage' = "report" /\ errorMsg'
    <3>1. Misspelt
      BY <1>1, <2>4 DEF Parse, Misspelt, Stumbles
    <3> QED BY <2>1, <2>4, <3>1, StoredUnchanged
  <2>5. CASE stage' = "aborted"
    BY <2>1, <2>5
  <2> QED BY <1>1, <2>3, <2>4, <2>5 DEF Parse
<1>2. CASE StoreOption
  <2>1. next - 1 \in Nat /\ next - 1 < Len(args) /\ Stored(next - 1)
    BY <1>2 DEF StoreOption
  <2>2. \A m \in Nat : next = m + 1 => Stored(m + 1)'
    BY <1>2, <2>1, StoreStep
  <2>3. Parsed' /\ stage = "store"
    BY <1>2 DEF StoreOption, Parsed, Stumbles, UnknownOption, MissingArgument
  <2>4. next' = (next - 1) + 2 /\ UNCHANGED <<args, stage>>
    BY <1>2 DEF StoreOption
  <2>5. Stored(next - 1)'
    BY <2>1, <2>2, <2>4
  <2> QED BY <2>1, <2>3, <2>4, <2>5
<1>3. CASE StoreFails
  <2>1. UNCHANGED <<args, vm, next>> /\ stage = "store"
    BY <1>3 DEF StoreFails
  <2>2. DOMAIN vm \subseteq Names(Len(args))
    BY <2>1 DEF Stored, Names
  <2>3. CASE stage' = "aborted"
    BY <2>1, <2>3
  <2>4. CASE stage' = "report" /\ errorMsg' /\ Option.name # "verbose" /\ Option.form = "junk"
    <3>1. Misspelt
      BY <1>3, <2>4 DEF StoreFails, Misspelt, Positions, Option
    <3> QED BY <2>1, <2>2, <2>4, <3>1, StoredUnchanged
  <2> QED BY <1>3, <2>3, <2>4 DEF StoreFails
<1>4. CASE Notify
  <2>1. UNCHANGED <<args, vm, next>> /\ stage = "store" /\ stage' = "report"
    BY <1>4 DEF Notify
  <2>2. next - 1 = Len(args)
    BY <1>4 DEF Notify
  <2>3. DOMAIN vm \subseteq Names(Len(args))
    BY <2>1, <2>2 DEF Stored
  <2>4. (errorMsg = ~Given("device-config"))'
    BY <1>4 DEF Notify, Given
  <2> QED BY <2>1, <2>2, <2>3, <2>4, StoredUnchanged
<1>5. CASE Report
  <2>1. UNCHANGED <<args, vm, next, errorMsg>> /\ stage = "report"
    BY <1>5 DEF Report, options
  <2>2. CASE stage' \in Ends
    BY <2>1, <2>2 DEF Ends
  <2>3. CASE stage' = "level" /\ ~errorMsg /\ ~Given("help")
    BY <2>1, <2>3, StoredUnchanged DEF Accepted
  <2> QED BY <1>5, <2>2, <2>3 DEF Report, Ends
<1>6. CASE SetLevel
  BY <1>6, StoredUnchanged DEF SetLevel
<1>7. CASE LoadFails
  BY <1>7, StoredUnchanged DEF LoadFails
<1>8. CASE LoadEntry
  BY <1>8, StoredUnchanged DEF LoadEntry, options
<1>9. CASE Loaded
  BY <1>9, StoredUnchanged DEF Loaded, options
<1>10. CASE InsertDevice
  BY <1>10, StoredUnchanged DEF InsertDevice, options
<1>11. CASE Constructed
  BY <1>11, StoredUnchanged DEF Constructed, options
<1>12. CASE CallRun
  BY <1>12 DEF CallRun
<1>13. CASE Running(Next)
  BY <1>13 DEF Running, options
<1>14. CASE UNCHANGED allVars
  <2>1. UNCHANGED <<args, vm, next, stage, errorMsg>>
    BY <1>14 DEF allVars, mainVars, options
  <2>2. (errorMsg = ~Given("device-config"))' = (errorMsg = ~Given("device-config"))
    BY <2>1 DEF Given
  <2> QED BY <2>1, <2>2, StoredUnchanged
<1> QED
  BY <1>1, <1>2, <1>3, <1>4, <1>5, <1>6, <1>7, <1>8, <1>9, <1>10, <1>11,
     <1>12, <1>13, <1>14 DEF MainNext, Start

\* The empty command line, and nothing stored of it.
LEMMA LineInitially == MainInit => LineInv
BY OptionsAssumption DEF MainInit, LineInv

LEMMA LineAlways == MainSpec => []LineInv
BY LineInitially, LineStep, PTL DEF MainSpec

(***************************************************************************)
(* The configuration.                                                      *)
(***************************************************************************)
Complete(m) == \A i \in 1 .. m : file.entries[i].complete

\* What load() returns of the first m entries.
LoadedFirst(m) ==
    /\ Len(devicesToMonitor) = m
    /\ \A i \in 1 .. m : devicesToMonitor[i] = DeviceData(file.entries[i])

\* What the constructor has made of them: the first entry of a name stays.
Built(m) ==
    /\ DOMAIN deviceConnections = {file.entries[i].name : i \in 1 .. m}
    /\ \A i \in 1 .. m :
         (\A j \in 1 .. i - 1 : file.entries[j].name # file.entries[i].name)
         => deviceConnections[file.entries[i].name] = DeviceData(file.entries[i])

TimeoutAsGiven ==
    IF Positions("timeout") = {} THEN timeoutSec = DefaultTimeout
    ELSE \E i \in Positions("timeout") : timeoutSec = args[i].n

\* All of the file is loaded, and the timeout is read.
Configured ==
    /\ file.kind = "devices"
    /\ Complete(Len(file.entries)) /\ LoadedFirst(Len(file.entries))
    /\ TimeoutAsGiven

FileInv ==
    /\ file \in [kind : {"unreadable", "noDevices", "devices"},
                 entries : Seq(Entries)]
    /\ devicesToMonitor \in Seq([indiDeviceName : STRING,
                                 indiDeviceDriverName : STRING])
    /\ stage \in {"parse", "store", "report", "level"} =>
         devicesToMonitor = <<>> /\ DOMAIN deviceConnections = {}
    /\ stage = "load" =>
         /\ next <= Len(file.entries) + 1
         /\ Complete(next - 1) /\ LoadedFirst(next - 1)
         /\ DOMAIN deviceConnections = {}
    /\ stage = "construct" =>
         Configured /\ next <= Len(file.entries) + 1 /\ Built(next - 1)
    /\ stage = "start" => Configured /\ Built(Len(file.entries))

\* A step that leaves the configuration and the line alone leaves all of it.
LEMMA FileUnchanged ==
    ASSUME UNCHANGED <<args, file, devicesToMonitor, timeoutSec>>
    PROVE  /\ \A m \in Nat : Complete(m)' = Complete(m)
           /\ \A m \in Nat : LoadedFirst(m)' = LoadedFirst(m)
           /\ Configured' = Configured
BY DEF Complete, LoadedFirst, Configured, TimeoutAsGiven, Positions, DeviceData

LEMMA BuiltUnchanged ==
    ASSUME UNCHANGED <<file, deviceConnections>>
    PROVE  \A m \in Nat : Built(m)' = Built(m)
BY DEF Built, DeviceData

\* One more device, in the map or not as insert() has it.
LEMMA InsertStep ==
    ASSUME file.entries \in Seq(Entries), NEW m \in Nat, m < Len(file.entries),
           next = m + 1, LoadedFirst(Len(file.entries)), Built(m), InsertDevice
    PROVE  Built(m + 1)'
<1> DEFINE name == file.entries[m + 1].name
           device == DeviceData(file.entries[m + 1])
<1>1. file' = file /\ \A i \in 1 .. m + 1 : i \in 1 .. m \/ i = m + 1
  BY DEF InsertDevice
<1>2. deviceConnections' =
        IF name \in DOMAIN deviceConnections THEN deviceConnections
        ELSE Put(deviceConnections, name, device)
  <2>1. devicesToMonitor[m + 1] = device /\ device.indiDeviceName = name
    BY DEF LoadedFirst, DeviceData
  <2> QED BY <2>1 DEF InsertDevice, Inserted
<1>3. /\ DOMAIN deviceConnections' = DOMAIN deviceConnections \cup {name}
      /\ \A k \in DOMAIN deviceConnections :
           deviceConnections'[k] = deviceConnections[k]
      /\ name \notin DOMAIN deviceConnections => deviceConnections'[name] = device
  <2>1. CASE name \in DOMAIN deviceConnections
    BY <2>1, <1>2
  <2>2. CASE name \notin DOMAIN deviceConnections
    <3>1. deviceConnections' = Put(deviceConnections, name, device)
      BY <2>2, <1>2
    <3> QED BY <3>1, <2>2 DEF Put
  <2> QED BY <2>1, <2>2
<1>4. DOMAIN deviceConnections = {file.entries[i].name : i \in 1 .. m}
  BY DEF Built
<1>5. \A i \in 1 .. m : file.entries[i].name \in DOMAIN deviceConnections
  BY <1>4
<1>6. DOMAIN deviceConnections' = {file.entries[i].name : i \in 1 .. m + 1}
  <2>1. {file.entries[i].name : i \in 1 .. m + 1}
          = {file.entries[i].name : i \in 1 .. m} \cup {name}
    BY <1>1
  <2> QED BY <2>1, <1>3, <1>4
<1>7. ASSUME NEW i \in 1 .. m + 1,
             \A j \in 1 .. i - 1 : file.entries[j].name # file.entries[i].name
      PROVE  deviceConnections'[file.entries[i].name] = DeviceData(file.entries[i])
  <2>1. CASE i = m + 1
    <3>1. name \notin DOMAIN deviceConnections
      BY <1>4, <1>7, <2>1
    <3> QED BY <3>1, <1>3, <2>1
  <2>2. CASE i \in 1 .. m
    BY <2>2, <1>3, <1>5, <1>7 DEF Built
  <2> QED BY <1>1, <2>1, <2>2
<1> QED BY <1>1, <1>6, <1>7 DEF Built, DeviceData

\* The steps of the file keep what is known of it.
LEMMA FileStep ==
    ASSUME LineInv, FileInv, [MainNext]_allVars
    PROVE  FileInv'
<1> USE DEF FileInv
<1>1. CASE Parse \/ StoreOption \/ StoreFails \/ Notify
  <2>1. /\ UNCHANGED <<file, devicesToMonitor, deviceConnections>>
        /\ stage' \in {"parse", "store", "report", "aborted"}
        /\ stage \in {"parse", "store"}
    BY <1>1 DEF Parse, StoreOption, StoreFails, Notify, configuration
  <2> QED BY <2>1
<1>2. CASE Report
  <2>1. /\ UNCHANGED <<file, devicesToMonitor, deviceConnections>>
        /\ stage' \in {"help", "error", "level"}
        /\ stage = "report"
    BY <1>2 DEF Report, configuration
  <2> QED BY <2>1
<1>3. CASE SetLevel
  <2>1. /\ UNCHANGED <<file, devicesToMonitor, deviceConnections>>
        /\ stage = "level" /\ stage' = "load" /\ next' = 1
    BY <1>3 DEF SetLevel, configuration
  <2> QED BY <2>1 DEF Complete, LoadedFirst
<1>4. CASE LoadFails
  BY <1>4 DEF LoadFails, configuration
<1>5. CASE LoadEntry
  <2> DEFINE entry == file.entries[next]
  <2>1. next \in Nat \ {0} /\ next <= Len(file.entries) /\ entry \in Entries
    BY <1>5 DEF LoadEntry, LineInv
  <2>2. DeviceData(entry) \in [indiDeviceName : STRING, indiDeviceDriverName : STRING]
    BY <2>1 DEF Entries, DeviceData
  <2>3. /\ devicesToMonitor' = Append(devicesToMonitor, DeviceData(entry))
        /\ next' = next + 1 /\ stage = "load"
        /\ UNCHANGED <<file, stage, deviceConnections>>
    BY <1>5 DEF LoadEntry
  <2>4. Complete(next - 1)'
    <3>1. file.entries[next].complete /\ Complete(next - 1)
      BY <1>5, <2>3 DEF LoadEntry
    <3>2. \A i \in 1 .. next : i \in 1 .. next - 1 \/ i = next
      BY <2>1
    <3> QED BY <2>1, <2>3, <3>1, <3>2 DEF Complete
  <2>5. LoadedFirst(next - 1)'
    <3> DEFINE list == Append(devicesToMonitor, DeviceData(entry))
    <3>1. Len(devicesToMonitor) = next - 1 /\ Len(list) = next
      BY <2>1, <2>2, <2>3, AppendProperties DEF LoadedFirst
    <3>2. \A i \in 1 .. next : list[i] = DeviceData(file.entries[i])
      <4> TAKE i \in 1 .. next
      <4>1. CASE i = next
        BY <4>1, <2>2, <3>1, AppendProperties
      <4>2. CASE i \in 1 .. next - 1
        BY <4>2, <2>2, <2>3, <3>1, AppendProperties DEF LoadedFirst
      <4>3. i = next \/ i \in 1 .. next - 1
        BY <2>1
      <4> QED BY <4>1, <4>2, <4>3
    <3> QED BY <2>1, <2>3, <3>1, <3>2 DEF LoadedFirst, DeviceData
  <2> QED BY <2>1, <2>2, <2>3, <2>4, <2>5
<1>6. CASE Loaded
  <2>1. /\ UNCHANGED <<args, vm, file, devicesToMonitor, deviceConnections>>
        /\ stage = "load" /\ stage' = "construct" /\ next' = 1
        /\ file.kind = "devices" /\ next - 1 = Len(file.entries)
    BY <1>6 DEF Loaded, options, LineInv
  <2>2. TimeoutAsGiven'
    <3>1. Stored(Len(args)) /\ Len(args) \in Nat
      BY <2>1 DEF LineInv, Accepted
    <3>2. Given("timeout") <=> Positions("timeout") # {}
      BY <3>1 DEF Stored, Names, Given, Positions
    <3>3. \A i \in Positions("timeout") : vm["timeout"] = args[i].n
      BY <3>1 DEF Stored, Positions
    <3>4. timeoutSec' = IF Given("timeout") THEN vm["timeout"] ELSE DefaultTimeout
      BY <1>6 DEF Loaded
    <3> QED BY <2>1, <3>2, <3>3, <3>4 DEF TimeoutAsGiven, Positions
  <2>3. Complete(Len(file.entries))' /\ LoadedFirst(Len(file.entries))'
    BY <2>1 DEF Complete, LoadedFirst, DeviceData
  <2>4. Built(0)'
    BY <2>1 DEF Built
  <2> QED BY <2>1, <2>2, <2>3, <2>4 DEF Configured
<1>7. CASE InsertDevice
  <2>1. /\ UNCHANGED <<args, file, devicesToMonitor, timeoutSec, stage>>
        /\ stage = "construct" /\ next' = next + 1
        /\ next \in Nat \ {0} /\ next <= Len(file.entries)
    BY <1>7 DEF InsertDevice, options, LineInv, Configured, LoadedFirst
  <2>2. \A m \in Nat : next = m + 1 => Built(m + 1)'
    BY <1>7, <2>1, InsertStep DEF Configured
  <2>3. Built(next - 1)'
    <3>1. PICK m \in Nat : next = m + 1
      BY <2>1
    <3> QED BY <2>1, <2>2, <3>1
  <2> QED BY <2>1, <2>3, FileUnchanged
<1>8. CASE Constructed
  <2>1. /\ UNCHANGED <<args, file, devicesToMonitor, timeoutSec, deviceConnections>>
        /\ stage = "construct" /\ stage' = "start"
        /\ next - 1 = Len(file.entries)
    BY <1>8 DEF Constructed, options, configuration, LineInv, Configured, LoadedFirst
  <2>2. Built(Len(file.entries))'
    BY <2>1, BuiltUnchanged
  <2> QED BY <2>1, <2>2, FileUnchanged
<1>9. CASE CallRun
  BY <1>9 DEF CallRun
<1>10. CASE Running(Next)
  BY <1>10 DEF Running
<1>11. CASE UNCHANGED allVars
  <2>1. UNCHANGED <<args, file, devicesToMonitor, timeoutSec, deviceConnections,
                    stage, next>>
    BY <1>11 DEF allVars, mainVars, options, configuration
  <2> QED BY <2>1, FileUnchanged, BuiltUnchanged DEF LineInv
<1> QED
  BY <1>1, <1>2, <1>3, <1>4, <1>5, <1>6, <1>7, <1>8, <1>9, <1>10, <1>11
  DEF MainNext, Start

\* A file of the configuration, and nothing made of it.
LEMMA FileInitially == MainInit => FileInv
BY FilesAssumption DEF MainInit, FileInv

LEMMA FileAlways == MainSpec => []FileInv
<1>1. LineInv /\ FileInv /\ [MainNext]_allVars => FileInv'
  BY FileStep
<1> QED BY <1>1, FileInitially, LineAlways, PTL DEF MainSpec

\* run() gets the whole configuration or is not called, whatever the options
\* and the file: Loaded, InsertDevice.
THEOREM ConfiguresAll == MainSpec => []StartsAsConfigured
<1>1. FileInv => StartsAsConfigured
  BY DEF FileInv, StartsAsConfigured, Configured, Complete, Built, TimeoutAsGiven
<1> QED BY <1>1, FileAlways, PTL

(***************************************************************************)
(* The ends of main().                                                     *)
(***************************************************************************)

\* A command line that is accepted has none of the mistakes.
LEMMA AcceptedIsRight ==
    ASSUME LineInv, Accepted
    PROVE  /\ ~Misspelt /\ ~Misused
           /\ Positions("device-config") # {} /\ Positions("help") = {}
<1>1. args \in Seq(Options) /\ Parsed /\ Stored(Len(args))
  BY DEF LineInv, Accepted
<1>2. ~Misspelt
  BY <1>1 DEF Misspelt, Parsed, Stumbles, Stored, Positions
<1>3. ~Misused
  BY <1>1 DEF Misused, Parsed, Stumbles, UnknownOption, Stored, Positions
<1>4. Positions("device-config") # {} /\ Positions("help") = {}
  BY <1>1 DEF Accepted, Given, Stored, Names, Positions
<1> QED BY <1>2, <1>3, <1>4

\* The mistakes do not change before run() is called.
LEMMA MistakesUnchanged ==
    ASSUME UNCHANGED <<args, file>>
    PROVE  /\ Misspelt' = Misspelt /\ Misused' = Misused /\ Absent' = Absent
           /\ Malformed' = Malformed
           /\ Positions("help")' = Positions("help")
BY DEF Misspelt, Misused, Absent, Malformed, Positions, LevelThrows, MissingArgument

LEMMA EndStep ==
    ASSUME LineInv, FileInv, EndsInOrder, [MainNext]_allVars,
           LineInv', FileInv'
    PROVE  EndsInOrder'
<1>1. CASE Parse
  <2>1. stage' = "aborted" => Misused
    BY <1>1 DEF Parse, Misused, UnknownOption, Positions
  <2> QED BY <1>1, <2>1, MistakesUnchanged DEF Parse, configuration, EndsInOrder
<1>2. CASE StoreFails
  <2>1. stage' = "aborted" => Misused
    <3>1. next \in 1 .. Len(args) /\ Stored(next - 1) /\ args \in Seq(Options)
      BY <1>2 DEF StoreFails, LineInv
    <3>2. CASE Repeated(Option)
      <4>1. PICK i \in 1 .. next - 1 : args[i].name = args[next].name
        BY <3>1, <3>2 DEF Repeated, Given, Stored, Names, Option
      <4> QED BY <3>1, <3>2, <4>1 DEF Repeated, Option, Misused
    <3>3. CASE Option.name = "verbose" /\ LevelThrows(Option)
      BY <3>1, <3>3 DEF Option, Misused, Positions
    <3> QED BY <1>2, <3>2, <3>3 DEF StoreFails
  <2> QED BY <1>2, <2>1, MistakesUnchanged DEF StoreFails, configuration, EndsInOrder
<1>3. CASE StoreOption \/ Notify
  BY <1>3 DEF StoreOption, Notify, EndsInOrder
<1>4. CASE Report
  <2>1. stage = "report" /\ UNCHANGED <<args, file>>
    BY <1>4 DEF Report, options, configuration
  <2>2. stage' = "help" => Positions("help") # {}
    BY <1>4 DEF Report, Given, LineInv, Names, Positions
  <2>3. stage' = "error" => Misspelt \/ (Absent /\ Positions("help") = {})
    <3>1. CASE errorMsg /\ ~Given("help") /\ ~Misspelt
      <4>1. Stored(Len(args)) /\ ~Given("device-config")
        BY <2>1, <3>1 DEF LineInv
      <4> QED BY <4>1, <3>1 DEF Stored, Names, Given, Positions, Absent
    <3> QED BY <1>4, <3>1 DEF Report
  <2>4. stage' \in {"help", "error", "level"}
    BY <1>4 DEF Report
  <2> QED BY <2>1, <2>2, <2>3, <2>4, MistakesUnchanged DEF EndsInOrder
<1>5. CASE LoadFails
  <2>1. stage = "load" /\ UNCHANGED <<args, file>> /\ stage' \in {"error", "aborted"}
    BY <1>5 DEF LoadFails, configuration
  <2>2. Positions("help") = {}
    BY <2>1, AcceptedIsRight DEF LineInv
  <2>3. stage' = "error" => Absent
    BY <1>5 DEF LoadFails, Absent
  <2>4. stage' = "aborted" => Malformed
    BY <1>5, <2>1 DEF LoadFails, Malformed, LineInv, FileInv
  <2> QED BY <2>1, <2>2, <2>3, <2>4, MistakesUnchanged DEF EndsInOrder
<1>6. CASE Constructed
  <2>1. stage' = "start"
    BY <1>6 DEF Constructed
  <2>2. (~Misspelt /\ ~Misused /\ Positions("device-config") # {}
         /\ Positions("help") = {})'
    <3>1. ~Misspelt /\ ~Misused /\ Positions("device-config") # {}
          /\ Positions("help") = {}
      BY <1>6, AcceptedIsRight DEF Constructed, LineInv
    <3>2. UNCHANGED <<args, file>>
      BY <1>6 DEF Constructed, options, configuration
    <3> QED BY <3>1, <3>2, MistakesUnchanged DEF Positions
  <2>3. (~Malformed /\ file.kind = "devices")'
    BY <2>1 DEF FileInv, Configured, Complete, Malformed
  <2> QED BY <2>1, <2>2, <2>3 DEF EndsInOrder, Absent
<1>7. CASE SetLevel \/ LoadEntry \/ Loaded \/ InsertDevice \/ CallRun
  BY <1>7 DEF SetLevel, LoadEntry, Loaded, InsertDevice, CallRun, EndsInOrder
<1>8. CASE Running(Next)
  BY <1>8 DEF Running, EndsInOrder
<1>9. CASE UNCHANGED allVars
  <2>1. UNCHANGED <<args, file, stage>>
    BY <1>9 DEF allVars, mainVars, options, configuration
  <2> QED BY <2>1, MistakesUnchanged DEF EndsInOrder
<1> QED
  BY <1>1, <1>2, <1>3, <1>4, <1>5, <1>6, <1>7, <1>8, <1>9
  DEF MainNext, Start

\* However mistakes are combined and in whatever order main() meets them, it
\* aborts, shows the error, shows the help or starts as they call for.
THEOREM EndsAsMistaken == MainSpec => []EndsInOrder
<1>1. MainInit => EndsInOrder
  BY DEF MainInit, EndsInOrder
<1>2. LineInv /\ FileInv /\ EndsInOrder /\ [MainNext]_allVars /\ LineInv' /\ FileInv'
      => EndsInOrder'
  BY EndStep
<1> QED BY <1>1, <1>2, LineAlways, FileAlways, PTL DEF MainSpec
-----------------------------------------------------------------------------
(***************************************************************************)
(* main() and run().                                                       *)
(***************************************************************************)

\* As long as main() is not done, nothing of run() has happened: whatever it
\* reads into timeoutSec is a timeout run() may start with.
RunInv == stage # "running" => Init

\* The timeout of the options is a number that is not negative.
LEMMA TimeoutType == LineInv /\ RunInv /\ Loaded => timeoutSec' \in Nat
<1> SUFFICES ASSUME LineInv, Loaded PROVE timeoutSec' \in Nat
  BY DEF RunInv
<1>1. CASE Given("timeout")
  <2>1. Stored(Len(args)) /\ args \in Seq(Options)
    BY DEF LineInv, Loaded, Accepted
  <2>2. PICK i \in 1 .. Len(args) : args[i].name = "timeout"
    BY <1>1, <2>1 DEF Stored, Names, Given
  <2>3. vm["timeout"] = args[i].n
    BY <2>1, <2>2 DEF Stored
  <2>4. args[i].n \in Nat
    <3>1. args[i] \in Options
      BY <2>1, <2>2, ElementOfSeq
    <3> QED BY <3>1 DEF Options
  <2> QED BY <1>1, <2>3, <2>4 DEF Loaded
<1>2. CASE ~Given("timeout")
  BY <1>2, OptionsAssumption DEF Loaded
<1> QED BY <1>1, <1>2

\* A step of main() leaves run() where it starts; any other is one of run().
LEMMA MainOrRun ==
    LineInv /\ RunInv /\ [MainNext]_allVars => (Init /\ Init') \/ [Next]_vars
<1> SUFFICES ASSUME LineInv, RunInv, [MainNext]_allVars
             PROVE  (Init /\ Init') \/ [Next]_vars
  OBVIOUS
<1>1. CASE CallRun /\ UNCHANGED runVars
  BY <1>1 DEF CallRun, vars
<1>2. CASE Running(Next)
  BY <1>2 DEF Running
<1>3. CASE UNCHANGED allVars
  BY <1>3 DEF allVars, mainVars, configuration, vars
<1>4. CASE Start /\ UNCHANGED runVars /\ ~CallRun
  <2>1. Init
    BY <1>4 DEF RunInv, Start, Parse, StoreOption, StoreFails, Notify, Report,
       SetLevel, LoadFails, LoadEntry, Loaded, InsertDevice, Constructed
  <2>2. timeoutSec' \in Nat
    <3>1. CASE Loaded
      BY <3>1, TimeoutType
    <3>2. CASE ~Loaded
      BY <1>4, <2>1, <3>2 DEF Init, Start, Parse, StoreOption, StoreFails, Notify,
         Report, SetLevel, LoadFails, LoadEntry, InsertDevice, Constructed,
         configuration
    <3> QED BY <3>1, <3>2
  <2> QED BY <1>4, <2>1, <2>2 DEF Init, runVars, waitVars, clientVars, bounds
<1> QED BY <1>1, <1>2, <1>3, <1>4 DEF MainNext

LEMMA RunStep == LineInv /\ RunInv /\ [MainNext]_allVars => RunInv'
<1> SUFFICES ASSUME LineInv, RunInv, [MainNext]_allVars, stage' # "running"
             PROVE  Init'
  BY DEF RunInv
<1>1. stage # "running" /\ Init
  <2>1. CASE stage = "running"
    BY <2>1 DEF MainNext, Start, Running, allVars, mainVars, Parse, StoreOption,
       StoreFails, Notify, Report, SetLevel, LoadFails, LoadEntry, Loaded,
       InsertDevice, Constructed, CallRun
  <2> QED BY <2>1 DEF RunInv
<1>2. CASE UNCHANGED allVars
  BY <1>1, <1>2 DEF allVars, mainVars, configuration, runVars, waitVars,
     clientVars, bounds, Init
<1>3. CASE Start /\ UNCHANGED runVars /\ ~Loaded
  <2>1. timeoutSec' = timeoutSec
    BY <1>3 DEF Start, Parse, StoreOption, StoreFails, Notify, Report, SetLevel,
       LoadFails, LoadEntry, InsertDevice, Constructed, CallRun, configuration
  <2> QED BY <1>1, <1>3, <2>1 DEF Init, runVars, waitVars, clientVars, bounds
<1>4. CASE Loaded /\ UNCHANGED runVars
  <2>1. timeoutSec' \in Nat
    BY <1>4, TimeoutType
  <2> QED BY <1>1, <1>4, <2>1 DEF Init, runVars, waitVars, clientVars, bounds
<1>5. ~Running(Next)
  BY <1>1 DEF Running
<1> QED BY <1>2, <1>3, <1>4, <1>5 DEF MainNext

LEMMA RunAlways == MainSpec => []RunInv
<1>1. MainInit => RunInv
  BY DEF MainInit, RunInv
<1> QED BY <1>1, RunStep, LineAlways, PTL DEF MainSpec

LEMMA InitFirst == MainInit => Init
BY DEF MainInit

\* The parts of the invariant of run() hold from the start of the program.
LEMMA RunTypes == MainSpec => []TypeOK
BY InitFirst, InitTypes, TypesStep, MainOrRun, RunAlways, LineAlways, PTL DEF MainSpec

\* With the timeout of the command line, threads do not pile up.
THEOREM MainBounded == MainSpec => []AttemptsBounded
BY InitFirst, SpacedInit, SpacedStep, SpacedBounds, MainOrRun, RunAlways, LineAlways,
   PTL DEF MainSpec

\* With a timeout of the command line that the pause is not shorter than, no
\* client is dropped under a thread that is connecting it.
THEOREM MainOutlives == MainSpec => []ClientOutlivesAttempts
BY InitFirst, PauseInit, PauseStep, PauseOutlives, MainOrRun, RunAlways, LineAlways,
   PTL DEF MainSpec

\* The connection state that the client announced last is its true one, in
\* the program as a whole.
THEOREM MainAnnounced == MainSpec => []AnnouncedIsTrue
BY InitFirst, TimelyInit, TimelyStep, TimelyAnnounced, MainOrRun, RunAlways, LineAlways,
   PTL DEF MainSpec

\* The program keeps the promise of ServerSession: main() does nothing that is
\* visible to it, and hands run() a state in which it holds.
THEOREM MainSessions == MainSpec => SessionSpec
<1>1. Init /\ Init' => UNCHANGED <<attempt, link, connected>>
  BY DEF Init, attempt, link
<1>2. Init => Session!Init
  BY DEF Init, Session!Init
<1> QED BY <1>1, <1>2, InitFirst, TimelyInit, TimelyStep, SessionStep, MainOrRun,
           RunAlways, LineAlways, PTL
        DEF MainSpec, SessionSpec, attempt, link
=============================================================================
