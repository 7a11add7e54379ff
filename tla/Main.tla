-------------------------------- MODULE Main --------------------------------
(***************************************************************************)
(* main(): the command line, the verbosity option, the configuration file  *)
(* and the constructor of the watchdog, with the exceptions each of them   *)
(* throws and those main() catches; then run(), of which Connecting has    *)
(* what depends on the options.  The option parser and the JSON reader are *)
(* libraries: they are modelled by what they throw and in which order.     *)
(***************************************************************************)
EXTENDS Connecting, FiniteSetsExt

CONSTANTS
    CommandLines,   \* the command lines: sequences of options
    Files,          \* the contents of the configuration file
    MaxUnsigned,    \* the largest value of unsigned
    DefaultTimeout  \* of the option timeout

\* An option: its name, the form of its argument (none, letters or a number
\* for verbose, a number or a path for others, junk, or missing), a number.
Options == [name : STRING, form : STRING, n : Nat]

ASSUME OptionsAssumption ==
    /\ MaxUnsigned \in Nat \ {0} /\ DefaultTimeout \in Nat
    /\ CommandLines \subseteq Seq(Options)

\* A device in the file: complete, or with a key missing or wrong.
Entries == [name : STRING, driver : STRING, complete : BOOLEAN]

ASSUME FilesAssumption ==
    Files \subseteq [kind : {"unreadable", "noDevices", "devices"},
                    entries : Seq(Entries)]

VARIABLES
    stage,    \* where main() is, or how it ended
    args,     \* the command line
    file,     \* the configuration file
    next,     \* the option, the entry or the device that is next
    vm,       \* the variables_map: the options stored so far
    errorMsg, \* a caught exception's text is there
    sev,      \* the severity from which on messages are logged
    devicesToMonitor,  \* what load() returns
    deviceConnections  \* what the constructor makes of it

options == <<args, vm, errorMsg, sev>>
configuration == <<file, devicesToMonitor, deviceConnections, timeoutSec>>
mainVars == <<stage, next, options, configuration>>

Ends == {"help", "error", "aborted"}

\* severity_level: trace, debug, info, warning.
trace == 0
warning == 3

Given(name) == name \in DOMAIN vm

MainTypeOK ==
    /\ stage \in Ends \cup {"parse", "store", "report", "level",
                            "load", "construct", "start", "running"}
    /\ next \in Nat
    /\ \A name \in DOMAIN vm : vm[name] \in Int
    /\ Given("verbose") => vm["verbose"] \in 0 .. MaxUnsigned
    /\ errorMsg \in BOOLEAN
    /\ sev \in trace .. warning
    /\ TypeOK

MainInit ==
    /\ stage = "parse" /\ next = 1
    /\ args \in CommandLines
    /\ file \in Files
    /\ vm = [name \in {} |-> 0]
    /\ errorMsg = FALSE
    /\ sev = warning
    /\ devicesToMonitor = <<>>
    /\ deviceConnections = [name \in {} |-> 0]
    /\ timeoutSec = DefaultTimeout
    /\ Init

Put(map, key, value) ==
    [k \in DOMAIN map \cup {key} |-> IF k = key THEN value ELSE map[k]]
-----------------------------------------------------------------------------
(***************************************************************************)
(* OptionLevelT and its validate().                                        *)
(***************************************************************************)

\* Mutant: the letters alone are counted.
LettersOnly(n, option) ==
    IF option.form = "number" THEN option.n
    ELSE IF option.form = "letters" THEN (n + option.n) % (MaxUnsigned + 1)
    ELSE (n + 1) % (MaxUnsigned + 1)

\* -v counts one, -vv (the argument is v's letters less one) as many as there
\* are letters, -v 2 sets the level; unsigned arithmetic wraps around.
Level(n, option) ==
    IF option.form = "number" THEN option.n
    ELSE IF option.form = "letters" THEN (n + option.n + 1) % (MaxUnsigned + 1)
    ELSE (n + 1) % (MaxUnsigned + 1)

\* Arguments that are neither letters nor a number, or a number that
\* lexical_cast cannot hold: neither exception is one that main() catches.
LevelThrows(option) ==
    \/ option.form = "junk"
    \/ option.form = "number" /\ option.n > MaxUnsigned
-----------------------------------------------------------------------------
(***************************************************************************)
(* The command line.                                                       *)
(***************************************************************************)
UnknownOption(option) == option.name = "unknown"
MissingArgument(option) == option.form = "missing"

\* Options that run() of the parser stumbles over.
Stumbles(i) == UnknownOption(args[i]) \/ MissingArgument(args[i])

\* command_line_parser(...).run() splits the whole line before anything is
\* stored, and throws at the first mistake.  main() does not catch what an
\* unknown option throws.
Parse ==
    /\ stage = "parse"
    /\ \/ /\ \A i \in 1 .. Len(args) : ~Stumbles(i)
          /\ stage' = "store" /\ UNCHANGED errorMsg
       \/ \E i \in 1 .. Len(args) :
            /\ Stumbles(i) /\ \A j \in 1 .. i - 1 : ~Stumbles(j)
            /\ IF UnknownOption(args[i])
               THEN stage' = "aborted" /\ UNCHANGED errorMsg
               ELSE stage' = "report" /\ errorMsg' = TRUE
    /\ UNCHANGED <<next, args, vm, sev, configuration>>

Option == args[next]

\* Every option but verbose may occur once: multiple_occurrences.
Repeated(option) == option.name # "verbose" /\ Given(option.name)

StoreOption ==
    /\ stage = "store" /\ next <= Len(args)
    /\ ~Repeated(Option)
    /\ IF Option.name = "verbose"
       THEN /\ ~LevelThrows(Option)
            /\ vm' = Put(vm, "verbose",
                         Level(IF Given("verbose") THEN vm["verbose"] ELSE 0,
                               Option))
       ELSE /\ Option.form # "junk"
            /\ vm' = Put(vm, Option.name, Option.n)
    /\ next' = next + 1
    /\ UNCHANGED <<stage, args, errorMsg, sev, configuration>>

\* store() throws: what was stored before stays in vm.
StoreFails ==
    /\ stage = "store" /\ next <= Len(args)
    /\ \/ /\ \/ Repeated(Option)
             \/ Option.name = "verbose" /\ LevelThrows(Option)
          /\ stage' = "aborted" /\ UNCHANGED errorMsg
       \/ /\ ~Repeated(Option)
          /\ Option.name # "verbose" /\ Option.form = "junk"
          /\ stage' = "report" /\ errorMsg' = TRUE
    /\ UNCHANGED <<next, args, vm, sev, configuration>>

\* notify(): the one option that is required.
Notify ==
    /\ stage = "store" /\ next > Len(args)
    /\ errorMsg' = ~Given("device-config")
    /\ stage' = "report"
    /\ UNCHANGED <<next, args, vm, sev, configuration>>

\* Mutant: an error is shown before the help.
ErrorFirst ==
    /\ stage = "report"
    /\ stage' = IF errorMsg THEN "error"
                ELSE IF Given("help") THEN "help" ELSE "level"
    /\ UNCHANGED <<next, options, configuration>>

\* Help goes before an error; both end the program.
Report ==
    /\ stage = "report"
    /\ stage' = IF Given("help") THEN "help"
                ELSE IF errorMsg THEN "error" ELSE "level"
    /\ UNCHANGED <<next, options, configuration>>

\* Mutant: the level is not limited.
SetLevelUnlimited ==
    /\ stage = "level"
    /\ sev' = IF ~Given("verbose") THEN warning ELSE warning - vm["verbose"]
    /\ stage' = "load" /\ next' = 1
    /\ UNCHANGED <<args, vm, errorMsg, configuration>>

\* severity_level has nothing below trace.
SetLevel ==
    /\ stage = "level"
    /\ sev' = IF ~Given("verbose") THEN warning
              ELSE IF vm["verbose"] <= 3 THEN warning - vm["verbose"] ELSE trace
    /\ stage' = "load" /\ next' = 1
    /\ UNCHANGED <<args, vm, errorMsg, configuration>>
-----------------------------------------------------------------------------
(***************************************************************************)
(* device_data_persistance::load and the constructor.                      *)
(***************************************************************************)

\* read_json throws, which is caught; so is nothing else that load throws: no
\* indiDevices, a key missing, a flag that is no truth value.
LoadFails ==
    /\ stage = "load"
    /\ \/ /\ file.kind = "unreadable"
          /\ stage' = "error" /\ errorMsg' = TRUE
       \/ /\ \/ file.kind = "noDevices"
             \/ /\ file.kind = "devices" /\ next <= Len(file.entries)
                /\ ~file.entries[next].complete
          /\ stage' = "aborted" /\ UNCHANGED errorMsg
    /\ UNCHANGED <<next, args, vm, sev, configuration>>

\* The configured fields of a DeviceDataT; it has no base device yet.
DeviceData(entry) ==
    [indiDeviceName |-> entry.name, indiDeviceDriverName |-> entry.driver]

LoadEntry ==
    /\ stage = "load" /\ file.kind = "devices"
    /\ next <= Len(file.entries) /\ file.entries[next].complete
    /\ devicesToMonitor' = Append(devicesToMonitor, DeviceData(file.entries[next]))
    /\ next' = next + 1
    /\ UNCHANGED <<stage, options, file, deviceConnections, timeoutSec>>

\* The remaining options are read, and the watchdog is constructed.
Loaded ==
    /\ stage = "load" /\ file.kind = "devices" /\ next > Len(file.entries)
    /\ timeoutSec' = IF Given("timeout") THEN vm["timeout"] ELSE DefaultTimeout
    /\ stage' = "construct" /\ next' = 1
    /\ UNCHANGED <<options, file, devicesToMonitor, deviceConnections>>

\* Mutant: a later device takes the place of the first.
Assigned(map, device) == Put(map, device.indiDeviceName, device)

\* std::map::insert leaves an entry of the same name alone.
Inserted(map, device) ==
    IF device.indiDeviceName \in DOMAIN map THEN map
    ELSE Put(map, device.indiDeviceName, device)

InsertDevice ==
    /\ stage = "construct" /\ next <= Len(devicesToMonitor)
    /\ deviceConnections' = Inserted(deviceConnections, devicesToMonitor[next])
    /\ next' = next + 1
    /\ UNCHANGED <<stage, options, file, devicesToMonitor, timeoutSec>>

Constructed ==
    /\ stage = "construct" /\ next > Len(devicesToMonitor)
    /\ stage' = "start"
    /\ UNCHANGED <<next, options, configuration>>

\* run() does not return.  What main() holds besides is of no more use: it is
\* dropped, so that the states of run() do not depend on it.
CallRun ==
    /\ stage = "start"
    /\ stage' = "running" /\ next' = 1
    /\ args' = <<>> /\ vm' = [name \in {} |-> 0] /\ sev' = warning
    /\ devicesToMonitor' = <<>>
    /\ deviceConnections' = [name \in {} |-> 0]
    /\ file' = [kind |-> "devices", entries |-> <<>>]
    /\ UNCHANGED <<errorMsg, timeoutSec>>

Start == \/ Parse \/ StoreOption \/ StoreFails \/ Notify \/ Report \/ SetLevel
         \/ LoadFails \/ LoadEntry \/ Loaded \/ InsertDevice \/ Constructed
         \/ CallRun

\* A step of run().
Running(A) ==
    /\ stage = "running" /\ A
    /\ UNCHANGED <<stage, next, options, file, devicesToMonitor,
                   deviceConnections>>

MainNext == (Start /\ UNCHANGED runVars) \/ Running(Next)

allVars == <<mainVars, runVars>>
MainSpec == MainInit /\ [][MainNext]_allVars

\* main() goes on, and run() as in Connecting.
MainFairSpec ==
    /\ MainSpec
    /\ WF_allVars(Start /\ UNCHANGED runVars)
    /\ WF_allVars(Running(Run)) /\ WF_allVars(Running(AttemptEnds))
    /\ WF_allVars(Running(Tick))
-----------------------------------------------------------------------------
(***************************************************************************)
(* Properties.                                                             *)
(***************************************************************************)
Positions(name) == {i \in 1 .. Len(args) : args[i].name = name}

\* How often the level is raised by an option: with no argument, or letters.
Raises(i) == IF args[i].form = "letters" THEN args[i].n + 1 ELSE 1

\* The level is the last number given, or none, raised by what comes later.
LevelGiven ==
    LET verbose == Positions("verbose")
        numbers == {i \in verbose : args[i].form = "number"}
        base == IF numbers = {} THEN 0 ELSE args[Max(numbers)].n
    IN  base + MapThenSumSet(Raises,
                   {i \in verbose : \A j \in numbers : j < i})

\* -v, -vv and -v 2 in any mixture and order give the level they say, as far
\* as unsigned can hold it.
VerbosityAsGiven ==
    stage = "start" /\ LevelGiven <= MaxUnsigned =>
        sev = warning - Min({LevelGiven, 3})

\* The watchdog starts with all of the configuration or not at all: each
\* configured name is monitored, by the first entry that has it, with the
\* timeout that was given.
StartsAsConfigured ==
    stage = "start" =>
        /\ file.kind = "devices"
        /\ \A i \in 1 .. Len(file.entries) : file.entries[i].complete
        /\ DOMAIN deviceConnections =
             {file.entries[i].name : i \in 1 .. Len(file.entries)}
        /\ \A i \in 1 .. Len(file.entries) :
             (\A j \in 1 .. i - 1 : file.entries[j].name # file.entries[i].name)
             => deviceConnections[file.entries[i].name] = DeviceData(file.entries[i])
        /\ IF Positions("timeout") = {} THEN timeoutSec = DefaultTimeout
           ELSE \E i \in Positions("timeout") : timeoutSec = args[i].n

\* Mistakes that main() catches: a missing argument, a number that is none;
\* without help, also the required option missing and an unreadable file.
Misspelt ==
    \/ \E i \in 1 .. Len(args) : MissingArgument(args[i])
    \/ \E i \in 1 .. Len(args) \ Positions("verbose") : args[i].form = "junk"
Absent == Positions("device-config") = {} \/ file.kind = "unreadable"

\* Mistakes that it does not: an unknown or a repeated option, an argument of
\* verbose that is no level; and a configuration without devices or with
\* incomplete ones.
Misused ==
    \/ Positions("unknown") # {}
    \/ \E i, j \in 1 .. Len(args) :
         i # j /\ args[i].name = args[j].name /\ args[i].name # "verbose"
    \/ \E i \in Positions("verbose") : LevelThrows(args[i])
Malformed ==
    \/ file.kind = "noDevices"
    \/ \E i \in 1 .. Len(file.entries) : ~file.entries[i].complete

\* In whatever order mistakes are met: the program aborts on one of those it
\* does not catch only, asking for help gives the help unless the command line
\* is wrong, and the watchdog starts when there is no mistake at all.
EndsInOrder ==
    LET help == Positions("help") # {}
    IN  /\ stage = "aborted" => Misused \/ (Malformed /\ ~help)
        /\ stage = "error" => Misspelt \/ (Absent /\ ~help)
        /\ stage = "help" => help
        /\ stage = "start" =>
             ~Misspelt /\ ~Misused /\ ~Absent /\ ~Malformed /\ ~help

\* Once run() is called, a session opens again and again, whatever timeout was
\* given and however the clock is set.
RunOpensSession == [](stage = "running" => <>connected)
=============================================================================
