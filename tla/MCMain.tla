------------------------------- MODULE MCMain -------------------------------
(* Instances of Main for TLC.                                              *)
EXTENDS Main

\* The system clock is set back, or ahead.
SomeJumps == {-2, 4}

None(name) == [name |-> name, form |-> "none", n |-> 0]
Number(name, n) == [name |-> name, form |-> "number", n |-> n]

Path == [name |-> "device-config", form |-> "path", n |-> 0]

\* Timeouts that end within the wait, about with it, and after two of them.
SomeOptions ==
    {None("help"), None("unknown"), None("verbose"),
     Path,
     [name |-> "device-config", form |-> "missing", n |-> 0],
     Number("timeout", 4), Number("timeout", 5), Number("timeout", 12),
     [name |-> "timeout", form |-> "junk", n |-> 0],
     Number("verbose", 6), Number("verbose", MaxUnsigned + 1),
     [name |-> "verbose", form |-> "letters", n |-> 1],
     [name |-> "verbose", form |-> "junk", n |-> 0]}

\* Up to three options in any order, and the path with up to three levels.
SomeCommandLines ==
    LET levels == {o \in SomeOptions : o.name = "verbose"}
    IN  UNION {[1 .. n -> SomeOptions] : n \in 0 .. 3}
        \cup {<<Path>> \o ls : ls \in [1 .. 3 -> levels]}

SomeEntries ==
    {[name |-> "mount", driver |-> "eqmod", complete |-> TRUE],
     [name |-> "mount", driver |-> "ioptron", complete |-> TRUE],
     [name |-> "camera", driver |-> "asi", complete |-> TRUE],
     [name |-> "camera", driver |-> "asi", complete |-> FALSE]}
SomeFiles ==
    {[kind |-> kind, entries |-> <<>>] : kind \in {"unreadable", "noDevices"}}
    \cup {[kind |-> "devices", entries |-> es] :
            es \in UNION {[1 .. n -> SomeEntries] : n \in 0 .. 2}}
=============================================================================
