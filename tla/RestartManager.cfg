SPECIFICATION Spec
CONSTANTS
    Drivers = {eqmod, asi}
    RestartTriggerLimit = 3
    MaxPipe = 3
INVARIANTS
    TypeOK
    NoDriverLost
PROPERTY ThrottleSpec
