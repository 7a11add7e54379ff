SPECIFICATION PSpec
CONSTANTS
    mount = mount
    camera = camera
    eqmod = eqmod
    focuser = focuser
    asi = asi
    Drivers = {eqmod, asi}
    RestartTriggerLimit = 3
    Devices <- All
    DeviceOrder <- AllOrder
    DriverOf <- TwoShareADriver
    AutoConnect = {}
    WithLinuxDevice <- All
    StaleCallback = "prompt"
    QuickWorld = FALSE
    PipeIsFifo = TRUE
    FaultKinds = {}
    MaxFaults = 0
PROPERTY
    PacedSpec
