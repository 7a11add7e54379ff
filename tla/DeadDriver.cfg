SPECIFICATION FairSpec
CONSTANTS
    mount = mount
    camera = camera
    eqmod = eqmod
    asi = asi
    Drivers = {eqmod, asi}
    RestartTriggerLimit = 3
    Devices <- Both
    DeviceOrder <- BothOrder
    DriverOf <- OwnDrivers
    AutoConnect <- Both
    WithLinuxDevice <- Both
    StaleCallback = "prompt"
    QuickWorld = TRUE
    PipeIsFifo = TRUE
    FaultKinds = {"crash"}
    MaxFaults = 2
PROPERTY DeadDriverRestarted
