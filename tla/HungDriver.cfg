SPECIFICATION FairSpec
CONSTANTS
    mount = mount
    camera = camera
    eqmod = eqmod
    asi = asi
    Drivers = {eqmod}
    RestartTriggerLimit = 3
    Devices <- JustMount
    DeviceOrder <- MountOrder
    DriverOf <- MountDriver
    AutoConnect <- JustMount
    WithLinuxDevice <- JustMount
    StaleCallback = "prompt"
    QuickWorld = TRUE
    PipeIsFifo = TRUE
    FaultKinds = {"hang"}
    MaxFaults = 1
PROPERTY HungDriverRestarted
