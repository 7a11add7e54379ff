SPECIFICATION LSpec
CONSTANTS
    mount = mount
    camera = camera
    eqmod = eqmod
    Drivers = {eqmod}
    RestartTriggerLimit = 3
    Devices <- JustMount
    DeviceOrder <- MountOrder
    DriverOf <- MountDriver
    AutoConnect <- JustMount
    WithLinuxDevice <- JustMount
    StaleCallback = "prompt"
    QuickWorld = FALSE
    MaxLag = 2
    PipeIsFifo = TRUE
    FaultKinds = {"unplug", "crash", "hang", "on", "off", "refused", "withdrawn", "link", "server"}
    MaxFaults = 3
INVARIANT
    SeenIsKnown
PROPERTIES
    RoundsGoOn
    RestartsCease
