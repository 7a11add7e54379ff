SPECIFICATION PSpec
CONSTANTS
    mount = mount
    camera = camera
    eqmod = eqmod
    Drivers = {eqmod}
    RestartTriggerLimit = 3
    Devices <- Both
    DeviceOrder <- BothOrder
    DriverOf <- SharedDriver
    AutoConnect <- Both
    WithLinuxDevice <- Both
    StaleCallback = "prompt"
    QuickWorld = TRUE
    PipeIsFifo = TRUE
    FaultKinds = {"unplug", "crash", "refused", "off", "killed", "withdrawn"}
    MaxFaults = 2
INVARIANT
    SeenIsKnown
PROPERTIES
    LostByFaultsOnly
    ThrottleSpec
    PluggedIsConnected
    UnpluggedIsDisconnected
