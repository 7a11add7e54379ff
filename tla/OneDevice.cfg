SPECIFICATION Spec
CONSTANTS
    mount = mount
    camera = camera
    eqmod = eqmod
    asi = asi
    Drivers = {eqmod}
    RestartTriggerLimit = 3
    Devices <- JustMount
    DeviceOrder <- MountOrder
    DriverOf <- MountDriver
    AutoConnect <- JustMount
    WithLinuxDevice <- JustMount
    StaleCallback = "late"
    QuickWorld = FALSE
    PipeIsFifo = TRUE
    FaultKinds = {"unplug", "crash", "hang", "on", "off", "refused", "withdrawn", "link", "server"}
    MaxFaults = 2
INVARIANTS
    TypeOK
    RequestedDeviceIsValid
    SettledSwitchIsTrue
PROPERTIES
    SessionEndsByReset
    SessionSpec
