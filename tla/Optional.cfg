SPECIFICATION Spec
CONSTANTS
    mount = mount
    camera = camera
    eqmod = eqmod
    asi = asi
    Drivers = {eqmod}
    RestartTriggerLimit = 3
    Devices <- JustMount
    DeviceOrder <- MountOrder
    DriverOf <- MountDriver
    AutoConnect <- JustMount
    WithLinuxDevice = {}
    StaleCallback = "prompt"
    QuickWorld = TRUE
    PipeIsFifo = TRUE
    FaultKinds = {"on", "off"}
    MaxFaults = 1
PROPERTY OptionalLinuxDevice
