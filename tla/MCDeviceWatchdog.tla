-------------------------- MODULE MCDeviceWatchdog --------------------------
(* Instances of DeviceWatchdog for TLC.                                    *)
EXTENDS DeviceWatchdog, TLC

CONSTANTS mount, camera, eqmod, asi

JustMount == {mount}
MountOrder == <<mount>>
MountDriver == mount :> eqmod

Both == {mount, camera}
BothOrder == <<camera, mount>>
OwnDrivers == mount :> eqmod @@ camera :> asi
SharedDriver == mount :> eqmod @@ camera :> eqmod
=============================================================================
