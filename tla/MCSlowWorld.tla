---------------------------- MODULE MCSlowWorld ----------------------------
(* Instances of SlowWorld for TLC.                                         *)
EXTENDS SlowWorld, TLC

CONSTANTS mount, camera, eqmod

JustMount == {mount}
MountOrder == <<mount>>
MountDriver == mount :> eqmod
Both == {mount, camera}
BothOrder == <<camera, mount>>
SharedDriver == mount :> eqmod @@ camera :> eqmod
=============================================================================
