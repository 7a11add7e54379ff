------------------------ MODULE MCWatchdogProcess ------------------------
(* Instances of WatchdogProcess for TLC.                                  *)
EXTENDS WatchdogProcess, TLC

CONSTANTS mount, camera, eqmod

Both == {mount, camera}
BothOrder == <<camera, mount>>
SharedDriver == mount :> eqmod @@ camera :> eqmod
=============================================================================
