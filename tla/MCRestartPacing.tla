-------------------------- MODULE MCRestartPacing --------------------------
(* Instances of RestartPacing for TLC.                                     *)
EXTENDS RestartPacing, TLC

CONSTANTS mount, camera, focuser, eqmod, asi

All == {mount, camera, focuser}
AllOrder == <<camera, focuser, mount>>
TwoShareADriver == mount :> eqmod @@ camera :> asi @@ focuser :> asi
=============================================================================
