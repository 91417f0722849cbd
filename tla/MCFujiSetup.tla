---------------------------- MODULE MCFujiSetup ----------------------------
(* Values of the versions for model checking: absent, the last version      *)
(* without the newer application and one with it; and the versions of the   *)
(* gallery below and at the 5 that the client asks for.                     *)
EXTENDS FujiSetup

MCRemoteVersions == {-1, 131078, 131084}
MCViewVersions == {-1, 4, 5}

=============================================================================
