----------------------------- MODULE MCExecutor -----------------------------
(* Two cameras; the second has a script for one of the two targets only.   *)
EXTENDS Executor

CONSTANTS wide, narrow, star, field

MCTargets == {star, field}
MCCameras == <<wide, narrow>>
MCScripts == wide :> MCTargets @@ narrow :> {field}
=============================================================================
