---------------------------- MODULE MCTelescope ----------------------------
(* The mount for TLC. *)
EXTENDS Telescope

MCTargets == {"star", "low"}
MCLow     == {"low"}
=============================================================================
