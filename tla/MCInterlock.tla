------------------------------ MODULE MCInterlock ------------------------------
(* One client, one mount, one camera and a roof. *)
EXTENDS Interlock

NotEarly == ~seen.early
=============================================================================
