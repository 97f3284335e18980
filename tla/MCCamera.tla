------------------------------ MODULE MCCamera ------------------------------
(* Two clients of one camera. *)
EXTENDS Camera, TLC

ClientSymmetry == Permutations(Clients)
=============================================================================
