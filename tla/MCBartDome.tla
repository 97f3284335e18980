----------------------------- MODULE MCBartDome -----------------------------
(* The BART dome for TLC. *)
EXTENDS BartDome

OnOff == {[weather |-> w, onoff |-> o, night |-> TRUE] : w \in {"good", "bad"}, o \in {"ON", "OFF"}}
Waking == OnOff \cup {[weather |-> "good", onoff |-> "STANDBY", night |-> n] : n \in BOOLEAN}
=============================================================================
