---------------------------- MODULE MCWwanWatch ----------------------------
(* Values of WwanWatch's constants that a configuration cannot spell. *)
EXTENDS WwanWatch

(* One step back and one step forward, the latter past the first threshold. *)
MCClockSteps == {-2, 3}
=============================================================================
