---------------------------- MODULE MCCloudWatch ----------------------------
(* Values of CloudWatch's constants that a configuration cannot spell. *)
EXTENDS CloudWatch

(* One step back and one forward, the latter past the limit. *)
MCClockSteps == {-2, 3}
=============================================================================
