----------------------------- MODULE MCBacCron -----------------------------
(* Devices and cron runs are interchangeable; symmetry is for safety only. *)
EXTENDS BacCron, TLC

Symmetry == Permutations(Devices) \cup Permutations(Crons)
=============================================================================
