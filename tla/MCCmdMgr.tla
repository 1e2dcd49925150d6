------------------------------ MODULE MCCmdMgr ------------------------------
(* Slots are interchangeable; symmetry is for safety only. *)
EXTENDS CmdMgr, TLC

Symmetry == Permutations(Slots)
=============================================================================
