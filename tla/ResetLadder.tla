---------------------------- MODULE ResetLadder ----------------------------
(***************************************************************************)
(* What a connectivity watchdog of this feed promises about its remedies:  *)
(* a ladder of Rungs soft remedies, then one hard remedy.  wwan_watch      *)
(* resets the modem three times and then re-powers it; cloud_watch         *)
(* restarts the module four times and then reboots the device.  Both       *)
(* modules implement this specification.                                   *)
(*                                                                         *)
(* The watchdog's sight of connectivity is part of the state: it cannot    *)
(* have connectivity in sight without being at the bottom of the ladder,   *)
(* and only that, the hard remedy and its own death take it there.         *)
(***************************************************************************)
EXTENDS Naturals

CONSTANT Rungs          \* soft remedies before the hard one

VARIABLES rung,         \* soft remedies since the ladder was last left
          remedy,       \* the remedy in progress, or the watchdog's death
          sight         \* the watchdog has just seen connectivity

vars == <<rung, remedy, sight>>

Remedies == {"idle", "soft", "hard", "dead"}

TypeOK == rung \in 0..Rungs /\ remedy \in Remedies /\ sight \in BOOLEAN

Init == rung = 0 /\ remedy = "idle" /\ sight = FALSE

(* Connectivity is seen: the next loss starts at the bottom again. *)
See == /\ remedy = "idle" /\ sight' = TRUE
       /\ rung' = 0 /\ UNCHANGED remedy

Lose == sight /\ sight' = FALSE /\ UNCHANGED <<rung, remedy>>

(* A soft remedy is counted. *)
Soft == /\ remedy = "idle" /\ remedy' = "soft" /\ sight' = FALSE
        /\ rung < Rungs /\ rung' = rung + 1

(* The hard remedy is only reached from the top of the ladder. *)
Hard == /\ remedy = "idle" /\ remedy' = "hard" /\ sight' = FALSE
        /\ rung = Rungs /\ rung' = 0

Finish == /\ remedy \in {"soft", "hard"} /\ remedy' = "idle"
          /\ UNCHANGED <<rung, sight>>

(* The watchdog process dies, and its count with it ... *)
Die == /\ remedy # "dead" /\ remedy' = "dead"
       /\ rung' = 0 /\ sight' = FALSE

(* ... and a fresh one starts. *)
Start == remedy = "dead" /\ remedy' = "idle" /\ UNCHANGED <<rung, sight>>

Next == See \/ Lose \/ Soft \/ Hard \/ Finish \/ Die \/ Start

Spec == Init /\ [][Next]_vars
=============================================================================
