------------------------- MODULE CloudWatch_proofs -------------------------
(***************************************************************************)
(* Safety of cloud_watch for every value of the constants: type            *)
(* correctness, the refinement of ResetLadder, that a reboot follows a     *)
(* ping that has just failed, and that every restart uses up its credit.   *)
(***************************************************************************)
EXTENDS CloudWatch, TLAPS

(* Until a reboot is ordered the count is at most one more than the limit, *)
(* and at most the limit once a pass has got past the verdict.             *)
CountInv ==
  ~rebooting =>
    /\ resetTimes <= MaxResets + 1
    /\ pc \in {"module", "off", "on"} => resetTimes <= MaxResets

IInv == TypeOK /\ CountInv

USE DEF PCs

(* The Boolean part of TypeOK, which the provers take apart on their own. *)
BoolOK ==
  /\ exported \in BOOLEAN /\ pingable \in BOOLEAN
  /\ power \in BOOLEAN /\ rebooting \in BOOLEAN

(* TypeOK implies its Boolean part. *)
LEMMA BoolPart == TypeOK => BoolOK
  BY DEF TypeOK, BoolOK

(* The saturation point is above the limit by more than one credit. *)
LEMMA MaxAgeRoom == MaxAge \in Nat /\ MaxAge > Limit + Credit
<1>1. MaxResets * Credit \in Nat /\ MaxResets \in Nat /\ Limit \in Nat /\ Credit \in Nat \ {0}
  BY TimeAssumption
<1>2. (MaxResets + 2) * Credit = MaxResets * Credit + 2 * Credit
  BY <1>1
<1> HIDE DEF MaxAge
<1>3. DEFINE product == MaxResets * Credit
<1>4. MaxAge = Limit + (product + 2 * Credit) + 1
  BY <1>2 DEF MaxAge
<1> HIDE DEF product
<1> QED BY <1>1, <1>4 DEF product

(* A saturated age is an age. *)
LEMMA CappedType ==
  ASSUME NEW a \in Int
  PROVE  Capped(a) \in Int /\ Capped(a) <= MaxAge
  BY MaxAgeRoom DEF Capped

(* An age with the credit of a restart is an age. *)
LEMMA CreditedType ==
  ASSUME NEW a \in Int
  PROVE  Credited(a) \in Int /\ Credited(a) <= MaxAge
<1>1. a + ResetTime \in Int /\ Credit \in Nat
  BY TimeAssumption
<1>2. Capped(a + ResetTime) \in Int /\ Capped(a + ResetTime) <= MaxAge
  BY <1>1, CappedType
<1> QED BY <1>1, <1>2, MaxAgeRoom DEF Credited

(* So is the time unpaid for, below its own saturation point. *)
LEMMA OwedType ==
  ASSUME unpaid \in Int, NEW d \in Int
  PROVE  Owed(d) \in Int /\ Owed(d) <= MaxAge - Limit
<1>1. MaxAge - Limit \in Int
  BY MaxAgeRoom, TimeAssumption
<1> QED BY <1>1 DEF Owed

(* The daemon starts well typed. *)
LEMMA InitInv == Init => IInv
<1> SUFFICES ASSUME Init PROVE IInv
  OBVIOUS
<1>1. BoolOK
  BY Zenon DEF Init, BoolOK
<1>2. CountInv
  BY TimeAssumption DEF Init, CountInv
<1> QED BY <1>1, <1>2, MaxAgeRoom, TimeAssumption, InputAssumption
        DEF Init, IInv, TypeOK, BoolOK

(* A pass keeps types and count. *)
LEMMA PassStep ==
  ASSUME IInv, Pass
  PROVE  IInv'
<1> USE TimeAssumption, InputAssumption DEF IInv, TypeOK, CountInv
<1>1. CASE Query
  BY <1>1 DEF Query, ExportGpio, ages, worldVars, bounds, pass
<1>2. CASE ReadStatus
  BY <1>2, MaxAgeRoom DEF ReadStatus, OfflineAge, ages, worldVars, bounds, pass
<1>3. CASE OnlineCheck
  BY <1>3, MaxAgeRoom DEF OnlineCheck, PingOk, PingFailed, ages, worldVars, bounds, pass
<1>4. CASE Verdict
  <2>1. BoolOK'
    BY <1>4, BoolPart, Zenon DEF Verdict, IInv, BoolOK, worldVars
  <2>2. CountInv'
    BY <1>4 DEF Verdict, Exhausted
  <2> QED BY <1>4, <2>1, <2>2, MaxAgeRoom DEF Verdict, BoolOK, worldVars, bounds, pass
<1>5. CASE ModuleCheck
  BY <1>5, MaxAgeRoom DEF ModuleCheck, ages, worldVars, bounds, pass
<1>6. CASE PowerOff
  BY <1>6 DEF PowerOff, ages, worldVars, bounds, pass
<1>7. CASE PowerOn
  <2>1. cloudAge' \in Int /\ cloudAge' <= MaxAge /\ pingAge' \in Int /\ pingAge' <= MaxAge
    BY <1>7, CreditedType DEF PowerOn
  <2> QED BY <1>7, <2>1, OwedType DEF PowerOn, worldVars, bounds, pass
<1>8. CASE Sleep
  <2>1. cloudAge' \in Int /\ cloudAge' <= MaxAge /\ pingAge' \in Int /\ pingAge' <= MaxAge
    BY <1>8, CappedType DEF Sleep, Elapse
  <2> QED BY <1>8, <2>1, OwedType DEF Sleep, Elapse, worldVars, bounds, pass
<1>9. CASE Respawn
  <2>1. BoolOK'
    BY <1>9, BoolPart, Zenon DEF Respawn, Fresh, IInv, BoolOK, worldVars
  <2>2. CountInv'
    BY <1>9 DEF Respawn, Fresh
  <2> QED BY <1>9, <2>1, <2>2, MaxAgeRoom DEF Respawn, Fresh, BoolOK, worldVars, bounds
<1> QED BY <1>1, <1>2, <1>3, <1>4, <1>5, <1>6, <1>7, <1>8, <1>9 DEF Pass

(* So do the system, a signal, the world and the clock. *)
LEMMA OtherStep ==
  ASSUME IInv, Reboot \/ Kill \/ WorldChange \/ ClockStep \/ UNCHANGED vars
  PROVE  IInv'
<1> USE TimeAssumption, InputAssumption DEF IInv, TypeOK, CountInv
<1>1. CASE Reboot
  <2>1. BoolOK'
    BY <1>1, BoolPart, Zenon DEF Reboot, Fresh, IInv, BoolOK, worldVars
  <2>2. CountInv'
    BY <1>1 DEF Reboot, Fresh
  <2> QED BY <1>1, <2>1, <2>2, MaxAgeRoom DEF Reboot, Fresh, BoolOK, worldVars, bounds
<1>2. CASE Kill
  BY <1>2 DEF Kill, ages, worldVars, pass
<1>3. CASE WorldChange
  BY <1>3 DEF WorldChange, ages, bounds, pass
<1>4. CASE ClockStep
  <2>1. cloudAge' \in Int /\ cloudAge' <= MaxAge /\ pingAge' \in Int /\ pingAge' <= MaxAge
    BY <1>4, CappedType DEF ClockStep
  <2>2. unpaid' \in Int /\ unpaid' <= MaxAge - Limit
    BY <1>4, OwedType DEF ClockStep
  <2> QED BY <1>4, <2>1, <2>2 DEF ClockStep, worldVars, pass
<1>5. CASE UNCHANGED vars
  BY <1>5 DEF vars, ages, worldVars, bounds, pass
<1> QED BY <1>1, <1>2, <1>3, <1>4, <1>5

(* The invariant holds for all times, limits and faults. *)
THEOREM Invariance == Spec => []IInv
<1>1. Init => IInv
  BY InitInv
<1>2. IInv /\ [Next]_vars => IInv'
  BY PassStep, OtherStep DEF Next
<1> QED BY <1>1, <1>2, PTL DEF Spec

(* Every variable of cloud_watch keeps its type. *)
THEOREM TypeCorrect == Spec => []TypeOK
<1>1. IInv => TypeOK
  BY DEF IInv
<1> QED BY <1>1, Invariance, PTL

-----------------------------------------------------------------------------
(* Connectivity in sight, as the refinement mapping has it. *)
Sighted == /\ ~rebooting /\ pc = "verdict"
           /\ pinged = "ok" \/ (pinged = "nohost" /\ cloudAge = 0)

(* What a pass has in sight has cleared the count. *)
SightInv == Sighted => resetTimes = 0

(* A check that has not been made in this pass has no result.               *)
CheckInv == pc \in {"read", "check"} => pinged = "none"

(* A step of the loop is a step of the ladder or leaves it alone. *)
LEMMA PassLadder ==
  ASSUME IInv, SightInv, CheckInv, Pass
  PROVE  [Ladder!Next]_(Ladder!vars) /\ SightInv' /\ CheckInv'
<1> USE TimeAssumption
    DEF IInv, TypeOK, CountInv, SightInv, CheckInv, Sighted, Ladder!vars, Ladder!Next
<1>1. CASE Query
  BY <1>1 DEF Query
<1>2. CASE ReadStatus
  BY <1>2 DEF ReadStatus
<1>3. CASE OnlineCheck
  BY <1>3 DEF OnlineCheck, PingOk, PingFailed, Ladder!See
<1>4. CASE Verdict
  BY <1>4 DEF Verdict, Exhausted, Ladder!Hard, Ladder!Lose
<1>5. CASE ModuleCheck
  BY <1>5 DEF ModuleCheck, Ladder!Soft
<1>6. CASE PowerOff
  BY <1>6 DEF PowerOff
<1>7. CASE PowerOn
  BY <1>7 DEF PowerOn, Ladder!Finish
<1>8. CASE Sleep
  BY <1>8 DEF Sleep
<1>9. CASE Respawn
  BY <1>9 DEF Respawn, Fresh, Ladder!Start
<1> QED BY <1>1, <1>2, <1>3, <1>4, <1>5, <1>6, <1>7, <1>8, <1>9 DEF Pass

(* So is every other step. *)
LEMMA OtherLadder ==
  ASSUME IInv, SightInv, CheckInv,
         Reboot \/ Kill \/ WorldChange \/ ClockStep \/ UNCHANGED vars
  PROVE  [Ladder!Next]_(Ladder!vars) /\ SightInv' /\ CheckInv'
<1> USE TimeAssumption
    DEF IInv, TypeOK, CountInv, SightInv, CheckInv, Sighted, Ladder!vars, Ladder!Next, pass,
        ages
<1>1. CASE Reboot
  BY <1>1 DEF Reboot, Fresh, Ladder!Finish
<1>2. CASE Kill
  BY <1>2 DEF Kill, Ladder!Die
<1>3. CASE WorldChange
  BY <1>3 DEF WorldChange
<1>4. CASE ClockStep
  BY <1>4 DEF ClockStep
<1>5. CASE UNCHANGED vars
  BY <1>5 DEF vars
<1> QED BY <1>1, <1>2, <1>3, <1>4, <1>5

(* cloud_watch implements the ladder: the device is rebooted after exactly  *)
(* MaxResets + 1 restarts of the module between which no online check       *)
(* succeeded and the daemon did not die, whatever the times, the world and  *)
(* the clock.  A check that succeeds must take the count to the bottom, and *)
(* nothing else may but the reboot and a death.                             *)
THEOREM ImplementsLadder == Spec => LadderSpec
<1>1. Init => Ladder!Init /\ SightInv /\ CheckInv
  BY DEF Init, Ladder!Init, SightInv, Sighted, CheckInv
<1>2. IInv /\ SightInv /\ CheckInv /\ [Next]_vars
        => [Ladder!Next]_(Ladder!vars) /\ SightInv' /\ CheckInv'
  BY PassLadder, OtherLadder DEF Next
<1> QED BY <1>1, <1>2, Invariance, PTL DEF Spec, LadderSpec, Ladder!Spec

-----------------------------------------------------------------------------
(* The reboot *)

(* What the code's 180, 120, 60, 12 and 10 seconds satisfy; a host for the  *)
(* online check is configured, and the clock is not stepped.                *)
Proportions ==
  /\ HostChoices = {TRUE} /\ MaxSteps = 0
  /\ Credit <= Limit /\ PingAfter <= Limit
  /\ PingAfter + Credit <= Limit + ResetTime + Poll

(* A restart only happens when ping_last is older than the limit, because   *)
(* it is never the younger of the two stamps.  Afterwards it is still old   *)
(* enough for the next pass that gets that far to ping again.               *)
PingInv ==
  /\ host = TRUE
  /\ ~rebooting /\ pc # "dead" =>
       /\ 0 <= pingAge /\ cloudAge <= pingAge
       /\ pc \in {"off", "on"} => pingAge > Limit
       /\ resetTimes > MaxResets =>
            /\ pc = "sleep" => pingAge + Poll > PingAfter
            /\ pc \in {"query", "read"} => pingAge > PingAfter
            /\ pc = "verdict" => seen = "empty" \/ pinged = "failed"

(* The loop keeps it. *)
LEMMA PassPing ==
  ASSUME Proportions, IInv, PingInv, Pass
  PROVE  PingInv'
<1> USE TimeAssumption, MaxAgeRoom
    DEF Proportions, IInv, TypeOK, CountInv, PingInv, ages, worldVars
<1>1. CASE Query
  BY <1>1 DEF Query
<1>2. CASE ReadStatus
  <2>1. CASE cloud = "empty"
    BY <1>2, <2>1 DEF ReadStatus
  <2>2. CASE cloud = "online"
    BY <1>2, <2>2 DEF ReadStatus
  <2>3. CASE cloud = "offline"
    BY <1>2, <2>3 DEF ReadStatus, OfflineAge
  <2>4. CASE cloud = "garbled"
    BY <1>2, <2>4 DEF ReadStatus
  <2> QED BY <2>1, <2>2, <2>3, <2>4, InputAssumption
<1>3. CASE OnlineCheck
  BY <1>3 DEF OnlineCheck, PingOk, PingFailed
<1>4. CASE Verdict
  BY <1>4 DEF Verdict, Exhausted
<1>5. CASE ModuleCheck
  BY <1>5 DEF ModuleCheck
<1>6. CASE PowerOff
  BY <1>6 DEF PowerOff
<1>7. CASE PowerOn
  BY <1>7 DEF PowerOn, Credited, Capped
<1>8. CASE Sleep
  BY <1>8 DEF Sleep, Elapse, Capped
<1>9. CASE Respawn
  BY <1>9 DEF Respawn, Fresh
<1> QED BY <1>1, <1>2, <1>3, <1>4, <1>5, <1>6, <1>7, <1>8, <1>9 DEF Pass

(* So do the others, the clock because it runs evenly. *)
LEMMA OtherPing ==
  ASSUME Proportions, IInv, PingInv,
         Reboot \/ Kill \/ WorldChange \/ ClockStep \/ UNCHANGED vars
  PROVE  PingInv'
<1> USE TimeAssumption DEF Proportions, IInv, TypeOK, CountInv, PingInv, ages, worldVars, pass
<1>1. CASE Reboot
  BY <1>1 DEF Reboot, Fresh
<1>2. CASE Kill
  BY <1>2 DEF Kill
<1>3. CASE WorldChange
  BY <1>3 DEF WorldChange
<1>4. CASE ClockStep
  BY <1>4 DEF ClockStep
<1>5. CASE UNCHANGED vars
  BY <1>5 DEF vars
<1> QED BY <1>1, <1>2, <1>3, <1>4, <1>5

(* Whatever the module, the agent, the host and signals do, and for all     *)
(* times in the code's proportions: while the agent runs, the device is     *)
(* rebooted only in a pass whose own ping has just failed.                  *)
THEOREM RebootsFollowFailedPing == Proportions => (Spec => []RebootAfterFailedPing)
<1> SUFFICES ASSUME Proportions PROVE Spec => []RebootAfterFailedPing
  OBVIOUS
<1>1. Init => PingInv
  BY TimeAssumption DEF Init, PingInv, Proportions
<1>2. IInv /\ PingInv /\ [Next]_vars => PingInv'
  BY PassPing, OtherPing DEF Next
<1>3. PingInv => RebootAfterFailedPing
  BY DEF PingInv, RebootAfterFailedPing, Exhausted
<1> QED BY <1>1, <1>2, <1>3, Invariance, PTL DEF Spec

-----------------------------------------------------------------------------
(* The spacing of restarts *)

(* An age is over the limit by the unpaid time at most: what a restart      *)
(* takes off both, once its line is on again, it has put on the account     *)
(* when it was decided.  The ages of a dead process are read by nobody.     *)
Earned == IF pc \in {"off", "on", "dead"} THEN Credit ELSE 0

SpacedInv ==
  /\ unpaid > 0 - Credit
  /\ cloudAge <= Limit + unpaid + Earned
  /\ pingAge <= Limit + unpaid + Earned

(* The loop keeps it. *)
LEMMA PassSpaced ==
  ASSUME IInv, SpacedInv, Pass
  PROVE  SpacedInv'
<1> USE TimeAssumption, CreditAssumption, MaxAgeRoom
    DEF IInv, TypeOK, SpacedInv, Earned, ages
<1>1. CASE Query
  BY <1>1 DEF Query
<1>2. CASE ReadStatus
  <2>1. CASE cloud = "empty"
    BY <1>2, <2>1 DEF ReadStatus
  <2>2. CASE cloud = "online"
    BY <1>2, <2>2 DEF ReadStatus
  <2>3. CASE cloud = "offline"
    BY <1>2, <2>3 DEF ReadStatus, OfflineAge
  <2>4. CASE cloud = "garbled"
    BY <1>2, <2>4 DEF ReadStatus
  <2> QED BY <2>1, <2>2, <2>3, <2>4, InputAssumption
<1>3. CASE OnlineCheck
  BY <1>3 DEF OnlineCheck, PingOk, PingFailed
<1>4. CASE Verdict
  BY <1>4 DEF Verdict
<1>5. CASE ModuleCheck
  BY <1>5 DEF ModuleCheck
<1>6. CASE PowerOff
  BY <1>6 DEF PowerOff
<1>7. CASE PowerOn
  BY <1>7 DEF PowerOn, Credited, Capped, Owed
<1>8. CASE Sleep
  BY <1>8 DEF Sleep, Elapse, Capped, Owed
<1>9. CASE Respawn
  BY <1>9 DEF Respawn, Fresh
<1> QED BY <1>1, <1>2, <1>3, <1>4, <1>5, <1>6, <1>7, <1>8, <1>9 DEF Pass

(* So do the others: a step of the clock ahead counts as time. *)
LEMMA OtherSpaced ==
  ASSUME IInv, SpacedInv,
         Reboot \/ Kill \/ WorldChange \/ ClockStep \/ UNCHANGED vars
  PROVE  SpacedInv'
<1> USE TimeAssumption, CreditAssumption, MaxAgeRoom
    DEF IInv, TypeOK, SpacedInv, Earned, ages
<1>1. CASE Reboot
  BY <1>1 DEF Reboot, Fresh
<1>2. CASE Kill
  BY <1>2 DEF Kill
<1>3. CASE WorldChange
  BY <1>3 DEF WorldChange
<1>4. CASE ClockStep
  <2>1. PICK d \in ClockSteps : /\ cloudAge' = Capped(cloudAge + d)
                                /\ pingAge' = Capped(pingAge + d)
                                /\ unpaid' = IF d > 0 THEN Owed(d) ELSE unpaid
    BY <1>4 DEF ClockStep
  <2>2. d \in Int /\ pc' = pc
    BY <1>4, InputAssumption DEF ClockStep
  <2> QED BY <2>1, <2>2 DEF Capped, Owed
<1>5. CASE UNCHANGED vars
  BY <1>5 DEF vars
<1> QED BY <1>1, <1>2, <1>3, <1>4, <1>5

(* Every restart of the module uses up the credit it grants, whichever of   *)
(* the two ages asks for it: whatever the module, the agent, the host, the  *)
(* clock, deaths and reboots do, and for all times with a credit within the *)
(* limit.                                                                   *)
THEOREM SpacesRestarts == Spec => []RestartsAreSpaced
<1>1. Init => SpacedInv
  BY TimeAssumption, CreditAssumption DEF Init, SpacedInv, Earned
<1>2. IInv /\ SpacedInv /\ [Next]_vars => SpacedInv'
  BY PassSpaced, OtherSpaced DEF Next
<1>3. IInv /\ SpacedInv => RestartsAreSpaced
  BY TimeAssumption DEF IInv, TypeOK, SpacedInv, Earned, RestartsAreSpaced
<1> QED BY <1>1, <1>2, <1>3, Invariance, PTL DEF Spec
=============================================================================
