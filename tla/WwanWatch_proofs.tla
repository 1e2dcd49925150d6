------------------------- MODULE WwanWatch_proofs -------------------------
(***************************************************************************)
(* Safety of wwan_watch for every value of the constants: type             *)
(* correctness, the state in which a reset window leaves the modem and the *)
(* interface, what a death inside a window means for ever after, and the   *)
(* refinement of ResetLadder.                                              *)
(***************************************************************************)
EXTENDS WwanWatch, TLAPS

(* A remedy is in progress exactly from its decision to its ifup. *)
JobInv == job # "idle" <=> pc \in Window \cup {"down"}

(* The ladder is at its bottom wherever the cloud's path decides. *)
CloudInv ==
  /\ pc \in {"cloud", "ping"} => via = "cloud" /\ resetTimes = 0
  /\ pc = "decide" /\ via = "cloud" => resetTimes = 0
  /\ RepowerMeansNoAddress

(* With the lines off the loop is between PowerOff and PowerOn, or does not *)
(* get past 3ginfo.                                                         *)
PowerInv == ~power => pc \in {"on", "dead", "query", "sleep", "nap"}

(* An interface that a watchdog left down is not looked at any further. *)
DownInv ==
  /\ downBy = "watch" => ~auto
  /\ Stranded => pc \in {"dead", "query", "iface", "sleep", "nap"}

IInv == TypeOK /\ JobInv /\ CloudInv /\ PowerInv /\ DownInv /\ ModuleLeftAsFound

USE DEF Window, Looked, PCs, Jobs

(* The Boolean part of TypeOK, which the provers take apart on their own. *)
BoolOK ==
  /\ notExists \in BOOLEAN /\ pingable \in BOOLEAN /\ configured \in BOOLEAN
  /\ auto \in BOOLEAN /\ errors \in BOOLEAN /\ ip \in BOOLEAN
  /\ power \in BOOLEAN /\ cut \in BOOLEAN /\ raced \in BOOLEAN

(* TypeOK implies its Boolean part. *)
LEMMA BoolPart == TypeOK => BoolOK
  BY DEF TypeOK, BoolOK

(* A saturated age is an age. *)
LEMMA CappedType ==
  ASSUME NEW a \in Int
  PROVE  Capped(a) \in Int /\ Capped(a) <= MaxAge
<1>1. MaxAge \in Int
  BY TimeAssumption, LadderAssumption DEF MaxAge
<1> QED BY <1>1 DEF Capped

(* A tick keeps the ages in range. *)
LEMMA ElapseType ==
  ASSUME TypeOK, NEW d \in Nat, Elapse(d)
  PROVE  /\ cloudAge' \in Int /\ cloudAge' <= MaxAge
         /\ ipAge' \in Int /\ ipAge' <= MaxAge
         /\ sinceAct' \in 0..Step
<1>1. cloudAge' \in Int /\ cloudAge' <= MaxAge
  BY CappedType DEF Elapse, TypeOK
<1>2. ipAge' \in Int /\ ipAge' <= MaxAge
  BY CappedType DEF Elapse, TypeOK
<1>3. sinceAct' \in 0..Step
  BY TimeAssumption DEF Elapse, TypeOK
<1> QED BY <1>1, <1>2, <1>3

(* The saturation point is a natural number. *)
LEMMA MaxAgePositive == MaxAge \in Nat
  BY TimeAssumption, LadderAssumption DEF MaxAge

(* The daemon starts well typed. *)
LEMMA InitType == Init => TypeOK
<1> SUFFICES ASSUME Init PROVE TypeOK
  OBVIOUS
<1>1. MaxAge \in Nat
  BY MaxAgePositive
<1>2. Step \in 0..Step
  BY TimeAssumption
<1>3. BoolOK
  BY Zenon DEF Init, BoolOK
<1> QED BY <1>1, <1>2, <1>3, LadderAssumption, FaultAssumption
        DEF Init, TypeOK, BoolOK

(* Each action of the loop keeps the types. *)
LEMMA PassType ==
  ASSUME TypeOK, Pass
  PROVE  TypeOK'
<1> USE MaxAgePositive, TimeAssumption, LadderAssumption
<1>1. CASE Query
  BY <1>1 DEF Query, TypeOK, clockVars, loopVars, ifVars, ghostIf, worldVars, bounds
<1>2. CASE ReadIface
  <2>1. BoolOK'
    BY <1>2, BoolPart, Zenon DEF ReadIface, BoolOK, ifVars, worldVars
  <2> QED BY <1>2, <2>1
          DEF ReadIface, TypeOK, BoolOK, clockVars, ifVars, worldVars, bounds
<1>3. CASE ReadAddr
  <2>1. MissingFor \in Int /\ MissingFor <= MaxAge
    BY DEF MissingFor, TypeOK
  <2>2. BoolOK'
    BY <1>3, BoolPart, Zenon DEF ReadAddr, BoolOK, ifVars, ghostIf, worldVars
  <2> QED BY <1>3, <2>1, <2>2
          DEF ReadAddr, AddressSeen, TypeOK, BoolOK, ifVars, ghostIf, worldVars, bounds
<1>4. CASE ReadCloud
  <2>1. OfflineAge(cloudAge) \in Int /\ OfflineAge(cloudAge) <= MaxAge
    BY DEF OfflineAge, TypeOK
  <2>2. cloud \in {"skip", "garbled", "offline", "online"}
    BY InputAssumption DEF TypeOK
  <2>3. cloudAge' \in Int /\ cloudAge' <= MaxAge /\ lost' \in Int /\ pc' \in PCs
    <3>1. CASE cloud \in {"skip", "online"}
      BY <1>4, <3>1, MaxAgePositive DEF ReadCloud
    <3>2. CASE cloud = "offline"
      BY <1>4, <3>2, <2>1 DEF ReadCloud
    <3>3. CASE cloud = "garbled"
      BY <1>4, <3>3 DEF ReadCloud, TypeOK
    <3> QED BY <2>2, <3>1, <3>2, <3>3
  <2>4. BoolOK'
    BY <1>4, BoolPart, Zenon DEF ReadCloud, BoolOK, ifVars, ghostIf, worldVars
  <2>5. UNCHANGED <<ipAge, notExists, resetTimes, via, job, ifVars, ghostIf, worldVars, bounds>>
    BY <1>4 DEF ReadCloud
  <2> QED BY <2>3, <2>4, <2>5 DEF TypeOK, BoolOK, ifVars, ghostIf, worldVars, bounds
<1>5. CASE Ping
  BY <1>5 DEF Ping, TypeOK, ifVars, ghostIf, worldVars, bounds
<1>6. CASE CheckAndReset
  BY <1>6 DEF CheckAndReset, ResetsLeft, TypeOK, clockVars, ifVars, ghostIf, worldVars
<1>7. CASE IfDown
  <2>1. errors' \in BOOLEAN
    BY <1>7, BoolPart, Zenon DEF IfDown, NetifdDown, BoolOK
  <2>2. auto' \in BOOLEAN /\ ip' \in BOOLEAN
    BY <1>7, Zenon DEF IfDown, NetifdDown
  <2>3. /\ UNCHANGED <<clockVars, loopVars, configured, power, cut, raced, worldVars, bounds>>
        /\ pc' = "off" /\ downBy' = "watch"
    BY <1>7, Zenon DEF IfDown, NetifdDown
  <2> QED BY <2>1, <2>2, <2>3 DEF TypeOK, clockVars, loopVars, worldVars, bounds
<1>8. CASE PowerOff
  <2>1. BoolOK'
    BY <1>8, BoolPart, Zenon DEF PowerOff, BoolOK, loopVars, ghostIf, worldVars
  <2> QED BY <1>8, <2>1
          DEF PowerOff, TypeOK, BoolOK, clockVars, loopVars, ghostIf, worldVars, bounds
<1>9. CASE PowerOn
  BY <1>9 DEF PowerOn, TypeOK, clockVars, loopVars, ghostIf, worldVars, bounds
<1>10. CASE Settle
  BY <1>10, ElapseType DEF Settle, TypeOK, loopVars, ifVars, ghostIf, worldVars
<1>11. CASE IfUp
  BY <1>11 DEF IfUp, NetifdUp, TypeOK, clockVars, worldVars, bounds
<1>12. CASE Sleep
  BY <1>12, ElapseType DEF Sleep, TypeOK, loopVars, ifVars, ghostIf, worldVars
<1>13. CASE Nap
  <2>1. PICK d \in {0, 1} : Elapse(d)
    BY <1>13 DEF Nap
  <2> QED BY <1>13, <2>1, ElapseType DEF Nap, TypeOK, loopVars, ifVars, ghostIf, worldVars
<1>14. CASE Respawn
  BY <1>14 DEF Respawn, TypeOK, ifVars, ghostIf, worldVars, bounds
<1> QED BY <1>1, <1>2, <1>3, <1>4, <1>5, <1>6, <1>7, <1>8, <1>9, <1>10, <1>11,
           <1>12, <1>13, <1>14 DEF Pass

(* A death keeps the types. *)
LEMMA DieType ==
  ASSUME TypeOK, Die
  PROVE  TypeOK'
<1>1. kills' \in 0..MaxKills
  BY FaultAssumption DEF Die, TypeOK
<1>2. BoolOK'
  BY BoolPart, Zenon DEF Die, BoolOK, ifVars, worldVars
<1> QED BY <1>1, <1>2 DEF Die, TypeOK, BoolOK, clockVars, ifVars, worldVars

(* So do the faults: crashes, slow answers and steps of the clock. *)
LEMMA FaultType ==
  ASSUME TypeOK, Fault
  PROVE  TypeOK'
<1>1. CASE QueryCrash \/ AddrCrash \/ Kill
  BY <1>1, DieType DEF QueryCrash, AddrCrash, Kill
<1>2. CASE SlowAnswer
  BY <1>2, ElapseType DEF SlowAnswer, TypeOK, loopVars, ifVars, ghostIf, worldVars
<1>3. CASE ClockStep
  <2>1. PICK d \in ClockSteps : cloudAge' = Capped(cloudAge + d) /\ ipAge' = Capped(ipAge + d)
    BY <1>3 DEF ClockStep
  <2>2. cloudAge + d \in Int /\ ipAge + d \in Int
    BY FaultAssumption DEF TypeOK
  <2>3. steps' \in 0..MaxSteps
    BY <1>3, FaultAssumption DEF ClockStep, TypeOK
  <2> QED BY <1>3, <2>1, <2>2, <2>3, CappedType
          DEF ClockStep, TypeOK, loopVars, ifVars, ghostIf, worldVars
<1> QED BY <1>1, <1>2, <1>3 DEF Fault

(* So does the world: the card, the cloud, the interface, its administrator. *)
LEMMA WorldType ==
  ASSUME TypeOK, World
  PROVE  TypeOK'
<1> USE DEF BoolOK, clockVars, loopVars, ifVars, ghostIf, worldVars, bounds
<1>1. CASE SimChange
  <2>1. BoolOK'
    BY <1>1, BoolPart, Zenon DEF SimChange
  <2> QED BY <1>1, <2>1 DEF SimChange, TypeOK
<1>2. CASE CloudChange
  <2>1. BoolOK'
    BY <1>2, BoolPart, Zenon DEF CloudChange
  <2> QED BY <1>2, <2>1 DEF CloudChange, TypeOK
<1>3. CASE ConfigChange
  <2>1. BoolOK'
    BY <1>3, BoolPart, Zenon DEF ConfigChange
  <2> QED BY <1>3, <2>1 DEF ConfigChange, TypeOK
<1>4. CASE LinkUp
  <2>1. BoolOK'
    BY <1>4, BoolPart, Zenon DEF LinkUp
  <2> QED BY <1>4, <2>1 DEF LinkUp, TypeOK
<1>5. CASE LinkDown
  <2>1. BoolOK'
    BY <1>5, BoolPart, Zenon DEF LinkDown
  <2> QED BY <1>5, <2>1 DEF LinkDown, TypeOK
<1>6. CASE ProtoBlock
  <2>1. BoolOK'
    BY <1>6, BoolPart, Zenon DEF ProtoBlock
  <2> QED BY <1>6, <2>1 DEF ProtoBlock, TypeOK
<1>7. CASE AdminDown
  <2>1. BoolOK'
    BY <1>7, BoolPart, Zenon DEF AdminDown, NetifdDown
  <2> QED BY <1>7, <2>1 DEF AdminDown, NetifdDown, TypeOK
<1>8. CASE AdminUp
  <2>1. BoolOK'
    BY <1>8, BoolPart, Zenon DEF AdminUp, NetifdUp
  <2> QED BY <1>8, <2>1 DEF AdminUp, NetifdUp, TypeOK
<1> QED BY <1>1, <1>2, <1>3, <1>4, <1>5, <1>6, <1>7, <1>8 DEF World

(* Every step keeps the types. *)
LEMMA NextType ==
  ASSUME TypeOK, [Next]_vars
  PROVE  TypeOK'
<1>1. CASE Next
  BY <1>1, PassType, FaultType, WorldType DEF Next
<1>2. CASE UNCHANGED vars
  BY <1>2 DEF vars, TypeOK, clockVars, loopVars, ifVars, ghostIf, worldVars, bounds
<1> QED BY <1>1, <1>2

(* Every variable has its type in every state of the daemon, whatever the   *)
(* world, the clock and the deaths of the process do.                       *)
THEOREM TypeCorrect == Spec => []TypeOK
<1>1. Init => TypeOK
  BY InitType
<1>2. TypeOK /\ [Next]_vars => TypeOK'
  BY NextType
<1> QED BY <1>1, <1>2, PTL DEF Spec

-----------------------------------------------------------------------------
(* The inductive invariant, one lemma for each group of actions.  The loop's *)
(* steps of a pass are taken apart further: they carry most of it.           *)

(* The inductive invariant holds at the start. *)
LEMMA InitInv == Init => IInv
<1> SUFFICES ASSUME Init PROVE IInv
  OBVIOUS
<1>1. TypeOK
  BY InitType
<1>2. JobInv /\ CloudInv
  BY DEF Init, JobInv, CloudInv, RepowerMeansNoAddress
<1>3. PowerInv /\ DownInv /\ ModuleLeftAsFound
  BY DEF Init, PowerInv, DownInv, Stranded, ModuleLeftAsFound
<1> QED BY <1>1, <1>2, <1>3 DEF IInv

(* The control part: it reads pc, job, via and resetTimes only. *)
LEMMA ControlPass ==
  ASSUME TypeOK, JobInv, CloudInv, Pass
  PROVE  JobInv' /\ CloudInv'
<1> USE DEF JobInv, CloudInv, RepowerMeansNoAddress, TypeOK
<1>1. CASE Query
  BY <1>1 DEF Query, loopVars
<1>2. CASE ReadIface
  BY <1>2 DEF ReadIface
<1>3. CASE ReadAddr
  BY <1>3 DEF ReadAddr, AddressSeen
<1>4. CASE ReadCloud
  BY <1>4 DEF ReadCloud
<1>5. CASE Ping
  BY <1>5 DEF Ping
<1>6. CASE CheckAndReset
  BY <1>6, LadderAssumption DEF CheckAndReset, ResetsLeft
<1>7. CASE IfDown
  BY <1>7 DEF IfDown, loopVars
<1>8. CASE PowerOff
  BY <1>8 DEF PowerOff, loopVars
<1>9. CASE PowerOn
  BY <1>9 DEF PowerOn, loopVars
<1>10. CASE Settle
  BY <1>10 DEF Settle, loopVars
<1>11. CASE IfUp
  BY <1>11 DEF IfUp
<1>12. CASE Sleep
  BY <1>12 DEF Sleep, loopVars
<1>13. CASE Nap
  BY <1>13 DEF Nap, loopVars
<1>14. CASE Respawn
  BY <1>14 DEF Respawn
<1> QED BY <1>1, <1>2, <1>3, <1>4, <1>5, <1>6, <1>7, <1>8, <1>9, <1>10, <1>11,
           <1>12, <1>13, <1>14 DEF Pass

(* The control part over deaths, the clock and the world. *)
LEMMA ControlOther ==
  ASSUME TypeOK, JobInv, CloudInv, Fault \/ World \/ UNCHANGED vars
  PROVE  JobInv' /\ CloudInv'
<1> USE DEF JobInv, CloudInv, RepowerMeansNoAddress
<1>1. CASE Die
  BY <1>1 DEF Die
<1>2. CASE UNCHANGED <<pc, loopVars>>
  BY <1>2 DEF loopVars
<1>3. Die \/ UNCHANGED <<pc, loopVars>>
  BY DEF Fault, QueryCrash, SlowAnswer, AddrCrash, Kill, ClockStep, World, SimChange,
         CloudChange, ConfigChange, LinkUp, LinkDown, ProtoBlock, AdminDown, AdminUp, vars
<1> QED BY <1>1, <1>2, <1>3

(* The lines and the interface, over the steps of the loop. *)
LEMMA DevicePass ==
  ASSUME IInv, Pass
  PROVE  PowerInv' /\ DownInv' /\ ModuleLeftAsFound'
<1> USE DEF IInv, BoolOK, PowerInv, DownInv, Stranded, ModuleLeftAsFound
<1> BoolOK
  BY BoolPart
<1>1. CASE Query
  BY <1>1 DEF Query, HasCard, ifVars, ghostIf
<1>2. CASE ReadIface
  BY <1>2 DEF ReadIface, Disabled, ifVars
<1>3. CASE ReadAddr
  BY <1>3 DEF ReadAddr, ifVars, ghostIf
<1>4. CASE ReadCloud
  BY <1>4 DEF ReadCloud, ifVars, ghostIf
<1>5. CASE Ping
  BY <1>5 DEF Ping, ifVars, ghostIf
<1>6. CASE CheckAndReset
  BY <1>6 DEF CheckAndReset, ifVars, ghostIf
<1>7. CASE IfDown
  BY <1>7 DEF IfDown, NetifdDown
<1>8. CASE PowerOff
  BY <1>8 DEF PowerOff, ghostIf
<1>9. CASE PowerOn
  BY <1>9 DEF PowerOn, ghostIf
<1>10. CASE Settle
  BY <1>10 DEF Settle, ifVars, ghostIf
<1>11. CASE IfUp
  BY <1>11 DEF IfUp, NetifdUp
<1>12. CASE Sleep
  BY <1>12 DEF Sleep, ifVars, ghostIf
<1>13. CASE Nap
  BY <1>13 DEF Nap, ifVars, ghostIf
<1>14. CASE Respawn
  BY <1>14 DEF Respawn, ifVars, ghostIf
<1> QED BY <1>1, <1>2, <1>3, <1>4, <1>5, <1>6, <1>7, <1>8, <1>9, <1>10, <1>11,
           <1>12, <1>13, <1>14 DEF Pass

(* The same over deaths, the clock and the world. *)
LEMMA DeviceOther ==
  ASSUME IInv, Fault \/ World \/ UNCHANGED vars
  PROVE  PowerInv' /\ DownInv' /\ ModuleLeftAsFound'
<1> USE DEF IInv, BoolOK, PowerInv, DownInv, Stranded, ModuleLeftAsFound
<1> BoolOK
  BY BoolPart
<1>1. CASE Die
  BY <1>1 DEF Die, ifVars
<1>2. CASE ProtoBlock
  BY <1>2 DEF ProtoBlock
<1>3. CASE AdminDown
  BY <1>3 DEF AdminDown, NetifdDown
<1>4. CASE AdminUp
  BY <1>4 DEF AdminUp, NetifdUp
<1>5. CASE UNCHANGED <<pc, auto, errors, power, ghostIf>>
  BY <1>5 DEF ghostIf
<1>6. Die \/ ProtoBlock \/ AdminDown \/ AdminUp
        \/ UNCHANGED <<pc, auto, errors, power, ghostIf>>
  BY DEF Fault, QueryCrash, SlowAnswer, AddrCrash, Kill, ClockStep, World, SimChange,
         CloudChange, ConfigChange, LinkUp, LinkDown, ifVars, vars
<1> QED BY <1>1, <1>2, <1>3, <1>4, <1>5, <1>6

(* Every step keeps the inductive invariant. *)
LEMMA NextInv ==
  ASSUME IInv, [Next]_vars
  PROVE  IInv'
<1>1. TypeOK'
  BY NextType DEF IInv
<1>2. Pass \/ Fault \/ World \/ UNCHANGED vars
  BY DEF Next
<1>3. JobInv' /\ CloudInv'
  BY <1>2, ControlPass, ControlOther DEF IInv
<1>4. PowerInv' /\ DownInv' /\ ModuleLeftAsFound'
  BY <1>2, DevicePass, DeviceOther
<1> QED BY <1>1, <1>3, <1>4 DEF IInv

(* The inductive invariant holds in every state of the daemon: it ties the  *)
(* place of the loop to the remedy, the lines, the ladder and the interface. *)
THEOREM Invariance == Spec => []IInv
  BY InitInv, NextInv, PTL DEF Spec

(* Outside a reset window the lines are on and the interface is not left    *)
(* down by the watchdog, unless a window was cut short by its death.        *)
THEOREM LeavesModuleAsFound == Spec => []ModuleLeftAsFound
<1>1. IInv => ModuleLeftAsFound
  BY DEF IInv
<1> QED BY <1>1, Invariance, PTL

(* With an address the modem is never re-powered, however long the cloud is *)
(* unreachable.                                                             *)
THEOREM RepowerNeedsMissingAddress == Spec => []RepowerMeansNoAddress
<1>1. IInv => RepowerMeansNoAddress
  BY DEF IInv, CloudInv
<1> QED BY <1>1, Invariance, PTL

(* Lines that a death left off are never switched on again. *)
THEOREM PowerLossForEver == Spec => PowerLossIsFinal
<1>1. ASSUME IInv, [Next]_vars, ~power, pc \notin Window
      PROVE  ~power' /\ pc' \notin Window
  <2> USE <1>1 DEF PowerInv, IInv
  <2>1. pc \in {"dead", "query", "sleep", "nap"}
    OBVIOUS
  <2>2. CASE Pass
    BY <2>1, <2>2 DEF Pass, Query, HasCard, ReadIface, ReadAddr, ReadCloud, Ping, CheckAndReset,
       IfDown, PowerOff, PowerOn, Settle, IfUp, Sleep, Nap, Respawn, ifVars
  <2>3. CASE Fault \/ World \/ UNCHANGED vars
    BY <2>1, <2>3 DEF Fault, QueryCrash, SlowAnswer, AddrCrash, Kill, Die, ClockStep, World,
       SimChange, CloudChange, ConfigChange, LinkUp, LinkDown, ProtoBlock, AdminDown, AdminUp,
       ifVars, vars
  <2> QED BY <2>2, <2>3 DEF Next
<1>2. IInv /\ [Next]_vars => [~power /\ pc \notin Window => ~power' /\ pc' \notin Window]_vars
  BY <1>1
<1> QED BY <1>2, Invariance, PTL DEF Spec, PowerLossIsFinal

(* An interface that a dead watchdog left down waits for an administrator. *)
THEOREM StrandedForEver == Spec => StrandedUntilAdmin
<1>1. ASSUME IInv, [Next]_vars, Stranded, ~Stranded'
      PROVE  AdminUp \/ AdminDown
  <2> USE <1>1 DEF Stranded
  <2>1. pc \in {"dead", "query", "iface", "sleep", "nap"}
    BY DEF IInv, DownInv
  <2>2. CASE Pass
    BY <2>1, <2>2 DEF Pass, Query, ReadIface, Disabled, ReadAddr, ReadCloud, Ping, CheckAndReset,
       IfDown, PowerOff, PowerOn, Settle, IfUp, Sleep, Nap, Respawn, ifVars, ghostIf
  <2>3. CASE Fault \/ World \/ UNCHANGED vars
    BY <2>1, <2>3 DEF Fault, QueryCrash, SlowAnswer, AddrCrash, Kill, Die, ClockStep, World,
       SimChange, CloudChange, ConfigChange, LinkUp, LinkDown, ProtoBlock,
       ifVars, ghostIf, vars
  <2> QED BY <2>2, <2>3 DEF Next
<1>2. IInv /\ [Next]_vars => [Stranded /\ ~Stranded' => AdminUp \/ AdminDown]_vars
  BY <1>1
<1> QED BY <1>2, Invariance, PTL DEF Spec, StrandedUntilAdmin

-----------------------------------------------------------------------------
(* The administrator *)

(* The rest of a pass finds the interface disabled only when it changed    *)
(* hands after the pass had looked at it.                                  *)
RacedInv == pc \in Looked /\ ~auto /\ ~errors => raced

(* Every step keeps it. *)
LEMMA RacedStep ==
  ASSUME TypeOK, RacedInv, [Next]_vars
  PROVE  RacedInv'
<1> USE DEF RacedInv, BoolOK
<1> BoolOK
  BY BoolPart
<1>1. CASE Pass
  BY <1>1 DEF Pass, Query, ReadIface, Disabled, ReadAddr, ReadCloud, Ping, CheckAndReset,
     IfDown, PowerOff, PowerOn, Settle, IfUp, Sleep, Nap, Respawn, ifVars, ghostIf
<1>2. CASE Fault
  BY <1>2 DEF Fault, QueryCrash, SlowAnswer, AddrCrash, Kill, Die, ClockStep, ifVars, ghostIf
<1>3. CASE World \/ UNCHANGED vars
  BY <1>3 DEF World, SimChange, CloudChange, ConfigChange, LinkUp, LinkDown, ProtoBlock,
     AdminDown, AdminUp, NetifdDown, NetifdUp, ifVars, ghostIf, vars
<1> QED BY <1>1, <1>2, <1>3 DEF Next

(* A remedy does not start on an interface that was disabled when the pass *)
(* looked at it.                                                           *)
THEOREM LeavesDisabledAlone == Spec => []DisabledIsLeftAlone
<1>1. Init => RacedInv
  BY DEF Init, RacedInv
<1>2. RacedInv => DisabledIsLeftAlone
  BY DEF RacedInv, DisabledIsLeftAlone
<1> QED BY <1>1, <1>2, RacedStep, TypeCorrect, PTL DEF Spec

-----------------------------------------------------------------------------
(* Refinement: every step of the daemon is a step of the ladder, or none. *)

(* An address in sight is not lost before the pass has decided. *)
Sighted == via = "cloud" /\ pc \in {"cloud", "ping", "decide"}

(* Every step of the daemon is a step of the ladder or leaves it alone. *)
LEMMA LadderStep ==
  ASSUME IInv, [Next]_vars
  PROVE  [Ladder!Next]_(Ladder!vars)
<1> USE DEF IInv, TypeOK, JobInv, CloudInv, Ladder!vars, Ladder!Next
<1>1. CASE /\ UNCHANGED <<resetTimes, job>> /\ Sighted' = Sighted
           /\ pc # "dead" /\ pc' # "dead"
  BY <1>1 DEF Sighted
<1>2. CASE ReadAddr
  <2>1. job = "idle" /\ job' = "idle" /\ pc' # "dead"
    BY <1>2 DEF ReadAddr
  <2>2. CASE ip
    BY <1>2, <2>1, <2>2 DEF ReadAddr, AddressSeen, Ladder!See
  <2>3. CASE ~ip
    BY <1>2, <2>1, <2>3 DEF ReadAddr
  <2> QED BY <2>2, <2>3
<1>3. CASE CheckAndReset
  <2>1. job = "idle" /\ pc = "decide"
    BY <1>3 DEF CheckAndReset
  <2>2. CASE pc' = "sleep" /\ via' = "addr" /\ UNCHANGED <<resetTimes, job>>
    BY <2>1, <2>2 DEF Ladder!Lose
  <2>3. CASE pc' = "down" /\ ResetsLeft /\ resetTimes' = resetTimes + 1 /\ job' = "reset"
    <3>1. resetTimes < MaxResets
      BY <2>3 DEF ResetsLeft
    <3> QED BY <2>1, <2>3, <3>1 DEF Ladder!Soft
  <2>4. CASE pc' = "down" /\ ~ResetsLeft /\ resetTimes' = 0 /\ job' = "repower"
    <3>1. resetTimes = MaxResets
      BY <2>4, LadderAssumption DEF ResetsLeft
    <3> QED BY <2>1, <2>4, <3>1 DEF Ladder!Hard
  <2> QED BY <1>3, <2>2, <2>3, <2>4 DEF CheckAndReset
<1>4. CASE IfUp
  BY <1>4 DEF IfUp, Ladder!Finish
<1>5. CASE Respawn
  <2>1. job = "idle" /\ job' = "idle"
    BY <1>5 DEF Respawn, loopVars
  <2> QED BY <1>5, <2>1 DEF Respawn, Ladder!Start
<1>6. CASE Die /\ pc # "dead"
  BY <1>6 DEF Die, Ladder!Die
<1>7. CASE World \/ UNCHANGED vars
  <2>1. UNCHANGED <<pc, resetTimes, job, via>>
    BY <1>7 DEF World, SimChange, CloudChange, ConfigChange, LinkUp, LinkDown, ProtoBlock,
                AdminDown, AdminUp, loopVars, vars
  <2> QED BY <2>1
<1>8. CASE ReadCloud \/ Ping
  BY <1>8 DEF ReadCloud, Ping
<1>9. Pass => \/ ReadAddr \/ CheckAndReset \/ IfUp \/ Respawn \/ ReadCloud \/ Ping
              \/ /\ UNCHANGED <<resetTimes, job>> /\ Sighted' = Sighted
                 /\ pc # "dead" /\ pc' # "dead"
  BY DEF Pass, Query, ReadIface, IfDown, PowerOff, PowerOn, Settle, Sleep, Nap, loopVars,
         Sighted
<1>10. Fault => \/ Die /\ pc # "dead"
                \/ /\ UNCHANGED <<resetTimes, job>> /\ Sighted' = Sighted
                   /\ pc # "dead" /\ pc' # "dead"
  BY DEF Fault, QueryCrash, SlowAnswer, AddrCrash, Kill, ClockStep, loopVars, Sighted
<1> QED BY <1>1, <1>2, <1>3, <1>4, <1>5, <1>6, <1>7, <1>8, <1>9, <1>10 DEF Next

(* A repower is only reached through MaxResets resets in a row between      *)
(* which no pass saw an address and the daemon did not die: a pass that     *)
(* sees one must take the count to the bottom, and nothing else may but the *)
(* repower and a death.  The daemon implements the ladder.                  *)
THEOREM ImplementsLadder == Spec => LadderSpec
<1>1. Init => Ladder!Init
  BY DEF Init, Ladder!Init
<1>2. IInv /\ [Next]_vars => [Ladder!Next]_(Ladder!vars)
  BY LadderStep
<1> QED BY <1>1, <1>2, Invariance, PTL DEF Spec, LadderSpec, Ladder!Spec
=============================================================================
