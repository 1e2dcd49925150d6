----------------------------- MODULE CloudWatch -----------------------------
(***************************************************************************)
(* The cloud_watch daemon: a loop that looks at the cloud agent's status   *)
(* file and pings an online-check host, restarts the 4G module when either *)
(* has failed for too long, and reboots the device when that did not help. *)
(*                                                                         *)
(* As in WwanWatch the time stamps are kept as ages; an age saturates at   *)
(* MaxAge, which leaves room for the credit of every restart before the    *)
(* reboot.                                                                 *)
(***************************************************************************)
EXTENDS Integers

CONSTANTS Limit,        \* 180 seconds in the code, in time units
          Credit,       \* 120 seconds granted by a restart of the module
          PingAfter,    \* 60 seconds
          MaxResets,    \* more than 3 restarts reboot the device
          Poll,         \* length of the loop's sleep
          ResetTime,    \* length of a restart of the module (12 seconds)
          DeviceF,      \* an F series device, with a GPIO line for the module
          HostChoices,  \* whether an online-check host may be configured
          CloudStates,  \* what the status file may hold
          CardChoices,  \* whether sysinfo may find a module and a card
          ClockSteps,   \* sizes of the steps of the wall clock
          MaxSteps,     \* bound: number of clock steps
          MaxKills      \* bound: number of deaths of the daemon

ASSUME TimeAssumption ==
  /\ Limit \in Nat /\ Credit \in Nat \ {0} /\ PingAfter \in Nat
  /\ Poll \in Nat \ {0} /\ ResetTime \in Nat /\ MaxResets \in Nat \ {0}
ASSUME InputAssumption ==
  /\ DeviceF \in BOOLEAN /\ HostChoices \subseteq BOOLEAN /\ HostChoices # {}
  /\ CardChoices \subseteq BOOLEAN /\ CardChoices # {}
  /\ CloudStates \subseteq {"empty", "garbled", "offline", "online"}
  /\ CloudStates # {}
  /\ ClockSteps \subseteq Int /\ MaxSteps \in Nat /\ MaxKills \in Nat
ASSUME CreditAssumption == Credit <= Limit

VARIABLES
  \* the daemon
  pc, cloudAge,         \* now - cloud_last
  pingAge,              \* now - ping_last
  resetTimes,           \* reset_times, up to MaxResets + 2
  exported,             \* gpio_export
  \* what it reads and drives
  card, cloud, host, pingable,
  power,                \* the module's GPIO line
  rebooting,            \* the reboot command has been given
  \* bounds and history
  steps, kills,
  seen,                 \* what this pass read in the status file
  pinged,               \* its check: "none", "ok", "failed" or "nohost"
  unpaid                \* time passed that no restart has used up

ages     == <<cloudAge, pingAge>>
worldVars == <<card, cloud, host, pingable>>
pass     == <<seen, pinged>>
bounds   == <<steps, kills>>
vars == <<pc, ages, resetTimes, exported, worldVars, power, rebooting, bounds,
          pass, unpaid>>

MaxAge == Limit + (MaxResets + 2) * Credit + 1

PCs == {"query", "read", "check", "verdict", "module", "off", "on", "sleep",
        "dead"}

TypeOK ==
  /\ pc \in PCs
  /\ cloudAge \in Int /\ cloudAge <= MaxAge
  /\ pingAge \in Int /\ pingAge <= MaxAge
  /\ resetTimes \in 0..MaxResets + 2 /\ exported \in BOOLEAN
  /\ card \in CardChoices /\ cloud \in CloudStates
  /\ host \in HostChoices /\ pingable \in BOOLEAN
  /\ power \in BOOLEAN /\ rebooting \in BOOLEAN
  /\ steps \in 0..MaxSteps /\ kills \in 0..MaxKills
  /\ seen \in CloudStates \cup {"none"}
  /\ pinged \in {"none", "ok", "failed", "nohost"}
  /\ unpaid \in Int /\ unpaid <= MaxAge - Limit

-----------------------------------------------------------------------------
Capped(a) == IF a > MaxAge THEN MaxAge ELSE a

(* unpaid saturates with the part of an age that is over the limit. *)
Owed(d) == IF unpaid + d > MaxAge - Limit THEN MaxAge - Limit ELSE unpaid + d

Elapse(d) ==
  /\ cloudAge' = Capped(cloudAge + d)
  /\ pingAge' = Capped(pingAge + d)
  /\ unpaid' = Owed(d)

(* The locals of a process that starts. *)
Fresh ==
  /\ pc' = "query" /\ cloudAge' = 0 /\ pingAge' = 0 /\ resetTimes' = 0
  /\ exported' = FALSE /\ seen' = "none" /\ pinged' = "none"

Init ==
  /\ pc = "query" /\ cloudAge = 0 /\ pingAge = 0 /\ resetTimes = 0
  /\ exported = FALSE /\ power = TRUE /\ rebooting = FALSE
  /\ card \in CardChoices /\ cloud \in CloudStates
  /\ host \in HostChoices /\ pingable \in BOOLEAN
  /\ steps = 0 /\ kills = 0
  /\ seen = "none" /\ pinged = "none" /\ unpaid = 0

(* Mutant: the line is exported but not written. *)
MutExportGpio == exported' = (exported \/ DeviceF) /\ UNCHANGED power

(* On an F series device the first call of a process exports the GPIO line  *)
(* and switches the module on.                                              *)
ExportGpio ==
  /\ exported' = (exported \/ DeviceF)
  /\ power' = (power \/ (DeviceF /\ ~exported))

(* sysinfo_module, and the main loop's test of what it found *)
Query ==
  /\ pc = "query" /\ ExportGpio
  /\ pc' = IF card /\ power THEN "read" ELSE "sleep"
  /\ seen' = "none" /\ pinged' = "none"
  /\ UNCHANGED <<ages, resetTimes, worldVars, rebooting, bounds, unpaid>>

(* Mutant: offline is treated as online. *)
MutOfflineAge(a) == 0

(* A stamp ahead of the clock is taken back to it. *)
OfflineAge(a) == IF a < 0 THEN 0 ELSE a

(* watch_cloud_status: the status file *)
ReadStatus ==
  /\ pc = "read"
  /\ cloudAge' = CASE cloud \in {"empty", "online"} -> 0
                   [] cloud = "offline" -> OfflineAge(cloudAge)
                   [] cloud = "garbled" -> cloudAge
  /\ pingAge' = IF cloud = "empty" THEN 0 ELSE pingAge
  /\ pc' = IF pingAge' > PingAfter THEN "check" ELSE "verdict"
  /\ seen' = cloud
  /\ UNCHANGED <<resetTimes, exported, worldVars, power, rebooting, bounds,
                 pinged, unpaid>>

(* Mutant: every attempt to ping renews ping_last. *)
MutPingFailed == /\ pinged' = "failed" /\ pingAge' = 0
                 /\ UNCHANGED <<cloudAge, resetTimes>>

PingFailed == pinged' = "failed" /\ UNCHANGED <<ages, resetTimes>>

(* Mutant: a ping that answers does not clear the count. *)
MutPingOk == /\ pinged' = "ok" /\ cloudAge' = 0 /\ pingAge' = 0
             /\ UNCHANGED resetTimes

PingOk == pinged' = "ok" /\ cloudAge' = 0 /\ pingAge' = 0 /\ resetTimes' = 0

(* ... the online check: a ping, or nothing when no host is configured *)
OnlineCheck ==
  /\ pc = "check" /\ pc' = "verdict"
  /\ \/ host /\ pingable /\ PingOk
     \/ host /\ ~pingable /\ PingFailed
     \/ /\ ~host /\ pinged' = "nohost" /\ pingAge' = 0
        /\ resetTimes' = IF cloudAge = 0 THEN 0 ELSE resetTimes
        /\ UNCHANGED cloudAge
  /\ UNCHANGED <<exported, worldVars, power, rebooting, bounds, seen,
                 unpaid>>

Exhausted == resetTimes > MaxResets

(* ... more than MaxResets restarts: reboot.  The call returns; the loop goes *)
(* on until the system stops it.                                              *)
Verdict ==
  /\ pc = "verdict" /\ pc' = "module"
  /\ \/ /\ Exhausted
        /\ pingAge' = 0 /\ rebooting' = TRUE
     \/ ~Exhausted /\ UNCHANGED <<pingAge, rebooting>>
  /\ UNCHANGED <<cloudAge, resetTimes, exported, worldVars, power, bounds,
                 pass, unpaid>>

(* ... restart the module when the ping or the cloud has failed too long *)
ModuleCheck ==
  /\ pc = "module"
  /\ \/ /\ pingAge > Limit \/ cloudAge > Limit
        /\ pc' = "off" /\ unpaid' = unpaid - Credit
     \/ /\ pingAge <= Limit /\ cloudAge <= Limit
        /\ pc' = "sleep" /\ unpaid' = IF unpaid > 0 THEN 0 ELSE unpaid
  /\ UNCHANGED <<ages, resetTimes, exported, worldVars, power, rebooting,
                 bounds, pass>>

(* restart_wanpwrc: the GPIO line goes off for a while; other devices have  *)
(* a service for it.                                                        *)
PowerOff ==
  /\ pc = "off" /\ pc' = "on" /\ power' = (power /\ ~DeviceF)
  /\ UNCHANGED <<ages, resetTimes, exported, worldVars, rebooting, bounds,
                 pass, unpaid>>

(* Mutant: a restart earns no credit. *)
MutCredited(a) == Capped(a + ResetTime)

(* 120 seconds for the module to come back, on top of the restart's length. *)
Credited(a) == Capped(a + ResetTime) - Credit

PowerOn ==
  /\ pc = "on" /\ pc' = "sleep" /\ power' = TRUE
  /\ resetTimes' = IF resetTimes > MaxResets THEN MaxResets + 2
                   ELSE resetTimes + 1
  /\ cloudAge' = Credited(cloudAge) /\ pingAge' = Credited(pingAge)
  /\ unpaid' = Owed(ResetTime)
  /\ UNCHANGED <<exported, worldVars, rebooting, bounds, pass>>

Sleep ==
  /\ pc = "sleep" /\ pc' = "query" /\ Elapse(Poll)
  /\ UNCHANGED <<resetTimes, exported, worldVars, power, rebooting, bounds,
                 pass>>

(* procd starts the daemon again. *)
Respawn ==
  /\ pc = "dead" /\ Fresh
  /\ UNCHANGED <<worldVars, power, rebooting, bounds, unpaid>>

(* The system goes down and comes up with the module on. *)
Reboot ==
  /\ rebooting /\ rebooting' = FALSE /\ power' = TRUE /\ Fresh
  /\ UNCHANGED <<worldVars, bounds, unpaid>>

Kill ==
  /\ pc # "dead" /\ pc' = "dead" /\ kills < MaxKills /\ kills' = kills + 1
  /\ UNCHANGED <<ages, resetTimes, exported, worldVars, power, rebooting,
                 steps, pass, unpaid>>

-----------------------------------------------------------------------------
(* The environment *)

WorldChange ==
  /\ card' \in CardChoices /\ cloud' \in CloudStates
  /\ host' \in HostChoices /\ pingable' \in BOOLEAN
  /\ worldVars' # worldVars
  /\ UNCHANGED <<pc, ages, resetTimes, exported, power, rebooting, bounds,
                 pass, unpaid>>

ClockStep ==
  /\ pc \in {"sleep", "query"} /\ steps < MaxSteps /\ steps' = steps + 1
  /\ \E d \in ClockSteps :
        /\ cloudAge' = Capped(cloudAge + d) /\ pingAge' = Capped(pingAge + d)
        /\ unpaid' = IF d > 0 THEN Owed(d) ELSE unpaid
  /\ UNCHANGED <<pc, resetTimes, exported, worldVars, power, rebooting, kills,
                 pass>>

-----------------------------------------------------------------------------
Pass == \/ Query \/ ReadStatus \/ OnlineCheck \/ Verdict \/ ModuleCheck
        \/ PowerOff \/ PowerOn \/ Sleep \/ Respawn

Next == Pass \/ Reboot \/ Kill \/ WorldChange \/ ClockStep

Spec == Init /\ [][Next]_vars

FairSpec == Spec /\ WF_vars(Pass) /\ WF_vars(Reboot)

-----------------------------------------------------------------------------
(* Properties *)

(* With an online-check host configured and a cloud agent that runs, the    *)
(* device is only rebooted in a pass whose own ping has just failed: a      *)
(* restart leaves ping_last so old that the next pass pings again.          *)
RebootAfterFailedPing ==
  pc = "verdict" /\ Exhausted /\ ~rebooting /\ host /\ seen # "empty"
    => pinged = "failed"

(* Every restart of the module uses up the credit of 120 seconds it grants  *)
(* to the module: restarts in a row only make up for time that has passed   *)
(* since a pass last found both ages within the limit, be it that no module *)
(* was found meanwhile, that the daemon restarted or that the clock jumped  *)
(* ahead.  unpaid is that time, less a credit for each restart.             *)
RestartsAreSpaced ==
  pc = "module" /\ (pingAge > Limit \/ cloudAge > Limit) => unpaid > 0

(* The comment on the empty status file: the agent is not running, so the   *)
(* check is skipped, and nothing is rebooted.                               *)
EmptyFileSkipsChecking ==
  pc = "verdict" /\ seen = "empty" => ~Exhausted

(* However a restart of the module is interrupted, its line is switched on  *)
(* again, by the restart itself or by the successor's first pass.           *)
PowerComesBack == ~power ~> power

(* A cloud that stays offline, with no host that answers, ends in a reboot. *)
OfflineEndsInReboot ==
  <>[](card /\ cloud = "offline" /\ ~(host /\ pingable)) => []<>rebooting

(* The ladder this daemon implements; the loop's last passes before the     *)
(* system stops belong to the reboot.  The online check has connectivity in *)
(* sight when the ping is answered or, without a host to ping, when the     *)
(* agent is online; an online status alone is not enough for it.            *)
Ladder == INSTANCE ResetLadder
  WITH Rungs <- MaxResets + 1,
       rung <- CASE rebooting \/ pc = "dead"               -> 0
                 [] ~rebooting /\ pc \in {"off", "on"}     -> resetTimes + 1
                 [] OTHER                                  -> resetTimes,
       remedy <- CASE rebooting                            -> "hard"
                   [] ~rebooting /\ pc = "dead"            -> "dead"
                   [] ~rebooting /\ pc \in {"off", "on"}   -> "soft"
                   [] OTHER                                -> "idle",
       sight <- /\ ~rebooting /\ pc = "verdict"
                /\ pinged = "ok" \/ (pinged = "nohost" /\ cloudAge = 0)

(* A reboot follows MaxResets + 1 restarts between which no online check    *)
(* succeeded and the daemon did not die; a success starts the count again.  *)
LadderSpec == Ladder!Spec
=============================================================================
