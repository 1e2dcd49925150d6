----------------------------- MODULE WwanWatch -----------------------------
(***************************************************************************)
(* The wwan_watch daemon: a loop that asks 3ginfo for the modem, looks at  *)
(* the WWAN interface and at the cloud status file, and resets or          *)
(* re-powers the modem when connectivity has been missing for too long.    *)
(*                                                                         *)
(* The daemon's two time stamps are kept as ages (now minus the stamp), so *)
(* that time needs no bound; an age saturates at MaxAge, above every       *)
(* threshold it is compared with.  The interface and its autostart flag    *)
(* belong to netifd, the SIM's answer to 3ginfo, the cloud status file to  *)
(* the cloud agent: they change by actions of their own at any moment.     *)
(***************************************************************************)
EXTENDS Integers

CONSTANTS Base,         \* 300 seconds in the code, in time units
          Step,         \* 120 seconds
          PingAfter,    \* 60 seconds
          MaxResets,    \* 3 soft resets before a repower
          Poll,         \* length of the loop's sleep (15 seconds)
          ResetTime,    \* length of a reset or repower (14 seconds)
          SimStates,    \* what 3ginfo may answer
          CloudStates,  \* what the cloud status check may find
          ClockSteps,   \* sizes of the steps NTP or an operator may make
          MaxSteps,     \* bound: number of clock steps
          MaxKills,     \* bound: number of deaths of the daemon
          Retry,        \* procd's limit of respawns
          SlowQuery,    \* 3ginfo may take long to answer
          UbusFails     \* calls to ubus may fail

ASSUME TimeAssumption ==
  /\ Base \in Nat /\ Step \in Nat \ {0} /\ PingAfter \in Nat
  /\ Poll \in Nat \ {0} /\ ResetTime \in Nat
ASSUME LadderAssumption == MaxResets \in Nat \ {0}
ASSUME InputAssumption ==
  /\ SimStates \subseteq {"ccid", "noccid", "broken"} /\ "ccid" \in SimStates
  /\ CloudStates \subseteq {"skip", "garbled", "offline", "online"}
  /\ CloudStates # {}
ASSUME FaultAssumption ==
  /\ ClockSteps \subseteq Int /\ MaxSteps \in Nat
  /\ MaxKills \in Nat /\ Retry \in Nat
  /\ SlowQuery \in BOOLEAN /\ UbusFails \in BOOLEAN

VARIABLES
  \* the daemon
  pc,           \* where the loop is
  cloudAge,     \* now - cloud_last
  ipAge,        \* now - wwan_ip_last_got
  notExists,    \* wwan_not_exits
  resetTimes,   \* wwan_reset_times
  lost,         \* the time_lost argument of check_and_reset
  via,          \* who called check_and_reset: "addr" or "cloud"
  job,          \* the remedy in progress
  \* what it reads and drives
  sim,          \* what 3ginfo finds: a card, no card, or no valid JSON
  configured,   \* 3ginfo has a network option
  auto, errors, \* netifd's autostart flag and error list of the interface
  ip,           \* the interface has an address
  power,        \* the modem's supply and on/off lines are on
  cloud,        \* the cloud status file, "skip" when the check is off
  pingable,     \* the host of the online check answers
  \* bounds and history
  steps, kills, \* clock steps made, deaths of the daemon
  sinceAct,     \* time since the last remedy was decided, up to Step
  downBy,       \* who took the interface down last
  cut,          \* a reset window was cut short by the daemon's death
  raced         \* the interface changed hands after this pass looked at it

clockVars == <<cloudAge, ipAge>>
loopVars  == <<notExists, resetTimes, lost, via, job>>
ifVars    == <<configured, auto, errors, ip, power>>
ghostIf   == <<downBy, cut, raced>>
worldVars == <<sim, cloud, pingable>>
bounds    == <<steps, kills, sinceAct>>
vars == <<pc, clockVars, loopVars, ifVars, ghostIf, worldVars, bounds>>

MaxAge == Base + MaxResets * Step + 1

PCs == {"query", "iface", "addr", "cloud", "ping", "decide",
        "down", "off", "on", "settle", "up", "sleep", "nap", "dead"}

(* From the moment ifdown has run until ifup runs. *)
Window == {"off", "on", "settle", "up"}

(* The rest of a pass, after watch_wwan_status has looked at the interface. *)
Looked == {"addr", "cloud", "ping", "decide", "down"}

Jobs == {"idle", "reset", "repower"}

TypeOK ==
  /\ pc \in PCs
  /\ cloudAge \in Int /\ cloudAge <= MaxAge
  /\ ipAge \in Int /\ ipAge <= MaxAge
  /\ notExists \in BOOLEAN /\ resetTimes \in 0..MaxResets
  /\ lost \in Int /\ via \in {"addr", "cloud"} /\ job \in Jobs
  /\ sim \in SimStates /\ cloud \in CloudStates /\ pingable \in BOOLEAN
  /\ configured \in BOOLEAN /\ auto \in BOOLEAN /\ errors \in BOOLEAN
  /\ ip \in BOOLEAN /\ power \in BOOLEAN
  /\ steps \in 0..MaxSteps /\ kills \in 0..MaxKills
  /\ sinceAct \in 0..Step
  /\ downBy \in {"none", "admin", "proto", "watch"}
  /\ cut \in BOOLEAN /\ raced \in BOOLEAN

-----------------------------------------------------------------------------
(* Time *)

Capped(a) == IF a > MaxAge THEN MaxAge ELSE a

Elapse(d) ==
  /\ cloudAge' = Capped(cloudAge + d)
  /\ ipAge' = Capped(ipAge + d)
  /\ sinceAct' = IF sinceAct + d > Step THEN Step ELSE sinceAct + d

-----------------------------------------------------------------------------
(* netifd and the modem, as ifup, ifdown and the GPIO lines drive them *)

NetifdDown(who) ==
  /\ auto' = FALSE /\ ip' = FALSE /\ errors' \in {errors, FALSE}
  /\ downBy' = who

NetifdUp ==
  /\ auto' = TRUE /\ errors' = FALSE /\ ip' = ip
  /\ downBy' = "none"

-----------------------------------------------------------------------------
Init ==
  /\ pc = "query" /\ cloudAge = 0 /\ ipAge = 0
  /\ notExists = TRUE /\ resetTimes = 0
  /\ lost = 0 /\ via = "addr" /\ job = "idle"
  /\ sim \in SimStates /\ cloud \in CloudStates /\ pingable \in BOOLEAN
  /\ configured \in BOOLEAN /\ auto \in BOOLEAN /\ errors = FALSE
  /\ ip = FALSE /\ power = TRUE
  /\ steps = 0 /\ kills = 0 /\ sinceAct = Step
  /\ downBy = IF auto THEN "none" ELSE "admin"
  /\ cut = FALSE /\ raced = FALSE

(* The process ends, by a signal or by a Lua error; procd sees it. *)
Die ==
  /\ kills < MaxKills
  /\ pc' = "dead" /\ kills' = kills + 1
  /\ lost' = 0 /\ via' = "addr" /\ job' = "idle" /\ raced' = FALSE
  /\ cut' = (cut \/ pc \in Window)
  /\ UNCHANGED <<clockVars, notExists, resetTimes, ifVars, downBy,
                 worldVars, steps, sinceAct>>

(* Mutant: any valid JSON will do, with or without an iccid. *)
MutHasCard == sim # "broken"

(* A modem that is off has no card to show. *)
HasCard == sim = "ccid" /\ power

(* The main loop: run 3ginfo and look at its JSON. *)
Query ==
  /\ pc = "query"
  /\ \/ HasCard /\ pc' = "iface"
     \/ ~HasCard /\ (sim # "broken" \/ ~power) /\ pc' = "sleep"
     \/ sim = "broken" /\ pc' = "nap"
  /\ UNCHANGED <<clockVars, loopVars, ifVars, ghostIf, worldVars, bounds>>

(* An incomplete JSON text has no error message: the log line fails. *)
QueryCrash == pc = "query" /\ sim = "broken" /\ Die

(* An AT command that times out delays the loop. *)
SlowAnswer ==
  /\ pc = "query" /\ SlowQuery /\ Elapse(1)
  /\ UNCHANGED <<pc, loopVars, ifVars, ghostIf, worldVars, steps, kills>>

(* Mutant: the test for a disabled interface is missing. *)
MutDisabled == FALSE

Disabled == ~auto /\ ~errors

(* watch_wwan_status *)
ReadIface ==
  /\ pc = "iface"
  /\ \/ /\ ~configured \/ Disabled
        /\ notExists' = TRUE /\ pc' = "sleep"
     \/ /\ configured /\ ~Disabled
        /\ pc' = "addr" /\ UNCHANGED notExists
     \/ /\ configured /\ UbusFails
        /\ pc' = "sleep" /\ UNCHANGED notExists
  /\ raced' = FALSE
  /\ UNCHANGED <<clockVars, resetTimes, lost, via, job, ifVars, downBy, cut,
                 worldVars, bounds>>

(* Mutant: an address does not clear the count of resets. *)
MutAddressSeen == ipAge' = 0 /\ UNCHANGED resetTimes

AddressSeen == ipAge' = 0 /\ resetTimes' = 0

(* Mutant: the stamp is renewed in every pass. *)
MutMissingFor == 0

(* The stamp is renewed when the interface comes into being. *)
MissingFor == IF notExists THEN 0 ELSE ipAge

(* check_wwan_status *)
ReadAddr ==
  /\ pc = "addr"
  /\ notExists' = FALSE /\ via' = IF ip THEN "cloud" ELSE "addr"
  /\ \/ ip /\ AddressSeen /\ pc' = "cloud" /\ UNCHANGED lost
     \/ /\ ~ip
        /\ ipAge' = MissingFor /\ lost' = MissingFor /\ pc' = "decide"
        /\ UNCHANGED resetTimes
  /\ UNCHANGED <<cloudAge, job, ifVars, ghostIf, worldVars, bounds>>

(* A dump that fails is iterated all the same: a Lua error. *)
AddrCrash == pc = "addr" /\ UbusFails /\ Die

(* Mutant: offline is treated as online. *)
MutOfflineAgeZero(a) == 0

(* A stamp ahead of the clock is taken back to it. *)
OfflineAge(a) == IF a < 0 THEN 0 ELSE a

(* watch_cloud_status, up to the age of cloud_last *)
ReadCloud ==
  /\ pc = "cloud"
  /\ LET age == CASE cloud \in {"skip", "online"} -> 0
                  [] cloud = "offline" -> OfflineAge(cloudAge)
                  [] cloud = "garbled" -> cloudAge
     IN /\ cloudAge' = age /\ lost' = age
        /\ pc' = IF age > PingAfter THEN "ping" ELSE "decide"
  /\ UNCHANGED <<ipAge, notExists, resetTimes, via, job, ifVars, ghostIf,
                 worldVars, bounds>>

(* watch_cloud_status, the ping of the online check host *)
Ping ==
  /\ pc = "ping" /\ pc' = "decide"
  /\ cloudAge' = IF pingable THEN 0 ELSE cloudAge
  /\ lost' = IF pingable THEN 0 ELSE lost
  /\ UNCHANGED <<ipAge, notExists, resetTimes, via, job, ifVars, ghostIf,
                 worldVars, bounds>>

Threshold(n) == n * Step + Base

ResetsLeft == resetTimes < MaxResets

(* check_and_reset: nothing, a reset, or after MaxResets of them a repower *)
CheckAndReset ==
  /\ pc = "decide"
  /\ \/ /\ lost <= Threshold(resetTimes)
        /\ pc' = "sleep" /\ via' = "addr"
        /\ UNCHANGED <<clockVars, resetTimes, job, sinceAct>>
     \/ /\ lost > Threshold(resetTimes) /\ ResetsLeft
        /\ resetTimes' = resetTimes + 1 /\ job' = "reset"
        /\ cloudAge' = 0 /\ sinceAct' = 0 /\ pc' = "down"
        /\ UNCHANGED <<ipAge, via>>
     \/ /\ lost > Threshold(resetTimes) /\ ~ResetsLeft
        /\ resetTimes' = 0 /\ job' = "repower"
        /\ cloudAge' = 0 /\ ipAge' = 0 /\ sinceAct' = 0 /\ pc' = "down"
        /\ UNCHANGED via
  /\ lost' = 0
  /\ UNCHANGED <<notExists, ifVars, ghostIf, worldVars,
                 steps, kills>>

(* reset_wwan_module and repower_wwan_module: ifdown, ... *)
IfDown ==
  /\ pc = "down" /\ pc' = "off" /\ NetifdDown("watch")
  /\ UNCHANGED <<clockVars, loopVars, configured, power, cut, raced,
                 worldVars, bounds>>

(* ... on/off line and reset or power line, killall uqmi, ... *)
PowerOff ==
  /\ pc = "off" /\ pc' = "on" /\ power' = FALSE /\ ip' = FALSE
  /\ UNCHANGED <<clockVars, loopVars, configured, auto, errors, ghostIf,
                 worldVars, bounds>>

(* Mutant: a repower forgets to switch the supply on again. *)
MutPowerOn ==
  /\ pc = "on" /\ pc' = "settle" /\ power' = (job = "reset")
  /\ UNCHANGED <<clockVars, loopVars, configured, auto, errors, ip, ghostIf,
                 worldVars, bounds>>

PowerOn ==
  /\ pc = "on" /\ pc' = "settle" /\ power' = TRUE
  /\ UNCHANGED <<clockVars, loopVars, configured, auto, errors, ip, ghostIf,
                 worldVars, bounds>>

Settle ==
  /\ pc = "settle" /\ pc' = "up" /\ Elapse(ResetTime)
  /\ UNCHANGED <<loopVars, ifVars, ghostIf, worldVars, steps, kills>>

(* Mutant: the ifup is missing. *)
MutIfUp ==
  /\ pc = "up" /\ pc' = "sleep" /\ job' = "idle" /\ cut' = FALSE
  /\ via' = "addr" /\ raced' = FALSE
  /\ UNCHANGED <<clockVars, notExists, resetTimes, lost, ifVars, downBy,
                 worldVars, bounds>>

(* ... and ifup, whatever happened to the interface meanwhile. *)
IfUp ==
  /\ pc = "up" /\ pc' = "sleep" /\ job' = "idle" /\ cut' = FALSE
  /\ via' = "addr" /\ raced' = FALSE /\ NetifdUp
  /\ UNCHANGED <<clockVars, notExists, resetTimes, lost, configured, power,
                 worldVars, bounds>>

Sleep ==
  /\ pc = "sleep" /\ pc' = "query" /\ Elapse(Poll)
  /\ UNCHANGED <<loopVars, ifVars, ghostIf, worldVars, steps, kills>>

(* One second, less than a unit of time: it elapses in some naps only. *)
Nap ==
  /\ pc = "nap" /\ pc' = "query" /\ \E d \in {0, 1} : Elapse(d)
  /\ UNCHANGED <<loopVars, ifVars, ghostIf, worldVars, steps, kills>>

(* procd starts a new process, whose locals are initialised afresh. *)
Respawn ==
  /\ pc = "dead" /\ kills <= Retry
  /\ pc' = "query" /\ cloudAge' = 0 /\ ipAge' = 0
  /\ notExists' = TRUE /\ resetTimes' = 0
  /\ UNCHANGED <<lost, via, job, ifVars, ghostIf, worldVars, bounds>>

Kill == pc # "dead" /\ Die

-----------------------------------------------------------------------------
(* The environment *)

SimChange ==
  /\ sim' \in SimStates \ {sim}
  /\ UNCHANGED <<pc, clockVars, loopVars, ifVars, ghostIf, cloud, pingable,
                 bounds>>

CloudChange ==
  /\ cloud' \in CloudStates /\ pingable' \in BOOLEAN
  /\ <<cloud', pingable'>> # <<cloud, pingable>>
  /\ UNCHANGED <<pc, clockVars, loopVars, ifVars, ghostIf, sim, bounds>>

ConfigChange ==
  /\ configured' = ~configured
  /\ UNCHANGED <<pc, clockVars, loopVars, auto, errors, ip, power, ghostIf,
                 worldVars, bounds>>

LinkUp ==
  /\ auto /\ power /\ ~ip /\ ip' = TRUE
  /\ UNCHANGED <<pc, clockVars, loopVars, configured, auto, errors, power,
                 ghostIf, worldVars, bounds>>

LinkDown ==
  /\ ip /\ ip' = FALSE
  /\ UNCHANGED <<pc, clockVars, loopVars, configured, auto, errors, power,
                 ghostIf, worldVars, bounds>>

(* The protocol handler gives up: autostart off, with an error recorded. *)
ProtoBlock ==
  /\ auto /\ auto' = FALSE /\ errors' = TRUE /\ ip' = FALSE
  /\ downBy' = "proto"
  /\ raced' = (pc \in Looked \/ raced)
  /\ UNCHANGED <<pc, clockVars, loopVars, configured, power, cut, worldVars,
                 bounds>>

AdminDown ==
  /\ auto \/ downBy # "admin"
  /\ NetifdDown("admin")
  /\ raced' = (pc \in Looked \/ raced)
  /\ UNCHANGED <<pc, clockVars, loopVars, configured, power, cut, worldVars,
                 bounds>>

AdminUp ==
  /\ ~auto /\ NetifdUp
  /\ raced' = (pc \in Looked \/ raced)
  /\ UNCHANGED <<pc, clockVars, loopVars, configured, power, cut, worldVars,
                 bounds>>

(* A step of the wall clock, between two passes of the loop. *)
ClockStep ==
  /\ pc \in {"sleep", "nap", "query"} /\ steps < MaxSteps
  /\ steps' = steps + 1
  /\ \E d \in ClockSteps :
        /\ cloudAge' = Capped(cloudAge + d)
        /\ ipAge' = Capped(ipAge + d)
  /\ UNCHANGED <<pc, loopVars, ifVars, ghostIf, worldVars, kills, sinceAct>>

-----------------------------------------------------------------------------
Pass == \/ Query \/ ReadIface \/ ReadAddr \/ ReadCloud \/ Ping
        \/ CheckAndReset \/ IfDown \/ PowerOff \/ PowerOn \/ Settle \/ IfUp
        \/ Sleep \/ Nap \/ Respawn

Fault == QueryCrash \/ SlowAnswer \/ AddrCrash \/ Kill \/ ClockStep

World == \/ SimChange \/ CloudChange \/ ConfigChange
         \/ LinkUp \/ LinkDown \/ ProtoBlock \/ AdminDown \/ AdminUp

Next == Pass \/ Fault \/ World

Spec == Init /\ [][Next]_vars

(* The loop is a running process: it is scheduled again and again. *)
FairSpec == Spec /\ WF_vars(Pass)

-----------------------------------------------------------------------------
(* Properties *)

(* Outside a reset window the modem's lines are on and the interface is not *)
(* left down by the watchdog, unless its process died inside a window:      *)
(* every path through a reset or repower ends with the lines on and ifup.   *)
ModuleLeftAsFound ==
  pc \notin Window => (power /\ downBy # "watch") \/ cut

(* Only a missing address leads to a repower.  check_and_reset offers both  *)
(* remedies to both of its callers, but watch_cloud_status is only called   *)
(* right after wwan_reset_times was cleared: with an address and a dead     *)
(* cloud the modem is reset for ever and never re-powered.                  *)
RepowerMeansNoAddress ==
  pc = "down" /\ job = "repower" => via = "addr"

(* An interface the administrator disabled is not touched: when a remedy    *)
(* starts on a disabled interface, it was disabled after this pass of the   *)
(* loop had looked at it.                                                   *)
DisabledIsLeftAlone ==
  pc = "down" /\ ~auto /\ ~errors => raced

(* The comment in check_and_reset: the next check after a reset will be two *)
(* minutes (Step) later.  sinceAct is the real time since the last remedy.  *)
NextCheckTwoMinutesLater ==
  pc = "decide" /\ lost > Threshold(resetTimes) => sinceAct >= Step

(* A modem whose lines were left off stays off: it has no card to show, so  *)
(* the watchdog never gets as far as the remedy that would switch it on.    *)
PowerLossIsFinal ==
  [][~power /\ pc \notin Window => ~power' /\ pc' \notin Window]_vars

(* The interface is down because a watchdog died before its ifup. *)
Stranded == downBy = "watch" /\ ~auto /\ ~errors /\ pc \notin Window

(* An interface the dead watchdog left down stays down: for its successor   *)
(* it looks disabled by hand.  Only an administrator moves it on.           *)
StrandedUntilAdmin ==
  [][Stranded /\ ~Stranded' => AdminUp \/ AdminDown]_vars

(* A reset window always ends with the interface up and the modem on, when  *)
(* the process is left alone.                                               *)
WindowCloses ==
  pc = "down" ~> pc = "sleep" /\ auto /\ power

(* The premise of the liveness properties: a card, a configured interface   *)
(* that is enabled whenever the watchdog itself does not hold it down.      *)
Watched ==
  sim = "ccid" /\ configured /\ (auto \/ pc \in Window)

(* With the address missing for good, the modem is re-powered again and     *)
(* again: no state of the ladder or of a stepped clock blinds the watchdog. *)
MissingAddressEscalates ==
  <>[](Watched /\ ~ip) => []<>(pc = "down" /\ job = "repower")

(* With the cloud unreachable for good, some remedy is tried again and      *)
(* again, whether or not the interface keeps its address meanwhile.         *)
MissingCloudIsActedOn ==
  <>[](Watched /\ cloud = "offline" /\ ~pingable) => []<>(pc = "down")

(* The ladder this daemon implements: connectivity is in sight from the     *)
(* moment a pass has read an address until that pass has decided.           *)
Ladder == INSTANCE ResetLadder
  WITH Rungs <- MaxResets,
       rung <- IF pc = "dead" THEN 0 ELSE resetTimes,
       remedy <- CASE pc = "dead"                       -> "dead"
                   [] pc # "dead" /\ job = "idle"       -> "idle"
                   [] pc # "dead" /\ job = "reset"      -> "soft"
                   [] pc # "dead" /\ job = "repower"    -> "hard",
       sight <- via = "cloud" /\ pc \in {"cloud", "ping", "decide"}

(* A repower follows three resets between which no pass saw an address and  *)
(* the daemon did not die; a pass that sees one starts the count again.     *)
LadderSpec == Ladder!Spec
=============================================================================
