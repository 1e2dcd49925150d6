------------------------------ MODULE BacCron ------------------------------
(***************************************************************************)
(* The BACnet client plugin of LuCI: an rpcd script whose calls answer     *)
(* from files under /tmp/bac and leave request markers there, and a cron   *)
(* job that runs once a minute, serves the markers with background worker  *)
(* processes and publishes new files.                                      *)
(*                                                                         *)
(* The only synchronisation is the process table: before it spawns and     *)
(* after it has spawned, the script counts the processes called            *)
(* bacnetclient.  It counts itself and the subshell that runs pidof, its   *)
(* workers, and every other run of the script, whoever started it (the     *)
(* calls of pages end at once and are left out of the count).              *)
(***************************************************************************)
EXTENDS Naturals, FiniteSets

CONSTANTS Devices,      \* the BACnet devices on the network
          Crons,        \* bound: runs of the cron job that may overlap
          Throttle,     \* 20: no worker is spawned above this count
          Barrier,      \* 2: the count of a run without any other process
          RpcKinds      \* the calls LuCI's pages may make

ASSUME CountAssumption ==
  /\ IsFiniteSet(Devices) /\ IsFiniteSet(Crons)
  /\ Barrier = 2 /\ Throttle \in Nat /\ Throttle > Barrier

Kinds == {"dev", "ev", "obj", "devev"}

ASSUME RpcAssumption == RpcKinds \subseteq Kinds

(* The kinds whose pages poll, apart from the object lists of the devices. *)
Polled == {"dev", "ev"}

(* No open request (none made, or the last one answered), one that no run   *)
(* has looked at yet, one that a run has taken up, one that came to nothing *)
(* because bacwi failed.                                                    *)
Outcomes == {"none", "asked", "read", "failed"}

VARIABLES
  pc,           \* where each run of the cron job is, "off" when there is none
  todo,         \* devices a run still has to spawn for or to collect
  found,        \* devices the run's bacwi found
  collected,    \* devices in the list the run puts together
  worker,       \* the background process of a run for a device
  get,          \* the <kind>.json.get markers that exist
  objGet,       \* devices with an objlist_<id>.json.get marker
  due,          \* <kind>.last files older than their interval
  listed,       \* devlist.json exists
  devlist,      \* the devices in it
  devTmp,       \* devices with a devlist_<id>.tmp file
  objlist,      \* devices with an objlist_<id>.json file
  silent,       \* devices that do not answer
  \* history
  request       \* what became of a page's request, per polled kind

runVars  == <<pc, todo, found, collected, worker>>
fileVars == <<get, objGet, due, listed, devlist, devTmp, objlist>>
outside  == <<silent, request>>
vars == <<runVars, fileVars, outside>>

PCs == {"off", "checkDev", "spawnDev", "waitDev", "collect", "clearDev",
        "checkEv", "readEv", "clearEv", "checkObj", "spawnObj", "waitObj",
        "clearObj", "checkDevEv", "spin", "clearDevEv", "collectd"}

Waiting == {"waitDev", "waitObj"}

TypeOK ==
  /\ pc \in [Crons -> PCs]
  /\ todo \in [Crons -> SUBSET Devices]
  /\ found \in [Crons -> SUBSET Devices]
  /\ collected \in [Crons -> SUBSET Devices]
  /\ worker \in [Crons -> [Devices -> {"none", "dev", "devTmp", "obj", "objNew"}]]
  /\ get \subseteq Kinds /\ objGet \subseteq Devices
  /\ due \subseteq {"dev", "ev", "collectd"}
  /\ listed \in BOOLEAN /\ devlist \subseteq Devices
  /\ devTmp \subseteq Devices /\ objlist \subseteq Devices
  /\ silent \subseteq Devices
  /\ request \in [Polled -> Outcomes]

-----------------------------------------------------------------------------
(* The process table *)

Runs == {c \in Crons : pc[c] # "off"}
Workers == {w \in Crons \X Devices : worker[w[1]][w[2]] # "none"}

(* Mutant: the run does not count its own subshell. *)
MutPidof == Cardinality(Runs) + Cardinality(Workers)

(* pidof bacnetclient | wc -w, as a run of the script sees it: every run,   *)
(* every worker, and the subshell of the command substitution.              *)
Pidof == Cardinality(Runs) + Cardinality(Workers) + 1

Goto(c, l) == pc' = [pc EXCEPT ![c] = l]

(* Mutant: the list is only made when its interval is over. *)
MutWanted(k) == k \in due

(* A list is made when its marker exists; an interval that is over sets it. *)
Wanted(k) == k \in get \cup due

(* An open request moves on; one made after the run looked stays as it is. *)
Turn(k, from, to) ==
  request' = [request EXCEPT ![k] = IF @ = from THEN to ELSE @]

Init ==
  /\ pc = [c \in Crons |-> "off"]
  /\ todo = [c \in Crons |-> {}] /\ found = [c \in Crons |-> {}]
  /\ collected = [c \in Crons |-> {}]
  /\ worker = [c \in Crons |-> [d \in Devices |-> "none"]]
  /\ get = {} /\ objGet = {} /\ due = {"dev", "ev", "collectd"}
  /\ listed = FALSE /\ devlist = {} /\ devTmp = {} /\ objlist = {}
  /\ silent = {} /\ request = [k \in Polled |-> "none"]

-----------------------------------------------------------------------------
(* One run of the cron job, in the order of the _cron branch *)

(* crond starts a run every minute, but not while the one it started before *)
(* is still there.  A restarted crond (the package restarts it on           *)
(* installation) knows of no earlier run: then runs overlap.                *)
Launch(c) ==
  /\ pc[c] = "off" /\ Goto(c, "checkDev")
  /\ UNCHANGED <<todo, found, collected, worker, fileVars, outside>>

(* [ -f devlist.json.get ] && devlist, up to the answer of bacwi *)
CheckDev(c) ==
  /\ pc[c] = "checkDev"
  /\ \/ /\ ~Wanted("dev") /\ Goto(c, "clearDev")
        /\ UNCHANGED <<todo, found, collected, get, due, request>>
     \/ /\ Wanted("dev")
        /\ get' = get \cup (due \cap {"dev"})
        /\ due' = due \ {"dev"}
        /\ \/ /\ \E ds \in SUBSET Devices :
                    /\ todo' = [todo EXCEPT ![c] = ds]
                    /\ found' = [found EXCEPT ![c] = ds]
              /\ collected' = [collected EXCEPT ![c] = {}]
              /\ Goto(c, "spawnDev") /\ Turn("dev", "asked", "read")
           \/ /\ Goto(c, "clearDev") /\ Turn("dev", "asked", "failed")
              /\ UNCHANGED <<todo, found, collected>>
  /\ UNCHANGED <<worker, objGet, listed, devlist, devTmp, objlist, silent>>

SpawnDev(c) ==
  /\ pc[c] = "spawnDev"
  /\ \/ /\ todo[c] = {} /\ Goto(c, "waitDev")
        /\ todo' = [todo EXCEPT ![c] = found[c]]
        /\ UNCHANGED worker
     \/ /\ Pidof <= Throttle
        /\ \E d \in todo[c] :
              /\ worker' = [worker EXCEPT ![c][d] = "dev"]
              /\ todo' = [todo EXCEPT ![c] = @ \ {d}]
        /\ UNCHANGED pc
  /\ UNCHANGED <<found, collected, fileVars, outside>>

(* get_devlist: the background process removes the device's file ... *)
DevWorkerStart(c, d) ==
  /\ worker[c][d] = "dev"
  /\ devTmp' = devTmp \ {d}
  /\ worker' = [worker EXCEPT ![c][d] = "devTmp"]
  /\ UNCHANGED <<pc, todo, found, collected, get, objGet, due, listed, devlist,
                 objlist, outside>>

(* ... asks the device and writes the file anew. *)
DevWorkerEnd(c, d) ==
  /\ worker[c][d] = "devTmp"
  /\ devTmp' = devTmp \cup {d}
  /\ worker' = [worker EXCEPT ![c][d] = "none"]
  /\ UNCHANGED <<pc, todo, found, collected, get, objGet, due, listed, devlist,
                 objlist, outside>>

(* while [ pidof bacnetclient -gt 2 ]: until nobody else is there *)
WaitDev(c) ==
  /\ pc[c] = "waitDev" /\ Pidof <= Barrier /\ Goto(c, "collect")
  /\ UNCHANGED <<todo, found, collected, worker, fileVars, outside>>

(* Collect the files of the workers one by one, then publish the list. *)
Collect(c) ==
  /\ pc[c] = "collect"
  /\ \/ \E d \in todo[c] :
           /\ todo' = [todo EXCEPT ![c] = @ \ {d}]
           /\ collected' = [collected EXCEPT ![c] = @ \cup ({d} \cap devTmp)]
           /\ devTmp' = devTmp \ {d}
           /\ UNCHANGED <<pc, listed, devlist, request>>
     \/ /\ todo[c] = {}
        /\ listed' = TRUE /\ devlist' = collected[c]
        /\ Goto(c, "clearDev") /\ Turn("dev", "read", "none")
        /\ UNCHANGED <<todo, collected, devTmp>>
  /\ UNCHANGED <<found, worker, get, objGet, due, objlist, silent>>

(* rm -f devlist.json.get *)
ClearDev(c) ==
  /\ pc[c] = "clearDev" /\ Goto(c, "checkEv")
  /\ get' = get \ {"dev"}
  /\ UNCHANGED <<todo, found, collected, worker, objGet, due, listed, devlist,
                 devTmp, objlist, outside>>

(* eventlist: without a device list it asks for one, finds no devices and   *)
(* publishes an empty list.                                                 *)
CheckEv(c) ==
  /\ pc[c] = "checkEv"
  /\ \/ ~Wanted("ev") /\ Goto(c, "clearEv") /\ UNCHANGED <<todo, get, due, request>>
     \/ /\ Wanted("ev") /\ Goto(c, "readEv") /\ Turn("ev", "asked", "read")
        /\ todo' = [todo EXCEPT ![c] = devlist]
        /\ get' = get \cup (due \cap {"ev"})
                      \cup (IF listed THEN {} ELSE {"dev"})
        /\ due' = due \ {"ev"}
  /\ UNCHANGED <<found, collected, worker, objGet, listed, devlist, devTmp,
                 objlist, silent>>

(* The devices are asked one after the other, with up to three retries      *)
(* each, and the list is published.                                         *)
ReadEv(c) ==
  /\ pc[c] = "readEv"
  /\ \/ /\ todo[c] = {} /\ Goto(c, "clearEv") /\ Turn("ev", "read", "none")
        /\ UNCHANGED todo
     \/ /\ \E d \in todo[c] : todo' = [todo EXCEPT ![c] = @ \ {d}]
        /\ UNCHANGED <<pc, request>>
  /\ UNCHANGED <<found, collected, worker, fileVars, silent>>

ClearEv(c) ==
  /\ pc[c] = "clearEv" /\ Goto(c, "checkObj")
  /\ get' = get \ {"ev"}
  /\ UNCHANGED <<todo, found, collected, worker, objGet, due, listed, devlist,
                 devTmp, objlist, outside>>

(* objlistjson: the listed devices that have a marker of their own *)
CheckObj(c) ==
  /\ pc[c] = "checkObj"
  /\ \/ /\ "obj" \notin get /\ Goto(c, "clearObj")
        /\ UNCHANGED <<todo, get>>
     \/ /\ "obj" \in get /\ Goto(c, "spawnObj")
        /\ todo' = [todo EXCEPT ![c] = devlist \cap objGet]
        /\ get' = IF listed THEN get ELSE get \cup {"dev"}
  /\ UNCHANGED <<found, collected, worker, objGet, due, listed, devlist, devTmp,
                 objlist, outside>>

SpawnObj(c) ==
  /\ pc[c] = "spawnObj"
  /\ \/ todo[c] = {} /\ Goto(c, "waitObj") /\ UNCHANGED <<todo, worker>>
     \/ /\ Pidof <= Throttle
        /\ \E d \in todo[c] :
              /\ worker' = [worker EXCEPT ![c][d] = "obj"]
              /\ todo' = [todo EXCEPT ![c] = @ \ {d}]
        /\ UNCHANGED pc
  /\ UNCHANGED <<found, collected, fileVars, outside>>

(* get_objlist: read the device's objects and publish them (a device that   *)
(* names no object gets no file).  A device that does not answer keeps the  *)
(* worker in the loop that reads the list piece by piece ...                *)
ObjWorkerPublish(c, d) ==
  /\ worker[c][d] = "obj" /\ d \notin silent
  /\ objlist' \in {objlist, objlist \cup {d}}
  /\ worker' = [worker EXCEPT ![c][d] = "objNew"]
  /\ UNCHANGED <<pc, todo, found, collected, get, objGet, due, listed, devlist,
                 devTmp, outside>>

(* Mutant: the marker is left behind. *)
MutObjWorkerEnd(c, d) ==
  /\ worker[c][d] = "objNew"
  /\ worker' = [worker EXCEPT ![c][d] = "none"]
  /\ UNCHANGED <<pc, todo, found, collected, fileVars, outside>>

(* ... and remove the device's marker. *)
ObjWorkerEnd(c, d) ==
  /\ worker[c][d] = "objNew"
  /\ objGet' = objGet \ {d}
  /\ worker' = [worker EXCEPT ![c][d] = "none"]
  /\ UNCHANGED <<pc, todo, found, collected, get, due, listed, devlist, devTmp,
                 objlist, outside>>

WaitObj(c) ==
  /\ pc[c] = "waitObj" /\ Pidof <= Barrier /\ Goto(c, "clearObj")
  /\ UNCHANGED <<todo, found, collected, worker, fileVars, outside>>

ClearObj(c) ==
  /\ pc[c] = "clearObj" /\ Goto(c, "checkDevEv")
  /\ get' = get \ {"obj"}
  /\ UNCHANGED <<todo, found, collected, worker, objGet, due, listed, devlist,
                 devTmp, objlist, outside>>

(* eventlistjson's loop over the list does not move on to the next index: a *)
(* first entry keeps it there.                                              *)
Spins == listed /\ devlist # {}

CheckDevEv(c) ==
  /\ pc[c] = "checkDevEv"
  /\ Goto(c, IF "devev" \in get /\ Spins THEN "spin" ELSE "clearDevEv")
  /\ UNCHANGED <<todo, found, collected, worker, fileVars, outside>>

ClearDevEv(c) ==
  /\ pc[c] = "clearDevEv" /\ Goto(c, "collectd")
  /\ get' = get \ {"devev"}
  /\ UNCHANGED <<todo, found, collected, worker, objGet, due, listed, devlist,
                 devTmp, objlist, outside>>

(* The kinds get_collectd asks for, given the devices it is to log. *)
AsksFor(logged) ==
  {k \in {"dev", "obj"} : IF k = "dev" THEN logged = {} ELSE logged \ objlist # {}}

(* get_collectd asks for what it misses, about the listed devices that are   *)
(* not on its deny list, unless statistics are switched off; the run ends.   *)
Collectd(c) ==
  /\ pc[c] = "collectd" /\ Goto(c, "off")
  /\ due' = due \ {"collectd"}
  /\ \/ UNCHANGED <<get, objGet>>
     \/ /\ "collectd" \in due
        /\ \E logged \in SUBSET devlist :
              /\ get' = get \cup AsksFor(logged)
              /\ objGet' = objGet \cup (logged \ objlist)
  /\ UNCHANGED <<todo, found, collected, worker, listed, devlist, devTmp,
                 objlist, outside>>

-----------------------------------------------------------------------------
(* The calls of LuCI's pages, and time *)

(* A call leaves a marker; when one is there already, or was removed before *)
(* a run looked at it, the page's request is still the same one.            *)
RpcMark(k) ==
  /\ k \in RpcKinds \ {"obj"}
  /\ k \notin get \/ (k \in Polled /\ request[k] \in {"none", "failed"})
  /\ get' = get \cup {k}
  /\ request' = IF k \in Polled /\ request[k] \in {"none", "failed"}
                THEN [request EXCEPT ![k] = "asked"] ELSE request
  /\ UNCHANGED <<runVars, objGet, due, listed, devlist, devTmp, objlist, silent>>

(* objlist: a marker for the device, then one for the kind *)
RpcObj(d) ==
  /\ "obj" \in RpcKinds /\ ~("obj" \in get /\ d \in objGet)
  /\ objGet' = objGet \cup {d} /\ get' = get \cup {"obj"}
  /\ UNCHANGED <<runVars, due, listed, devlist, devTmp, objlist, outside>>

Expire(k) ==
  /\ k \notin due /\ due' = due \cup {k}
  /\ UNCHANGED <<runVars, get, objGet, listed, devlist, devTmp, objlist, outside>>

Silence(d) ==
  /\ d \notin silent /\ silent' = silent \cup {d}
  /\ UNCHANGED <<runVars, fileVars, request>>

Answers(d) ==
  /\ d \in silent /\ silent' = silent \ {d}
  /\ UNCHANGED <<runVars, fileVars, request>>

-----------------------------------------------------------------------------
Work(c) ==
  \/ CheckDev(c) \/ SpawnDev(c) \/ WaitDev(c) \/ Collect(c) \/ ClearDev(c)
  \/ CheckEv(c) \/ ReadEv(c) \/ ClearEv(c)
  \/ CheckObj(c) \/ SpawnObj(c) \/ WaitObj(c) \/ ClearObj(c)
  \/ CheckDevEv(c) \/ ClearDevEv(c) \/ Collectd(c)

Background(c, d) ==
  \/ DevWorkerStart(c, d) \/ DevWorkerEnd(c, d)
  \/ ObjWorkerPublish(c, d) \/ ObjWorkerEnd(c, d)

Next ==
  \/ \E c \in Crons : Launch(c) \/ Work(c)
  \/ \E c \in Crons, d \in Devices : Background(c, d)
  \/ \E k \in Kinds : RpcMark(k)
  \/ \E d \in Devices : RpcObj(d) \/ Silence(d) \/ Answers(d)
  \/ \E k \in {"dev", "ev", "collectd"} : Expire(k)

Spec == Init /\ [][Next]_vars

(* crond, the runs and their workers are scheduled; a worker that tries     *)
(* again and again meets a time when its device answers, unless the device  *)
(* is silent for ever.  Pages, devices and time are free.                   *)
FairSpec ==
  /\ Spec
  /\ \A c \in Crons : WF_vars(Launch(c)) /\ WF_vars(Work(c))
  /\ \A c \in Crons, d \in Devices : SF_vars(Background(c, d))

(* The open pages of LuCI poll every five seconds, so also between two runs *)
(* of the cron job, which is launched once a minute.                        *)
PolledSpec ==
  /\ FairSpec
  /\ \A d \in Devices : SF_vars(RpcObj(d) /\ Runs = {})
  /\ \A k \in Polled : SF_vars(RpcMark(k) /\ Runs = {})

-----------------------------------------------------------------------------
(* Properties *)

(* The list is put together only when the run's own workers have all        *)
(* written their files, although the run waits for a count, not for them.   *)
CollectAfterWorkers ==
  \A c \in Crons : pc[c] = "collect" => \A d \in Devices : worker[c][d] = "none"

(* The published list holds every device the run found.  This needs runs    *)
(* that do not overlap: a second run's workers remove files that the first  *)
(* run has yet to collect.                                                  *)
ListIsComplete ==
  \A c \in Crons : pc[c] = "collect" /\ todo[c] = {} => collected[c] = found[c]

(* What overlapping runs do to each other: a run that has come to a barrier *)
(* stays there as long as another one waits at a barrier or spins.  Two     *)
(* runs at their barriers therefore wait for each other for ever.           *)
BarriersDeadlock ==
  [][\A c \in Crons : \A b \in Crons \ {c} :
        pc[c] \in Waiting /\ pc[b] \in Waiting \cup {"spin"} => pc'[c] = pc[c]]_vars

(* A run that nothing in the job itself will move on: it spins over the     *)
(* device list, or its worker asks a device that does not answer.           *)
Blocked ==
  \E c \in Crons : \/ pc[c] = "spin"
                    \/ \E d \in silent : worker[c][d] = "obj"

(* What a page keeps asking for, a run takes up and answers, or bacwi has   *)
(* failed; a marker that a run removes without having looked at it is no    *)
(* answer.  The exception is a run that is blocked for ever.                *)
RequestsAreAnswered ==
  []<>~Blocked => \A k \in Polled :
                    request[k] = "asked" ~> request[k] \in {"none", "failed"}

(* The objects of a listed device are read when a page keeps asking for     *)
(* them, with the same exception.  (Asking once is not enough: the marker   *)
(* of the kind is removed at the end of a run that may have started before  *)
(* the request.)                                                            *)
PolledObjectsAreRead ==
  []<>~Blocked => \A d \in Devices :
                    d \in objGet ~> d \notin objGet \/ d \notin devlist
=============================================================================
