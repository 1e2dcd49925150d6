--------------------------- MODULE BacCron_proofs ---------------------------
(***************************************************************************)
(* Safety of the cron job for any number of devices, runs and processes:   *)
(* type correctness, what a barrier that is passed says of the others, and *)
(* the completeness of the list when runs do not overlap.                  *)
(***************************************************************************)
EXTENDS BacCron, FiniteSetTheorems, TLAPS

USE DEF PCs, Kinds

(* A request that moves on has one of the outcomes. *)
LEMMA TurnType ==
  ASSUME request \in [Polled -> Outcomes], NEW k \in Polled,
         NEW from \in Outcomes, NEW to \in Outcomes, Turn(k, from, to)
  PROVE  request' \in [Polled -> Outcomes]
  BY DEF Turn

(* So does one that a page makes. *)
LEMMA MarkType ==
  ASSUME request \in [Polled -> Outcomes], NEW k \in Kinds, RpcMark(k)
  PROVE  request' \in [Polled -> Outcomes]
<1>1. CASE k \in Polled /\ request' = [request EXCEPT ![k] = "asked"]
  BY <1>1 DEF Outcomes
<1> QED BY <1>1 DEF RpcMark

(* Every variable of the job keeps its type. *)
THEOREM TypeCorrect == Spec => []TypeOK
<1>1. Init => TypeOK
  <2> SUFFICES ASSUME Init PROVE TypeOK
    OBVIOUS
  <2>1. listed \in BOOLEAN
    BY Zenon DEF Init
  <2> QED BY <2>1 DEF Init, TypeOK, Outcomes
<1>2. TypeOK /\ [Next]_vars => TypeOK'
  <2> SUFFICES ASSUME TypeOK, [Next]_vars PROVE TypeOK'
    OBVIOUS
  <2> USE DEF TypeOK, Goto, runVars, fileVars, outside
  <2>1. ASSUME NEW c \in Crons, Launch(c) PROVE TypeOK'
    BY <2>1 DEF Launch
  <2>2. ASSUME NEW c \in Crons,
               CheckDev(c) \/ SpawnDev(c) \/ WaitDev(c) \/ Collect(c) \/ ClearDev(c)
        PROVE TypeOK'
    <3>1. CASE CheckDev(c)
      <4>1. pc' \in [Crons -> PCs]
        BY <3>1 DEF CheckDev
      <4>2. todo' \in [Crons -> SUBSET Devices] /\ found' \in [Crons -> SUBSET Devices]
        <5>1. CASE \E ds \in SUBSET Devices : /\ todo' = [todo EXCEPT ![c] = ds]
                                             /\ found' = [found EXCEPT ![c] = ds]
          BY <5>1
        <5> QED BY <3>1, <5>1 DEF CheckDev
      <4>3. collected' \in [Crons -> SUBSET Devices]
        BY <3>1 DEF CheckDev
      <4>4. get' \subseteq Kinds /\ due' \subseteq {"dev", "ev", "collectd"}
        BY <3>1 DEF CheckDev
      <4>5. request' \in [Polled -> Outcomes]
        BY <3>1, TurnType DEF CheckDev, Polled, Outcomes
      <4> QED BY <3>1, <4>1, <4>2, <4>3, <4>4, <4>5 DEF CheckDev
    <3>2. CASE SpawnDev(c)
      <4>1. pc' \in [Crons -> PCs]
        BY <3>2 DEF SpawnDev
      <4>2. todo' \in [Crons -> SUBSET Devices]
        <5>1. CASE todo' = [todo EXCEPT ![c] = found[c]]
          BY <5>1
        <5>2. CASE \E d \in todo[c] : todo' = [todo EXCEPT ![c] = @ \ {d}]
          <6>1. PICK d \in todo[c] : todo' = [todo EXCEPT ![c] = @ \ {d}]
            BY <5>2
          <6> QED BY <6>1
        <5> QED BY <3>2, <5>1, <5>2 DEF SpawnDev
      <4>3. worker' \in [Crons -> [Devices -> {"none", "dev", "devTmp", "obj", "objNew"}]]
        <5>1. CASE \E d \in todo[c] : worker' = [worker EXCEPT ![c][d] = "dev"]
          <6>1. PICK d \in todo[c] : worker' = [worker EXCEPT ![c][d] = "dev"]
            BY <5>1
          <6>2. d \in Devices
            OBVIOUS
          <6> QED BY <6>1, <6>2
        <5> QED BY <3>2, <5>1 DEF SpawnDev
      <4> QED BY <3>2, <4>1, <4>2, <4>3 DEF SpawnDev
    <3>3. CASE WaitDev(c)
      BY <3>3 DEF WaitDev
    <3>4. CASE Collect(c)
      <4>1. pc' \in [Crons -> PCs]
        BY <3>4 DEF Collect
      <4>2. todo' \in [Crons -> SUBSET Devices]
        BY <3>4 DEF Collect
      <4>3. collected' \in [Crons -> SUBSET Devices] /\ devTmp' \subseteq Devices
        BY <3>4 DEF Collect
      <4>4. listed' \in BOOLEAN /\ devlist' \subseteq Devices
        BY <3>4 DEF Collect
      <4>5. request' \in [Polled -> Outcomes]
        BY <3>4, TurnType DEF Collect, Polled, Outcomes
      <4> QED BY <3>4, <4>1, <4>2, <4>3, <4>4, <4>5 DEF Collect
    <3>5. CASE ClearDev(c)
      BY <3>5 DEF ClearDev
    <3> QED BY <2>2, <3>1, <3>2, <3>3, <3>4, <3>5
  <2>3. ASSUME NEW c \in Crons, CheckEv(c) \/ ReadEv(c) \/ ClearEv(c)
        PROVE TypeOK'
    <3>1. CASE CheckEv(c)
      <4>1. request' \in [Polled -> Outcomes]
        BY <3>1, TurnType DEF CheckEv, Polled, Outcomes
      <4> QED BY <3>1, <4>1 DEF CheckEv
    <3>2. CASE ReadEv(c)
      <4>1. request' \in [Polled -> Outcomes]
        BY <3>2, TurnType DEF ReadEv, Polled, Outcomes
      <4>2. pc' \in [Crons -> PCs]
        BY <3>2 DEF ReadEv
      <4>3. todo' \in [Crons -> SUBSET Devices]
        BY <3>2 DEF ReadEv
      <4> QED BY <3>2, <4>1, <4>2, <4>3 DEF ReadEv
    <3>3. CASE ClearEv(c)
      BY <3>3 DEF ClearEv
    <3> QED BY <2>3, <3>1, <3>2, <3>3
  <2>4. ASSUME NEW c \in Crons, CheckObj(c) \/ SpawnObj(c) \/ WaitObj(c) \/ ClearObj(c)
        PROVE TypeOK'
    <3>1. CASE CheckObj(c)
      <4>1. pc' \in [Crons -> PCs]
        BY <3>1 DEF CheckObj
      <4>2. todo' \in [Crons -> SUBSET Devices]
        BY <3>1 DEF CheckObj
      <4>3. get' \subseteq Kinds
        BY <3>1 DEF CheckObj
      <4> QED BY <3>1, <4>1, <4>2, <4>3 DEF CheckObj
    <3>2. CASE SpawnObj(c)
      <4>1. pc' \in [Crons -> PCs]
        BY <3>2 DEF SpawnObj
      <4>2. todo' \in [Crons -> SUBSET Devices]
        BY <3>2 DEF SpawnObj
      <4>3. worker' \in [Crons -> [Devices -> {"none", "dev", "devTmp", "obj", "objNew"}]]
        <5>1. CASE \E d \in todo[c] : worker' = [worker EXCEPT ![c][d] = "obj"]
          <6>1. PICK d \in todo[c] : worker' = [worker EXCEPT ![c][d] = "obj"]
            BY <5>1
          <6>2. d \in Devices
            OBVIOUS
          <6> QED BY <6>1, <6>2
        <5> QED BY <3>2, <5>1 DEF SpawnObj
      <4> QED BY <3>2, <4>1, <4>2, <4>3 DEF SpawnObj
    <3>3. CASE WaitObj(c)
      BY <3>3 DEF WaitObj
    <3>4. CASE ClearObj(c)
      BY <3>4 DEF ClearObj
    <3> QED BY <2>4, <3>1, <3>2, <3>3, <3>4
  <2>5. ASSUME NEW c \in Crons, CheckDevEv(c) \/ ClearDevEv(c) \/ Collectd(c)
        PROVE TypeOK'
    <3>1. CASE CheckDevEv(c)
      BY <3>1 DEF CheckDevEv
    <3>2. CASE ClearDevEv(c)
      BY <3>2 DEF ClearDevEv
    <3>3. CASE Collectd(c)
      BY <3>3 DEF Collectd, AsksFor
    <3> QED BY <2>5, <3>1, <3>2, <3>3
  <2>6. ASSUME NEW c \in Crons, NEW d \in Devices, Background(c, d) PROVE TypeOK'
    <3>1. CASE DevWorkerStart(c, d)
      BY <3>1 DEF DevWorkerStart
    <3>2. CASE DevWorkerEnd(c, d)
      BY <3>2 DEF DevWorkerEnd
    <3>3. CASE ObjWorkerPublish(c, d)
      BY <3>3 DEF ObjWorkerPublish
    <3>4. CASE ObjWorkerEnd(c, d)
      BY <3>4 DEF ObjWorkerEnd
    <3> QED BY <2>6, <3>1, <3>2, <3>3, <3>4 DEF Background
  <2>7. ASSUME NEW k \in Kinds, RpcMark(k) PROVE TypeOK'
    BY <2>7, MarkType DEF RpcMark
  <2>8. ASSUME NEW d \in Devices, RpcObj(d) \/ Silence(d) \/ Answers(d) PROVE TypeOK'
    BY <2>8 DEF RpcObj, Silence, Answers
  <2>9. ASSUME NEW k \in {"dev", "ev", "collectd"}, Expire(k) PROVE TypeOK'
    BY <2>9 DEF Expire
  <2>10. CASE UNCHANGED vars
    BY <2>10 DEF vars
  <2> QED BY <2>1, <2>2, <2>3, <2>4, <2>5, <2>6, <2>7, <2>8, <2>9, <2>10 DEF Next, Work
<1> QED BY <1>1, <1>2, PTL DEF Spec

-----------------------------------------------------------------------------
(* The barriers *)

(* A run that gets past a barrier is the only run and there is no worker.  *)
LEMMA BarrierMeansAlone ==
  ASSUME TypeOK, NEW c \in Crons, pc[c] # "off", Pidof <= Barrier
  PROVE  /\ \A b \in Crons \ {c} : pc[b] = "off"
         /\ \A b \in Crons, d \in Devices : worker[b][d] = "none"
<1>1. IsFiniteSet(Runs) /\ c \in Runs
  BY CountAssumption, FS_Subset DEF Runs
<1>2. IsFiniteSet(Crons \X Devices)
  BY CountAssumption, FS_Product
<1>3. IsFiniteSet(Workers)
  BY <1>2, FS_Subset DEF Workers
<1>4. /\ Cardinality(Runs \ {c}) = Cardinality(Runs) - 1
      /\ IsFiniteSet(Runs \ {c})
  BY <1>1, FS_RemoveElement
<1>5. /\ Cardinality(Runs) \in Nat /\ Cardinality(Workers) \in Nat
      /\ Cardinality(Runs \ {c}) \in Nat
  BY <1>1, <1>3, <1>4, FS_CardinalityType
<1>6. Cardinality(Runs \ {c}) = 0 /\ Cardinality(Workers) = 0
  BY <1>4, <1>5, CountAssumption DEF Pidof
<1>7. Runs \ {c} = {} /\ Workers = {}
  BY <1>3, <1>4, <1>6, FS_EmptySet
<1>8. ASSUME NEW b \in Crons, NEW d \in Devices PROVE worker[b][d] = "none"
  <2>1. <<b, d>> \notin Workers
    BY <1>7
  <2> QED BY <2>1 DEF Workers
<1> QED BY <1>7, <1>8 DEF Runs

(* The list is put together when the run's workers have written, for any   *)
(* number of overlapping runs.                                             *)
THEOREM WorkersComeFirst == Spec => []CollectAfterWorkers
<1>1. Init => CollectAfterWorkers
  BY DEF Init, CollectAfterWorkers
<1>2. TypeOK /\ CollectAfterWorkers /\ [Next]_vars => CollectAfterWorkers'
  <2> SUFFICES ASSUME TypeOK, CollectAfterWorkers, [Next]_vars,
                      NEW b \in Crons, pc'[b] = "collect", NEW e \in Devices
               PROVE  worker'[b][e] = "none"
    BY DEF CollectAfterWorkers
  <2> USE DEF TypeOK, CollectAfterWorkers, Goto, runVars, fileVars
  <2>1. ASSUME NEW c \in Crons, Launch(c) PROVE worker'[b][e] = "none"
    BY <2>1 DEF Launch
  <2>2. ASSUME NEW c \in Crons, WaitDev(c) PROVE worker'[b][e] = "none"
    BY <2>2, BarrierMeansAlone DEF WaitDev
  <2>3. ASSUME NEW c \in Crons, SpawnDev(c) \/ SpawnObj(c) PROVE worker'[b][e] = "none"
    BY <2>3 DEF SpawnDev, SpawnObj
  <2>4. ASSUME NEW c \in Crons, Work(c), ~WaitDev(c), ~SpawnDev(c), ~SpawnObj(c)
        PROVE  worker'[b][e] = "none"
    <3>1. UNCHANGED worker
      BY <2>4 DEF Work, CheckDev, Collect, ClearDev, CheckEv, ReadEv, ClearEv, CheckObj,
                  WaitObj, ClearObj, CheckDevEv, ClearDevEv, Collectd
    <3>2. pc'[b] = pc[b] \/ pc'[b] # "collect"
      BY <2>4 DEF Work, CheckDev, Collect, ClearDev, CheckEv, ReadEv, ClearEv, CheckObj,
                  WaitObj, ClearObj, CheckDevEv, ClearDevEv, Collectd
    <3> QED BY <3>1, <3>2
  <2>5. ASSUME NEW c \in Crons, NEW d \in Devices, Background(c, d)
        PROVE  worker'[b][e] = "none"
    BY <2>5 DEF Background, DevWorkerStart, DevWorkerEnd, ObjWorkerPublish, ObjWorkerEnd
  <2>6. CASE UNCHANGED runVars
    BY <2>6
  <2> QED BY <2>1, <2>2, <2>3, <2>4, <2>5, <2>6
          DEF Next, RpcMark, RpcObj, Silence, Answers, Expire, vars
<1> QED BY <1>1, <1>2, TypeCorrect, PTL DEF Spec

(* Runs that wait at barriers wait for each other for ever, and for a run   *)
(* that spins.                                                              *)
THEOREM BarriersNeverOpen == Spec => BarriersDeadlock
<1>1. ASSUME TypeOK, [Next]_vars, NEW c \in Crons, NEW b \in Crons \ {c},
             pc[c] \in Waiting, pc[b] \in Waiting \cup {"spin"}
      PROVE  pc'[c] = pc[c]
  <2> USE <1>1 DEF TypeOK, Goto, Waiting, runVars, fileVars
  <2>1. ~(Pidof <= Barrier)
    BY BarrierMeansAlone
  <2>2. ASSUME NEW a \in Crons, Launch(a) PROVE pc'[c] = pc[c]
    BY <2>2 DEF Launch
  <2>3. ASSUME NEW a \in Crons, Work(a) PROVE pc'[c] = pc[c]
    BY <2>1, <2>3
       DEF Work, CheckDev, SpawnDev, WaitDev, Collect, ClearDev, CheckEv, ReadEv, ClearEv,
           CheckObj, SpawnObj, WaitObj, ClearObj, CheckDevEv, ClearDevEv, Collectd
  <2>4. ASSUME NEW a \in Crons, NEW d \in Devices, Background(a, d) PROVE pc'[c] = pc[c]
    BY <2>4 DEF Background, DevWorkerStart, DevWorkerEnd, ObjWorkerPublish, ObjWorkerEnd
  <2>5. CASE UNCHANGED runVars
    BY <2>5
  <2> QED BY <2>2, <2>3, <2>4, <2>5
          DEF Next, RpcMark, RpcObj, Silence, Answers, Expire, vars
<1>2. TypeOK /\ [Next]_vars =>
        [\A c \in Crons : \A b \in Crons \ {c} :
           pc[c] \in Waiting /\ pc[b] \in Waiting \cup {"spin"} => pc'[c] = pc[c]]_vars
  BY <1>1
<1> QED BY <1>2, TypeCorrect, PTL DEF Spec, BarriersDeadlock

-----------------------------------------------------------------------------
(* The list *)

(* No two runs at a time: what one crond that is never restarted does. *)
NoOverlap == \A b, c \in Crons : b = c

(* A device the run has found is still to come, in the hands of a worker,  *)
(* or has its file.                                                        *)
InWork(c, d) == worker[c][d] \in {"dev", "devTmp"} \/ d \in devTmp

ListInv ==
  \A c \in Crons :
    /\ pc[c] = "spawnDev" =>
         /\ collected[c] = {} /\ todo[c] \subseteq found[c]
         /\ \A d \in found[c] \ todo[c] : InWork(c, d)
    /\ pc[c] = "waitDev" =>
         /\ collected[c] = {} /\ todo[c] = found[c]
         /\ \A d \in found[c] : InWork(c, d)
    /\ pc[c] = "collect" =>
         /\ todo[c] \subseteq found[c] /\ todo[c] \subseteq devTmp
         /\ collected[c] = found[c] \ todo[c]

(* The run and its workers keep it. *)
LEMMA ListStep ==
  ASSUME NoOverlap, TypeOK, CollectAfterWorkers, ListInv, [Next]_vars
  PROVE  ListInv'
<1> USE DEF TypeOK, ListInv, InWork, NoOverlap, Goto, runVars, fileVars
<1>1. ASSUME NEW c \in Crons, CheckDev(c) PROVE ListInv'
  BY <1>1 DEF CheckDev
<1>2. ASSUME NEW c \in Crons, SpawnDev(c) PROVE ListInv'
  <2>1. CASE todo[c] = {}
    BY <1>2, <2>1 DEF SpawnDev
  <2>2. CASE todo[c] # {}
    <3>1. PICK d \in todo[c] : /\ worker' = [worker EXCEPT ![c][d] = "dev"]
                              /\ todo' = [todo EXCEPT ![c] = @ \ {d}]
      BY <1>2, <2>2 DEF SpawnDev
    <3> QED BY <1>2, <2>2, <3>1 DEF SpawnDev
  <2> QED BY <2>1, <2>2
<1>3. ASSUME NEW c \in Crons, WaitDev(c) PROVE ListInv'
  BY <1>3, BarrierMeansAlone DEF WaitDev
<1>4. ASSUME NEW c \in Crons, Collect(c) PROVE ListInv'
  BY <1>4 DEF Collect
<1>5. ASSUME NEW c \in Crons, Launch(c) \/ Work(c),
             ~CheckDev(c), ~SpawnDev(c), ~WaitDev(c), ~Collect(c)
      PROVE  ListInv'
  <2>1. pc[c] \notin {"spawnDev", "waitDev", "collect"}
    BY <1>5 DEF Launch, Work, ClearDev, CheckEv, ReadEv, ClearEv, CheckObj,
                SpawnObj, WaitObj, ClearObj, CheckDevEv, ClearDevEv, Collectd
  <2>2. pc'[c] \notin {"spawnDev", "waitDev", "collect"}
    BY <1>5 DEF Launch, Work, ClearDev, CheckEv, ReadEv, ClearEv, CheckObj,
                SpawnObj, WaitObj, ClearObj, CheckDevEv, ClearDevEv, Collectd
  <2> QED BY <2>2
<1>6. ASSUME NEW c \in Crons, NEW d \in Devices, Background(c, d) PROVE ListInv'
  <2>1. CASE DevWorkerStart(c, d)
    BY <2>1 DEF DevWorkerStart, CollectAfterWorkers
  <2>2. CASE DevWorkerEnd(c, d)
    BY <2>2 DEF DevWorkerEnd
  <2>3. CASE ObjWorkerPublish(c, d)
    BY <2>3 DEF ObjWorkerPublish
  <2>4. CASE ObjWorkerEnd(c, d)
    BY <2>4 DEF ObjWorkerEnd
  <2> QED BY <1>6, <2>1, <2>2, <2>3, <2>4 DEF Background
<1>7. CASE UNCHANGED <<runVars, devTmp>>
  BY <1>7
<1> QED BY <1>1, <1>2, <1>3, <1>4, <1>5, <1>6, <1>7
        DEF Next, Work, RpcMark, RpcObj, Silence, Answers, Expire, vars

(* Without overlap the published list holds every device the run has found, *)
(* whatever their number, the throttle, and the order in which they answer. *)
THEOREM ListsAreComplete == NoOverlap => (Spec => []ListIsComplete)
<1> SUFFICES ASSUME NoOverlap PROVE Spec => []ListIsComplete
  OBVIOUS
<1>1. Init => ListInv
  BY DEF Init, ListInv
<1>2. TypeOK /\ CollectAfterWorkers /\ ListInv /\ [Next]_vars => ListInv'
  BY ListStep
<1>3. ListInv => ListIsComplete
  BY DEF ListInv, ListIsComplete
<1> QED BY <1>1, <1>2, <1>3, TypeCorrect, WorkersComeFirst, PTL DEF Spec
=============================================================================
