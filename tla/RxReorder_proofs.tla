-------------------------- MODULE RxReorder_proofs --------------------------
(***************************************************************************)
(* The memory and the order of the reorder buffer, for every window, pool  *)
(* and peer.  First the memory, where only the lengths of the list matter: *)
(* no frame of the pool is lost on any way out of the buffer, and a        *)
(* station that nobody is at work on is freed with nothing left behind.    *)
(*                                                                         *)
(* Then the order.  The code compares numbers modulo Modulus; what it      *)
(* means is a statement about the frames themselves.  While the list is in *)
(* use, ind stands for a number a that is past all that was delivered and  *)
(* before all that waits, and everything that is ever compared lies within *)
(* half a turn, so that each comparison of the code is the one of the      *)
(* frames.  With an empty list the peer may be full turns ahead of a:      *)
(* then a is moved by as many turns.                                       *)
(***************************************************************************)
EXTENDS RxReorder, FiniteSetTheorems, WellFoundedInduction, TLAPS

(* The frame in the receive thread's hands that came from the pool. *)
Held == {"frame", "unit", "sort"}

(* The types that the count rests on. *)
CountOK ==
  /\ list \in Seq(Frames) /\ free \in Nat
  /\ rx \in RxBusy \cup {"idle", "frame"}
  /\ rx \in Held => cur \in Frames

FlagsOK ==
  /\ exists \in BOOLEAN /\ enable \in BOOLEAN
  /\ armed \in BOOLEAN /\ firing \in BOOLEAN
  /\ queued \in BOOLEAN /\ running \in BOOLEAN
  /\ disturbed \in BOOLEAN
  /\ dpc \in {"idle", "timer", "work", "list", "free"}

(* A disabled list is empty, and its timer is off once the flush has been  *)
(* past it; nothing is sorted into it.                                     *)
DisabledInv ==
  dpc = "idle" =>
    /\ rx = "sort" => enable
    /\ ~enable => list = <<>> /\ (armed => rx = "untimer")

(* A station that is taken down undisturbed has nobody at work on it.      *)
QuietInv ==
  dpc # "idle" /\ ~disturbed =>
    /\ Quiet
    /\ dpc # "timer" => ~armed
    /\ dpc = "free" => list = <<>>

(* The list of a station that is gone is empty, and nobody will sort into it. *)
GoneInv == ~exists => list = <<>> /\ rx \notin {"unit", "sort"}

IInv ==
  /\ GoneInv /\ CountOK /\ FlagsOK /\ PoolConserved
  /\ DisabledInv /\ QuietInv /\ FreedWhenQuiet

USE DEF RxBusy, Held

-----------------------------------------------------------------------------
(* The list *)

(* As many positions as a condition holds for. *)
LEMMA PrefixCount ==
  ASSUME NEW n \in Nat, NEW S \in SUBSET (1..n)
  PROVE  Cardinality(S) \in 0..n
<1>1. IsFiniteSet(1..n) /\ Cardinality(1..n) = n
  BY FS_Interval
<1>2. IsFiniteSet(S) /\ Cardinality(S) <= n
  BY <1>1, FS_Subset
<1> QED BY <1>2, FS_CardinalityType

(* reord_rxframes_ind takes some of the list. *)
LEMMA ReadyType ==
  ASSUME NEW i, NEW l \in Seq(Frames)
  PROVE  Ready(i, l) \in 0..Len(l)
<1>1. {j \in DOMAIN l : \A k \in 1..j : ~SnLess(i, Sn(l[k]))} \in SUBSET (1..Len(l))
  OBVIOUS
<1>2. Len(l) \in Nat
  OBVIOUS
<1> QED BY <1>1, <1>2, PrefixCount DEF Ready

(* reord_rxframe_enqueue puts a frame between two others, or at an end. *)
LEMMA PlaceType ==
  ASSUME NEW n, list \in Seq(Frames)
  PROVE  Place(n) \in 1..Len(list) + 1
<1> DEFINE S == {j \in DOMAIN list : \A k \in 1..j : SnLess(Sn(list[k]), Sn(n))}
<1>1. S \in SUBSET (1..Len(list)) /\ Len(list) \in Nat
  OBVIOUS
<1> HIDE DEF S
<1>2. Cardinality(S) \in 0..Len(list)
  BY <1>1, PrefixCount
<1>3. Cardinality(S) + 1 \in 1..Len(list) + 1
  BY <1>1, <1>2
<1> QED BY <1>3 DEF Place, S

(* The list with one frame more. *)
LEMMA InsertType ==
  ASSUME list \in Seq(Frames), NEW n \in Frames, NEW p \in 1..Len(list) + 1
  PROVE  InsertAt(list, p, n) \in Seq(Frames) /\ Len(InsertAt(list, p, n)) = Len(list) + 1
<1> DEFINE head == SubSeq(list, 1, p - 1)
           tail == SubSeq(list, p, Len(list))
<1>1. Len(list) \in Nat /\ p \in Nat
  OBVIOUS
<1>2. head \in Seq(Frames) /\ Len(head) = p - 1
  BY <1>1
<1>3. tail \in Seq(Frames) /\ Len(tail) = Len(list) - p + 1
  BY <1>1
<1>4. <<n>> \in Seq(Frames) /\ Len(<<n>>) = 1
  OBVIOUS
<1>5. InsertAt(list, p, n) = (head \o <<n>>) \o tail
  BY DEF InsertAt
<1> HIDE DEF head, tail
<1>6. head \o <<n>> \in Seq(Frames) /\ Len(head \o <<n>>) = p
  BY <1>1, <1>2, <1>4
<1>7. /\ (head \o <<n>>) \o tail \in Seq(Frames)
      /\ Len((head \o <<n>>) \o tail) = p + (Len(list) - p + 1)
  BY <1>3, <1>6
<1> QED BY <1>1, <1>5, <1>7

(* What leaves the list goes to the pool. *)
LEMMA FlowCount ==
  ASSUME NEW i, NEW l \in Seq(Frames), NEW f \in Nat, Flow(i, l, f)
  PROVE  /\ list' \in Seq(Frames) /\ free' \in Nat
         /\ free' + Len(list') = f + Len(l)
         /\ harm' \subseteq harm \cup {"twice"}
<1>1. Ready(Advanced(i, l), l) \in 0..Len(l)
  BY ReadyType
<1> DEFINE k == Ready(Advanced(i, l), l)
<1>2. list' = SubSeq(l, k + 1, Len(l)) /\ free' = f + k /\ Deliver(SubSeq(l, 1, k))
  BY DEF Flow
<1>3. k \in 0..Len(l) /\ Len(l) \in Nat
  BY <1>1
<1> HIDE DEF k
<1>4. list' \in Seq(Frames) /\ Len(list') = Len(l) - k
  BY <1>2, <1>3
<1>5. harm' \subseteq harm \cup {"twice"}
  BY <1>2 DEF Deliver
<1>6. free' = f + k
  BY <1>2
<1>7. free' \in Nat /\ free' + Len(list') = f + Len(l)
  BY <1>3, <1>4, <1>6
<1> QED BY <1>4, <1>5, <1>7

-----------------------------------------------------------------------------
(* The steps *)

(* A frame comes in, or goes by. *)
LEMMA ArriveStep ==
  ASSUME IInv,
         \/ \E n \in Frames : Arrive(n) \/ FlushLookup(n)
         \/ Bypass \/ Lookup \/ NoStation \/ Enabled
  PROVE  IInv'
<1> USE DEF IInv, GoneInv, CountOK, FlagsOK, DisabledInv, QuietInv, Quiet, FreedWhenQuiet,
            PoolConserved, ctrl, timer, workq, ghosts, Done, PassOn
<1>1. ASSUME NEW n \in Frames, Arrive(n) PROVE IInv'
  BY <1>1 DEF Arrive
<1>2. ASSUME NEW n \in Frames, FlushLookup(n) PROVE IInv'
  BY <1>2 DEF FlushLookup
<1>3. CASE Bypass
  BY <1>3 DEF Bypass
<1>4. CASE Lookup
  <2>1. FlagsOK'
    BY <1>4, Zenon DEF Lookup
  <2>2. dpc # "idle" => disturbed'
    BY <1>4, Zenon DEF Lookup
  <2>3. /\ rx = "frame" /\ rx' = "unit" /\ list' = list /\ enable' = TRUE /\ exists' = TRUE
        /\ UNCHANGED <<timer, workq, cur, dpc, free, harm>>
    BY <1>4 DEF Lookup
  <2>4. CountOK' /\ PoolConserved' /\ FreedWhenQuiet' /\ GoneInv' /\ DisabledInv'
    BY <2>3
  <2>5. QuietInv'
    BY <2>2, <2>3
  <2> QED BY <2>1, <2>4, <2>5
<1>5. CASE NoStation
  BY <1>5 DEF NoStation
<1>6. CASE Enabled
  BY <1>6 DEF Enabled
<1> QED BY <1>1, <1>2, <1>3, <1>4, <1>5, <1>6

(* The locked part of reord_process_unit. *)
LEMMA UnitStep ==
  ASSUME IInv, Unit \/ UnitDisabled
  PROVE  IInv'
<1> USE DEF GoneInv, CountOK, FlagsOK, DisabledInv, QuietInv, Quiet, FreedWhenQuiet,
            PoolConserved, workq, Done, PassOn
<1>0. CountOK /\ FlagsOK /\ DisabledInv /\ QuietInv /\ FreedWhenQuiet /\ PoolConserved /\ GoneInv
  BY DEF IInv
<1>1. CASE UnitDisabled
  BY <1>0, <1>1 DEF UnitDisabled, timer, IInv
<1>2. CASE Unit
  <2>1. /\ rx = "sort" /\ Done /\ UNCHANGED <<exists, enable, firing, workq, dpc, disturbed>>
        /\ Late \/ Repeated \/ Sorted
    BY <1>2 DEF Unit
  <2>2. cur \in Frames /\ free + Len(list) + 1 = Pool /\ exists
        /\ (dpc = "idle" => enable) /\ (dpc # "idle" => disturbed)
    BY <1>0, <2>1
  <2>3. /\ list' \in Seq(Frames) /\ free' \in Nat /\ free' + Len(list') = Pool
        /\ harm' \subseteq harm \cup {"twice"} /\ armed' \in BOOLEAN
    <3>1. CASE Late \/ Repeated
      BY <1>0, <2>2, <3>1 DEF Late, Repeated
    <3>2. CASE Sorted
      <4>1. /\ InsertAt(list, Place(cur), cur) \in Seq(Frames)
            /\ Len(InsertAt(list, Place(cur), cur)) = Len(list) + 1
        BY <1>0, <2>2, PlaceType, InsertType
      <4>2. Flow(NewInd, InsertAt(list, Place(cur), cur), free) /\ armed' \in BOOLEAN
        BY <3>2 DEF Sorted, SetTimer
      <4>3. /\ list' \in Seq(Frames) /\ free' \in Nat
            /\ free' + Len(list') = free + (Len(list) + 1)
            /\ harm' \subseteq harm \cup {"twice"}
        BY <1>0, <4>1, <4>2, FlowCount
      <4>4. Len(list) \in Nat /\ Len(list') \in Nat
        BY <1>0, <4>3
      <4> QED BY <1>0, <2>2, <4>2, <4>3, <4>4
    <3> QED BY <2>1, <3>1, <3>2
  <2>4. rx' = "idle" /\ Len(list') \in Nat
    BY <2>1, <2>3
  <2>5. CountOK' /\ PoolConserved' /\ GoneInv'
    BY <2>1, <2>2, <2>3, <2>4
  <2>6. FlagsOK' /\ DisabledInv' /\ QuietInv' /\ FreedWhenQuiet'
    BY <1>0, <2>1, <2>2, <2>3, <2>4
  <2> QED BY <2>5, <2>6 DEF IInv
<1> QED BY <1>1, <1>2

(* The timer and its work. *)
LEMMA TimeoutStep ==
  ASSUME IInv, Timeout
  PROVE  IInv'
<1> USE DEF IInv, GoneInv, CountOK, FlagsOK, DisabledInv, QuietInv, Quiet, FreedWhenQuiet,
            PoolConserved, ctrl, timer, workq, threads, ghosts
<1>1. CASE Fire
  <2>1. FlagsOK'
    <3>1. UNCHANGED <<ctrl, workq, threads>>
      BY <1>1 DEF Fire
    <3>2. /\ exists' = exists /\ enable' = enable /\ queued' = queued /\ running' = running
          /\ dpc' = dpc
      BY <3>1
    <3> QED BY <1>1, <3>2, Zenon DEF Fire
  <2>2. dpc # "idle" => disturbed'
    BY <1>1, Zenon DEF Fire
  <2>3. /\ armed /\ ~armed' /\ UNCHANGED <<ctrl, workq, threads, free, harm>>
    BY <1>1 DEF Fire
  <2>4. CountOK' /\ PoolConserved' /\ FreedWhenQuiet' /\ GoneInv' /\ DisabledInv'
    BY <2>3
  <2>5. QuietInv'
    BY <2>2, <2>3
  <2> QED BY <2>1, <2>4, <2>5
<1>2. CASE Handler
  BY <1>2, ZenonT(60) DEF Handler
<1>3. CASE WorkStart
  BY <1>3 DEF WorkStart
<1>4. CASE WorkRun
  <2>1. CASE list = <<>>
    <3>1. /\ running /\ ~running' /\ UNCHANGED <<ctrl, timer, queued, threads, free, disturbed>>
          /\ harm' = harm
      BY <1>4, <2>1 DEF WorkRun
    <3>2. FlagsOK'
      <4>1. /\ exists' = exists /\ enable' = enable /\ queued' = queued /\ firing' = firing
            /\ armed' = armed /\ dpc' = dpc /\ disturbed' = disturbed /\ running' = FALSE
        BY <1>4, <2>1 DEF WorkRun
      <4> QED BY <4>1, Zenon
    <3>3. CountOK' /\ PoolConserved' /\ GoneInv'
      BY <3>1
    <3>4. DisabledInv' /\ QuietInv' /\ FreedWhenQuiet'
      BY <3>1
    <3> QED BY <3>2, <3>3, <3>4
  <2>2. CASE list # <<>>
    <3>1. Flow(Sn(list[1]), list, free) /\ armed' \in BOOLEAN
      BY <1>4, <2>2 DEF WorkRun, Restarts
    <3>2. /\ list' \in Seq(Frames) /\ free' \in Nat
          /\ free' + Len(list') = free + Len(list)
          /\ harm' \subseteq harm \cup {"twice"}
      BY <3>1, FlowCount
    <3>3. /\ UNCHANGED <<exists, enable, firing, queued, threads, dpc, disturbed>>
          /\ running /\ ~running'
      BY <1>4 DEF WorkRun
    <3>4. Len(list) \in Nat /\ Len(list') \in Nat
      BY <3>2
    <3>5. CountOK' /\ PoolConserved'
      BY <3>2, <3>3, <3>4
    <3>6. FlagsOK'
      <4>1. /\ exists' = exists /\ enable' = enable /\ queued' = queued /\ firing' = firing
            /\ dpc' = dpc /\ disturbed' = disturbed /\ running' = FALSE
        BY <1>4 DEF WorkRun
      <4> QED BY <3>1, <4>1, Zenon
    <3>7. exists /\ (dpc = "idle" => enable) /\ (dpc # "idle" => disturbed)
      BY <2>2, <3>3
    <3>8. DisabledInv' /\ QuietInv' /\ FreedWhenQuiet' /\ GoneInv'
      BY <3>2, <3>3, <3>7
    <3> QED BY <3>5, <3>6, <3>8
  <2> QED BY <2>1, <2>2
<1> QED BY <1>1, <1>2, <1>3, <1>4 DEF Timeout

(* reord_flush_tid. *)
LEMMA FlushStep ==
  ASSUME IInv, Flush \/ FlushNot \/ FlushTimer \/ FlushWork
  PROVE  IInv'
<1> USE DEF IInv, GoneInv, CountOK, FlagsOK, DisabledInv, QuietInv, Quiet, FreedWhenQuiet,
            PoolConserved, ctrl, timer, workq, ghosts, Done, NoTimer, NoWork
<1>1. CASE Flush
  <2>1. /\ rx = "flush" /\ rx' = "untimer" /\ list' = <<>> /\ free' = free + Len(list)
        /\ ~enable' /\ UNCHANGED <<exists, timer, workq, cur, dpc, disturbed>> /\ exists' = exists
    BY <1>1 DEF Flush
  <2>2. harm' \subseteq harm \cup {"twice"}
    BY <1>1 DEF Flush, Deliver
  <2>3. FlagsOK'
    BY <1>1, Zenon DEF Flush
  <2>4. Len(list) \in Nat /\ list' \in Seq(Frames) /\ Len(list') = 0
    BY <2>1
  <2>5. CountOK' /\ PoolConserved'
    BY <2>1, <2>4
  <2>6. FreedWhenQuiet' /\ GoneInv' /\ DisabledInv' /\ QuietInv'
    BY <2>1, <2>2
  <2> QED BY <2>3, <2>5, <2>6
<1>2. CASE FlushNot
  BY <1>2 DEF FlushNot
<1>3. CASE FlushTimer
  BY <1>3 DEF FlushTimer
<1>4. CASE FlushWork
  BY <1>4 DEF FlushWork
<1> QED BY <1>1, <1>2, <1>3, <1>4

(* reord_deinit_sta, the bus going down, and no step. *)
LEMMA DeinitStep ==
  ASSUME IInv, DeinitStart \/ Deinit \/ BusDown \/ UNCHANGED vars
  PROVE  IInv'
<1> USE PoolAssumption DEF IInv, GoneInv, CountOK, FlagsOK, DisabledInv, QuietInv, Quiet,
            FreedWhenQuiet, PoolConserved, ctrl, timer, workq, threads, ghosts, NoTimer, NoWork
<1>1. CASE DeinitStart
  BY <1>1 DEF DeinitStart
<1>2. CASE DeinitTimer
  BY <1>2 DEF DeinitTimer
<1>3. CASE DeinitWork
  BY <1>3 DEF DeinitWork
<1>4. CASE DeinitList
  BY <1>4 DEF DeinitList
<1>5. CASE DeinitFree
  <2>1. /\ dpc = "free" /\ dpc' = "idle" /\ ~exists' /\ ~enable' /\ list' = <<>> /\ ~armed'
    BY <1>5 DEF DeinitFree
  <2>2. FlagsOK'
    BY <1>5, Zenon DEF DeinitFree
  <2>3. ~disturbed => ~InUse
    BY <2>1 DEF InUse
  <2>4. FreedWhenQuiet'
    BY <1>5, <2>3 DEF DeinitFree
  <2>5. CASE rx \in RxBusy \/ list # <<>>
    <3>1. rx' = "idle" /\ free' = Pool
      BY <1>5, <2>5 DEF DeinitFree, Done
    <3>2. CountOK' /\ PoolConserved' /\ GoneInv' /\ DisabledInv' /\ QuietInv'
      BY <2>1, <3>1
    <3> QED BY <2>2, <2>4, <3>2
  <2>6. CASE ~(rx \in RxBusy \/ list # <<>>)
    <3>1. UNCHANGED <<rx, cur, free>>
      BY <1>5, <2>6 DEF DeinitFree
    <3>2. CountOK' /\ PoolConserved' /\ GoneInv' /\ DisabledInv' /\ QuietInv'
      BY <2>1, <2>6, <3>1
    <3> QED BY <2>2, <2>4, <3>2
  <2> QED BY <2>5, <2>6
<1>6. CASE BusDown \/ UNCHANGED vars
  BY <1>6 DEF BusDown, vars
<1> QED BY <1>1, <1>2, <1>3, <1>4, <1>5, <1>6 DEF Deinit

-----------------------------------------------------------------------------
(* The lengths and the places of the threads, in every state. *)
THEOREM Invariance == Spec => []IInv
<1>1. Init => IInv
  <2> SUFFICES ASSUME Init PROVE IInv
    OBVIOUS
  <2>1. FlagsOK
    BY Zenon DEF Init, FlagsOK
  <2>2. CountOK /\ PoolConserved
    BY PoolAssumption DEF Init, CountOK, PoolConserved
  <2>3. GoneInv /\ DisabledInv /\ QuietInv /\ FreedWhenQuiet
    BY DEF Init, GoneInv, DisabledInv, QuietInv, FreedWhenQuiet
  <2> QED BY <2>1, <2>2, <2>3 DEF IInv
<1>2. IInv /\ [Next]_vars => IInv'
  BY ArriveStep, UnitStep, TimeoutStep, FlushStep, DeinitStep DEF Next, RxThread
<1> QED BY <1>1, <1>2, PTL DEF Spec

(* No frame of the pool is lost, whatever comes and whoever takes it out. *)
THEOREM ConservesPool == Spec => []PoolConserved
<1>1. IInv => PoolConserved
  BY DEF IInv
<1> QED BY <1>1, Invariance, PTL

(* A station that is taken down undisturbed leaves no timer, no work and   *)
(* no frame behind.                                                        *)
THEOREM FreesWhenQuiet == Spec => []FreedWhenQuiet
<1>1. IInv => FreedWhenQuiet
  BY DEF IInv
<1> QED BY <1>1, Invariance, PTL
-----------------------------------------------------------------------------
(* Numbers modulo Modulus *)

Half == Modulus \div 2

(* Two windows and all that may be outstanding fit in a turn. *)
LEMMA HalfFacts ==
  /\ Modulus \in Nat \ {0} /\ Modulus > 1 /\ Half \in Nat
  /\ Half <= Modulus - Half /\ Modulus - Half <= Half + 1
  /\ Window \in Nat /\ Window > 1 /\ Lag \in Nat /\ Delay \in Nat /\ Delay <= Lag
  /\ Window + Lag <= Half
BY WindowAssumption DEF Half

(* A number is so many turns and a rest. *)
LEMMA ModSplit ==
  ASSUME NEW m \in Nat \ {0}, NEW x \in Int
  PROVE  \E q \in Int, r \in 0..m - 1 : x = m * q + r /\ x % m = r
<1>1. x \div m \in Int /\ x % m \in 0..m - 1 /\ x = m * (x \div m) + (x % m)
  OBVIOUS
<1> QED BY <1>1

(* That rest is the only one. *)
LEMMA ModIs ==
  ASSUME NEW m \in Nat \ {0}, NEW x \in Int, NEW q \in Int, NEW r \in 0..m - 1, x = m * q + r
  PROVE  x % m = r
<1>1. PICK p \in Int, t \in 0..m - 1 : x = m * p + t /\ x % m = t
  BY ModSplit
<1>2. ~(q - p >= 1)
  <2>1. SUFFICES ASSUME q - p >= 1 PROVE FALSE
    OBVIOUS
  <2>2. m * (q - p) >= m
    BY <2>1
  <2>3. m * (q - p) = t - r
    BY <1>1
  <2> QED BY <2>2, <2>3
<1>3. ~(p - q >= 1)
  <2>1. SUFFICES ASSUME p - q >= 1 PROVE FALSE
    OBVIOUS
  <2>2. m * (p - q) >= m
    BY <2>1
  <2>3. m * (p - q) = r - t
    BY <1>1
  <2> QED BY <2>2, <2>3
<1>4. q = p
  BY <1>2, <1>3
<1> QED BY <1>1, <1>4

(* Numbers may be cut to their width before they are added, *)
LEMMA ModAdd ==
  ASSUME NEW m \in Nat \ {0}, NEW x \in Int, NEW y \in Int
  PROVE  ((x % m) + y) % m = (x + y) % m
<1>1. PICK q \in Int, r \in 0..m - 1 : x = m * q + r /\ x % m = r
  BY ModSplit
<1>2. r + y \in Int
  OBVIOUS
<1>3. PICK p \in Int, t \in 0..m - 1 : r + y = m * p + t /\ (r + y) % m = t
  BY <1>2, ModSplit
<1>4. x + y = m * (q + p) + t /\ x + y \in Int /\ q + p \in Int
  BY <1>1, <1>3
<1>5. (x + y) % m = t
  BY <1>4, ModIs
<1> QED BY <1>1, <1>3, <1>5

(* and before they are subtracted. *)
LEMMA ModSub ==
  ASSUME NEW m \in Nat \ {0}, NEW x \in Int, NEW y \in Int
  PROVE  ((x % m) - (y % m)) % m = (x - y) % m
<1>1. PICK q \in Int, r \in 0..m - 1 : x = m * q + r /\ x % m = r
  BY ModSplit
<1>2. PICK p \in Int, t \in 0..m - 1 : y = m * p + t /\ y % m = t
  BY ModSplit
<1>3. r - t \in Int
  OBVIOUS
<1>4. PICK v \in Int, w \in 0..m - 1 : r - t = m * v + w /\ (r - t) % m = w
  BY <1>3, ModSplit
<1>5. x - y = m * (q - p + v) + w /\ x - y \in Int /\ q - p + v \in Int
  BY <1>1, <1>2, <1>4
<1>6. (x - y) % m = w
  BY <1>5, ModIs
<1> QED BY <1>1, <1>2, <1>4, <1>6

(* A sequence number has its width. *)
LEMMA SnType ==
  ASSUME NEW x \in Int
  PROVE  Sn(x) \in 0..Modulus - 1
BY HalfFacts DEF Sn

(* ind is counted up and down modulo Modulus. *)
LEMMA SnAdd ==
  ASSUME NEW x \in Int, NEW y \in Int
  PROVE  (Sn(x) + y) % Modulus = Sn(x + y)
<1>1. ((x % Modulus) + y) % Modulus = (x + y) % Modulus
  BY HalfFacts, ModAdd, Zenon
<1> QED BY <1>1 DEF Sn

(* What SN_LESS looks at is the distance of the frames. *)
LEMMA SnSub ==
  ASSUME NEW x \in Int, NEW y \in Int
  PROVE  (Sn(x) - Sn(y)) % Modulus = (x - y) % Modulus
<1>1. ((x % Modulus) - (y % Modulus)) % Modulus = (x - y) % Modulus
  BY HalfFacts, ModSub, Zenon
<1> QED BY <1>1 DEF Sn

(* ModSplit for the modulus of the code. *)
LEMMA SnSplit ==
  ASSUME NEW x \in Int
  PROVE  \E q \in Int, r \in 0..Modulus - 1 : x = Modulus * q + r /\ x % Modulus = r
BY HalfFacts, ModSplit, Zenon

(* ModIs for the modulus of the code. *)
LEMMA SnIs ==
  ASSUME NEW x \in Int, NEW q \in Int, NEW r \in 0..Modulus - 1, x = Modulus * q + r
  PROVE  Sn(x) = r
<1>1. x % Modulus = r
  BY HalfFacts, ModIs, Zenon
<1> QED BY <1>1 DEF Sn

(* The distance of two frames less than a turn apart. *)
LEMMA SnNear ==
  ASSUME NEW d \in Int
  PROVE  /\ d \in 0..Modulus - 1 => d % Modulus = d
         /\ d \in -Modulus..-1 => d % Modulus = d + Modulus
<1>1. ASSUME d \in 0..Modulus - 1 PROVE d % Modulus = d
  <2>1. d = Modulus * 0 + d
    BY HalfFacts
  <2> QED BY <1>1, <2>1, ModIs, HalfFacts
<1>2. ASSUME d \in -Modulus..-1 PROVE d % Modulus = d + Modulus
  <2>1. d = Modulus * (-1) + (d + Modulus) /\ d + Modulus \in 0..Modulus - 1
    BY <1>2, HalfFacts
  <2> QED BY <2>1, ModIs, HalfFacts
<1> QED BY <1>1, <1>2

(* SN_LESS is the order of the frames, if they are within half a turn. *)
LEMMA SnLessNear ==
  ASSUME NEW x \in Int, NEW y \in Int, x - y \in -Half..Half - 1
  PROVE  SnLess(Sn(x), Sn(y)) <=> x < y
<1>1. SnLess(Sn(x), Sn(y)) <=> (x - y) % Modulus >= Half
  BY SnSub, Zenon DEF SnLess, Half
<1>2. CASE x < y
  <2>1. (x - y) % Modulus = x - y + Modulus
    BY <1>2, SnNear, HalfFacts
  <2> QED BY <1>1, <1>2, <2>1, HalfFacts
<1>3. CASE ~(x < y)
  <2>1. (x - y) % Modulus = x - y
    BY <1>3, SnNear, HalfFacts
  <2> QED BY <1>1, <1>3, <2>1, HalfFacts
<1> QED BY <1>2, <1>3

(* SN_EQUAL is the equality of the frames, if they are within half a turn. *)
LEMMA SnSame ==
  ASSUME NEW x \in Int, NEW y \in Int, x - y \in -Half..Half
  PROVE  Sn(x) = Sn(y) => x = y
<1>1. ASSUME Sn(x) = Sn(y), x # y PROVE FALSE
  <2>1. (x - y) % Modulus = 0
    <3>1. (x - y) % Modulus = (Sn(x) - Sn(y)) % Modulus
      BY SnSub
    <3>2. Sn(x) - Sn(y) = 0
      BY <1>1, SnType, HalfFacts
    <3> QED BY <3>1, <3>2, SnNear, HalfFacts
  <2> QED BY <1>1, <2>1, SnNear, HalfFacts
<1> QED BY <1>1

(* A frame that is not behind a: a may be counted up by full turns until   *)
(* the frame is less than half a turn past it.                             *)
LEMMA NotBehind ==
  ASSUME NEW a \in Int, NEW c \in Int, ~SnLess(Sn(c), Sn(a)), c >= a - Half
  PROVE  \E b \in Int : /\ Sn(b) = Sn(a) /\ a <= b /\ b <= c /\ c - b < Half
                        /\ c - a < Modulus => b = a
<1>1. c - a \in Int
  OBVIOUS
<1>2. PICK k \in Int, d \in 0..Modulus - 1 : c - a = Modulus * k + d /\ (c - a) % Modulus = d
  BY <1>1, SnSplit
<1>3. d < Half
  <2>1. (Sn(c) - Sn(a)) % Modulus = d
    BY <1>2, SnSub
  <2>2. ~(d >= Half)
    BY <2>1 DEF SnLess, Half
  <2> QED BY <2>2, HalfFacts
<1>4. k >= 0
  <2>1. SUFFICES ASSUME k <= -1 PROVE FALSE
    OBVIOUS
  <2>2. Modulus * k <= -Modulus
    BY <2>1, HalfFacts
  <2> QED BY <1>2, <1>3, <2>2, HalfFacts
<1>5. Modulus * k >= 0 /\ Modulus * k \in Int /\ (k >= 1 => Modulus * k >= Modulus)
  BY <1>4, HalfFacts
<1> DEFINE b == a + Modulus * k
<1>6. Sn(b) = Sn(a)
  <2>1. PICK q \in Int, r \in 0..Modulus - 1 : a = Modulus * q + r /\ a % Modulus = r
    BY SnSplit
  <2>2. b = Modulus * (q + k) + r /\ b \in Int
    BY <2>1, <1>5, HalfFacts
  <2>3. Sn(b) = r
    <3> HIDE DEF b
    <3> QED BY <2>1, <2>2, <1>4, SnIs
  <2> QED BY <2>1, <2>3 DEF Sn
<1>7. b \in Int /\ a <= b /\ b = c - d /\ (c - a < Modulus => b = a)
  BY <1>2, <1>4, <1>5, HalfFacts
<1> QED BY <1>3, <1>6, <1>7

-----------------------------------------------------------------------------
(* Prefixes of the list *)

(* A set of numbers has a least one. *)
LEMMA LeastNumber ==
  ASSUME NEW T \in SUBSET Nat, T # {}
  PROVE  \E x \in T : \A y \in T : x <= y
<1>1. IsWellFoundedOn(OpToRel(<,Nat), Nat)
  BY NatLessThanWellFounded
<1>2. PICK x \in T : \A y \in T : ~(<<y, x>> \in OpToRel(<,Nat))
  BY <1>1, WFMin
<1>3. \A y \in T : ~(y < x)
  BY <1>2 DEF OpToRel
<1> QED BY <1>3

(* A set of numbers that has 0 and each successor has all. *)
LEMMA SetInduction ==
  ASSUME NEW S \in SUBSET Nat, 0 \in S, \A n \in S : n + 1 \in S
  PROVE  S = Nat
<1>1. SUFFICES ASSUME Nat \ S # {} PROVE FALSE
  OBVIOUS
<1>2. PICK x \in Nat \ S : \A y \in Nat \ S : x <= y
  BY <1>1, LeastNumber
<1>3. x - 1 \in Nat /\ x - 1 \in S
  BY <1>2
<1> QED BY <1>2, <1>3

(* A set of positions that has all before each of its own is a prefix. *)
LEMMA PrefixIs ==
  ASSUME NEW n \in Nat, NEW S \in SUBSET (1..n), \A j \in S : 1..j \subseteq S
  PROVE  /\ Cardinality(S) \in 0..n
         /\ S = 1..Cardinality(S)
<1> DEFINE T == {j \in Nat : j + 1 \notin S}
<1>1. n \in T /\ T \subseteq Nat
  OBVIOUS
<1> HIDE DEF T
<1>2. PICK x \in T : \A y \in T : x <= y
  BY <1>1, LeastNumber
<1>3. x \in Nat /\ x + 1 \notin S
  BY <1>2 DEF T
<1>4. S = 1..x
  <2>1. ASSUME NEW j \in 1..x PROVE j \in S
    <3>1. j - 1 \in Nat /\ ~(x <= j - 1)
      BY <1>3
    <3>2. j - 1 \notin T
      BY <1>2, <3>1
    <3> QED BY <3>1, <3>2 DEF T
  <2>2. ASSUME NEW j \in S PROVE j \in 1..x
    <3>1. ~(j >= x + 1)
      BY <1>3
    <3> QED BY <1>3, <3>1
  <2> QED BY <2>1, <2>2
<1>5. Cardinality(S) = x
  BY <1>3, <1>4, FS_Interval
<1>6. x <= n
  BY <1>3, <1>4
<1> QED BY <1>3, <1>4, <1>5, <1>6

Ascending(l) == \A i, j \in DOMAIN l : i < j => l[i] < l[j]

(* The frames of a list that lie between t - Lag and t. *)
Recent(l, t) == \A j \in DOMAIN l : t - Lag <= l[j] /\ l[j] <= t

(* reord_rxframes_ind takes the frames up to b, and no other. *)
LEMMA ReadyIs ==
  ASSUME NEW l \in Seq(Frames), NEW t \in Int, NEW b \in t - Lag - Window + 1..t + 1,
         Recent(l, t)
  PROVE  LET k == Ready(Sn(b), l)
         IN  /\ k \in 0..Len(l)
             /\ \A j \in 1..k : l[j] <= b
             /\ k < Len(l) => b < l[k + 1]
<1> DEFINE S == {j \in DOMAIN l : \A k \in 1..j : ~SnLess(Sn(b), Sn(l[k]))}
           k == Ready(Sn(b), l)
<1>1. Len(l) \in Nat /\ DOMAIN l = 1..Len(l) /\ \A j \in DOMAIN l : l[j] \in Int
  BY PoolAssumption DEF Frames
<1>2. \A j \in DOMAIN l : SnLess(Sn(b), Sn(l[j])) <=> b < l[j]
  <2> TAKE j \in DOMAIN l
  <2>1. b - l[j] \in -Half..Half - 1 /\ l[j] \in Int /\ b \in Int
    BY <1>1, HalfFacts DEF Recent
  <2> QED BY <2>1, SnLessNear
<1>3. \A j \in S : 1..j \subseteq S
  BY <1>1
<1>4. S \in SUBSET (1..Len(l))
  BY <1>1
<1>5. k = Cardinality(S)
  BY DEF Ready
<1>6. \A j \in 1..Len(l) : j \in S <=> \A m \in 1..j : ~(b < l[m])
  BY <1>1, <1>2
<1> HIDE DEF S, k
<1>7. k \in 0..Len(l) /\ S = 1..k
  BY <1>1, <1>3, <1>4, <1>5, PrefixIs
<1>8. ASSUME NEW j \in 1..k PROVE l[j] <= b
  <2>1. j \in S /\ j \in 1..Len(l) /\ l[j] \in Int
    BY <1>1, <1>7
  <2> QED BY <1>6, <2>1
<1>9. ASSUME k < Len(l) PROVE b < l[k + 1]
  <2>1. k + 1 \in 1..Len(l) /\ k + 1 \notin S
    BY <1>1, <1>7, <1>9
  <2>2. PICK m \in 1..k + 1 : b < l[m]
    BY <1>6, <2>1
  <2>3. m \in 1..Len(l) /\ l[m] \in Int /\ (m = k + 1 \/ m \in 1..k)
    BY <1>1, <1>7, <2>1, SMTT(30)
  <2> QED BY <1>8, <2>2, <2>3
<1> QED BY <1>7, <1>8, <1>9 DEF k

(* reord_rxframe_enqueue finds the first frame that is not before n. *)
LEMMA PlaceIs ==
  ASSUME list \in Seq(Frames), NEW t \in Int, Recent(list, t),
         NEW n \in Frames, t - Lag <= n, n <= t
  PROVE  LET p == Place(n)
         IN  /\ p \in 1..Len(list) + 1
             /\ \A j \in 1..p - 1 : list[j] < n
             /\ p <= Len(list) => n <= list[p] /\ (Sn(list[p]) = Sn(n) => list[p] = n)
<1> DEFINE S == {j \in DOMAIN list : \A k \in 1..j : SnLess(Sn(list[k]), Sn(n))}
           c == Cardinality(S)
<1>1. Len(list) \in Nat /\ DOMAIN list = 1..Len(list) /\ n \in Int /\ \A j \in DOMAIN list : list[j] \in Int
  BY PoolAssumption DEF Frames
<1>0. \A j \in DOMAIN list : list[j] - n \in -Half..Half - 1 /\ list[j] - n \in -Half..Half
  BY <1>1, HalfFacts DEF Recent
<1>2. \A j \in DOMAIN list : SnLess(Sn(list[j]), Sn(n)) <=> list[j] < n
  BY <1>0, <1>1, SnLessNear
<1>11. \A j \in DOMAIN list : Sn(list[j]) = Sn(n) => list[j] = n
  BY <1>0, <1>1, SnSame
<1>3. \A j \in S : 1..j \subseteq S
  BY <1>1
<1>4. S \in SUBSET (1..Len(list))
  BY <1>1
<1>6. \A j \in 1..Len(list) : j \in S <=> \A m \in 1..j : list[m] < n
  BY <1>1, <1>2
<1>5. Place(n) = c + 1
  BY DEF Place
<1> HIDE DEF S
<1>7. c \in 0..Len(list) /\ S = 1..c
  BY <1>1, <1>3, <1>4, PrefixIs
<1> HIDE DEF c
<1>8. ASSUME NEW j \in 1..c PROVE list[j] < n
  <2>1. j \in S /\ j \in 1..Len(list) /\ list[j] \in Int
    BY <1>1, <1>7
  <2> QED BY <1>6, <2>1
<1>9. ASSUME c + 1 <= Len(list) PROVE n <= list[c + 1] /\ (Sn(list[c + 1]) = Sn(n) => list[c + 1] = n)
  <2>1. c + 1 \in 1..Len(list) /\ c + 1 \notin S
    BY <1>1, <1>7, <1>9
  <2>2. PICK m \in 1..c + 1 : ~(list[m] < n)
    BY <1>6, <2>1
  <2>3. m \in 1..Len(list) /\ list[m] \in Int /\ (m = c + 1 \/ m \in 1..c)
    BY <1>1, <1>7, <2>1
  <2>4. m = c + 1
    BY <1>8, <2>2, <2>3
  <2> QED BY <1>1, <1>11, <2>1, <2>2, <2>4
<1>10. Place(n) \in 1..Len(list) + 1 /\ Place(n) - 1 = c
  BY <1>1, <1>5, <1>7
<1> QED BY <1>5, <1>8, <1>9, <1>10

-----------------------------------------------------------------------------
(* Where ind goes, and what is delivered *)

(* reord_rxframes_process looks at the frames one by one. *)
StepOver(l, j, a) == IF Sn(l[j]) = a THEN (a + 1) % Modulus ELSE a

(* The recursive function of Advanced exists, and is what its body says:   *)
(* its approximations up to n are there for every n.                       *)
LEMMA AdvancedDef ==
  ASSUME NEW l \in Seq(Frames), NEW i
  PROVE  \E f : /\ f = [j \in 0..Len(l) |-> IF j = 0 THEN i ELSE StepOver(l, j, f[j - 1])]
                /\ Advanced(i, l) = f[Len(l)]
<1> DEFINE S == {n \in Nat : \E f :
                   f = [j \in 0..n |-> IF j = 0 THEN i ELSE StepOver(l, j, f[j - 1])]}
<1>1. 0 \in S
  <2> DEFINE f == [j \in 0..0 |-> i]
  <2>1. f = [j \in 0..0 |-> IF j = 0 THEN i ELSE StepOver(l, j, f[j - 1])]
    OBVIOUS
  <2> QED BY <2>1
<1>2. ASSUME NEW n \in S PROVE n + 1 \in S
  <2>1. PICK f : f = [j \in 0..n |-> IF j = 0 THEN i ELSE StepOver(l, j, f[j - 1])]
    BY <1>2
  <2> DEFINE g == [j \in 0..n + 1 |-> IF j = n + 1 THEN StepOver(l, n + 1, f[n]) ELSE f[j]]
  <2>2. ASSUME NEW j \in 0..n + 1
        PROVE  g[j] = IF j = 0 THEN i ELSE StepOver(l, j, g[j - 1])
    <3>1. CASE j = n + 1
      BY <3>1
    <3>2. CASE j # n + 1
      <4>1. j \in 0..n /\ g[j] = f[j] /\ (j # 0 => g[j - 1] = f[j - 1])
        BY <3>2
      <4>2. f[j] = IF j = 0 THEN i ELSE StepOver(l, j, f[j - 1])
        BY <2>1, <4>1
      <4> QED BY <4>1, <4>2
    <3> QED BY <3>1, <3>2
  <2>3. g = [j \in 0..n + 1 |-> IF j = 0 THEN i ELSE StepOver(l, j, g[j - 1])]
    BY <2>2
  <2>4. n + 1 \in Nat
    OBVIOUS
  <2> HIDE DEF g
  <2> QED BY <2>3, <2>4
<1>3. Len(l) \in S
  <2>1. S \in SUBSET Nat /\ Len(l) \in Nat
    OBVIOUS
  <2> HIDE DEF S
  <2> QED BY <1>1, <1>2, <2>1, SetInduction
<1> DEFINE after == CHOOSE f :
                 f = [j \in 0..Len(l) |-> IF j = 0 THEN i ELSE StepOver(l, j, f[j - 1])]
<1>4. after = [j \in 0..Len(l) |-> IF j = 0 THEN i ELSE StepOver(l, j, after[j - 1])]
  BY <1>3
<1>5. Advanced(i, l) = after[Len(l)]
  BY DEF Advanced, StepOver
<1> HIDE DEF after
<1> QED BY <1>4, <1>5

(* Where the first n frames of an ascending list take the number s: to one *)
(* of them and past it, or nowhere, and to none of them.                   *)
Reaches(b, s, l, n) ==
  /\ s <= b
  /\ b = s \/ \E m \in 1..n : b = l[m] + 1
  /\ \A m \in 1..n : l[m] # b

(* reord_rxframes_process stops at a number b that is none of the frames,  *)
(* and either did not move or has just passed one.                         *)
LEMMA AdvancedIs ==
  ASSUME NEW l \in Seq(Frames), NEW t \in Int, NEW s \in t - Lag - Window + 1..t + 1,
         Ascending(l), Recent(l, t)
  PROVE  \E b \in s..t + 1 : Advanced(Sn(s), l) = Sn(b) /\ Reaches(b, s, l, Len(l))
<1>1. Len(l) \in Nat /\ DOMAIN l = 1..Len(l) /\ s \in Int /\ \A j \in DOMAIN l : l[j] \in Int
  BY PoolAssumption, HalfFacts DEF Frames
<1>2. PICK f : /\ f = [j \in 0..Len(l) |-> IF j = 0 THEN Sn(s) ELSE StepOver(l, j, f[j - 1])]
               /\ Advanced(Sn(s), l) = f[Len(l)]
  BY AdvancedDef
<1> DEFINE S == {n \in Nat : n <= Len(l) => \E b \in s..t + 1 : f[n] = Sn(b) /\ Reaches(b, s, l, n)}
<1>3. 0 \in S
  <2>1. f[0] = Sn(s) /\ s \in s..t + 1
    BY <1>1, <1>2
  <2>2. Reaches(s, s, l, 0)
    BY <1>1 DEF Reaches
  <2> QED BY <2>1, <2>2
<1>4. ASSUME NEW n \in S PROVE n + 1 \in S
  <2>0. n + 1 \in Nat
    OBVIOUS
  <2>1. SUFFICES ASSUME n + 1 <= Len(l)
                 PROVE  \E b \in s..t + 1 : f[n + 1] = Sn(b) /\ Reaches(b, s, l, n + 1)
    BY <2>0
  <2>2. PICK a \in s..t + 1 : f[n] = Sn(a) /\ Reaches(a, s, l, n)
    BY <1>1, <2>1
  <2>3. n \in Nat /\ a \in Int /\ n + 1 \in DOMAIN l
    BY <1>1, <2>1, HalfFacts
  <2>4. f[n + 1] = StepOver(l, n + 1, Sn(a))
    <3>1. n + 1 \in 0..Len(l) /\ n + 1 # 0 /\ (n + 1) - 1 = n
      BY <1>1, <2>1
    <3> QED BY <1>2, <2>2, <3>1
  <2>5. Sn(l[n + 1]) = Sn(a) <=> l[n + 1] = a
    <3>1. l[n + 1] - a \in -Half..Half /\ l[n + 1] \in Int
      BY <1>1, <2>3, HalfFacts DEF Recent
    <3> QED BY <2>3, <3>1, SnSame
  <2>6. CASE l[n + 1] = a
    <3>1. f[n + 1] = Sn(a + 1)
      BY <2>3, <2>4, <2>5, <2>6, SnAdd DEF StepOver
    <3>2. a + 1 \in s..t + 1
      BY <1>1, <2>3, <2>6 DEF Recent
    <3>3. Reaches(a + 1, s, l, n + 1)
      <4>1. \A m \in 1..n : l[m] < l[n + 1]
        BY <1>1, <2>3 DEF Ascending
      <4>2. \A m \in 1..n + 1 : m \in 1..n \/ m = n + 1
        BY <2>3
      <4>3. ASSUME NEW m \in 1..n + 1 PROVE l[m] # a + 1
        <5>1. l[m] \in Int
          BY <1>1, <2>1
        <5> QED BY <2>3, <2>6, <4>1, <4>2, <5>1
      <4>4. \E m \in 1..n + 1 : a + 1 = l[m] + 1
        BY <2>3, <2>6
      <4> QED BY <1>1, <2>2, <2>3, <4>3, <4>4 DEF Reaches
    <3> QED BY <3>1, <3>2, <3>3
  <2>7. CASE l[n + 1] # a
    <3>1. f[n + 1] = Sn(a)
      BY <2>4, <2>5, <2>7 DEF StepOver
    <3>2. \A m \in 1..n + 1 : m \in 1..n \/ m = n + 1
      BY <2>3
    <3>3. 1..n \subseteq 1..n + 1
      BY <2>3
    <3>4. Reaches(a, s, l, n + 1)
      BY <2>2, <2>7, <3>2, <3>3 DEF Reaches
    <3> QED BY <3>1, <3>4
  <2> QED BY <2>6, <2>7
<1>5. Len(l) \in S
  <2>1. S \in SUBSET Nat
    OBVIOUS
  <2> HIDE DEF S
  <2> QED BY <1>1, <1>3, <1>4, <2>1, SetInduction
<1> QED BY <1>1, <1>2, <1>5

(* What a step delivers in sequence comes after what was delivered before  *)
(* and before what it leaves waiting.                                      *)
OrderStep ==
  \A n \in seen' \ seen :
    /\ \A m \in seen : m < n
    /\ \A i \in DOMAIN list' : n < list'[i]

(* What both callers of the two functions have in common: everything up to *)
(* a new anchor b is delivered in order, and everything after it waits.    *)
LEMMA FlowOrder ==
  ASSUME NEW l \in Seq(Frames), NEW t \in Int, NEW s \in t - Lag - Window + 1..t + 1, NEW f,
         Ascending(l), Recent(l, t),
         seen \subseteq Frames, \A m \in seen : m < s /\ \A j \in DOMAIN l : m < l[j],
         DeliveredOnce, Flow(Sn(s), l, f)
  PROVE  /\ \E b \in s..t + 1 : /\ ind' = Sn(b)
                                /\ \A m \in seen' : m < b
                                /\ \A i \in DOMAIN list' : b < list'[i]
         /\ Ascending(list') /\ OrderStep
         /\ \A i \in DOMAIN list' : \E j \in DOMAIN l : list'[i] = l[j]
         /\ \A m \in seen', i \in DOMAIN list' : m < list'[i]
         /\ seen' \subseteq Frames /\ harm' = harm
<1> DEFINE c == Advanced(Sn(s), l)
           k == Ready(c, l)
<1>1. Len(l) \in Nat /\ DOMAIN l = 1..Len(l) /\ s \in Int /\ \A j \in DOMAIN l : l[j] \in Int /\ l[j] \in Frames
  BY PoolAssumption, HalfFacts DEF Frames
<1>2. PICK b \in s..t + 1 : c = Sn(b) /\ Reaches(b, s, l, Len(l))
  BY AdvancedIs
<1>3. b \in t - Lag - Window + 1..t + 1 /\ b \in Int /\ s <= b
  BY <1>1, HalfFacts
<1>4. /\ k \in 0..Len(l)
      /\ \A j \in 1..k : l[j] <= b
      /\ k < Len(l) => b < l[k + 1]
  BY <1>2, <1>3, ReadyIs
<1>5. /\ ind' = c /\ list' = SubSeq(l, k + 1, Len(l))
      /\ seen' = seen \cup {SubSeq(l, 1, k)[i] : i \in DOMAIN SubSeq(l, 1, k)}
      /\ harm' = IF \E i \in DOMAIN SubSeq(l, 1, k) :
                       SubSeq(l, 1, k)[i] \in seen \/ \E j \in 1..i - 1 : SubSeq(l, 1, k)[j] = SubSeq(l, 1, k)[i]
                 THEN harm \cup {"twice"} ELSE harm
  BY DEF Flow, Deliver
<1> HIDE DEF c, k
<1>6. DOMAIN SubSeq(l, 1, k) = 1..k /\ \A i \in 1..k : SubSeq(l, 1, k)[i] = l[i]
  BY <1>1, <1>4
<1>7. /\ DOMAIN list' = 1..Len(l) - k
      /\ \A i \in 1..Len(l) - k : list'[i] = l[k + i] /\ k + i \in 1..Len(l) /\ k + i > k
  BY <1>1, <1>4, <1>5
<1>8. \A j \in 1..k : j \in DOMAIN l /\ l[j] < b
  <2> TAKE j \in 1..k
  <2>1. j \in 1..Len(l)
    BY <1>1, <1>4
  <2>2. l[j] <= b /\ l[j] # b /\ l[j] \in Int
    BY <1>1, <1>2, <1>4, <2>1 DEF Reaches
  <2> QED BY <1>1, <1>3, <2>1, <2>2
<1>9. \A i \in DOMAIN list' : b < list'[i]
  <2> TAKE i \in DOMAIN list'
  <2>1. i \in 1..Len(l) - k /\ k + 1 \in 1..Len(l) /\ k < Len(l)
    BY <1>1, <1>4, <1>7
  <2>2. list'[i] = l[k + 1] \/ l[k + 1] < list'[i]
    <3>1. k + i = k + 1 \/ k + 1 < k + i
      BY <1>4, <2>1
    <3> QED BY <1>1, <1>7, <2>1, <3>1 DEF Ascending
  <2>3. list'[i] \in Int /\ l[k + 1] \in Int /\ b < l[k + 1]
    BY <1>1, <1>4, <1>7, <2>1
  <2> QED BY <1>3, <2>2, <2>3
<1>10. \A n \in seen' \ seen : \E j \in 1..k : n = l[j]
  BY <1>5, <1>6
<1>11. seen' \subseteq Frames
  BY <1>1, <1>5, <1>6, <1>8
<1>12. \A m \in seen' : m < b
  <2> TAKE m \in seen'
  <2>1. m \in Int
    BY <1>11, PoolAssumption DEF Frames
  <2>2. CASE m \in seen
    BY <1>1, <1>3, <2>1, <2>2
  <2>3. CASE m \notin seen
    BY <1>8, <1>10, <2>3
  <2> QED BY <2>2, <2>3
<1>13. \A i \in DOMAIN list' : list'[i] \in Int /\ \E j \in DOMAIN l : list'[i] = l[j]
  BY <1>1, <1>7
<1>14. \A m \in seen', i \in DOMAIN list' : m < list'[i]
  <2> TAKE m \in seen', i \in DOMAIN list'
  <2>1. m \in Int /\ m < b /\ b < list'[i] /\ list'[i] \in Int
    BY <1>9, <1>11, <1>12, <1>13, PoolAssumption DEF Frames
  <2> QED BY <1>3, <2>1
<1>15. Ascending(list')
  <2> SUFFICES ASSUME NEW i \in DOMAIN list', NEW j \in DOMAIN list', i < j
               PROVE  list'[i] < list'[j]
    BY DEF Ascending
  <2>1. k + i \in DOMAIN l /\ k + j \in DOMAIN l /\ k + i < k + j
    BY <1>1, <1>4, <1>7
  <2> QED BY <1>7, <2>1 DEF Ascending
<1>16. OrderStep
  <2> SUFFICES ASSUME NEW n \in seen' \ seen
               PROVE  /\ \A m \in seen : m < n
                      /\ \A i \in DOMAIN list' : n < list'[i]
    BY DEF OrderStep
  <2>1. PICK j \in DOMAIN l : n = l[j]
    BY <1>8, <1>10
  <2> QED BY <1>14, <2>1
<1>17. harm' = harm
  <2>1. ASSUME NEW i \in 1..k PROVE l[i] \notin seen /\ \A j \in 1..i - 1 : l[j] # l[i]
    <3>1. i \in DOMAIN l /\ l[i] \in Int
      BY <1>1, <1>8
    <3>2. l[i] \notin seen
      BY <3>1
    <3>3. ASSUME NEW j \in 1..i - 1 PROVE l[j] # l[i]
      <4>1. j \in DOMAIN l /\ j < i /\ l[j] \in Int
        BY <1>1, <3>1
      <4> QED BY <3>1, <4>1 DEF Ascending
    <3> QED BY <3>2, <3>3
  <2>2. ~\E i \in DOMAIN SubSeq(l, 1, k) :
            SubSeq(l, 1, k)[i] \in seen \/ \E j \in 1..i - 1 : SubSeq(l, 1, k)[j] = SubSeq(l, 1, k)[i]
    <3>1. \A i \in 1..k : \A j \in 1..i - 1 : j \in 1..k
      BY <1>1, <1>4
    <3> QED BY <1>6, <2>1, <3>1
  <2> QED BY <1>5, <2>2
<1> QED BY <1>2, <1>5, <1>9, <1>11, <1>12, <1>13, <1>14, <1>15, <1>16, <1>17

(* The frames of the list with one more. *)
LEMMA InsertIs ==
  ASSUME list \in Seq(Frames), NEW n \in Frames, NEW p \in 1..Len(list) + 1
  PROVE  \A j \in 1..Len(list) + 1 :
           InsertAt(list, p, n)[j] = IF j < p THEN list[j] ELSE IF j = p THEN n ELSE list[j - 1]
<1> DEFINE head == SubSeq(list, 1, p - 1)
           tail == SubSeq(list, p, Len(list))
           mid  == head \o <<n>>
<1>1. Len(list) \in Nat /\ p \in Nat /\ p > 0 /\ p <= Len(list) + 1
  OBVIOUS
<1>2. head \in Seq(Frames) /\ Len(head) = p - 1 /\ \A j \in 1..p - 1 : head[j] = list[j]
  BY <1>1
<1>3. tail \in Seq(Frames) /\ Len(tail) = Len(list) - p + 1
      /\ \A j \in 1..Len(list) - p + 1 : tail[j] = list[p + j - 1]
  BY <1>1
<1>4. InsertAt(list, p, n) = mid \o tail
  BY DEF InsertAt
<1> HIDE DEF head, tail
<1>5. mid \in Seq(Frames) /\ Len(mid) = p /\ mid[p] = n /\ \A j \in 1..p - 1 : mid[j] = list[j]
  BY <1>1, <1>2
<1> HIDE DEF mid
<1>6. ASSUME NEW j \in 1..Len(list) + 1
      PROVE  (mid \o tail)[j] = IF j < p THEN list[j] ELSE IF j = p THEN n ELSE list[j - 1]
  <2>1. CASE j <= p
    <3>1. (mid \o tail)[j] = mid[j]
      BY <1>1, <1>3, <1>5, <2>1
    <3>2. j = p \/ (j \in 1..p - 1 /\ j < p)
      BY <1>1, <2>1
    <3> QED BY <1>1, <1>5, <3>1, <3>2
  <2>2. CASE j > p
    <3>1. (mid \o tail)[j] = tail[j - p] /\ j - p \in 1..Len(list) - p + 1
      BY <1>1, <1>3, <1>5, <2>2
    <3>2. tail[j - p] = list[p + (j - p) - 1]
      BY <1>3, <3>1
    <3>3. p + (j - p) - 1 = j - 1 /\ ~(j < p) /\ j # p
      BY <1>1, <2>2
    <3> QED BY <3>1, <3>2, <3>3
  <2>3. j <= p \/ j > p
    BY <1>1
  <2> QED BY <2>1, <2>2, <2>3, Zenon
<1> QED BY <1>4, <1>6

(* The list with a frame that is not in it yet. *)
LEMMA InsertOrder ==
  ASSUME list \in Seq(Frames), NEW t \in Int, Ascending(list), Recent(list, t),
         NEW n \in Frames, t - Lag <= n, n <= t,
         ~(Place(n) <= Len(list) /\ Sn(list[Place(n)]) = Sn(n))
  PROVE  LET l == InsertAt(list, Place(n), n)
         IN  /\ l \in Seq(Frames) /\ Ascending(l) /\ Recent(l, t)
             /\ \A j \in DOMAIN l : l[j] = n \/ \E i \in DOMAIN list : l[j] = list[i]
<1> DEFINE p == Place(n)
           l == InsertAt(list, p, n)
<1>1. Len(list) \in Nat /\ DOMAIN list = 1..Len(list) /\ n \in Int
      /\ \A j \in 1..Len(list) : list[j] \in Int
  BY PoolAssumption DEF Frames
<1>2. /\ p \in 1..Len(list) + 1
      /\ \A j \in 1..p - 1 : list[j] < n
      /\ p <= Len(list) => n <= list[p] /\ (Sn(list[p]) = Sn(n) => list[p] = n)
  BY PlaceIs
<1>3. p <= Len(list) => n < list[p]
  <2> SUFFICES ASSUME p <= Len(list) PROVE n < list[p]
    OBVIOUS
  <2>1. p \in 1..Len(list) /\ n <= list[p] /\ Sn(list[p]) # Sn(n)
    BY <1>1, <1>2
  <2>2. n # list[p]
    BY <2>1
  <2> QED BY <1>1, <2>1, <2>2
<1> HIDE DEF p
<1>4. l \in Seq(Frames) /\ Len(l) = Len(list) + 1 /\ DOMAIN l = 1..Len(list) + 1
  <2>1. l \in Seq(Frames) /\ Len(l) = Len(list) + 1
    BY <1>2, InsertType
  <2> HIDE DEF l
  <2> QED BY <2>1
<1>5. \A j \in 1..Len(list) + 1 :
        l[j] = IF j < p THEN list[j] ELSE IF j = p THEN n ELSE list[j - 1]
  BY <1>2, InsertIs
<1> HIDE DEF l
<1>6. \A j \in 1..Len(list) + 1 :
        /\ j < p => j \in 1..Len(list)
        /\ j > p => j - 1 \in 1..Len(list)
  BY <1>1, <1>2
<1>7. \A j \in DOMAIN l : l[j] = n \/ \E i \in DOMAIN list : l[j] = list[i]
  <2> TAKE j \in DOMAIN l
  <2>1. j \in 1..Len(list) + 1 /\ (j < p \/ j = p \/ j > p)
    BY <1>1, <1>2, <1>4
  <2>2. CASE j < p
    BY <1>1, <1>5, <1>6, <2>1, <2>2
  <2>3. CASE j = p
    BY <1>5, <2>1, <2>3
  <2>4. CASE j > p
    <3>1. l[j] = list[j - 1] /\ j - 1 \in DOMAIN list
      BY <1>1, <1>2, <1>5, <1>6, <2>1, <2>4
    <3> QED BY <3>1
  <2> QED BY <2>1, <2>2, <2>3, <2>4
<1>8. Recent(l, t)
  BY <1>1, <1>7 DEF Recent
<1>9. \A j \in p..Len(list) : n < list[j]
  <2> TAKE j \in p..Len(list)
  <2>1. p \in 1..Len(list) /\ j \in 1..Len(list) /\ (j = p \/ p < j)
    BY <1>1, <1>2
  <2>2. n < list[p] /\ (list[p] < list[j] \/ list[p] = list[j])
    BY <1>1, <1>3, <2>1, SMTT(30) DEF Ascending
  <2> QED BY <1>1, <2>1, <2>2
<1>10. Ascending(l)
  <2> SUFFICES ASSUME NEW i \in DOMAIN l, NEW j \in DOMAIN l, i < j
               PROVE  l[i] < l[j]
    BY DEF Ascending
  <2>1. i \in 1..Len(list) + 1 /\ j \in 1..Len(list) + 1 /\ p \in Nat
    BY <1>2, <1>4
  <2>2. CASE j < p
    BY <1>1, <1>5, <1>6, <2>1, <2>2 DEF Ascending
  <2>3. CASE j = p
    BY <1>2, <1>5, <2>1, <2>3
  <2>4. CASE j > p
    <3>1. l[j] = list[j - 1] /\ j - 1 \in 1..Len(list)
      BY <1>5, <1>6, <2>1, <2>4
    <3>2. CASE i < p
      <4>1. l[i] = list[i] /\ i \in 1..Len(list) /\ i < j - 1
        BY <1>5, <1>6, <2>1, <2>4, <3>2
      <4> QED BY <1>1, <3>1, <4>1 DEF Ascending
    <3>3. CASE i = p
      <4>1. j - 1 \in p..Len(list) /\ l[i] = n
        BY <1>5, <2>1, <2>4, <3>1, <3>3
      <4> QED BY <1>9, <3>1, <4>1
    <3>4. CASE i > p
      <4>1. l[i] = list[i - 1] /\ i - 1 \in 1..Len(list) /\ i - 1 < j - 1
        BY <1>5, <1>6, <2>1, <3>4
      <4> QED BY <1>1, <3>1, <4>1 DEF Ascending
    <3> QED BY <2>1, <3>2, <3>3, <3>4
  <2> QED BY <2>1, <2>2, <2>3, <2>4
<1> QED BY <1>4, <1>7, <1>8, <1>10 DEF l, p

(* reord_need_check for a frame c that is not before a. *)
LEMMA PulledIs ==
  ASSUME NEW a \in Int, NEW c \in Int, a <= c, c - a < Half
  PROVE  \E s \in Int : /\ Pulled(Sn(a), Sn(c)) = Sn(s)
                        /\ a <= s /\ s <= c + 1 /\ c - Window + 1 <= s
                        /\ c - a \in 1..Window - 1 => s = a
<1>1. WindowEnd(Sn(a)) = Sn(a + Window - 1)
  <2>1. Sn(a) \in Int /\ Window \in Int
    BY SnType, HalfFacts
  <2>2. (Sn(a) + (Window - 1)) % Modulus = Sn(a + (Window - 1))
    BY SnAdd, HalfFacts
  <2>3. Sn(a) + (Window - 1) = Sn(a) + Window - 1 /\ a + (Window - 1) = a + Window - 1
    BY <2>1
  <2> QED BY <2>2, <2>3 DEF WindowEnd
<1>2. Sn(c) = Sn(a) <=> c = a
  <2>1. c - a \in -Half..Half
    BY HalfFacts
  <2> QED BY <2>1, SnSame
<1>3. SnLess(WindowEnd(Sn(a)), Sn(c)) <=> a + Window - 1 < c
  <2> DEFINE w == a + Window - 1
  <2>1. w \in Int /\ w - c \in -Half..Half - 1
    BY HalfFacts
  <2> HIDE DEF w
  <2>2. SnLess(Sn(w), Sn(c)) <=> w < c
    BY <2>1, SnLessNear
  <2> QED BY <1>1, <2>2 DEF w
<1>4. CASE c = a
  <2>1. Pulled(Sn(a), Sn(c)) = Sn(a + 1)
    BY <1>4, SnAdd DEF Pulled
  <2> QED BY <1>4, <2>1, HalfFacts
<1>5. CASE c # a /\ a + Window - 1 < c
  <2>1. Pulled(Sn(a), Sn(c)) = (Sn(c) - (Window - 1)) % Modulus
    BY <1>2, <1>3, <1>5 DEF Pulled
  <2>2. (Sn(c) + (-(Window - 1))) % Modulus = Sn(c + (-(Window - 1)))
    BY SnAdd, HalfFacts
  <2>3. Sn(c) - (Window - 1) = Sn(c) + (-(Window - 1)) /\ c + (-(Window - 1)) = c - Window + 1
    BY SnType, HalfFacts
  <2>4. Pulled(Sn(a), Sn(c)) = Sn(c - Window + 1)
    BY <2>1, <2>2, <2>3
  <2>5. /\ c - Window + 1 \in Int /\ a <= c - Window + 1 /\ c - Window + 1 <= c + 1
        /\ ~(c - a \in 1..Window - 1)
    BY <1>5, HalfFacts
  <2> QED BY <2>4, <2>5
<1>6. CASE c # a /\ ~(a + Window - 1 < c)
  <2>1. Pulled(Sn(a), Sn(c)) = Sn(a)
    BY <1>2, <1>3, <1>6 DEF Pulled
  <2> QED BY <1>6, <2>1, HalfFacts
<1> QED BY <1>4, <1>5, <1>6

-----------------------------------------------------------------------------
(* The order, step by step *)

RangeInv ==
  /\ ind \in 0..Modulus - 1 \cup {Unset}
  /\ cur \in Frames \cup {NoFrame}
  /\ top \in FirstFrame - 1..LastFrame
  /\ seen \subseteq Frames
  /\ harm \subseteq {"freedInUse", "freedRaced", "twice"}

(* The receive thread's frame is one of the last that came. *)
CurInv == rx # "idle" => cur \in Frames /\ top - Delay <= cur /\ cur <= top

(* What waits comes after all that was delivered. *)
SeenInv == \A m \in seen, i \in DOMAIN list : m < list[i]

(* The list is in use: it is enabled, or was when the receive thread looked. *)
Active == enable \/ rx = "sort"

(* ind stands for the number a, past all that was delivered; what waits is *)
(* in the window behind it.                                                *)
Anchor(a) ==
  /\ ind = Sn(a) /\ a - 1 <= top
  /\ \A m \in seen : m < a
  /\ dpc = "idle" => \A i \in DOMAIN list : a < list[i] /\ list[i] < a + Window

IndInv == Active => IF ind = Unset THEN seen = {} ELSE \E a \in Int : Anchor(a)

UnsetInv == dpc = "idle" /\ list # <<>> => ind # Unset

OrderInv ==
  /\ RangeInv /\ Ascending(list) /\ Recent(list, top) /\ CurInv /\ SeenInv
  /\ IndInv /\ UnsetInv /\ DeliveredOnce

(* Steps that neither take frames in nor let any out. *)
LEMMA StillOrder ==
  ASSUME OrderInv, UNCHANGED <<ind, list, top, seen, harm>>,
         Active' => Active, dpc' = "idle" => dpc = "idle",
         \/ rx' = "idle" /\ cur' \in {cur, NoFrame}
         \/ rx # "idle" /\ cur' = cur
  PROVE  OrderInv' /\ OrderStep
<1>1. RangeInv' /\ CurInv' /\ SeenInv' /\ UnsetInv' /\ DeliveredOnce'
  BY DEF OrderInv, RangeInv, CurInv, SeenInv, UnsetInv, DeliveredOnce
<1>2. Ascending(list)' /\ Recent(list, top)'
  BY DEF OrderInv, Ascending, Recent
<1>3. IndInv'
  <2>1. ASSUME NEW a \in Int, Anchor(a) PROVE Anchor(a)'
    BY <2>1 DEF Anchor
  <2> QED BY <2>1 DEF OrderInv, IndInv
<1>4. OrderStep
  BY DEF OrderStep
<1> QED BY <1>1, <1>2, <1>3, <1>4 DEF OrderInv

(* A frame that comes in is one of the last. *)
LEMMA ArriveOrder ==
  ASSUME IInv, OrderInv, \E n \in Frames : Arrive(n) \/ FlushLookup(n)
  PROVE  OrderInv' /\ OrderStep
<1>1. PICK n \in Frames : Arrive(n) \/ FlushLookup(n)
  OBVIOUS
<1>2. /\ rx = "idle" /\ Comes(n) /\ UNCHANGED <<ind, list, enable, dpc, seen, harm>>
      /\ rx' # "idle" => cur' = n
      /\ rx' # "sort"
      /\ cur' \in {cur, n}
  BY <1>1 DEF Arrive, FlushLookup, ctrl, ghosts
<1>3. /\ n \in Int /\ top \in Int /\ \A j \in DOMAIN list : list[j] \in Int
      /\ n \in FirstFrame..LastFrame /\ list \in Seq(Frames)
  BY PoolAssumption DEF Frames, OrderInv, RangeInv, IInv, CountOK
<1>4. n >= top - Delay /\ top' = (IF n > top THEN n ELSE top) /\ (list # <<>> => n <= list[1] + Lag)
  BY <1>2 DEF Comes
<1>5. top' \in FirstFrame - 1..LastFrame /\ top <= top' /\ n <= top' /\ top' - Delay <= n /\ top' \in {n, top}
  BY <1>3, <1>4, HalfFacts, PoolAssumption DEF OrderInv, RangeInv
<1>6. RangeInv' /\ CurInv' /\ SeenInv' /\ UnsetInv' /\ DeliveredOnce' /\ Ascending(list)'
  <2>1. RangeInv'
    BY <1>2, <1>5 DEF OrderInv, RangeInv
  <2>2. CurInv'
    BY <1>2, <1>5 DEF CurInv
  <2>3. SeenInv' /\ UnsetInv' /\ DeliveredOnce' /\ Ascending(list)'
    BY <1>2 DEF OrderInv, SeenInv, UnsetInv, DeliveredOnce, Ascending
  <2> QED BY <2>1, <2>2, <2>3
<1>7. Recent(list, top)'
  <2> SUFFICES ASSUME NEW j \in DOMAIN list PROVE top' - Lag <= list[j] /\ list[j] <= top'
    BY <1>2 DEF Recent
  <2>1. list # <<>> /\ 1 \in DOMAIN list /\ j \in Nat /\ j >= 1
    BY <1>3
  <2>2. list[1] \in Int /\ list[j] \in Int /\ list[1] <= list[j]
    <3>1. CASE j = 1
      BY <1>3, <2>1, <3>1
    <3>2. CASE j # 1
      BY <1>3, <2>1, <3>2 DEF OrderInv, Ascending
    <3> QED BY <3>1, <3>2
  <2>3. top - Lag <= list[j] /\ list[j] <= top
    BY DEF OrderInv, Recent
  <2> QED BY <1>3, <1>4, <1>5, <2>1, <2>2, <2>3, HalfFacts
<1>8. IndInv'
  <2>1. ASSUME NEW a \in Int, Anchor(a) PROVE Anchor(a)'
    <3>1. a - 1 <= top
      BY <2>1 DEF Anchor
    <3>2. a \in Int /\ top \in Int /\ top' \in Int /\ top <= top'
      BY <1>3, <1>5, <2>1
    <3>3. a - 1 <= top'
      BY <3>1, <3>2
    <3> QED BY <1>2, <2>1, <3>3 DEF Anchor
  <2>2. Active' => Active
    BY <1>2 DEF Active
  <2> QED BY <1>2, <2>1, <2>2 DEF OrderInv, IndInv
<1>9. OrderStep
  BY <1>2 DEF OrderStep
<1> QED BY <1>6, <1>7, <1>8, <1>9 DEF OrderInv

(* A list that is enabled anew has delivered nothing. *)
LEMMA LookupOrder ==
  ASSUME IInv, OrderInv, Lookup
  PROVE  OrderInv' /\ OrderStep
<1>1. /\ rx = "frame" /\ rx' = "unit" /\ UNCHANGED <<list, cur, dpc, top, harm>>
      /\ seen' \subseteq seen
  BY DEF Lookup, IInv, GoneInv
<1>2. \/ enable /\ UNCHANGED <<ind, seen>>
      \/ ind' = Unset /\ seen' = {} /\ (dpc = "idle" => list = <<>>)
  BY DEF Lookup, IInv, GoneInv, DisabledInv
<1>3. RangeInv' /\ CurInv' /\ SeenInv' /\ UnsetInv' /\ DeliveredOnce'
  BY <1>1, <1>2 DEF OrderInv, RangeInv, CurInv, SeenInv, UnsetInv, DeliveredOnce
<1>4. Ascending(list)' /\ Recent(list, top)' /\ OrderStep
  BY <1>1 DEF OrderInv, Ascending, Recent, OrderStep
<1>5. IndInv'
  <2>1. ASSUME NEW a \in Int, Anchor(a), UNCHANGED <<ind, seen>> PROVE Anchor(a)'
    BY <1>1, <2>1 DEF Anchor
  <2> QED BY <1>2, <2>1 DEF OrderInv, IndInv, Active
<1> QED BY <1>3, <1>4, <1>5 DEF OrderInv

(* The number the frame of the receive thread is compared with: that of    *)
(* the list, moved by full turns up to the frame if nothing waits.         *)
LEMMA NewIndIs ==
  ASSUME IInv, OrderInv, rx = "sort", ~Behind
  PROVE  \E s \in Int :
           /\ NewInd = Sn(s) /\ cur - Window + 1 <= s /\ s <= cur + 1
           /\ \A m \in seen : m < s /\ m < cur
           /\ ind # Unset => \E a \in Int :
                /\ Anchor(a) /\ a <= s
                /\ cur - a \in 1..Window - 1 => s = a
<1>1. /\ cur \in Frames /\ cur \in Int /\ top - Delay <= cur /\ cur <= top /\ top \in Int
      /\ \A m \in seen : m \in Int
      /\ Active
  BY PoolAssumption DEF OrderInv, CurInv, RangeInv, Frames, Active
<1>2. CASE ind = Unset
  <2>1. PICK s \in Int : /\ Pulled(Sn(cur), Sn(cur)) = Sn(s)
                         /\ cur <= s /\ s <= cur + 1 /\ cur - Window + 1 <= s
    BY <1>1, PulledIs, HalfFacts
  <2>2. NewInd = Sn(s)
    BY <1>2, <2>1 DEF NewInd
  <2>3. seen = {}
    BY <1>1, <1>2 DEF OrderInv, IndInv
  <2> QED BY <1>2, <2>1, <2>2, <2>3
<1>3. CASE ind # Unset
  <2>1. PICK a \in Int : Anchor(a)
    BY <1>1, <1>3 DEF OrderInv, IndInv
  <2>2. ind = Sn(a) /\ a - 1 <= top /\ \A m \in seen : m < a
    BY <2>1 DEF Anchor
  <2>3. ~SnLess(Sn(cur), Sn(a))
    BY <1>3, <2>2 DEF Behind
  <2>4. cur >= a - Half
    BY <1>1, <2>2, HalfFacts
  <2>5. PICK b \in Int : /\ Sn(b) = Sn(a) /\ a <= b /\ b <= cur /\ cur - b < Half
                         /\ cur - a < Modulus => b = a
    BY <1>1, <2>3, <2>4, NotBehind
  <2>6. PICK s \in Int : /\ Pulled(Sn(b), Sn(cur)) = Sn(s)
                         /\ b <= s /\ s <= cur + 1 /\ cur - Window + 1 <= s
                         /\ cur - b \in 1..Window - 1 => s = b
    BY <1>1, <2>5, PulledIs
  <2>7. NewInd = Sn(s)
    BY <1>3, <2>2, <2>5, <2>6 DEF NewInd
  <2>8. a <= s /\ \A m \in seen : m < s /\ m < cur
    BY <1>1, <2>2, <2>5, <2>6
  <2>9. cur - a \in 1..Window - 1 => s = a
    BY <1>1, <2>5, <2>6, HalfFacts
  <2> QED BY <2>1, <2>6, <2>7, <2>8, <2>9
<1> QED BY <1>2, <1>3

(* The locked part of reord_process_unit, for a frame that is sorted in. *)
LEMMA SortOrder ==
  ASSUME IInv, OrderInv, Unit, Sorted
  PROVE  OrderInv' /\ OrderStep
<1> DEFINE l == InsertAt(list, Place(cur), cur)
<1>1. /\ rx = "sort" /\ rx' = "idle" /\ cur' = NoFrame
      /\ UNCHANGED <<enable, dpc, top>>
      /\ ~Behind /\ ~Duplicate /\ Flow(NewInd, l, free)
  BY DEF Unit, Sorted, Done
<1>2. PICK s \in Int :
           /\ NewInd = Sn(s) /\ cur - Window + 1 <= s /\ s <= cur + 1
           /\ \A m \in seen : m < s /\ m < cur
           /\ ind # Unset => \E a \in Int : Anchor(a) /\ a <= s
  BY <1>1, NewIndIs
<1>3. /\ cur \in Frames /\ cur \in Int /\ top - Delay <= cur /\ cur <= top /\ top \in Int
      /\ list \in Seq(Frames) /\ \A j \in DOMAIN list : list[j] \in Int
  BY <1>1, PoolAssumption DEF IInv, CountOK, OrderInv, CurInv, RangeInv, Frames
<1>4. /\ l \in Seq(Frames) /\ Ascending(l) /\ Recent(l, top)
      /\ \A j \in DOMAIN l : l[j] = cur \/ \E i \in DOMAIN list : l[j] = list[i]
  <2>1. Ascending(list) /\ Recent(list, top) /\ top - Lag <= cur
    BY <1>3, HalfFacts DEF OrderInv
  <2>2. ~(Place(cur) <= Len(list) /\ Sn(list[Place(cur)]) = Sn(cur))
    BY <1>1 DEF Duplicate
  <2> QED BY <1>3, <2>1, <2>2, InsertOrder
<1> HIDE DEF l
<1>5. s \in top - Lag - Window + 1..top + 1
  BY <1>2, <1>3, HalfFacts
<1>6. seen \subseteq Frames /\ \A m \in seen : m < s /\ \A j \in DOMAIN l : m < l[j]
  BY <1>2, <1>4 DEF OrderInv, RangeInv, SeenInv
<1>7. /\ \E b \in s..top + 1 : /\ ind' = Sn(b)
                               /\ \A m \in seen' : m < b
                               /\ \A i \in DOMAIN list' : b < list'[i]
      /\ Ascending(list') /\ OrderStep
      /\ \A i \in DOMAIN list' : \E j \in DOMAIN l : list'[i] = l[j]
      /\ \A m \in seen', i \in DOMAIN list' : m < list'[i]
      /\ seen' \subseteq Frames /\ harm' = harm
  <2>1. Flow(Sn(s), l, free) /\ DeliveredOnce
    BY <1>1, <1>2 DEF OrderInv
  <2> QED BY <1>3, <1>4, <1>5, <1>6, <2>1, FlowOrder
<1>8. PICK b \in s..top + 1 : /\ ind' = Sn(b)
                              /\ \A m \in seen' : m < b
                              /\ \A i \in DOMAIN list' : b < list'[i]
  BY <1>7
<1>9. b \in Int /\ Sn(b) \in 0..Modulus - 1
  BY <1>3, <1>8, SnType
<1>10. Recent(list, top)'
  BY <1>1, <1>4, <1>7 DEF Recent
<1>11. RangeInv' /\ CurInv' /\ SeenInv' /\ UnsetInv' /\ DeliveredOnce'
  <2>1. Sn(b) # Unset
    BY <1>9, HalfFacts DEF Unset
  <2> QED BY <1>1, <1>7, <1>8, <1>9, <2>1
      DEF OrderInv, RangeInv, CurInv, SeenInv, UnsetInv, DeliveredOnce
<1>12. IndInv'
  <2>1. ASSUME dpc = "idle", NEW i \in DOMAIN list' PROVE list'[i] < b + Window
    <3>1. PICK j \in DOMAIN l : list'[i] = l[j]
      BY <1>7
    <3>2. CASE l[j] = cur
      BY <1>2, <1>3, <1>8, <1>9, <3>1, <3>2, HalfFacts
    <3>3. CASE \E k \in DOMAIN list : l[j] = list[k]
      <4>1. PICK k \in DOMAIN list : l[j] = list[k]
        BY <3>3
      <4>2. ind # Unset
        BY <1>3, <2>1, <4>1 DEF OrderInv, UnsetInv
      <4>3. PICK a \in Int : Anchor(a) /\ a <= s
        BY <1>2, <4>2
      <4>4. list[k] < a + Window /\ list[k] \in Int
        BY <1>3, <2>1, <4>3 DEF Anchor
      <4> QED BY <1>8, <1>9, <3>1, <4>1, <4>3, <4>4, HalfFacts
    <3> QED BY <1>4, <3>2, <3>3
  <2>2. Anchor(b)'
    BY <1>1, <1>3, <1>8, <1>9, <2>1 DEF Anchor
  <2> QED BY <1>9, <2>2, HalfFacts DEF IndInv, Unset, Anchor
<1> QED BY <1>7, <1>10, <1>11, <1>12 DEF OrderInv

(* A frame that is in the list already only pulls the window along. *)
LEMMA RepeatedOrder ==
  ASSUME IInv, OrderInv, Unit, Repeated
  PROVE  OrderInv' /\ OrderStep
<1>1. /\ rx = "sort" /\ rx' = "idle" /\ cur' = NoFrame
      /\ UNCHANGED <<enable, dpc, top, list, seen, harm>>
      /\ ~Behind /\ Duplicate /\ ind' = NewInd
  BY DEF Unit, Repeated, Done, PassOn
<1>2. PICK s \in Int :
           /\ NewInd = Sn(s) /\ s <= cur + 1
           /\ \A m \in seen : m < s
           /\ ind # Unset => \E a \in Int :
                /\ Anchor(a) /\ a <= s
                /\ cur - a \in 1..Window - 1 => s = a
  BY <1>1, NewIndIs
<1>3. /\ cur \in Frames /\ cur \in Int /\ top - Delay <= cur /\ cur <= top /\ top \in Int
      /\ list \in Seq(Frames) /\ \A j \in DOMAIN list : list[j] \in Int
  BY <1>1, PoolAssumption DEF IInv, CountOK, OrderInv, CurInv, RangeInv, Frames
<1>4. \E p \in DOMAIN list : list[p] = cur
  <2>1. Recent(list, top) /\ top - Lag <= cur
    BY <1>3, HalfFacts DEF OrderInv
  <2>2. /\ Place(cur) \in 1..Len(list) + 1
        /\ Place(cur) <= Len(list) => (Sn(list[Place(cur)]) = Sn(cur) => list[Place(cur)] = cur)
    BY <1>3, <2>1, PlaceIs
  <2>3. Place(cur) <= Len(list) /\ Sn(list[Place(cur)]) = Sn(cur)
    BY <1>1 DEF Duplicate
  <2>4. Place(cur) \in DOMAIN list
    BY <1>3, <2>2, <2>3
  <2> QED BY <2>2, <2>3, <2>4
<1>5. Sn(s) \in 0..Modulus - 1 /\ Sn(s) # Unset
  BY SnType, HalfFacts DEF Unset
<1>6. RangeInv' /\ CurInv' /\ SeenInv' /\ UnsetInv' /\ DeliveredOnce'
  BY <1>1, <1>2, <1>5 DEF OrderInv, RangeInv, CurInv, SeenInv, UnsetInv, DeliveredOnce
<1>7. Ascending(list)' /\ Recent(list, top)' /\ OrderStep
  BY <1>1 DEF OrderInv, Ascending, Recent, OrderStep
<1>8. IndInv'
  <2>1. ASSUME dpc = "idle" PROVE \A i \in DOMAIN list : s < list[i] /\ list[i] < s + Window
    <3>1. ind # Unset
      BY <1>4, <2>1 DEF OrderInv, UnsetInv
    <3>2. PICK a \in Int : Anchor(a) /\ (cur - a \in 1..Window - 1 => s = a)
      BY <1>2, <3>1
    <3>3. \A i \in DOMAIN list : a < list[i] /\ list[i] < a + Window
      BY <2>1, <3>2 DEF Anchor
    <3>4. cur - a \in 1..Window - 1
      BY <1>3, <1>4, <3>3, HalfFacts
    <3> QED BY <3>2, <3>3, <3>4
  <2>2. Anchor(s)'
    BY <1>1, <1>2, <1>3, <2>1 DEF Anchor
  <2> QED BY <1>1, <1>2, <1>5, <2>2 DEF IndInv
<1> QED BY <1>6, <1>7, <1>8 DEF OrderInv

(* The receive thread's step on the list. *)
LEMMA UnitOrder ==
  ASSUME IInv, OrderInv, Unit \/ UnitDisabled
  PROVE  OrderInv' /\ OrderStep
<1>1. CASE Unit /\ Late
  <2>1. /\ rx = "sort" /\ rx' = "idle" /\ cur' = NoFrame /\ dpc' = dpc
        /\ UNCHANGED <<ind, list, top, seen, harm>>
    BY <1>1 DEF Unit, Late, Done, PassOn
  <2> QED BY <2>1, StillOrder DEF Active
<1>2. CASE UnitDisabled
  <2>1. /\ rx = "unit" /\ ~enable /\ rx' = "idle" /\ cur' = NoFrame /\ enable' = enable
        /\ UNCHANGED <<list, top, seen, harm, dpc>> /\ ind' = (Sn(cur) + 1) % Modulus
    BY <1>2 DEF UnitDisabled, PassOn, Done
  <2>2. cur \in Int
    BY <2>1, PoolAssumption DEF OrderInv, CurInv, Frames
  <2>3. ind' \in 0..Modulus - 1 /\ ind' # Unset
    <3>1. ind' = Sn(cur + 1) /\ cur + 1 \in Int
      BY <2>1, <2>2, SnAdd
    <3>2. Sn(cur + 1) \in 0..Modulus - 1
      BY <3>1, SnType
    <3>3. Modulus \in Nat
      BY HalfFacts
    <3> QED BY <3>1, <3>2, <3>3 DEF Unset
  <2>4. RangeInv' /\ CurInv' /\ SeenInv' /\ UnsetInv' /\ DeliveredOnce'
    BY <2>1, <2>3 DEF OrderInv, RangeInv, CurInv, SeenInv, UnsetInv, DeliveredOnce
  <2>5. Ascending(list)' /\ Recent(list, top)' /\ OrderStep
    BY <2>1 DEF OrderInv, Ascending, Recent, OrderStep
  <2>6. IndInv'
    BY <2>1 DEF IndInv, Active
  <2> QED BY <2>4, <2>5, <2>6 DEF OrderInv
<1> QED BY <1>1, <1>2, SortOrder, RepeatedOrder DEF Unit

(* The work gives the first gap up: the first frame that waits is next. *)
LEMMA WorkOrder ==
  ASSUME IInv, OrderInv, WorkRun
  PROVE  OrderInv' /\ OrderStep
<1>1. UNCHANGED <<enable, dpc, top, rx, cur>>
  BY DEF WorkRun, threads
<1>2. CASE list = <<>>
  <2>1. UNCHANGED <<ind, list, seen, harm>>
    BY <1>2 DEF WorkRun
  <2> QED BY <1>1, <2>1, StillOrder DEF Active
<1>3. CASE list # <<>>
  <2> DEFINE s == list[1]
  <2>1. /\ list \in Seq(Frames) /\ 1 \in DOMAIN list /\ s \in Int /\ top \in Int
        /\ \A j \in DOMAIN list : list[j] \in Int
    BY <1>3, PoolAssumption DEF IInv, CountOK, Frames, OrderInv, RangeInv
  <2>2. top - Lag <= s /\ s <= top /\ Ascending(list) /\ Recent(list, top)
    BY <2>1 DEF OrderInv, Recent
  <2>3. s \in top - Lag - Window + 1..top + 1
    BY <2>1, <2>2, HalfFacts
  <2>4. seen \subseteq Frames /\ \A m \in seen : m < s /\ \A j \in DOMAIN list : m < list[j]
    BY <2>1 DEF OrderInv, RangeInv, SeenInv
  <2>5. Flow(Sn(s), list, free) /\ DeliveredOnce
    BY <1>3 DEF WorkRun, OrderInv
  <2> HIDE DEF s
  <2>6. /\ \E b \in s..top + 1 : /\ ind' = Sn(b)
                                 /\ \A m \in seen' : m < b
                                 /\ \A i \in DOMAIN list' : b < list'[i]
        /\ Ascending(list') /\ OrderStep
        /\ \A i \in DOMAIN list' : \E j \in DOMAIN list : list'[i] = list[j]
        /\ \A m \in seen', i \in DOMAIN list' : m < list'[i]
        /\ seen' \subseteq Frames /\ harm' = harm
    BY <2>1, <2>2, <2>3, <2>4, <2>5, FlowOrder
  <2>7. PICK b \in s..top + 1 : /\ ind' = Sn(b)
                                /\ \A m \in seen' : m < b
                                /\ \A i \in DOMAIN list' : b < list'[i]
    BY <2>6
  <2>8. b \in Int /\ Sn(b) \in 0..Modulus - 1 /\ Sn(b) # Unset /\ s <= b /\ b - 1 <= top
    BY <2>1, <2>7, SnType, HalfFacts DEF Unset
  <2>9. Recent(list, top)'
    BY <1>1, <2>2, <2>6 DEF Recent
  <2>10. RangeInv' /\ CurInv' /\ SeenInv' /\ UnsetInv' /\ DeliveredOnce'
    BY <1>1, <2>6, <2>7, <2>8
       DEF OrderInv, RangeInv, CurInv, SeenInv, UnsetInv, DeliveredOnce
  <2>11. IndInv'
    <3>1. ASSUME dpc = "idle", NEW i \in DOMAIN list' PROVE list'[i] < b + Window
      <4>1. PICK j \in DOMAIN list : list'[i] = list[j]
        BY <2>6
      <4>2. ind # Unset /\ Active
        BY <1>3, <3>1 DEF OrderInv, UnsetInv, IInv, DisabledInv, Active
      <4>3. PICK a \in Int : Anchor(a)
        BY <4>2 DEF OrderInv, IndInv
      <4>4. list[j] < a + Window /\ a < s
        BY <2>1, <3>1, <4>3 DEF Anchor, s
      <4> QED BY <2>1, <2>8, <4>1, <4>4, HalfFacts
    <3>2. Anchor(b)'
      BY <1>1, <2>1, <2>7, <2>8, <3>1 DEF Anchor
    <3> QED BY <2>7, <2>8, <3>2 DEF IndInv
  <2> QED BY <2>6, <2>9, <2>10, <2>11 DEF OrderInv
<1> QED BY <1>2, <1>3

(* A flush delivers the whole list. *)
LEMMA FlushOrder ==
  ASSUME IInv, OrderInv, Flush
  PROVE  OrderInv' /\ OrderStep
<1>1. /\ rx' = "untimer" /\ ~enable' /\ list' = <<>> /\ rx = "flush"
      /\ UNCHANGED <<ind, cur, dpc, top>> /\ Deliver(list)
  BY DEF Flush
<1>2. /\ list \in Seq(Frames) /\ Len(list) \in Nat /\ DOMAIN list = 1..Len(list)
      /\ \A j \in DOMAIN list : list[j] \in Frames /\ list[j] \in Int
  BY PoolAssumption DEF IInv, CountOK, Frames
<1>3. seen' = seen \cup {list[i] : i \in DOMAIN list}
  BY <1>1 DEF Deliver
<1>4. harm' = harm
  <2>1. ASSUME NEW i \in DOMAIN list
        PROVE  list[i] \notin seen /\ \A j \in 1..i - 1 : list[j] # list[i]
    <3>1. list[i] \notin seen
      BY <1>2 DEF OrderInv, SeenInv
    <3>2. ASSUME NEW j \in 1..i - 1 PROVE list[j] # list[i]
      <4>1. j \in DOMAIN list /\ j < i
        BY <1>2
      <4>2. list[j] < list[i]
        BY <4>1 DEF OrderInv, Ascending
      <4> QED BY <1>2, <4>1, <4>2
    <3> QED BY <3>1, <3>2
  <2> QED BY <1>1, <2>1 DEF Deliver
<1>5. RangeInv' /\ CurInv' /\ SeenInv' /\ UnsetInv' /\ DeliveredOnce'
  BY <1>1, <1>2, <1>3, <1>4 DEF OrderInv, RangeInv, CurInv, SeenInv, UnsetInv, DeliveredOnce
<1>6. Ascending(list)' /\ Recent(list, top)'
  BY <1>1 DEF Ascending, Recent
<1>7. IndInv'
  BY <1>1 DEF IndInv, Active
<1>8. OrderStep
  <2> SUFFICES ASSUME NEW n \in seen' \ seen PROVE \A m \in seen : m < n
    BY <1>1 DEF OrderStep
  <2>1. \E i \in DOMAIN list : n = list[i]
    BY <1>3
  <2> QED BY <2>1 DEF OrderInv, SeenInv
<1> QED BY <1>5, <1>6, <1>7, <1>8 DEF OrderInv

(* The list of a station that is taken down is emptied. *)
LEMMA DeinitOrder ==
  ASSUME IInv, OrderInv, DeinitList \/ DeinitFree
  PROVE  OrderInv' /\ OrderStep
<1>1. /\ list' = <<>> /\ UNCHANGED <<top, seen>>
      /\ harm' \subseteq harm \cup {"freedInUse", "freedRaced"}
      /\ ind' \in {ind, Unset}
      /\ \/ ind' = ind /\ dpc' = "free" /\ UNCHANGED <<enable, rx, cur>>
         \/ ~enable' /\ rx' # "sort" /\ (UNCHANGED <<rx, cur>> \/ (rx' = "idle" /\ cur' = NoFrame))
  <2>1. CASE DeinitList
    BY <2>1 DEF DeinitList, ctrl, ghosts
  <2>2. CASE DeinitFree
    <3>1. list' = <<>> /\ UNCHANGED <<top, seen>> /\ ind' = Unset /\ ~enable'
      BY <2>2 DEF DeinitFree
    <3>2. harm' \subseteq harm \cup {"freedInUse", "freedRaced"}
      BY <2>2 DEF DeinitFree
    <3>3. /\ rx' # "sort"
          /\ UNCHANGED <<rx, cur>> \/ (rx' = "idle" /\ cur' = NoFrame)
      <4>1. CASE rx \in RxBusy \/ list # <<>>
        BY <2>2, <4>1 DEF DeinitFree, Done, RxBusy
      <4>2. CASE ~(rx \in RxBusy \/ list # <<>>)
        <5>1. UNCHANGED <<rx, cur>>
          BY <2>2, <4>2 DEF DeinitFree
        <5> QED BY <4>2, <5>1 DEF RxBusy
      <4> QED BY <4>1, <4>2
    <3> QED BY <3>1, <3>2, <3>3
  <2> QED BY <2>1, <2>2
<1>2. RangeInv' /\ CurInv' /\ SeenInv' /\ UnsetInv' /\ DeliveredOnce'
  BY <1>1 DEF OrderInv, RangeInv, CurInv, SeenInv, UnsetInv, DeliveredOnce
<1>3. Ascending(list)' /\ Recent(list, top)' /\ OrderStep
  BY <1>1 DEF Ascending, Recent, OrderStep
<1>4. IndInv'
  <2>1. ASSUME NEW a \in Int, Anchor(a), ind' = ind PROVE Anchor(a)'
    BY <1>1, <2>1 DEF Anchor
  <2> QED BY <1>1, <2>1 DEF OrderInv, IndInv, Active
<1> QED BY <1>2, <1>3, <1>4 DEF OrderInv

(* The steps that move no frame. *)
LEMMA QuietOrder ==
  ASSUME IInv, OrderInv,
         \/ Bypass \/ NoStation \/ Enabled \/ FlushNot \/ FlushTimer \/ FlushWork
         \/ Fire \/ Handler \/ WorkStart
         \/ DeinitStart \/ DeinitTimer \/ DeinitWork \/ BusDown \/ UNCHANGED vars
  PROVE  OrderInv' /\ OrderStep
<1>1. UNCHANGED <<ind, list, top, seen, harm>>
  BY DEF Bypass, NoStation, Enabled, FlushNot, FlushTimer, FlushWork, Fire, Handler, WorkStart,
         DeinitStart, DeinitTimer, DeinitWork, BusDown, PassOn, vars, ctrl, ghosts
<1>2. (Active' => Active) /\ (dpc' = "idle" => dpc = "idle")
  BY DEF Bypass, NoStation, Enabled, FlushNot, FlushTimer, FlushWork, Fire, Handler, WorkStart,
         DeinitStart, DeinitTimer, DeinitWork, BusDown, Done, vars, ctrl, threads, Active
<1>3. \/ rx' = "idle" /\ cur' \in {cur, NoFrame}
      \/ rx # "idle" /\ cur' = cur
  BY DEF Bypass, NoStation, Enabled, FlushNot, FlushTimer, FlushWork, Fire, Handler, WorkStart,
         DeinitStart, DeinitTimer, DeinitWork, BusDown, Done, vars, threads
<1> QED BY <1>1, <1>2, <1>3, StillOrder

(* The order of the list, in every state. *)
THEOREM OrderInvariance == Spec => []OrderInv
<1>1. Init => OrderInv
  <2> SUFFICES ASSUME Init PROVE OrderInv
    OBVIOUS
  <2>1. RangeInv
    BY PoolAssumption DEF Init, RangeInv
  <2>2. CurInv /\ SeenInv /\ IndInv /\ UnsetInv /\ DeliveredOnce
    BY DEF Init, CurInv, SeenInv, IndInv, Active, UnsetInv, DeliveredOnce
  <2>3. Ascending(list) /\ Recent(list, top)
    BY DEF Init, Ascending, Recent
  <2> QED BY <2>1, <2>2, <2>3 DEF OrderInv
<1>2. IInv /\ OrderInv /\ [Next]_vars => OrderInv'
  BY ArriveOrder, LookupOrder, UnitOrder, WorkOrder, FlushOrder, DeinitOrder, QuietOrder
     DEF Next, RxThread, Timeout, Deinit
<1> QED BY <1>1, <1>2, Invariance, PTL DEF Spec

(* The types of the variables. *)
THEOREM TypeCorrect == Spec => []TypeOK
<1>1. IInv /\ OrderInv /\ down \in BOOLEAN => TypeOK
  <2> SUFFICES ASSUME IInv, OrderInv, down \in BOOLEAN PROVE TypeOK
    OBVIOUS
  <2>1. Len(list) \in Nat /\ free \in Nat /\ free \in 0..Pool
    BY PoolAssumption DEF IInv, CountOK, PoolConserved
  <2>2. /\ exists \in BOOLEAN /\ enable \in BOOLEAN
        /\ armed \in BOOLEAN /\ firing \in BOOLEAN
        /\ queued \in BOOLEAN /\ running \in BOOLEAN
        /\ disturbed \in BOOLEAN /\ down \in BOOLEAN
        /\ dpc \in {"idle", "timer", "work", "list", "free"}
    BY DEF IInv, FlagsOK
  <2> QED BY <2>1, <2>2 DEF TypeOK, IInv, CountOK, OrderInv, RangeInv
<1>2. Init => down \in BOOLEAN
  BY DEF Init
<1>3. down \in BOOLEAN /\ [Next]_vars => (down \in BOOLEAN)'
  <2> SUFFICES ASSUME down \in BOOLEAN, [Next]_vars PROVE down' \in BOOLEAN
    OBVIOUS
  <2>1. down' = down \/ down' = TRUE
    BY DEF Next, RxThread, Timeout, Deinit, Arrive, FlushLookup, Bypass, Lookup, NoStation,
           Enabled, Unit, UnitDisabled, Flush, FlushNot, FlushTimer, FlushWork, Fire, Handler,
           WorkStart, WorkRun, DeinitStart, DeinitTimer, DeinitWork, DeinitList, DeinitFree,
           BusDown, vars
  <2> QED BY <2>1
<1> QED BY <1>1, <1>2, <1>3, Invariance, OrderInvariance, PTL DEF Spec

(* What waits is sorted, inside the window and behind a gap. *)
THEOREM HoldsInWindow == Spec => []HeldInWindow
<1>1. IInv /\ OrderInv => HeldInWindow
  <2> SUFFICES ASSUME IInv, OrderInv, dpc = "idle", list # <<>>
               PROVE  /\ \A i \in DOMAIN list : (Sn(list[i]) - ind) % Modulus \in 1..Window - 1
                      /\ \A i, j \in DOMAIN list : i < j => list[i] < list[j]
    BY DEF HeldInWindow
  <2>1. ind # Unset /\ Active
    BY DEF OrderInv, UnsetInv, IInv, DisabledInv, Active
  <2>2. PICK a \in Int : Anchor(a)
    BY <2>1 DEF OrderInv, IndInv
  <2>3. ASSUME NEW i \in DOMAIN list PROVE (Sn(list[i]) - ind) % Modulus \in 1..Window - 1
    <3>1. list[i] \in Int
      BY PoolAssumption DEF IInv, CountOK, Frames
    <3>2. ind = Sn(a) /\ list[i] - a \in 1..Window - 1
      BY <2>2, <3>1, HalfFacts DEF Anchor
    <3>3. (Sn(list[i]) - Sn(a)) % Modulus = (list[i] - a) % Modulus
      BY <3>1, SnSub
    <3>4. (list[i] - a) % Modulus = list[i] - a
      BY <3>2, SnNear, HalfFacts
    <3> QED BY <3>2, <3>3, <3>4
  <2> QED BY <2>3 DEF OrderInv, Ascending
<1> QED BY <1>1, Invariance, OrderInvariance, PTL

(* No frame is delivered in sequence twice. *)
THEOREM DeliversOnce == Spec => []DeliveredOnce
<1>1. OrderInv => DeliveredOnce
  BY DEF OrderInv
<1> QED BY <1>1, OrderInvariance, PTL

(* Whoever delivers, delivers in order. *)
THEOREM DeliversInOrder == Spec => InOrder
<1>1. IInv /\ OrderInv /\ [Next]_vars => OrderStep
  BY ArriveOrder, LookupOrder, UnitOrder, WorkOrder, FlushOrder, DeinitOrder, QuietOrder
     DEF Next, RxThread, Timeout, Deinit
<1>2. OrderStep =>
        \A n \in seen' \ seen : /\ \A m \in seen : m < n
                                /\ \A i \in DOMAIN list' : n < list'[i]
  BY DEF OrderStep
<1> QED BY <1>1, <1>2, Invariance, OrderInvariance, PTL DEF Spec, InOrder

-----------------------------------------------------------------------------
(* Ordered delivery *)

(* Which frames a flow delivers and which it leaves. *)
LEMMA FlowParts ==
  ASSUME NEW i, NEW l \in Seq(Frames), NEW f, Flow(i, l, f)
  PROVE  \E D \in SUBSET {l[j] : j \in DOMAIN l} :
           seen' = seen \cup D /\ Waiting' \cup D = {l[j] : j \in DOMAIN l}
<1> DEFINE k == Ready(Advanced(i, l), l)
           D == {l[j] : j \in 1..k}
<1>1. k \in 0..Len(l)
  BY ReadyType
<1>2. /\ list' = SubSeq(l, k + 1, Len(l))
      /\ seen' = seen \cup {SubSeq(l, 1, k)[j] : j \in DOMAIN SubSeq(l, 1, k)}
  BY DEF Flow, Deliver
<1> HIDE DEF k
<1>3. Len(l) \in Nat /\ DOMAIN l = 1..Len(l) /\ 1..k \subseteq 1..Len(l)
  BY <1>1
<1>4. DOMAIN SubSeq(l, 1, k) = 1..k /\ \A j \in 1..k : SubSeq(l, 1, k)[j] = l[j]
  BY <1>1, <1>3
<1>5. seen' = seen \cup D
  BY <1>2, <1>4
<1>6. DOMAIN list' = 1..Len(l) - k /\ \A j \in 1..Len(l) - k : list'[j] = l[k + j]
  BY <1>1, <1>2, <1>3
<1>7. ASSUME NEW j \in 1..Len(l), j \notin 1..k PROVE \E m \in DOMAIN list' : list'[m] = l[j]
  <2>1. j - k \in 1..Len(l) - k /\ k + (j - k) = j
    BY <1>1, <1>3, <1>7
  <2> QED BY <1>6, <2>1
<1>8. ASSUME NEW m \in DOMAIN list' PROVE \E j \in DOMAIN l : list'[m] = l[j]
  <2>1. k + m \in 1..Len(l)
    BY <1>1, <1>3, <1>6
  <2> QED BY <1>3, <1>6, <2>1
<1>9. D \subseteq {l[j] : j \in DOMAIN l}
  BY <1>3
<1>10. Waiting' \cup D = {l[j] : j \in DOMAIN l}
  <2>1. Waiting' \subseteq {l[j] : j \in DOMAIN l}
    BY <1>8 DEF Waiting
  <2>2. ASSUME NEW j \in DOMAIN l PROVE l[j] \in Waiting' \cup D
    BY <1>3, <1>7 DEF Waiting
  <2> QED BY <1>9, <2>1, <2>2
<1> QED BY <1>5, <1>9, <1>10

(* In the abstract buffer the low end of what waits is delivered. *)
LEMMA FlowReleases ==
  ASSUME NEW i, NEW l \in Seq(Frames), NEW f, Flow(i, l, f), IInv', OrderInv'
  PROVE  \E D \in SUBSET {l[j] : j \in DOMAIN l} : Delivery!Release({l[j] : j \in DOMAIN l}, D)
<1> DEFINE W == {l[j] : j \in DOMAIN l}
<1>1. PICK D \in SUBSET W : seen' = seen \cup D /\ Waiting' \cup D = W
  BY FlowParts
<1> HIDE DEF W
<1>2. \A m \in D, n \in Waiting' : m \in Int /\ n \in Int /\ m < n
  BY <1>1, PoolAssumption DEF OrderInv, SeenInv, RangeInv, IInv, CountOK, Waiting, Frames
<1>3. W \ D = Waiting'
  BY <1>1, <1>2
<1>4. Delivery!Release(W, D)
  BY <1>1, <1>2, <1>3 DEF Delivery!Release, Delivery!Before
<1> QED BY <1>4 DEF W

(* The frames of the list with one more. *)
LEMMA InsertSet ==
  ASSUME list \in Seq(Frames), NEW n \in Frames, NEW p \in 1..Len(list) + 1
  PROVE  LET l == InsertAt(list, p, n)
         IN  /\ {l[j] : j \in DOMAIN l} = Waiting \cup {n}
             /\ Ascending(l) => n \notin Waiting
<1> DEFINE l == InsertAt(list, p, n)
<1>1. Len(list) \in Nat /\ DOMAIN list = 1..Len(list) /\ p \in Nat /\ n \in Int
      /\ \A j \in DOMAIN list : list[j] \in Int
  BY PoolAssumption DEF Frames
<1>2. DOMAIN l = 1..Len(list) + 1
  <2>1. l \in Seq(Frames) /\ Len(l) = Len(list) + 1
    BY InsertType
  <2> HIDE DEF l
  <2> QED BY <2>1
<1>3. \A j \in 1..Len(list) + 1 :
        l[j] = IF j < p THEN list[j] ELSE IF j = p THEN n ELSE list[j - 1]
  BY InsertIs
<1> HIDE DEF l
<1>4. l[p] = n /\ p \in DOMAIN l
  BY <1>1, <1>2, <1>3
<1>5. ASSUME NEW i \in DOMAIN list
      PROVE  \E j \in DOMAIN l : l[j] = list[i] /\ (j < p \/ p < j)
  <2>1. CASE i < p
    <3>1. i \in 1..Len(list) + 1 /\ l[i] = list[i]
      BY <1>1, <1>3, <2>1
    <3> QED BY <1>2, <2>1, <3>1
  <2>2. CASE ~(i < p)
    <3>1. i + 1 \in 1..Len(list) + 1 /\ ~(i + 1 < p) /\ i + 1 # p /\ p < i + 1 /\ (i + 1) - 1 = i
      BY <1>1, <2>2
    <3>2. l[i + 1] = list[i]
      BY <1>3, <3>1
    <3> QED BY <1>2, <3>1, <3>2
  <2> QED BY <2>1, <2>2
<1>6. ASSUME NEW j \in DOMAIN l PROVE l[j] \in Waiting \cup {n}
  <2>1. CASE j < p
    <3>1. j \in DOMAIN list /\ l[j] = list[j]
      BY <1>1, <1>2, <1>3, <2>1
    <3> QED BY <3>1 DEF Waiting
  <2>2. CASE j = p
    BY <1>4, <2>2
  <2>3. CASE ~(j < p) /\ j # p
    <3>1. j - 1 \in DOMAIN list /\ l[j] = list[j - 1]
      BY <1>1, <1>2, <1>3, <2>3
    <3> QED BY <3>1 DEF Waiting
  <2> QED BY <2>1, <2>2, <2>3
<1>7. {l[j] : j \in DOMAIN l} = Waiting \cup {n}
  BY <1>4, <1>5, <1>6 DEF Waiting
<1>8. ASSUME Ascending(l), NEW i \in DOMAIN list PROVE list[i] # n
  <2>1. PICK j \in DOMAIN l : l[j] = list[i] /\ (j < p \/ p < j)
    BY <1>5
  <2>2. l[j] < l[p] \/ l[p] < l[j]
    BY <1>4, <1>8, <2>1 DEF Ascending
  <2> QED BY <1>1, <1>4, <2>1, <2>2
<1> QED BY <1>7, <1>8 DEF l, Waiting

(* A frame that is sorted in is accepted. *)
LEMMA SortAccepts ==
  ASSUME IInv, OrderInv, Unit, Sorted, IInv', OrderInv'
  PROVE  \E n \in Frames : Delivery!Accept(n)
<1> DEFINE l == InsertAt(list, Place(cur), cur)
<1>1. rx = "sort" /\ dpc' = dpc /\ ~Behind /\ ~Duplicate /\ Flow(NewInd, l, free)
  BY DEF Unit, Sorted
<1>2. /\ cur \in Frames /\ cur \in Int /\ top - Delay <= cur /\ cur <= top /\ top \in Int
      /\ list \in Seq(Frames)
  BY <1>1, PoolAssumption DEF IInv, CountOK, OrderInv, CurInv, RangeInv, Frames
<1>3. \A m \in seen : m < cur
  BY <1>1, NewIndIs
<1>4. l \in Seq(Frames) /\ Ascending(l)
  <2>1. Ascending(list) /\ Recent(list, top) /\ top - Lag <= cur
    BY <1>2, HalfFacts DEF OrderInv
  <2>2. ~(Place(cur) <= Len(list) /\ Sn(list[Place(cur)]) = Sn(cur))
    BY <1>1 DEF Duplicate
  <2> QED BY <1>2, <2>1, <2>2, InsertOrder
<1>5. {l[j] : j \in DOMAIN l} = Waiting \cup {cur} /\ cur \notin Waiting
  <2>1. Place(cur) \in 1..Len(list) + 1
    BY <1>2, PlaceType
  <2> QED BY <1>2, <1>4, <2>1, InsertSet
<1>6. \E D \in SUBSET {l[j] : j \in DOMAIN l} : Delivery!Release({l[j] : j \in DOMAIN l}, D)
  <2> HIDE DEF l
  <2> QED BY <1>1, <1>4, FlowReleases
<1>7. \E D \in SUBSET (Waiting \cup {cur}) : Delivery!Release(Waiting \cup {cur}, D)
  BY <1>5, <1>6
<1>8. Delivery!Before(seen, {cur})
  BY <1>3 DEF Delivery!Before
<1>9. (dpc = "idle")' = (dpc = "idle")
  BY <1>1
<1>10. Delivery!Accept(cur)
  BY <1>5, <1>7, <1>8, <1>9 DEF Delivery!Accept
<1> QED BY <1>2, <1>10

(* The work and a flush skip a gap. *)
LEMMA WorkSkips ==
  ASSUME IInv, OrderInv, WorkRun \/ Flush, IInv', OrderInv'
  PROVE  Delivery!Skip \/ UNCHANGED Delivery!vars
<1>1. /\ (dpc = "idle")' = (dpc = "idle") /\ list \in Seq(Frames)
      /\ \A m \in seen, n \in Waiting : m < n
  BY DEF WorkRun, Flush, threads, IInv, CountOK, OrderInv, SeenInv, Waiting
<1>2. CASE WorkRun /\ list = <<>>
  <2>1. list' = list /\ seen' = seen
    BY <1>2 DEF WorkRun
  <2> QED BY <1>1, <2>1 DEF Delivery!vars, Waiting
<1>3. CASE WorkRun /\ list # <<>>
  <2>1. Flow(Sn(list[1]), list, free)
    BY <1>3 DEF WorkRun
  <2>2. \E D \in SUBSET Waiting : Delivery!Release(Waiting, D)
    BY <1>1, <2>1, FlowReleases DEF Waiting
  <2> QED BY <1>1, <2>2 DEF Delivery!Skip
<1>4. CASE Flush
  <2>1. seen' = seen \cup Waiting /\ Waiting' = {}
    BY <1>4 DEF Flush, Deliver, Waiting
  <2>2. Delivery!Release(Waiting, Waiting)
    BY <2>1 DEF Delivery!Release, Delivery!Before
  <2> QED BY <1>1, <2>2 DEF Delivery!Skip
<1> QED BY <1>2, <1>3, <1>4

(* Taking the station down closes the buffer, and what waits is discarded. *)
LEMMA DeinitDiscards ==
  ASSUME DeinitStart \/ Deinit
  PROVE  Delivery!Close \/ Delivery!Discard \/ UNCHANGED Delivery!vars
<1>1. seen' = seen
  BY DEF DeinitStart, Deinit, DeinitTimer, DeinitWork, DeinitList, DeinitFree
<1>2. CASE DeinitStart
  <2>1. dpc = "idle" /\ dpc' # "idle" /\ list' = list
    BY <1>2 DEF DeinitStart
  <2> QED BY <1>1, <2>1 DEF Delivery!Close, Waiting
<1>3. CASE DeinitTimer \/ DeinitWork
  <2>1. dpc # "idle" /\ dpc' # "idle" /\ list' = list
    BY <1>3 DEF DeinitTimer, DeinitWork, ctrl
  <2> QED BY <1>1, <2>1 DEF Delivery!vars, Waiting
<1>4. CASE DeinitList \/ DeinitFree
  <2>1. dpc # "idle" /\ list' = <<>>
    BY <1>4 DEF DeinitList, DeinitFree
  <2>2. Waiting' = {} /\ (dpc = "idle")' \in BOOLEAN
    BY <2>1 DEF Waiting
  <2> QED BY <1>1, <2>1, <2>2 DEF Delivery!Discard
<1> QED BY <1>2, <1>3, <1>4 DEF Deinit

(* A list that is enabled anew is a fresh start. *)
LEMMA LookupRestarts ==
  ASSUME IInv, Lookup
  PROVE  Delivery!Restart \/ UNCHANGED Delivery!vars
<1>1. list' = list /\ (dpc = "idle")' = (dpc = "idle") /\ Waiting' = Waiting
  BY DEF Lookup, IInv, GoneInv, Waiting
<1>2. \/ seen' = seen
      \/ seen' = {} /\ (dpc = "idle" => list = <<>>)
  BY DEF Lookup, IInv, GoneInv, DisabledInv
<1>3. list = <<>> => Waiting = {}
  BY DEF Waiting
<1> QED BY <1>1, <1>2, <1>3 DEF Delivery!Restart, Delivery!vars

(* Every step of the buffer is one of the abstract buffer, or none. *)
LEMMA DeliveryStep ==
  ASSUME IInv, OrderInv, [Next]_vars, IInv', OrderInv'
  PROVE  [Delivery!Next]_(Delivery!vars)
<1>1. CASE UNCHANGED <<list, seen, dpc>>
  BY <1>1 DEF Delivery!vars, Waiting
<1>2. CASE Unit /\ Sorted
  BY <1>2, SortAccepts DEF Delivery!Next
<1>3. CASE WorkRun \/ Flush
  BY <1>3, WorkSkips DEF Delivery!Next
<1>4. CASE DeinitStart \/ Deinit
  BY <1>4, DeinitDiscards DEF Delivery!Next
<1>5. CASE Lookup
  BY <1>5, LookupRestarts DEF Delivery!Next
<1>6. CASE Unit /\ (Late \/ Repeated)
  BY <1>1, <1>6 DEF Unit, Late, Repeated, PassOn
<1>7. CASE \/ \E n \in Frames : Arrive(n) \/ FlushLookup(n)
           \/ Bypass \/ NoStation \/ Enabled \/ UnitDisabled
           \/ FlushNot \/ FlushTimer \/ FlushWork \/ Fire \/ Handler \/ WorkStart
           \/ BusDown \/ UNCHANGED vars
  BY <1>1, <1>7 DEF Arrive, FlushLookup, Bypass, NoStation, Enabled, UnitDisabled, FlushNot,
       FlushTimer, FlushWork, Fire, Handler, WorkStart, BusDown, PassOn, ctrl, threads, vars
<1> QED BY <1>2, <1>3, <1>4, <1>5, <1>6, <1>7 DEF Next, RxThread, Timeout, Unit

(* The reorder buffer implements ordered delivery: what it takes in is     *)
(* delivered in order and once, and not dropped unless the station is      *)
(* taken down.                                                             *)
THEOREM ImplementsDelivery == Spec => DeliverySpec
<1>1. Init => Delivery!Init
  BY DEF Init, Delivery!Init, Waiting
<1>2. IInv /\ OrderInv /\ [Next]_vars /\ IInv' /\ OrderInv' => [Delivery!Next]_(Delivery!vars)
  BY DeliveryStep
<1> QED BY <1>1, <1>2, Invariance, OrderInvariance, PTL DEF Spec, DeliverySpec, Delivery!Spec
=============================================================================
