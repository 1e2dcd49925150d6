----------------------------- MODULE RxReorder -----------------------------
(***************************************************************************)
(* The receive reorder buffer of the aic8800 driver (rwnx_rx.c) for one    *)
(* station and one traffic identifier: the receive thread sorts frames     *)
(* into a list and delivers what is in sequence, a timer and its work      *)
(* deliver what waits behind a gap for too long, a frame that needs no     *)
(* reordering flushes the list, and another thread takes the station down. *)
(*                                                                         *)
(* A frame is its absolute number; the code sees it modulo Modulus.  The   *)
(* peer's frames come up to Spread ahead of the highest one, having lost   *)
(* what is between, and up to Delay behind it, late or repeated.  While a  *)
(* frame waits in the list the peer does not get further than Lag ahead of *)
(* it: each gap ends after REORDER_UPDATE_TIME.                            *)
(***************************************************************************)
EXTENDS Integers, Sequences, FiniteSets, SequencesExt

CONSTANTS Modulus,   \* 4096, the sequence numbers
          Window,    \* AICWF_REORDER_WINSIZE
          Pool,      \* MAX_REORD_RXFRAME
          Spread,    \* how far ahead of the highest frame one may arrive
          Delay,     \* how far behind it one may arrive
          Lag,       \* how far ahead of a frame that waits
          FirstFrame,     \* the first frame of the peer
          LastFrame,      \* bound: the last one
          MayDeinit, \* the station may be taken down
          MayLeave   \* the bus may go down

(* All that the code compares while a frame waits lies in half a turn. *)
ASSUME WindowAssumption ==
  /\ Modulus \in Nat /\ Window \in Nat \ {0, 1} /\ Spread \in Nat /\ Lag \in Nat
  /\ Delay \in 0..Lag /\ 2 * (Window + Lag) <= Modulus
ASSUME PoolAssumption ==
  Pool \in Nat /\ FirstFrame \in Nat /\ LastFrame \in Nat /\ FirstFrame <= LastFrame
ASSUME FaultAssumption == MayDeinit \in BOOLEAN /\ MayLeave \in BOOLEAN

VARIABLES
  \* the control block of the station and traffic identifier
  exists,   \* the station is in stas_reord_list
  enable,   \* preorder_ctrl->enable
  ind,      \* preorder_ctrl->ind_sn, Unset for 0xFFFF
  list,     \* preorder_ctrl->reord_list
  armed, firing,   \* reord_timer is pending; its handler runs
  queued, running, \* reord_timer_work is pending; it runs
  \* the receive thread, the thread that takes the station down
  rx, cur,  \* where the receive thread is, and its frame
  dpc,      \* where reord_deinit_sta is
  free,     \* number of frames in rxframes_freequeue
  down,     \* the bus is down
  \* the peer and history
  top,      \* the highest frame that arrived
  seen,     \* frames delivered in sequence since the block was (re)enabled
  disturbed,\* something else ran on the station while it was taken down
  harm

ctrl    == <<exists, enable, ind, list>>
timer   == <<armed, firing>>
workq   == <<queued, running>>
threads == <<rx, cur, dpc>>
ghosts  == <<disturbed, harm>>
vars == <<ctrl, timer, workq, threads, free, down, top, seen, ghosts>>

Frames == FirstFrame..LastFrame
Unset == -1
NoFrame == -1

Sn(n) == n % Modulus

(* SN_LESS of two sequence numbers. *)
SnLess(a, b) == (a - b) % Modulus >= Modulus \div 2

RxBusy == {"unit", "sort", "flush", "untimer", "unwork"}

TypeOK ==
  /\ exists \in BOOLEAN /\ enable \in BOOLEAN
  /\ ind \in 0..Modulus - 1 \cup {Unset} /\ list \in Seq(Frames)
  /\ armed \in BOOLEAN /\ firing \in BOOLEAN
  /\ queued \in BOOLEAN /\ running \in BOOLEAN
  /\ rx \in RxBusy \cup {"idle", "frame"} /\ cur \in Frames \cup {NoFrame}
  /\ dpc \in {"idle", "timer", "work", "list", "free"}
  /\ free \in 0..Pool /\ down \in BOOLEAN
  /\ top \in FirstFrame - 1..LastFrame /\ seen \subseteq Frames
  /\ disturbed \in BOOLEAN /\ harm \subseteq {"freedInUse", "freedRaced", "twice"}

Init ==
  /\ exists = FALSE /\ enable = FALSE /\ ind = Unset /\ list = <<>>
  /\ armed = FALSE /\ firing = FALSE /\ queued = FALSE /\ running = FALSE
  /\ rx = "idle" /\ cur = NoFrame /\ dpc = "idle"
  /\ free = Pool /\ down = FALSE
  /\ top = FirstFrame - 1 /\ seen = {}
  /\ disturbed = FALSE /\ harm = {}

(* The frames ns go from the list to the network stack.  A frame that is   *)
(* delivered on its own leaves no trace here.                              *)
Deliver(ns) ==
  /\ seen' = seen \cup {ns[i] : i \in DOMAIN ns}
  /\ harm' = IF \E i \in DOMAIN ns : ns[i] \in seen \/ \E j \in 1..i-1 : ns[j] = ns[i]
             THEN harm \cup {"twice"} ELSE harm

(* reord_single_frame_ind of the receive thread's own frame. *)
PassOn == free' = free + 1 /\ UNCHANGED <<seen, harm>>

Done == rx' = "idle" /\ cur' = NoFrame

-----------------------------------------------------------------------------
(* Arrival *)

(* What the peer's retransmissions and the air may bring next. *)
Comes(n) ==
  /\ n >= top - Delay /\ n <= top + Spread
  /\ list # <<>> => n <= list[1] + Lag
  /\ top' = IF n > top THEN n ELSE top

(* A frame that is to be reordered, reord_rxframe_alloc; with an empty     *)
(* pool it is dropped.                                                     *)
Arrive(n) ==
  /\ rx = "idle" /\ ~down /\ Comes(n)
  /\ \/ free > 0 /\ free' = free - 1 /\ rx' = "frame" /\ cur' = n
     \/ free = 0 /\ UNCHANGED <<free, rx, cur>>
  /\ UNCHANGED <<ctrl, timer, workq, dpc, down, seen, ghosts>>

(* An EAPOL frame bypasses the list. *)
Bypass ==
  /\ rx = "frame"
  /\ PassOn /\ Done
  /\ UNCHANGED <<ctrl, timer, workq, dpc, down, top, disturbed>>

(* reord_process_unit under stas_reord_lock: the station is found or made. *)
Lookup ==
  /\ rx = "frame"
  /\ \/ exists /\ UNCHANGED <<exists, list>>
     \/ ~exists /\ ~down /\ exists' = TRUE /\ list' = <<>>
  /\ IF exists /\ enable THEN UNCHANGED <<enable, ind, seen>>
     ELSE enable' = TRUE /\ ind' = Unset /\ seen' = {}
  /\ rx' = "unit"
  /\ disturbed' = (disturbed \/ dpc # "idle")
  /\ UNCHANGED <<timer, workq, cur, dpc, free, down, top, harm>>

(* reord_init_sta refuses while the bus is down: delivered at once. *)
NoStation ==
  /\ rx = "frame" /\ ~exists /\ down
  /\ PassOn /\ Done
  /\ UNCHANGED <<ctrl, timer, workq, dpc, down, top, disturbed>>

-----------------------------------------------------------------------------
(* The list *)

(* Mutant: the end of the window is one frame too far. *)
MutWindowEnd(i) == (i + Window) % Modulus

WindowEnd(i) == (i + Window - 1) % Modulus

(* reord_need_check: ind after a frame numbered q that is not behind it; a *)
(* frame past the window pulls the window along.                           *)
Pulled(i, q) ==
  IF q = i THEN (i + 1) % Modulus
  ELSE IF SnLess(WindowEnd(i), q) THEN (q - (Window - 1)) % Modulus
  ELSE i

(* Mutant: a frame that compares as equal is passed over as well. *)
MutPlace(n) == Cardinality({j \in DOMAIN list : ~SnLess(Sn(n), Sn(list[j]))}) + 1

(* reord_rxframe_enqueue: before the first frame that is not less. *)
Place(n) == Cardinality({j \in DOMAIN list :
                           \A k \in 1..j : SnLess(Sn(list[k]), Sn(n))}) + 1

(* reord_rxframes_process: ind moves over the frames that follow it;       *)
(* after[j] is where it is after the first j frames.                       *)
Advanced(i, l) ==
  LET after[j \in 0..Len(l)] ==
        IF j = 0 THEN i
        ELSE IF Sn(l[j]) = after[j - 1] THEN (after[j - 1] + 1) % Modulus
        ELSE after[j - 1]
  IN  after[Len(l)]

(* reord_rxframes_ind: how many frames at the head are not after ind. *)
Ready(i, l) == Cardinality({j \in DOMAIN l : \A k \in 1..j : ~SnLess(i, Sn(l[k]))})

(* A gap needs the timer; without one a pending timer is deleted. *)
SetTimer(gap) == armed' = gap

(* Both callers of the two functions, on the list l with ind at i.  The    *)
(* frames that leave the list go back to the pool, which had f.            *)
Flow(i, l, f) ==
  LET i2 == Advanced(i, l)
      k  == Ready(i2, l)
  IN  /\ ind' = i2
      /\ list' = SubSeq(l, k + 1, Len(l))
      /\ Deliver(SubSeq(l, 1, k))
      /\ free' = f + k

(* Mutant: a late frame is sorted in like any other. *)
MutBehind == FALSE

Behind == ind # Unset /\ SnLess(Sn(cur), ind)

(* A frame behind ind is delivered at once, or dropped when it looks like  *)
(* one of a media stream.                                                  *)
Late ==
  /\ Behind /\ PassOn
  /\ UNCHANGED <<ind, list, armed>>

NewInd == Pulled(IF ind = Unset THEN Sn(cur) ELSE ind, Sn(cur))

(* The number is in the list already: the frame is dropped. *)
Duplicate == Place(cur) <= Len(list) /\ Sn(list[Place(cur)]) = Sn(cur)

Repeated ==
  /\ ~Behind /\ Duplicate
  /\ ind' = NewInd /\ PassOn
  /\ UNCHANGED <<list, armed>>

Sorted ==
  LET l == InsertAt(list, Place(cur), cur)
  IN  /\ ~Behind /\ ~Duplicate
      /\ Flow(NewInd, l, free)
      /\ SetTimer(Ready(Advanced(NewInd, l), l) < Len(l))

(* The list is found enabled before its lock is taken. *)
Enabled ==
  /\ rx = "unit" /\ enable
  /\ rx' = "sort"
  /\ UNCHANGED <<ctrl, timer, workq, cur, dpc, free, down, top, seen, ghosts>>

(* The locked part of reord_process_unit. *)
Unit ==
  /\ rx = "sort"
  /\ Late \/ Repeated \/ Sorted
  /\ Done
  /\ UNCHANGED <<exists, enable, firing, workq, dpc, down, top, disturbed>>

(* The station was disabled since it was looked up. *)
UnitDisabled ==
  /\ rx = "unit" /\ ~enable
  /\ PassOn /\ Done
  /\ ind' = (Sn(cur) + 1) % Modulus
  /\ UNCHANGED <<exists, enable, list, timer, workq, dpc, down, top, disturbed>>

-----------------------------------------------------------------------------
(* The timer and its work *)

Fire ==
  /\ armed
  /\ armed' = FALSE /\ firing' = TRUE
  /\ disturbed' = (disturbed \/ dpc # "idle")
  /\ UNCHANGED <<ctrl, workq, threads, free, down, top, seen, harm>>

(* reord_timeout_handler *)
Handler ==
  /\ firing
  /\ firing' = FALSE /\ queued' = (queued \/ ~down)
  /\ UNCHANGED <<ctrl, armed, running, threads, free, down, top, seen, ghosts>>

WorkStart ==
  /\ queued /\ ~running
  /\ queued' = FALSE /\ running' = TRUE
  /\ UNCHANGED <<ctrl, timer, threads, free, down, top, seen, ghosts>>

(* Mutant: the timer is not started again. *)
MutRestarts(gap) == UNCHANGED armed

Restarts(gap) == armed' = (armed \/ gap)

(* reord_timeout_worker gives the first gap up. *)
WorkRun ==
  /\ running /\ running' = FALSE
  /\ IF list = <<>> THEN UNCHANGED <<ind, list, armed, free, seen, harm>>
     ELSE LET i == Sn(list[1])
          IN  /\ Flow(i, list, free)
              /\ Restarts(Ready(Advanced(i, list), list) < Len(list))
  /\ UNCHANGED <<exists, enable, firing, queued, threads, down, top, disturbed>>

-----------------------------------------------------------------------------
(* reord_flush_tid, for a frame n that needs no reordering *)

FlushLookup(n) ==
  /\ rx = "idle" /\ ~down /\ exists /\ Comes(n)
  /\ rx' = "flush" /\ cur' = n
  /\ disturbed' = (disturbed \/ dpc # "idle")
  /\ UNCHANGED <<ctrl, timer, workq, dpc, free, down, seen, harm>>

(* Mutant: the list goes back to the pool undelivered. *)
MutFlush ==
  /\ rx = "flush" /\ (enable \/ dpc # "idle")
  /\ list' = <<>> /\ free' = free + Len(list)
  /\ enable' = FALSE /\ rx' = "untimer"
  /\ UNCHANGED <<exists, ind, timer, workq, cur, dpc, down, top, seen, ghosts>>

(* The whole list is delivered; a disabled one is left alone.  The test is *)
(* made before the lock is taken: a station that is being taken down may   *)
(* have been disabled in between.                                          *)
Flush ==
  /\ rx = "flush" /\ (enable \/ dpc # "idle")
  /\ Deliver(list) /\ list' = <<>> /\ free' = free + Len(list)
  /\ enable' = FALSE /\ rx' = "untimer"
  /\ UNCHANGED <<exists, ind, timer, workq, cur, dpc, down, top, disturbed>>

FlushNot ==
  /\ rx = "flush" /\ ~enable
  /\ Done
  /\ UNCHANGED <<ctrl, timer, workq, dpc, free, down, top, seen, ghosts>>

(* del_timer_sync, only of a timer that is pending; it waits for the       *)
(* handler.                                                                *)
NoTimer == (armed => ~firing) /\ armed' = FALSE

FlushTimer ==
  /\ rx = "untimer" /\ NoTimer /\ rx' = "unwork"
  /\ UNCHANGED <<ctrl, firing, workq, cur, dpc, free, down, top, seen, ghosts>>

(* cancel_work_sync; the caller then delivers the frame. *)
NoWork == ~running /\ queued' = FALSE

FlushWork ==
  /\ rx = "unwork" /\ NoWork
  /\ Done
  /\ UNCHANGED <<ctrl, timer, running, dpc, free, down, top, seen, ghosts>>

-----------------------------------------------------------------------------
(* reord_deinit_sta, from the message thread or from aicwf_rx_deinit *)

(* Nobody else is at work on the station. *)
Quiet == ~running /\ ~queued /\ ~firing /\ rx \notin RxBusy

DeinitStart ==
  /\ MayDeinit /\ exists /\ dpc = "idle"
  /\ enable' = FALSE
  /\ dpc' = IF enable THEN "timer" ELSE "list"
  /\ disturbed' = ~Quiet
  /\ UNCHANGED <<exists, ind, list, timer, workq, rx, cur, free, down, top, seen, harm>>

(* Mutant: the timer is left running. *)
MutDeinitTimer ==
  /\ dpc = "timer" /\ dpc' = "work"
  /\ UNCHANGED <<ctrl, timer, workq, rx, cur, free, down, top, seen, ghosts>>

DeinitTimer ==
  /\ dpc = "timer" /\ NoTimer /\ dpc' = "work"
  /\ UNCHANGED <<ctrl, firing, workq, rx, cur, free, down, top, seen, ghosts>>

DeinitWork ==
  /\ dpc = "work" /\ NoWork /\ dpc' = "list"
  /\ UNCHANGED <<ctrl, timer, running, rx, cur, free, down, top, seen, ghosts>>

(* Mutant: the frames are not given back. *)
MutDeinitList ==
  /\ dpc = "list" /\ dpc' = "free"
  /\ list' = <<>>
  /\ UNCHANGED <<exists, enable, ind, timer, workq, rx, cur, free, down, top,
                 seen, ghosts>>

DeinitList ==
  /\ dpc = "list" /\ dpc' = "free"
  /\ list' = <<>> /\ free' = free + Len(list)
  /\ UNCHANGED <<exists, enable, ind, timer, workq, rx, cur, down, top,
                 seen, ghosts>>

(* The memory is freed.  Whatever still uses it is undefined: it is        *)
(* recorded in harm, and the model goes on without it.                     *)
InUse == armed \/ firing \/ queued \/ running \/ rx \in RxBusy \/ list # <<>>

DeinitFree ==
  /\ dpc = "free" /\ dpc' = "idle"
  /\ exists' = FALSE /\ enable' = FALSE /\ ind' = Unset
  /\ harm' = IF ~InUse THEN harm
             ELSE harm \cup {IF disturbed THEN "freedRaced" ELSE "freedInUse"}
  /\ list' = <<>> /\ armed' = FALSE /\ firing' = FALSE
  /\ queued' = FALSE /\ running' = FALSE
  /\ IF rx \in RxBusy \/ list # <<>>
     THEN Done /\ free' = Pool
     ELSE UNCHANGED <<rx, cur, free>>
  /\ UNCHANGED <<down, top, seen, disturbed>>

BusDown ==
  /\ MayLeave /\ ~down /\ down' = TRUE
  /\ UNCHANGED <<ctrl, timer, workq, threads, free, top, seen, ghosts>>

-----------------------------------------------------------------------------

RxThread ==
  \/ Bypass \/ Lookup \/ NoStation \/ Enabled \/ Unit \/ UnitDisabled
  \/ Flush \/ FlushNot \/ FlushTimer \/ FlushWork

Deinit == DeinitTimer \/ DeinitWork \/ DeinitList \/ DeinitFree

Timeout == Fire \/ Handler \/ WorkStart \/ WorkRun

Next ==
  \/ \E n \in Frames : Arrive(n) \/ FlushLookup(n)
  \/ RxThread \/ Timeout \/ DeinitStart \/ Deinit \/ BusDown

Spec == Init /\ [][Next]_vars

(* The timer expires and its handler and work are run; a station that is   *)
(* being taken down is taken down.                                         *)
FairSpec == Spec /\ WF_vars(Timeout) /\ WF_vars(Deinit)

-----------------------------------------------------------------------------
(* Properties *)

(* What waits in the list is sorted and lies strictly inside the window    *)
(* behind a gap: nothing that could be delivered is held back, and the     *)
(* comparison modulo Modulus is never asked about numbers half a turn      *)
(* apart; timer, flush and window jumps included.                          *)
HeldInWindow ==
  dpc = "idle" /\ list # <<>> =>
    /\ \A i \in DOMAIN list : (Sn(list[i]) - ind) % Modulus \in 1..Window - 1
    /\ \A i, j \in DOMAIN list : i < j => list[i] < list[j]

(* Every frame of the pool is free, in the list or in the receive thread's *)
(* hands, on every way out of the buffer.                                  *)
PoolConserved ==
  free + Len(list) + (IF rx \in {"frame", "unit", "sort"} THEN 1 ELSE 0) = Pool

(* The station's memory is in use after it was freed only if the receive   *)
(* thread, the timer's handler or the work was on the station when it was  *)
(* taken down, or came to it before that had ended.  (Then it may be: a    *)
(* work that runs between del_timer_sync and cancel_work_sync starts the   *)
(* timer again, and only the list is emptied after that.)                  *)
FreedWhenQuiet == "freedInUse" \notin harm

(* No frame is delivered in sequence twice, however often it comes, until  *)
(* the list is enabled anew.                                               *)
DeliveredOnce == "twice" \notin harm

(* Delivery is in order: what a step delivers in sequence is higher than   *)
(* all that was delivered before and lower than what it leaves waiting,    *)
(* whoever delivers it: the receive thread, a flush or the timer's work.   *)
InOrder ==
  [][\A n \in seen' \ seen :
       /\ \A m \in seen : m < n
       /\ \A i \in DOMAIN list' : n < list'[i]]_vars

(* Every gap ends: the list never holds on to what came behind a frame     *)
(* that was lost.                                                          *)
GapsEnd == []<>(list = <<>> \/ down)

Waiting == {list[i] : i \in DOMAIN list}

(* The buffer implements ordered delivery: what it takes in is delivered   *)
(* in order, once, whoever delivers it, and nothing is dropped on the way  *)
(* out of the list but by taking the station down.                         *)
Delivery == INSTANCE OrderedDelivery WITH
  open <- (dpc = "idle"), waiting <- Waiting, delivered <- seen

DeliverySpec == Delivery!Spec
=============================================================================
