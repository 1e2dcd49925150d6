------------------------------- MODULE UsbTx -------------------------------
(***************************************************************************)
(* The way of data frames from a network queue to the USB device in the    *)
(* aic8800 driver (rwnx_txq.c, aicwf_usb.c): a pool of URBs, the thread    *)
(* that submits them, the completions, two ways of stopping the queue and  *)
(* of waking it again, suspend and resume.                                 *)
(*                                                                         *)
(* URBs and frames are counted.  One interface that stays connected, with  *)
(* one transmit queue; the sender is whoever holds rwnx_hw->tx_lock.       *)
(***************************************************************************)
EXTENDS Integers, FiniteSets

CONSTANTS Urbs,       \* AICWF_USB_TX_URBS
          LowWater,   \* AICWF_USB_TX_LOW_WATER
          HighWater,  \* AICWF_USB_TX_HIGH_WATER
          FlowLimit,  \* RWNX_NDEV_FLOW_CTRL_STOP and _RESTART
          MaxLen,     \* bound: frames in the transmit queue
          MaxTriggers,\* bound: completions of bustx_trgg that are told apart
          MayFail,    \* usb_submit_urb may fail while the bus is up
          MaySuspend  \* the system may suspend

ASSUME WaterAssumption ==
  /\ Urbs \in Nat /\ LowWater \in 1..Urbs /\ HighWater \in LowWater..Urbs-1
ASSUME FlowAssumption ==
  /\ FlowLimit \in Nat \ {0} /\ MaxLen \in Nat /\ FlowLimit < MaxLen
  /\ MaxTriggers \in Nat \ {0}
ASSUME FaultAssumption == MayFail \in BOOLEAN /\ MaySuspend \in BOOLEAN

VARIABLES
  \* the pool
  free,     \* tx_free_count
  post,     \* tx_post_count
  air,      \* URBs the USB core has
  settling, \* a completion has freed its URB and not yet looked at the flow
  \* flow control
  tbusy,    \* usb_dev->tbusy
  stopped,  \* the network queue is stopped
  len,      \* length of txq->sk_list
  flow,     \* RWNX_TXQ_NDEV_FLOW_CTRL
  \* who is where
  snd,      \* the sender
  tpc, trig,\* usb_bustx_thread; completions of bustx_trgg it has not taken
  usb,      \* usb_dev->state, which the sender reads
  bus,      \* bus_if->state, which the thread reads when it is triggered
  pm,       \* suspend and resume
  \* history
  late,     \* the queue was stopped for a bus that had come up again
  hist      \* what has happened that the code does not recover from

pool    == <<free, post, air, settling>>
queue   == <<tbusy, stopped, len, flow>>
thread  == <<tpc, trig>>
power   == <<usb, bus, pm>>
history == <<late, hist>>
vars == <<pool, queue, snd, thread, power, history>>

(* Suspend, from "on" to "off", and resume, from "off" to "on" or "oops". *)
PMs == {"on", "stopped", "asleep", "usbdown", "busdown", "detached", "off",
        "attached", "usbup", "prepare", "take", "wake", "oops"}

TypeOK ==
  /\ free \in 0..Urbs /\ post \in 0..Urbs /\ air \in 0..Urbs
  /\ settling \in BOOLEAN /\ tbusy \in BOOLEAN /\ stopped \in BOOLEAN
  /\ len \in 0..MaxLen /\ flow \in BOOLEAN
  /\ snd \in {"idle", "push", "stop", "txdata", "post", "check", "restart"}
  /\ tpc \in {"wait", "loop", "dequeue", "submit", "dead"} /\ trig \in 0..MaxTriggers
  /\ usb \in {"up", "sleep", "down"} /\ bus \in {"up", "down"}
  /\ pm \in PMs
  /\ late \in BOOLEAN
  /\ hist \subseteq {"failed", "triggered", "early", "active"}

Init ==
  /\ free = Urbs /\ post = 0 /\ air = 0 /\ settling = FALSE
  /\ tbusy = FALSE /\ stopped = FALSE /\ len = 0 /\ flow = FALSE
  /\ snd = "idle" /\ tpc = "wait" /\ trig = 0
  /\ usb = "up" /\ bus = "up" /\ pm = "on"
  /\ late = FALSE /\ hist = {}

Stop == stopped' = TRUE /\ UNCHANGED late
Wake == stopped' = FALSE /\ late' = FALSE
Stay == UNCHANGED <<stopped, late>>

Remember(what) == hist' = hist \cup what

-----------------------------------------------------------------------------
(* The sender: rwnx_txq_queue_skb and rwnx_hwq_process under tx_lock *)

(* The stack hands a frame over: the state of its queue is all that keeps  *)
(* it back.  While tbusy is set a long queue is not stopped.               *)
Xmit ==
  /\ snd = "idle" /\ ~stopped /\ len < MaxLen
  /\ len' = len + 1
  /\ IF ~tbusy /\ len' > FlowLimit THEN flow' = TRUE /\ Stop
     ELSE UNCHANGED flow /\ Stay
  /\ UNCHANGED <<pool, tbusy, snd, thread, power, hist>>

(* A pass over the queue: it may end, for want of credits, at any frame.   *)
Process ==
  /\ snd = "idle" /\ len > 0
  /\ snd' = "push"
  /\ UNCHANGED <<pool, queue, thread, power, history>>

(* aicwf_frame_tx reads the state. *)
FrameTx ==
  /\ snd = "push" /\ len > 0
  /\ len' = len - 1
  /\ snd' = IF usb = "down" THEN "stop" ELSE "txdata"
  /\ UNCHANGED <<pool, tbusy, stopped, flow, thread, power, history>>

(* The bus was down: the queue is stopped, the frame is dropped. *)
FrameStop ==
  /\ snd = "stop"
  /\ IF tbusy THEN Stay
     ELSE stopped' = TRUE /\ late' = (late \/ pm = "on")
  /\ snd' = "push"
  /\ UNCHANGED <<pool, tbusy, len, flow, thread, power, hist>>

(* Mutant: the state is not tested. *)
MutTxDataDown ==
  /\ snd = "txdata"
  /\ \/ free > 0 /\ free' = free - 1 /\ snd' = "post"
     \/ free = 0 /\ snd' = "check" /\ UNCHANGED free
  /\ UNCHANGED <<post, air, settling, queue, thread, power, history>>

(* aicwf_usb_bus_txdata up to the free list: the frame is dropped when the *)
(* bus is not up or no URB is free.                                        *)
TxData ==
  /\ snd = "txdata"
  /\ \/ usb = "up" /\ free > 0 /\ free' = free - 1 /\ snd' = "post"
     \/ usb = "up" /\ free = 0 /\ snd' = "check" /\ UNCHANGED free
     \/ usb # "up" /\ snd' = "push" /\ UNCHANGED free
  /\ UNCHANGED <<post, air, settling, queue, thread, power, history>>

(* complete: bustx_trgg counts. *)
Triggered == IF trig < MaxTriggers THEN trig + 1 ELSE trig

(* A trigger is early when the sender knows the bus to be up again before  *)
(* the thread does.                                                        *)
Post ==
  /\ snd = "post"
  /\ post' = post + 1 /\ trig' = Triggered /\ snd' = "check"
  /\ Remember(CASE pm = "usbup" -> {"early", "active"}
                [] pm \in {"prepare", "take"} -> {"active"}
                [] OTHER -> {})
  /\ UNCHANGED <<free, air, settling, queue, tpc, power, late>>

(* The label flow_ctrl. *)
Check ==
  /\ snd = "check"
  /\ IF free < LowWater THEN tbusy' = TRUE /\ Stop
     ELSE UNCHANGED tbusy /\ Stay
  /\ snd' = "push"
  /\ UNCHANGED <<pool, len, flow, thread, power, hist>>

PassEnds ==
  /\ snd = "push" /\ snd' = "restart"
  /\ UNCHANGED <<pool, queue, thread, power, history>>

(* The netdev queue is restarted, by a completion if that is awaited. *)
Restart ==
  /\ snd = "restart"
  /\ IF flow /\ len < FlowLimit
     THEN flow' = FALSE /\ IF tbusy THEN Stay ELSE Wake
     ELSE UNCHANGED flow /\ Stay
  /\ snd' = "idle"
  /\ UNCHANGED <<pool, tbusy, len, thread, power, hist>>

-----------------------------------------------------------------------------
(* aicwf_usb_tx_complete *)

Complete ==
  /\ air > 0 /\ ~settling
  /\ air' = air - 1 /\ free' = free + 1 /\ settling' = TRUE
  /\ UNCHANGED <<post, queue, snd, thread, power, history>>

(* Mutant: the mark is as high as the number of URBs. *)
MutEnough == free > HighWater + LowWater

Enough == free > HighWater

Settle ==
  /\ settling /\ settling' = FALSE
  /\ IF Enough /\ tbusy THEN tbusy' = FALSE /\ Wake
     ELSE UNCHANGED tbusy /\ Stay
  /\ UNCHANGED <<free, post, air, len, flow, snd, thread, power, hist>>

-----------------------------------------------------------------------------
(* usb_bustx_thread and aicwf_usb_tx_process *)

ThreadWait ==
  /\ tpc = "wait" /\ trig > 0
  /\ trig' = trig - 1
  /\ tpc' = IF bus = "down" THEN "dead" ELSE IF post > 0 THEN "loop" ELSE "wait"
  /\ UNCHANGED <<pool, queue, snd, power, history>>

ThreadLoop ==
  /\ tpc = "loop"
  /\ tpc' = IF post > 0 /\ usb = "up" THEN "dequeue" ELSE "wait"
  /\ UNCHANGED <<pool, queue, snd, trig, power, history>>

(* The list may have been emptied since. *)
ThreadDequeue ==
  /\ tpc = "dequeue"
  /\ \/ post > 0 /\ post' = post - 1 /\ tpc' = "submit"
     \/ post = 0 /\ tpc' = "wait" /\ UNCHANGED post
  /\ UNCHANGED <<free, air, settling, queue, snd, trig, power, history>>

(* Mutant: the URB of a failed submission is lost. *)
MutFailed == UNCHANGED free

Failed == free' = free + 1

(* The USB core takes nothing for a device it has suspended. *)
ThreadSubmit ==
  /\ tpc = "submit"
  /\ \/ pm # "off" /\ air' = air + 1 /\ UNCHANGED <<free, hist>>
     \/ /\ pm = "off" \/ MayFail
        /\ Failed /\ Remember({"failed"}) /\ UNCHANGED air
  /\ tpc' = "loop"
  /\ UNCHANGED <<post, settling, queue, snd, trig, power, late>>

-----------------------------------------------------------------------------
(* aicwf_usb_suspend and aicwf_usb_resume *)

SuspendStop ==
  /\ MaySuspend /\ pm = "on"
  /\ pm' = "stopped" /\ Stop
  /\ UNCHANGED <<pool, tbusy, len, flow, snd, thread, usb, bus, hist>>

SuspendSleep ==
  /\ pm = "stopped" /\ pm' = "asleep" /\ usb' = "sleep"
  /\ UNCHANGED <<pool, queue, snd, thread, bus, history>>

(* bus_stop: the two states are written one after the other ... *)
SuspendUsb ==
  /\ pm = "asleep" /\ pm' = "usbdown" /\ usb' = "down"
  /\ UNCHANGED <<pool, queue, snd, thread, bus, history>>

(* ... and a trigger that is not taken yet, or still to come, will end the *)
(* thread.                                                                 *)
SuspendBus ==
  /\ pm = "usbdown" /\ pm' = "busdown" /\ bus' = "down"
  /\ Remember(IF trig > 0 \/ snd = "post" THEN {"triggered"} ELSE {})
  /\ UNCHANGED <<pool, queue, snd, thread, usb, late>>

(* netif_device_detach stops the queue once more. *)
Detach ==
  /\ pm = "busdown" /\ pm' = "detached" /\ Stop
  /\ UNCHANGED <<pool, tbusy, len, flow, snd, thread, usb, bus, hist>>

CoreSuspend ==
  /\ pm = "detached" /\ pm' = "off"
  /\ UNCHANGED <<pool, queue, snd, thread, usb, bus, history>>

(* The core has resumed the device; netif_device_attach wakes the queue    *)
(* while the bus is still down.                                            *)
Attach ==
  /\ pm = "off" /\ pm' = "attached" /\ Wake
  /\ UNCHANGED <<pool, tbusy, len, flow, snd, thread, usb, bus, hist>>

(* bus_start: the sender sees the bus up ... *)
ResumeUsb ==
  /\ pm = "attached" /\ pm' = "usbup" /\ usb' = "up"
  /\ Remember(IF trig > 0 \/ snd = "post" \/ tpc \notin {"wait", "dead"}
              THEN {"active"} ELSE {})
  /\ UNCHANGED <<pool, queue, snd, thread, bus, late>>

(* ... and then the thread. *)
ResumeBus ==
  /\ pm = "usbup" /\ pm' = "prepare" /\ bus' = "up"
  /\ UNCHANGED <<pool, queue, snd, thread, usb, history>>

(* Mutant: what was posted before the suspend stays posted. *)
MutResumePrepare ==
  /\ pm = "prepare" /\ pm' = "wake"
  /\ UNCHANGED <<pool, queue, snd, thread, usb, bus, history>>

(* aicwf_usb_tx_prepare: is the list empty? *)
ResumePrepare ==
  /\ pm = "prepare" /\ pm' = IF post > 0 THEN "take" ELSE "wake"
  /\ UNCHANGED <<pool, queue, snd, thread, usb, bus, history>>

(* What it takes from the list is not tested: the thread may have been     *)
(* first.                                                                  *)
ResumeTake ==
  /\ pm = "take"
  /\ \/ post > 0 /\ post' = post - 1 /\ free' = free + 1 /\ pm' = "prepare"
     \/ post = 0 /\ pm' = "oops" /\ UNCHANGED <<post, free>>
  /\ UNCHANGED <<air, settling, queue, snd, thread, usb, bus, history>>

(* Mutant: the queue is left as it is. *)
MutResumeWake ==
  /\ pm = "wake" /\ pm' = "on" /\ Stay
  /\ UNCHANGED <<pool, tbusy, len, flow, snd, thread, usb, bus, hist>>

(* The queue is woken; tbusy stays as it was. *)
ResumeWake ==
  /\ pm = "wake" /\ pm' = "on" /\ Wake
  /\ UNCHANGED <<pool, tbusy, len, flow, snd, thread, usb, bus, hist>>

-----------------------------------------------------------------------------

Sender == Process \/ FrameTx \/ FrameStop \/ TxData \/ Post \/ Check \/ PassEnds \/ Restart
Usb    == Complete \/ Settle
Thread == ThreadWait \/ ThreadLoop \/ ThreadDequeue \/ ThreadSubmit
Down   == SuspendSleep \/ SuspendUsb \/ SuspendBus \/ Detach \/ CoreSuspend
Up     == Attach \/ ResumeUsb \/ ResumeBus \/ ResumePrepare \/ ResumeTake \/ ResumeWake
Power  == Down \/ Up

Next == Xmit \/ Sender \/ Usb \/ Thread \/ SuspendStop \/ Power

Spec == Init /\ [][Next]_vars

(* The credits come back and the queue is processed (a pass that can go on *)
(* does not end for ever before its first frame), transfers end, the       *)
(* thread runs, and a suspended system is resumed.                         *)
FairSpec ==
  /\ Spec
  /\ WF_vars(Sender) /\ SF_vars(FrameTx)
  /\ WF_vars(Usb) /\ WF_vars(Thread) /\ WF_vars(Power)

-----------------------------------------------------------------------------
(* Properties *)

(* Every URB is in one place, whoever drops, submits, completes or takes   *)
(* it back.                                                                *)
UrbsConserved ==
  free + post + air + (IF snd = "post" THEN 1 ELSE 0)
                    + (IF tpc = "submit" THEN 1 ELSE 0) = Urbs

(* A queue that is stopped while the device runs has somebody to wake it:  *)
(* the next completion above the mark (tbusy) or the pass that shortens    *)
(* it (flow).  The exception is a frame that saw the bus down before it    *)
(* was resumed: its stop comes after the wake, with nobody to undo it.     *)
StopHasOwner == stopped /\ pm = "on" => tbusy \/ flow \/ late

(* When completions are to wake the queue, one is coming: an URB is in     *)
(* flight, or about to be by a thread that runs or is triggered; and all   *)
(* the URBs on their way are enough to pass the mark.  The exceptions: a   *)
(* submission that failed gives its URB back without a look at the flow;   *)
(* a thread that has ended.                                                *)
WakeIsComing ==
  stopped /\ tbusy /\ pm = "on" /\ "failed" \notin hist /\ tpc # "dead" =>
    \/ settling \/ air > 0 \/ snd = "post" \/ tpc = "submit"
    \/ post > 0 /\ (trig > 0 \/ tpc \in {"loop", "dequeue"})

(* A stopped queue of a running device will be woken: somebody is going to *)
(* do it, and if that is a completion, one is on its way.                  *)
StopIsUndone == StopHasOwner /\ WakeIsComing

(* No posted frame is forgotten: while the device runs the thread works on *)
(* it or is triggered, also when the frame was posted while the loop was   *)
(* ending and when it was left from before a suspend.                      *)
NoFrameForgotten ==
  post > 0 /\ pm = "on" /\ tpc # "dead" => trig > 0 \/ tpc \in {"loop", "dequeue", "submit"}

(* The thread ends only on a trigger that the suspend had left to it, or   *)
(* that a sender gave it between the two writes with which resume brings   *)
(* the bus up; the resume finds the list emptied under its hands only if   *)
(* sender or thread were at work meanwhile.                                *)
QuietSuspendIsSafe ==
  /\ tpc = "dead" => hist \cap {"triggered", "early"} # {}
  /\ pm = "oops" => "active" \in hist

(* Every stop ends, unless one of the exceptions above has happened.       *)
StopEnds == []<>(~stopped \/ late \/ hist # {})
=============================================================================
