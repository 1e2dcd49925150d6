---------------------------- MODULE UsbTx_proofs ----------------------------
(***************************************************************************)
(* The safety of the aic8800 transmit path for every number of URBs and    *)
(* every mark.  One inductive invariant: the type, the conservation of the *)
(* URBs, what the place in suspend and resume says of the bus, and for     *)
(* each property what must hold before the step that could break it.       *)
(***************************************************************************)
EXTENDS UsbTx, TLAPS

USE DEF PMs

(* The two states of the bus follow the place in suspend and resume. *)
PowerInv ==
  /\ usb = "sleep" <=> pm = "asleep"
  /\ usb = "down" <=> pm \in {"usbdown", "busdown", "detached", "off", "attached"}
  /\ bus = "down" <=> pm \in {"busdown", "detached", "off", "attached", "usbup"}

(* NoFrameForgotten must hold already when resume has found the list empty. *)
PostedInv ==
  post > 0 /\ pm \in {"on", "wake"} /\ tpc # "dead" =>
    trig > 0 \/ tpc \in {"loop", "dequeue", "submit"}

(* What a quiet suspend and a quiet resume leave to the thread. *)
QuietInv ==
  /\ bus = "down" /\ usb = "down" /\ (trig > 0 \/ snd = "post") => "triggered" \in hist
  /\ bus = "down" /\ trig > 0 => hist \cap {"triggered", "early"} # {}
  /\ pm \in {"usbup", "prepare", "take"} /\ "active" \notin hist =>
       tpc \in {"wait", "dead"} /\ trig = 0
  /\ pm = "take" /\ "active" \notin hist => post > 0

IInv ==
  /\ TypeOK /\ UrbsConserved /\ PowerInv /\ PostedInv /\ StopHasOwner
  /\ WakeIsComing /\ QuietInv /\ QuietSuspendIsSafe

(* The two parts of TypeOK that the provers take apart on their own. *)
BoolOK ==
  /\ settling \in BOOLEAN /\ tbusy \in BOOLEAN /\ stopped \in BOOLEAN
  /\ flow \in BOOLEAN /\ late \in BOOLEAN
DataOK ==
  /\ free \in 0..Urbs /\ post \in 0..Urbs /\ air \in 0..Urbs
  /\ len \in 0..MaxLen /\ trig \in 0..MaxTriggers
  /\ snd \in {"idle", "push", "stop", "txdata", "post", "check", "restart"}
  /\ tpc \in {"wait", "loop", "dequeue", "submit", "dead"}
  /\ usb \in {"up", "sleep", "down"} /\ bus \in {"up", "down"}
  /\ pm \in PMs
  /\ hist \subseteq {"failed", "triggered", "early", "active"}

(* The parts are the whole. *)
LEMMA TypeParts == TypeOK <=> BoolOK /\ DataOK
  BY Zenon DEF TypeOK, BoolOK, DataOK

LEMMA InitInv == Init => IInv
<1> SUFFICES ASSUME Init PROVE IInv
    OBVIOUS
<1>1. BoolOK
      BY Zenon DEF Init, BoolOK
<1>2. DataOK /\ UrbsConserved
      BY WaterAssumption, FlowAssumption DEF Init, DataOK, UrbsConserved
<1>3. PowerInv /\ PostedInv /\ StopHasOwner
      BY DEF Init, PowerInv, PostedInv, StopHasOwner
<1>4. WakeIsComing /\ QuietInv /\ QuietSuspendIsSafe
      BY DEF Init, WakeIsComing, QuietInv, QuietSuspendIsSafe
<1> QED
    BY <1>1, <1>2, <1>3, <1>4, TypeParts DEF IInv

(* The steps of the sender, under tx_lock. *)
LEMMA SenderStep == IInv /\ (Xmit \/ Sender) => IInv'
<1> SUFFICES ASSUME IInv, Xmit \/ Sender PROVE IInv'
    OBVIOUS
<1> USE WaterAssumption, FlowAssumption
    DEF IInv, TypeOK, UrbsConserved, PowerInv, PostedInv, StopHasOwner,
        WakeIsComing, QuietInv, QuietSuspendIsSafe, WaterAssumption, FlowAssumption,
        Stop, Wake, Stay, Remember, pool, queue, thread, power, history
<1>1. CASE Xmit
  <2>1. TypeOK'
    <3>1. BoolOK
          BY TypeParts
    <3>2. BoolOK'
          BY <1>1, <3>1, Zenon DEF Xmit, BoolOK
    <3>3. DataOK'
          BY <1>1 DEF Xmit, DataOK
    <3> QED
        BY <3>2, <3>3, Zenon DEF BoolOK, DataOK
  <2>2. UrbsConserved'
        BY <1>1 DEF Xmit
  <2>3. PowerInv'
        BY <1>1 DEF Xmit
  <2>4. PostedInv'
        BY <1>1 DEF Xmit
  <2>5. StopHasOwner'
        BY <1>1 DEF Xmit
  <2>6. WakeIsComing'
        BY <1>1 DEF Xmit
  <2>7. QuietInv'
        BY <1>1 DEF Xmit
  <2>8. QuietSuspendIsSafe'
        BY <1>1 DEF Xmit
  <2>9. QED
        BY <2>1, <2>2, <2>3, <2>4, <2>5, <2>6, <2>7, <2>8
<1>2. CASE Process
      BY <1>2 DEF Process
<1>3. CASE FrameTx
      BY <1>3 DEF FrameTx
<1>4. CASE FrameStop
  <2>1. TypeOK'
    <3>1. BoolOK
          BY TypeParts
    <3>2. BoolOK'
          BY <1>4, <3>1, Zenon DEF FrameStop, BoolOK
    <3>3. DataOK'
          BY <1>4 DEF FrameStop, DataOK
    <3> QED
        BY <3>2, <3>3, Zenon DEF BoolOK, DataOK
  <2>2. UrbsConserved'
        BY <1>4 DEF FrameStop
  <2>3. PowerInv'
        BY <1>4 DEF FrameStop
  <2>4. PostedInv'
        BY <1>4 DEF FrameStop
  <2>5. StopHasOwner'
        BY <1>4 DEF FrameStop
  <2>6. WakeIsComing'
        BY <1>4 DEF FrameStop
  <2>7. QuietInv'
        BY <1>4 DEF FrameStop
  <2>8. QuietSuspendIsSafe'
        BY <1>4 DEF FrameStop
  <2>9. QED
        BY <2>1, <2>2, <2>3, <2>4, <2>5, <2>6, <2>7, <2>8
<1>5. CASE TxData
      BY <1>5 DEF TxData
<1>6. CASE Post
  <2>1. TypeOK'
    <3>1. BoolOK
          BY TypeParts
    <3>2. BoolOK'
          BY <1>6, <3>1, Zenon DEF Post, Triggered, BoolOK
    <3>3. DataOK'
          BY <1>6 DEF Post, Triggered, DataOK
    <3> QED
        BY <3>2, <3>3, Zenon DEF BoolOK, DataOK
  <2>2. UrbsConserved'
        BY <1>6 DEF Post, Triggered
  <2>3. PowerInv'
        BY <1>6 DEF Post, Triggered
  <2>4. PostedInv'
        BY <1>6 DEF Post, Triggered
  <2>5. StopHasOwner'
        BY <1>6 DEF Post, Triggered
  <2>6. WakeIsComing'
        BY <1>6 DEF Post, Triggered
  <2>7. QuietInv'
        BY <1>6 DEF Post, Triggered
  <2>8. QuietSuspendIsSafe'
        BY <1>6 DEF Post, Triggered
  <2>9. QED
        BY <2>1, <2>2, <2>3, <2>4, <2>5, <2>6, <2>7, <2>8
<1>7. CASE Check
  <2>1. TypeOK'
    <3>1. BoolOK
          BY TypeParts
    <3>2. BoolOK'
          BY <1>7, <3>1, Zenon DEF Check, BoolOK
    <3>3. DataOK'
          BY <1>7 DEF Check, DataOK
    <3> QED
        BY <3>2, <3>3, Zenon DEF BoolOK, DataOK
  <2>2. UrbsConserved'
        BY <1>7 DEF Check
  <2>3. PowerInv'
        BY <1>7 DEF Check
  <2>4. PostedInv'
        BY <1>7 DEF Check
  <2>5. StopHasOwner'
        BY <1>7 DEF Check
  <2>6. WakeIsComing'
    <3>1. CASE free < LowWater
      <4>1. post > 0 \/ air > 0 \/ tpc = "submit"
            BY <1>7, <3>1 DEF Check
      <4> QED
          BY <1>7, <4>1 DEF Check
    <3>2. CASE ~(free < LowWater)
      <4>1. tbusy' = tbusy /\ stopped' = stopped
            BY <1>7, <3>2, Zenon DEF Check
      <4> QED
          BY <1>7, <4>1 DEF Check
    <3> QED
        BY <3>1, <3>2
  <2>7. QuietInv'
        BY <1>7 DEF Check
  <2>8. QuietSuspendIsSafe'
        BY <1>7 DEF Check
  <2>9. QED
        BY <2>1, <2>2, <2>3, <2>4, <2>5, <2>6, <2>7, <2>8
<1>8. CASE PassEnds
      BY <1>8 DEF PassEnds
<1>9. CASE Restart
  <2>1. TypeOK'
    <3>1. BoolOK
          BY TypeParts
    <3>2. BoolOK'
          BY <1>9, <3>1, Zenon DEF Restart, BoolOK
    <3>3. DataOK'
          BY <1>9 DEF Restart, DataOK
    <3> QED
        BY <3>2, <3>3, Zenon DEF BoolOK, DataOK
  <2>2. UrbsConserved'
        BY <1>9 DEF Restart
  <2>3. PowerInv'
        BY <1>9 DEF Restart
  <2>4. PostedInv'
        BY <1>9 DEF Restart
  <2>5. StopHasOwner'
        BY <1>9 DEF Restart
  <2>6. WakeIsComing'
        BY <1>9 DEF Restart
  <2>7. QuietInv'
        BY <1>9 DEF Restart
  <2>8. QuietSuspendIsSafe'
        BY <1>9 DEF Restart
  <2>9. QED
        BY <2>1, <2>2, <2>3, <2>4, <2>5, <2>6, <2>7, <2>8
<1>10. QED
      BY <1>1, <1>2, <1>3, <1>4, <1>5, <1>6, <1>7, <1>8, <1>9 DEF Sender

(* The completions and the thread. *)
LEMMA ThreadStep == IInv /\ (Usb \/ Thread) => IInv'
<1> SUFFICES ASSUME IInv, Usb \/ Thread PROVE IInv'
    OBVIOUS
<1> USE WaterAssumption, FlowAssumption
    DEF IInv, TypeOK, UrbsConserved, PowerInv, PostedInv, StopHasOwner,
        WakeIsComing, QuietInv, QuietSuspendIsSafe, WaterAssumption, FlowAssumption,
        Stop, Wake, Stay, Remember, pool, queue, thread, power, history
<1>1. CASE Complete
      BY <1>1 DEF Complete
<1>2. CASE Settle
  <2>1. TypeOK'
    <3>1. BoolOK
          BY TypeParts
    <3>2. BoolOK'
          BY <1>2, <3>1, Zenon DEF Settle, Enough, BoolOK
    <3>3. DataOK'
          BY <1>2 DEF Settle, Enough, DataOK
    <3> QED
        BY <3>2, <3>3, Zenon DEF BoolOK, DataOK
  <2>2. UrbsConserved'
        BY <1>2 DEF Settle, Enough
  <2>3. PowerInv'
        BY <1>2 DEF Settle, Enough
  <2>4. PostedInv'
        BY <1>2 DEF Settle, Enough
  <2>5. StopHasOwner'
        BY <1>2 DEF Settle, Enough
  <2>6. WakeIsComing'
    <3>1. CASE Enough /\ tbusy
          BY <1>2, <3>1 DEF Settle
    <3>2. CASE ~(Enough /\ tbusy)
      <4>1. tbusy' = tbusy /\ stopped' = stopped
            BY <1>2, <3>2, Zenon DEF Settle
      <4>2. tbusy => post > 0 \/ air > 0 \/ snd = "post" \/ tpc = "submit"
            BY <3>2 DEF Enough
      <4> QED
          BY <1>2, <4>1, <4>2 DEF Settle
    <3> QED
        BY <3>1, <3>2
  <2>7. QuietInv'
        BY <1>2 DEF Settle, Enough
  <2>8. QuietSuspendIsSafe'
        BY <1>2 DEF Settle, Enough
  <2>9. QED
        BY <2>1, <2>2, <2>3, <2>4, <2>5, <2>6, <2>7, <2>8
<1>3. CASE ThreadWait
      BY <1>3 DEF ThreadWait
<1>4. CASE ThreadLoop
      BY <1>4 DEF ThreadLoop
<1>5. CASE ThreadDequeue
      BY <1>5 DEF ThreadDequeue
<1>6. CASE ThreadSubmit
  <2>1. TypeOK'
    <3>1. BoolOK
          BY TypeParts
    <3>2. BoolOK'
          BY <1>6, <3>1, Zenon DEF ThreadSubmit, Failed, BoolOK
    <3>3. DataOK'
      <4>1. free' \in 0..Urbs /\ air' \in 0..Urbs
            BY <1>6 DEF ThreadSubmit, Failed
      <4>2. hist' \subseteq {"failed", "triggered", "early", "active"}
            BY <1>6, Zenon DEF ThreadSubmit
      <4> QED
          BY <1>6, <4>1, <4>2 DEF ThreadSubmit, DataOK
    <3> QED
        BY <3>2, <3>3, Zenon DEF BoolOK, DataOK
  <2>2. UrbsConserved'
        BY <1>6 DEF ThreadSubmit, Failed
  <2>3. PowerInv'
        BY <1>6 DEF ThreadSubmit, Failed
  <2>4. PostedInv'
        BY <1>6 DEF ThreadSubmit, Failed
  <2>5. StopHasOwner'
        BY <1>6 DEF ThreadSubmit, Failed
  <2>6. WakeIsComing'
        BY <1>6 DEF ThreadSubmit, Failed
  <2>7. QuietInv'
        BY <1>6 DEF ThreadSubmit, Failed
  <2>8. QuietSuspendIsSafe'
        BY <1>6 DEF ThreadSubmit, Failed
  <2>9. QED
        BY <2>1, <2>2, <2>3, <2>4, <2>5, <2>6, <2>7, <2>8
<1>7. QED
      BY <1>1, <1>2, <1>3, <1>4, <1>5, <1>6 DEF Usb, Thread

(* Suspend and resume. *)
LEMMA PowerStep == IInv /\ (SuspendStop \/ Power) => IInv'
<1> SUFFICES ASSUME IInv, SuspendStop \/ Power PROVE IInv'
    OBVIOUS
<1> USE WaterAssumption, FlowAssumption
    DEF IInv, TypeOK, UrbsConserved, PowerInv, PostedInv, StopHasOwner,
        WakeIsComing, QuietInv, QuietSuspendIsSafe, WaterAssumption, FlowAssumption,
        Stop, Wake, Stay, Remember, pool, queue, thread, power, history
<1>1. CASE SuspendStop
  <2>1. TypeOK'
    <3>1. BoolOK
          BY TypeParts
    <3>2. BoolOK'
          BY <1>1, <3>1, Zenon DEF SuspendStop, BoolOK
    <3>3. DataOK'
          BY <1>1 DEF SuspendStop, DataOK
    <3> QED
        BY <3>2, <3>3, Zenon DEF BoolOK, DataOK
  <2>2. UrbsConserved'
        BY <1>1 DEF SuspendStop
  <2>3. PowerInv'
        BY <1>1 DEF SuspendStop
  <2>4. PostedInv'
        BY <1>1 DEF SuspendStop
  <2>5. StopHasOwner'
        BY <1>1 DEF SuspendStop
  <2>6. WakeIsComing'
        BY <1>1 DEF SuspendStop
  <2>7. QuietInv'
        BY <1>1 DEF SuspendStop
  <2>8. QuietSuspendIsSafe'
        BY <1>1 DEF SuspendStop
  <2>9. QED
        BY <2>1, <2>2, <2>3, <2>4, <2>5, <2>6, <2>7, <2>8
<1>2. CASE SuspendSleep
      BY <1>2 DEF SuspendSleep
<1>3. CASE SuspendUsb
      BY <1>3 DEF SuspendUsb
<1>4. CASE SuspendBus
      BY <1>4 DEF SuspendBus
<1>5. CASE Detach
  <2>1. TypeOK'
    <3>1. BoolOK
          BY TypeParts
    <3>2. BoolOK'
          BY <1>5, <3>1, Zenon DEF Detach, BoolOK
    <3>3. DataOK'
          BY <1>5 DEF Detach, DataOK
    <3> QED
        BY <3>2, <3>3, Zenon DEF BoolOK, DataOK
  <2>2. UrbsConserved'
        BY <1>5 DEF Detach
  <2>3. PowerInv'
        BY <1>5 DEF Detach
  <2>4. PostedInv'
        BY <1>5 DEF Detach
  <2>5. StopHasOwner'
        BY <1>5 DEF Detach
  <2>6. WakeIsComing'
        BY <1>5 DEF Detach
  <2>7. QuietInv'
        BY <1>5 DEF Detach
  <2>8. QuietSuspendIsSafe'
        BY <1>5 DEF Detach
  <2>9. QED
        BY <2>1, <2>2, <2>3, <2>4, <2>5, <2>6, <2>7, <2>8
<1>6. CASE CoreSuspend
      BY <1>6 DEF CoreSuspend
<1>7. CASE Attach
  <2>1. TypeOK'
    <3>1. BoolOK
          BY TypeParts
    <3>2. BoolOK'
          BY <1>7, <3>1, Zenon DEF Attach, BoolOK
    <3>3. DataOK'
          BY <1>7 DEF Attach, DataOK
    <3> QED
        BY <3>2, <3>3, Zenon DEF BoolOK, DataOK
  <2>2. UrbsConserved'
        BY <1>7 DEF Attach
  <2>3. PowerInv'
        BY <1>7 DEF Attach
  <2>4. PostedInv'
        BY <1>7 DEF Attach
  <2>5. StopHasOwner'
        BY <1>7 DEF Attach
  <2>6. WakeIsComing'
        BY <1>7 DEF Attach
  <2>7. QuietInv'
        BY <1>7 DEF Attach
  <2>8. QuietSuspendIsSafe'
        BY <1>7 DEF Attach
  <2>9. QED
        BY <2>1, <2>2, <2>3, <2>4, <2>5, <2>6, <2>7, <2>8
<1>8. CASE ResumeUsb
      BY <1>8 DEF ResumeUsb
<1>9. CASE ResumeBus
      BY <1>9 DEF ResumeBus
<1>10. CASE ResumePrepare
      BY <1>10 DEF ResumePrepare
<1>11. CASE ResumeTake
      BY <1>11 DEF ResumeTake
<1>12. CASE ResumeWake
  <2>1. TypeOK'
    <3>1. BoolOK
          BY TypeParts
    <3>2. BoolOK'
          BY <1>12, <3>1, Zenon DEF ResumeWake, BoolOK
    <3>3. DataOK'
          BY <1>12 DEF ResumeWake, DataOK
    <3> QED
        BY <3>2, <3>3, Zenon DEF BoolOK, DataOK
  <2>2. UrbsConserved'
        BY <1>12 DEF ResumeWake
  <2>3. PowerInv'
        BY <1>12 DEF ResumeWake
  <2>4. PostedInv'
        BY <1>12 DEF ResumeWake
  <2>5. StopHasOwner'
        BY <1>12 DEF ResumeWake
  <2>6. WakeIsComing'
        BY <1>12 DEF ResumeWake
  <2>7. QuietInv'
        BY <1>12 DEF ResumeWake
  <2>8. QuietSuspendIsSafe'
        BY <1>12 DEF ResumeWake
  <2>9. QED
        BY <2>1, <2>2, <2>3, <2>4, <2>5, <2>6, <2>7, <2>8
<1>13. QED
      BY <1>1, <1>2, <1>3, <1>4, <1>5, <1>6, <1>7, <1>8, <1>9, <1>10, <1>11, <1>12
      DEF Power, Down, Up

(* A step that changes nothing. *)
LEMMA StutterStep == IInv /\ UNCHANGED vars => IInv'
<1> SUFFICES ASSUME IInv, UNCHANGED vars PROVE IInv'
    OBVIOUS
<1> USE DEF vars, pool, queue, thread, power, history
<1>1. TypeOK' /\ UrbsConserved'
      BY DEF IInv, TypeOK, UrbsConserved
<1>2. PowerInv' /\ PostedInv' /\ StopHasOwner'
      BY DEF IInv, PowerInv, PostedInv, StopHasOwner
<1>3. WakeIsComing' /\ QuietInv' /\ QuietSuspendIsSafe'
      BY DEF IInv, WakeIsComing, QuietInv, QuietSuspendIsSafe
<1> QED
    BY <1>1, <1>2, <1>3 DEF IInv

(* The invariant holds for every number of URBs and every pair of marks.   *)
THEOREM Invariance == Spec => []IInv
<1>1. Init => IInv
      BY InitInv
<1>2. IInv /\ [Next]_vars => IInv'
      BY SenderStep, ThreadStep, PowerStep, StutterStep DEF Next
<1> QED
    BY <1>1, <1>2, PTL DEF Spec

(* Every variable of the transmit path keeps its type. *)
THEOREM TypeCorrect == Spec => []TypeOK
<1>1. IInv => TypeOK
      BY DEF IInv
<1> QED
    BY <1>1, Invariance, PTL

(* No URB is lost or used twice between the lists, the USB core and the    *)
(* hands of sender and thread.                                             *)
THEOREM ConservesUrbs == Spec => []UrbsConserved
<1>1. IInv => UrbsConserved
      BY DEF IInv
<1> QED
    BY <1>1, Invariance, PTL

(* A queue stopped by the flow control of a running device has somebody    *)
(* who is to wake it; when that is a completion above the high mark, one   *)
(* is on its way, whatever the marks are.                                  *)
THEOREM StopsAreUndone == Spec => []StopIsUndone
<1>1. IInv => StopIsUndone
      BY DEF IInv, StopIsUndone
<1> QED
    BY <1>1, Invariance, PTL

(* The thread works on every posted frame or is triggered for it. *)
THEOREM FramesAreSubmitted == Spec => []NoFrameForgotten
<1>1. IInv => NoFrameForgotten
      BY DEF IInv, PostedInv, NoFrameForgotten
<1> QED
    BY <1>1, Invariance, PTL

(* The thread ends only on a trigger left by the suspend, or given between *)
(* the two writes that bring the bus up; the resume finds the list emptied *)
(* under its hands only if sender or thread were at work meanwhile.        *)
THEOREM QuietSuspend == Spec => []QuietSuspendIsSafe
<1>1. IInv => QuietSuspendIsSafe
      BY DEF IInv
<1> QED
    BY <1>1, Invariance, PTL
=============================================================================
