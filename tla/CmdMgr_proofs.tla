---------------------------- MODULE CmdMgr_proofs ----------------------------
(***************************************************************************)
(* The safety of the command manager for every set of slots, every mix of  *)
(* commands and every queue bound, with kills, time-outs and a disconnect. *)
(*                                                                         *)
(* Most actions see the queue only as the set of slots in it, so the       *)
(* lemmas on list_add_tail and list_del say what becomes of that set, and  *)
(* the invariant ties it to the places of the callers and of the worker.   *)
(***************************************************************************)
EXTENDS CmdMgr, TLAPS

(* No slot is in the queue twice. *)
Inj == \A i, j \in DOMAIN list : list[i] = list[j] => i = j

Queued(s) == s \in Linked \/ "drain" \in hist
Away == {"idle", "wake"}
Owned == {"push", "pushing", "wait", "late"}

(* Until a time-out, what is queued is in use by a caller or left behind.  *)
LiveInv ==
  \A s \in Slots : state = "inited" /\ s \in Linked =>
    used[s] /\ kind[s] # "plain" /\ pc[s] \in Away \cup Owned

(* A slot in use holds a command. *)
KindInv == \A s \in Slots : used[s] => kind[s] \in Kinds

(* A caller that is under way has its slot, and its command is queued. *)
CallerInv ==
  \A s \in Slots :
    /\ pc[s] \notin Away \cup {"leave"} => used[s]
    /\ pc[s] = "queue" => kind[s] # "plain"
    /\ pc[s] \in {"wait", "late"} => Queued(s)
    /\ pc[s] \in {"push", "pushing"} /\ kind[s] # "plain" => Queued(s)

(* A deferred command was left behind by its caller. *)
DeferInv ==
  \A s \in Slots : "WAIT_PUSH" \in flags[s] =>
    used[s] /\ pc[s] \in Away /\ kind[s] # "query" /\ Queued(s)

(* So was the one in the worker's hands. *)
WorkerInv ==
  wpc \in Owned =>
    wcur \in Slots /\ used[wcur] /\ pc[wcur] \in Away /\ Queued(wcur)

(* The buffer holds a request as long as the URB is in flight. *)
UsbInv == urb \in Requests => buf \in Requests

(* Before a drain no slot in use is out of everybody's reach. *)
UsedInv == "drain" \notin hist => \A s \in Slots : used[s] => s \in Linked \/ Calling(s)

IInv ==
  /\ TypeOK /\ Inj /\ KindInv /\ LiveInv /\ CallerInv /\ DeferInv /\ WorkerInv /\ UsbInv /\ UsedInv
  /\ NoAnswerToDeadStack /\ AwakeWhileQueued /\ DoubleUnlinkNeedsDrain

-----------------------------------------------------------------------------
(* The queue *)

(* list_add_tail of a slot that is not in the queue. *)
LEMMA AppendFacts ==
  ASSUME list \in Seq(Slots), Inj, NEW s \in Slots, s \notin Linked,
         list' = Append(list, s)
  PROVE  /\ list' \in Seq(Slots) /\ Len(list') = Len(list) + 1
         /\ Linked' = Linked \cup {s} /\ Inj' /\ list' # <<>>
<1>1. list' \in Seq(Slots) /\ Len(list') = Len(list) + 1 /\ DOMAIN list' = 1..Len(list) + 1
      OBVIOUS
<1>2. \A i \in DOMAIN list : i \in DOMAIN list' /\ list'[i] = list[i]
      OBVIOUS
<1>3. list'[Len(list) + 1] = s
      OBVIOUS
<1>4. DOMAIN list = 1..Len(list) /\ Len(list) \in Nat
      OBVIOUS
<1>5. Linked' = Linked \cup {s}
      BY <1>1, <1>2, <1>3, <1>4 DEF Linked
<1>6. Inj'
      BY <1>1, <1>2, <1>3, <1>4 DEF Inj, Linked
<1> QED
    BY <1>1, <1>5, <1>6

(* list_del of a slot that is in the queue. *)
LEMMA WithoutFacts ==
  ASSUME list \in Seq(Slots), Inj, NEW s \in Slots, s \in Linked,
         list' = Without(s)
  PROVE  /\ list' \in Seq(Slots) /\ Len(list') = Len(list) - 1
         /\ Linked' = Linked \ {s} /\ Inj'
<1> DEFINE p == CHOOSE i \in DOMAIN list : list[i] = s
<1>1. p \in DOMAIN list /\ list[p] = s
      BY DEF Linked
<1>2. DOMAIN list = 1..Len(list) /\ Len(list) \in Nat
      OBVIOUS
<1>3. list' = [j \in 1..Len(list) - 1 |-> IF j < p THEN list[j] ELSE list[j + 1]]
      BY DEF Without
<1> HIDE DEF p
<1>4. Len(list) - 1 \in Nat
      BY <1>1, <1>2
<1>5. \A j \in 1..Len(list) - 1 : list'[j] \in Slots
      BY <1>1, <1>2, <1>3
<1>6. list' \in Seq(Slots) /\ Len(list') = Len(list) - 1 /\ DOMAIN list' = 1..Len(list) - 1
      BY <1>3, <1>4, <1>5
<1>7. Linked' = Linked \ {s}
  <2>1. ASSUME NEW j \in DOMAIN list' PROVE list'[j] \in Linked \ {s}
        BY <1>1, <1>2, <1>3, <1>6 DEF Inj, Linked
  <2>2. ASSUME NEW i \in DOMAIN list, list[i] # s
        PROVE \E j \in DOMAIN list' : list'[j] = list[i]
    <3>1. CASE i < p
          BY <1>1, <1>2, <1>3, <1>6, <3>1
    <3>2. CASE i > p
      <4>1. i - 1 \in DOMAIN list' /\ ~(i - 1 < p) /\ i - 1 + 1 = i
            BY <1>1, <1>2, <1>6, <3>2
      <4> QED
          BY <4>1, <1>3, <1>6
    <3> QED
        BY <1>1, <1>2, <2>2, <3>1, <3>2
  <2> QED
      BY <2>1, <2>2 DEF Linked
<1>8. Inj'
      BY <1>1, <1>2, <1>3, <1>6, SMTT(30) DEF Inj
<1> QED
    BY <1>6, <1>7, <1>8
(* The parts of the type invariant. *)
MgrOK ==
  /\ state \in {"inited", "crashed", "deinit"}
  /\ list \in Seq(Slots) /\ queueSz \in Int /\ awake \in BOOLEAN
SlotOK ==
  /\ used \in [Slots -> BOOLEAN] /\ kind \in [Slots -> Kinds \cup {"none"}]
  /\ flags \in [Slots -> SUBSET Flags] /\ done \in [Slots -> BOOLEAN]
  /\ pc \in [Slots -> PCs]
WorkOK ==
  /\ wpc \in {"idle", "scan", "push", "pushing", "wait", "late"}
  /\ wcur \in Slots \cup {"none"} /\ work \in BOOLEAN
UsbOK ==
  /\ usb \in {"up", "down"}
  /\ urb \in Requests \cup {NoRequest} /\ buf \in Requests \cup {NoRequest}
  /\ finished \in BOOLEAN /\ device \in Seq(Requests)
HistOK ==
  /\ hist \subseteq {"kill", "drain", "plain"}
  /\ harm \subseteq {"wrongAnswer", "doubleUnlink", "overwritten"}

(* They are the whole. *)
LEMMA TypeParts == TypeOK <=> MgrOK /\ SlotOK /\ WorkOK /\ UsbOK /\ HistOK
  BY Zenon DEF TypeOK, MgrOK, SlotOK, WorkOK, UsbOK, HistOK

(* A request stays one when its slot is freed. *)
LEMMA OrphanType ==
  ASSUME NEW r \in Requests \cup {NoRequest}, NEW s \in Slots
  PROVE  /\ Orphan(r, s) \in Requests \cup {NoRequest}
         /\ r \in Requests <=> Orphan(r, s) \in Requests
<1>1. CASE r \in Requests
  <2>1. CASE r.slot = s
    <3>1. Orphan(r, s) = [slot |-> r.slot, kind |-> r.kind, own |-> FALSE]
          BY <1>1, <2>1 DEF Orphan, Requests
    <3> QED
        BY <1>1, <3>1 DEF Requests
  <2>2. CASE r.slot # s
        BY <1>1, <2>2 DEF Orphan
  <2> QED
      BY <2>1, <2>2
<1>2. CASE r = NoRequest
  <2>1. NoRequest.slot # s /\ NoRequest \notin Requests
        BY SlotsAssumption DEF NoRequest, Requests
  <2>2. Orphan(r, s) = NoRequest
        BY <1>2, <2>1 DEF Orphan
  <2> QED
      BY <1>2, <2>1, <2>2
<1> QED
    BY <1>1, <1>2

(* So do those that the device has. *)
LEMMA FreeType ==
  ASSUME TypeOK, NEW s \in Slots, NEW b, Free(s, b)
  PROVE  /\ urb' \in Requests \cup {NoRequest} /\ buf' \in Requests \cup {NoRequest}
         /\ device' \in Seq(Requests)
         /\ (urb \in Requests <=> urb' \in Requests) /\ (buf \in Requests <=> buf' \in Requests)
<1>1. /\ urb' \in Requests \cup {NoRequest} /\ buf' \in Requests \cup {NoRequest}
      /\ (urb \in Requests <=> urb' \in Requests) /\ (buf \in Requests <=> buf' \in Requests)
      BY OrphanType DEF TypeOK, Free
<1>2. device \in Seq(Requests) /\ Len(device) \in Nat /\ DOMAIN device = 1..Len(device)
      BY DEF TypeOK
<1>3. \A i \in 1..Len(device) : Orphan(device[i], s) \in Requests
      BY <1>2, OrphanType
<1>4. device' = [i \in 1..Len(device) |-> Orphan(device[i], s)]
      BY <1>2 DEF Free
<1> QED
    BY <1>1, <1>2, <1>3, <1>4

-----------------------------------------------------------------------------
(* The steps *)

(* A caller takes a slot. *)
LEMMA SendStep ==
  ASSUME IInv, NEW s \in Slots, NEW k \in Kinds, Send(s, k)
  PROVE  IInv'
<1> USE KindsAssumption, SlotsAssumption, QueueAssumption
    DEF IInv, TypeOK, KindInv, LiveInv, CallerInv, DeferInv, WorkerInv,
        UsbInv, UsedInv, NoAnswerToDeadStack, AwakeWhileQueued, DoubleUnlinkNeedsDrain,
        Calling, InHand, Queued, Away, Owned, Goto, WorkGoto, PCs, Flags,
        mgrVars, slotVars, workVars, usbVars, histVars
<1>1. list' = list
      BY DEF Send
<1>2. Linked' = Linked /\ Inj'
      BY <1>1 DEF Inj, Linked
<1>3. TypeOK'
  <2>1. MgrOK'
        BY <1>1, <1>2 DEF Send, MgrOK
  <2>2. SlotOK'
        BY <1>1, <1>2 DEF Send, SlotOK
  <2>3. WorkOK'
        BY <1>1, <1>2 DEF Send, WorkOK
  <2>4. UsbOK'
        BY <1>1, <1>2 DEF Send, UsbOK
  <2>5. HistOK'
        BY <1>1, <1>2 DEF Send, HistOK
  <2> QED
      BY <2>1, <2>2, <2>3, <2>4, <2>5, Zenon DEF MgrOK, SlotOK, WorkOK, UsbOK, HistOK
<1>4. KindInv'
      BY <1>1, <1>2 DEF Send
<1>5. LiveInv'
      BY <1>1, <1>2 DEF Send
<1>6. CallerInv'
      BY <1>1, <1>2 DEF Send
<1>7. DeferInv'
      BY <1>1, <1>2 DEF Send
<1>8. WorkerInv'
      BY <1>1, <1>2 DEF Send
<1>9. UsbInv'
      BY <1>1, <1>2 DEF Send
<1>10. UsedInv'
      BY <1>1, <1>2 DEF Send
<1>11. NoAnswerToDeadStack'
      BY <1>1, <1>2 DEF Send
<1>12. AwakeWhileQueued'
      BY <1>1, <1>2 DEF Send
<1>13. DoubleUnlinkNeedsDrain'
      BY <1>1, <1>2 DEF Send
<1> QED
    BY <1>2, <1>3, <1>4, <1>5, <1>6, <1>7, <1>8, <1>9, <1>10, <1>11, <1>12, <1>13

(* The manager refuses. *)
LEMMA RejectStep ==
  ASSUME IInv, NEW s \in Slots, Reject(s)
  PROVE  IInv'
<1> USE KindsAssumption, SlotsAssumption, QueueAssumption
    DEF IInv, TypeOK, KindInv, LiveInv, CallerInv, DeferInv, WorkerInv,
        UsbInv, UsedInv, NoAnswerToDeadStack, AwakeWhileQueued, DoubleUnlinkNeedsDrain,
        Calling, InHand, Queued, Away, Owned, Goto, WorkGoto, PCs, Flags,
        mgrVars, slotVars, workVars, usbVars, histVars
<1>1. list' = list
      BY DEF Reject, Free, Freed, Orphan
<1>2. Linked' = Linked /\ Inj'
      BY <1>1 DEF Inj, Linked
<1>3. TypeOK'
  <2>1. MgrOK'
        BY <1>1, <1>2 DEF Reject, Free, Freed, Orphan, MgrOK
  <2>2. SlotOK'
        BY <1>1, <1>2 DEF Reject, Free, Freed, Orphan, SlotOK
  <2>3. WorkOK'
        BY <1>1, <1>2 DEF Reject, Free, Freed, Orphan, WorkOK
  <2>4. UsbOK'
        BY <1>1, <1>2, FreeType, ZenonT(60) DEF Reject, Free, Freed, Orphan, UsbOK
  <2>5. HistOK'
        BY <1>1, <1>2 DEF Reject, Free, Freed, Orphan, HistOK
  <2> QED
      BY <2>1, <2>2, <2>3, <2>4, <2>5, Zenon DEF MgrOK, SlotOK, WorkOK, UsbOK, HistOK
<1>4. KindInv'
      BY <1>1, <1>2 DEF Reject, Free, Freed, Orphan
<1>5. LiveInv'
      BY <1>1, <1>2 DEF Reject, Free, Freed, Orphan
<1>6. CallerInv'
      BY <1>1, <1>2 DEF Reject, Free, Freed, Orphan
<1>7. DeferInv'
      BY <1>1, <1>2 DEF Reject, Free, Freed, Orphan
<1>8. WorkerInv'
      BY <1>1, <1>2 DEF Reject, Free, Freed, Orphan
<1>9. UsbInv'
      BY <1>1, <1>2, FreeType DEF Reject
<1>10. UsedInv'
      BY <1>1, <1>2 DEF Reject, Free, Freed, Orphan
<1>11. NoAnswerToDeadStack'
      BY <1>1, <1>2 DEF Reject, Free, Freed, Orphan
<1>12. AwakeWhileQueued'
      BY <1>1, <1>2 DEF Reject, Free, Freed, Orphan
<1>13. DoubleUnlinkNeedsDrain'
      BY <1>1, <1>2 DEF Reject, Free, Freed, Orphan
<1> QED
    BY <1>2, <1>3, <1>4, <1>5, <1>6, <1>7, <1>8, <1>9, <1>10, <1>11, <1>12, <1>13

(* A command is queued. *)
LEMMA LinkStep ==
  ASSUME IInv, NEW s \in Slots, Link(s)
  PROVE  IInv'
<1> USE KindsAssumption, SlotsAssumption, QueueAssumption
    DEF IInv, TypeOK, KindInv, LiveInv, CallerInv, DeferInv, WorkerInv,
        UsbInv, UsedInv, NoAnswerToDeadStack, AwakeWhileQueued, DoubleUnlinkNeedsDrain,
        Calling, InHand, Queued, Away, Owned, Goto, WorkGoto, PCs, Flags,
        mgrVars, slotVars, workVars, usbVars, histVars
<1>1. s \notin Linked
      BY DEF Link
<1>2. /\ list' \in Seq(Slots) /\ Len(list') = Len(list) + 1
      /\ Linked' = Linked \cup {s} /\ Inj' /\ list' # <<>>
      BY <1>1, AppendFacts DEF Link
<1>3. TypeOK'
  <2>1. MgrOK'
        BY <1>1, <1>2 DEF Link, Defers, MayQueue, Full, MgrOK
  <2>2. SlotOK'
        BY <1>1, <1>2 DEF Link, Defers, MayQueue, Full, SlotOK
  <2>3. WorkOK'
        BY <1>1, <1>2 DEF Link, Defers, MayQueue, Full, WorkOK
  <2>4. UsbOK'
        BY <1>1, <1>2 DEF Link, Defers, MayQueue, Full, UsbOK
  <2>5. HistOK'
        BY <1>1, <1>2 DEF Link, Defers, MayQueue, Full, HistOK
  <2> QED
      BY <2>1, <2>2, <2>3, <2>4, <2>5, Zenon DEF MgrOK, SlotOK, WorkOK, UsbOK, HistOK
<1>4. KindInv'
      BY <1>1, <1>2 DEF Link, Defers, MayQueue, Full
<1>5. LiveInv'
      BY <1>1, <1>2 DEF Link, Defers, MayQueue, Full
<1>6. CallerInv'
      BY <1>1, <1>2 DEF Link, Defers, MayQueue, Full
<1>7. DeferInv'
      BY <1>1, <1>2 DEF Link, Defers, MayQueue, Full
<1>8. WorkerInv'
      BY <1>1, <1>2 DEF Link, Defers, MayQueue, Full
<1>9. UsbInv'
      BY <1>1, <1>2 DEF Link, Defers, MayQueue, Full
<1>10. UsedInv'
      BY <1>1, <1>2 DEF Link, Defers, MayQueue, Full
<1>11. NoAnswerToDeadStack'
      BY <1>1, <1>2 DEF Link, Defers, MayQueue, Full
<1>12. AwakeWhileQueued'
      BY <1>1, <1>2 DEF Link, Defers, MayQueue, Full
<1>13. DoubleUnlinkNeedsDrain'
      BY <1>1, <1>2 DEF Link, Defers, MayQueue, Full
<1> QED
    BY <1>2, <1>3, <1>4, <1>5, <1>6, <1>7, <1>8, <1>9, <1>10, <1>11, <1>12, <1>13

(* The worker is woken for a deferred command. *)
LEMMA WakeStep ==
  ASSUME IInv, NEW s \in Slots, Wake(s)
  PROVE  IInv'
<1> USE KindsAssumption, SlotsAssumption, QueueAssumption
    DEF IInv, TypeOK, KindInv, LiveInv, CallerInv, DeferInv, WorkerInv,
        UsbInv, UsedInv, NoAnswerToDeadStack, AwakeWhileQueued, DoubleUnlinkNeedsDrain,
        Calling, InHand, Queued, Away, Owned, Goto, WorkGoto, PCs, Flags,
        mgrVars, slotVars, workVars, usbVars, histVars
<1>1. list' = list
      BY DEF Wake
<1>2. Linked' = Linked /\ Inj'
      BY <1>1 DEF Inj, Linked
<1>3. TypeOK'
  <2>1. MgrOK'
        BY <1>1, <1>2 DEF Wake, MgrOK
  <2>2. SlotOK'
        BY <1>1, <1>2 DEF Wake, SlotOK
  <2>3. WorkOK'
        BY <1>1, <1>2 DEF Wake, WorkOK
  <2>4. UsbOK'
        BY <1>1, <1>2 DEF Wake, UsbOK
  <2>5. HistOK'
        BY <1>1, <1>2 DEF Wake, HistOK
  <2> QED
      BY <2>1, <2>2, <2>3, <2>4, <2>5, Zenon DEF MgrOK, SlotOK, WorkOK, UsbOK, HistOK
<1>4. KindInv'
      BY <1>1, <1>2 DEF Wake
<1>5. LiveInv'
      BY <1>1, <1>2 DEF Wake
<1>6. CallerInv'
      BY <1>1, <1>2 DEF Wake
<1>7. DeferInv'
      BY <1>1, <1>2 DEF Wake
<1>8. WorkerInv'
      BY <1>1, <1>2 DEF Wake
<1>9. UsbInv'
      BY <1>1, <1>2 DEF Wake
<1>10. UsedInv'
      BY <1>1, <1>2 DEF Wake
<1>11. NoAnswerToDeadStack'
      BY <1>1, <1>2 DEF Wake
<1>12. AwakeWhileQueued'
      BY <1>1, <1>2 DEF Wake
<1>13. DoubleUnlinkNeedsDrain'
      BY <1>1, <1>2 DEF Wake
<1> QED
    BY <1>2, <1>3, <1>4, <1>5, <1>6, <1>7, <1>8, <1>9, <1>10, <1>11, <1>12, <1>13

(* The caller writes the command to the device. *)
LEMMA PushStep ==
  ASSUME IInv, NEW s \in Slots, Push(s)
  PROVE  IInv'
<1> USE KindsAssumption, SlotsAssumption, QueueAssumption
    DEF IInv, TypeOK, KindInv, LiveInv, CallerInv, DeferInv, WorkerInv,
        UsbInv, UsedInv, NoAnswerToDeadStack, AwakeWhileQueued, DoubleUnlinkNeedsDrain,
        Calling, InHand, Queued, Away, Owned, Goto, WorkGoto, PCs, Flags,
        mgrVars, slotVars, workVars, usbVars, histVars
<1>1. list' = list
      BY DEF Push, AfterPush, Transmit, NoTransmit, Request
<1>2. Linked' = Linked /\ Inj'
      BY <1>1 DEF Inj, Linked
<1>3. TypeOK'
  <2>1. MgrOK'
        BY <1>1, <1>2 DEF Push, AfterPush, Transmit, NoTransmit, Request, MgrOK
  <2>2. SlotOK'
        BY <1>1, <1>2 DEF Push, AfterPush, Transmit, NoTransmit, Request, SlotOK
  <2>3. WorkOK'
        BY <1>1, <1>2 DEF Push, AfterPush, Transmit, NoTransmit, Request, WorkOK
  <2>4. UsbOK'
    <3>1. Request(s) \in Requests
          BY DEF Push, Request, Requests
    <3> QED
        BY <3>1, ZenonT(60) DEF Push, Transmit, NoTransmit, UsbOK
  <2>5. HistOK'
        BY <1>1, <1>2 DEF Push, AfterPush, Transmit, NoTransmit, Request, HistOK
  <2> QED
      BY <2>1, <2>2, <2>3, <2>4, <2>5, Zenon DEF MgrOK, SlotOK, WorkOK, UsbOK, HistOK
<1>4. KindInv'
      BY <1>1, <1>2 DEF Push, AfterPush, Transmit, NoTransmit, Request
<1>5. LiveInv'
      BY <1>1, <1>2 DEF Push, AfterPush, Transmit, NoTransmit, Request
<1>6. CallerInv'
      BY <1>1, <1>2 DEF Push, AfterPush, Transmit, NoTransmit, Request
<1>7. DeferInv'
      BY <1>1, <1>2 DEF Push, AfterPush, Transmit, NoTransmit, Request
<1>8. WorkerInv'
      BY <1>1, <1>2 DEF Push, AfterPush, Transmit, NoTransmit, Request
<1>9. UsbInv'
  <2>1. Request(s) \in Requests
        BY DEF Push, Request, Requests
  <2> QED
      BY <2>1 DEF Push, Transmit, NoTransmit
<1>10. UsedInv'
      BY <1>1, <1>2 DEF Push, AfterPush, Transmit, NoTransmit, Request
<1>11. NoAnswerToDeadStack'
  <2>1. \A t \in Slots : Calling(t) => Calling(t)'
        BY DEF Push, AfterPush
  <2>2. kind' = kind /\ flags' = flags
        BY DEF Push
  <2>3. Linked \subseteq Slots
        BY DEF Linked
  <2> QED
      BY <1>2, <2>1, <2>2, <2>3
<1>12. AwakeWhileQueued'
      BY <1>1, <1>2 DEF Push, AfterPush, Transmit, NoTransmit, Request
<1>13. DoubleUnlinkNeedsDrain'
      BY <1>1, <1>2 DEF Push, AfterPush, Transmit, NoTransmit, Request
<1> QED
    BY <1>2, <1>3, <1>4, <1>5, <1>6, <1>7, <1>8, <1>9, <1>10, <1>11, <1>12, <1>13

(* The URB is done. *)
LEMMA PushedStep ==
  ASSUME IInv, NEW s \in Slots, Pushed(s)
  PROVE  IInv'
<1> USE KindsAssumption, SlotsAssumption, QueueAssumption
    DEF IInv, TypeOK, KindInv, LiveInv, CallerInv, DeferInv, WorkerInv,
        UsbInv, UsedInv, NoAnswerToDeadStack, AwakeWhileQueued, DoubleUnlinkNeedsDrain,
        Calling, InHand, Queued, Away, Owned, Goto, WorkGoto, PCs, Flags,
        mgrVars, slotVars, workVars, usbVars, histVars
<1>1. list' = list
      BY DEF Pushed, AfterPush
<1>2. Linked' = Linked /\ Inj'
      BY <1>1 DEF Inj, Linked
<1>3. TypeOK'
  <2>1. MgrOK'
        BY <1>1, <1>2 DEF Pushed, AfterPush, MgrOK
  <2>2. SlotOK'
        BY <1>1, <1>2 DEF Pushed, AfterPush, SlotOK
  <2>3. WorkOK'
        BY <1>1, <1>2 DEF Pushed, AfterPush, WorkOK
  <2>4. UsbOK'
        BY <1>1, <1>2 DEF Pushed, AfterPush, UsbOK
  <2>5. HistOK'
        BY <1>1, <1>2 DEF Pushed, AfterPush, HistOK
  <2> QED
      BY <2>1, <2>2, <2>3, <2>4, <2>5, Zenon DEF MgrOK, SlotOK, WorkOK, UsbOK, HistOK
<1>4. KindInv'
      BY <1>1, <1>2 DEF Pushed, AfterPush
<1>5. LiveInv'
      BY <1>1, <1>2 DEF Pushed, AfterPush
<1>6. CallerInv'
      BY <1>1, <1>2 DEF Pushed, AfterPush
<1>7. DeferInv'
      BY <1>1, <1>2 DEF Pushed, AfterPush
<1>8. WorkerInv'
      BY <1>1, <1>2 DEF Pushed, AfterPush
<1>9. UsbInv'
      BY <1>1, <1>2 DEF Pushed, AfterPush
<1>10. UsedInv'
      BY <1>1, <1>2 DEF Pushed, AfterPush
<1>11. NoAnswerToDeadStack'
      BY <1>1, <1>2 DEF Pushed, AfterPush
<1>12. AwakeWhileQueued'
      BY <1>1, <1>2 DEF Pushed, AfterPush
<1>13. DoubleUnlinkNeedsDrain'
      BY <1>1, <1>2 DEF Pushed, AfterPush
<1> QED
    BY <1>2, <1>3, <1>4, <1>5, <1>6, <1>7, <1>8, <1>9, <1>10, <1>11, <1>12, <1>13

(* The push times out. *)
LEMMA PushTimeoutStep ==
  ASSUME IInv, NEW s \in Slots, PushTimeout(s)
  PROVE  IInv'
<1> USE KindsAssumption, SlotsAssumption, QueueAssumption
    DEF IInv, TypeOK, KindInv, LiveInv, CallerInv, DeferInv, WorkerInv,
        UsbInv, UsedInv, NoAnswerToDeadStack, AwakeWhileQueued, DoubleUnlinkNeedsDrain,
        Calling, InHand, Queued, Away, Owned, Goto, WorkGoto, PCs, Flags,
        mgrVars, slotVars, workVars, usbVars, histVars
<1>1. list' = list
      BY DEF PushTimeout, AfterPush, KillUrb
<1>2. Linked' = Linked /\ Inj'
      BY <1>1 DEF Inj, Linked
<1>3. TypeOK'
  <2>1. MgrOK'
        BY <1>1, <1>2 DEF PushTimeout, AfterPush, KillUrb, MgrOK
  <2>2. SlotOK'
        BY <1>1, <1>2 DEF PushTimeout, AfterPush, KillUrb, SlotOK
  <2>3. WorkOK'
        BY <1>1, <1>2 DEF PushTimeout, AfterPush, KillUrb, WorkOK
  <2>4. UsbOK'
        BY <1>1, <1>2 DEF PushTimeout, AfterPush, KillUrb, UsbOK
  <2>5. HistOK'
        BY <1>1, <1>2 DEF PushTimeout, AfterPush, KillUrb, HistOK
  <2> QED
      BY <2>1, <2>2, <2>3, <2>4, <2>5, Zenon DEF MgrOK, SlotOK, WorkOK, UsbOK, HistOK
<1>4. KindInv'
      BY <1>1, <1>2 DEF PushTimeout, AfterPush, KillUrb
<1>5. LiveInv'
      BY <1>1, <1>2 DEF PushTimeout, AfterPush, KillUrb
<1>6. CallerInv'
      BY <1>1, <1>2 DEF PushTimeout, AfterPush, KillUrb
<1>7. DeferInv'
      BY <1>1, <1>2 DEF PushTimeout, AfterPush, KillUrb
<1>8. WorkerInv'
      BY <1>1, <1>2 DEF PushTimeout, AfterPush, KillUrb
<1>9. UsbInv'
  <2>1. NoRequest \notin Requests
        BY DEF NoRequest, Requests
  <2> QED
      BY <2>1 DEF PushTimeout, KillUrb
<1>10. UsedInv'
      BY <1>1, <1>2 DEF PushTimeout, AfterPush, KillUrb
<1>11. NoAnswerToDeadStack'
      BY <1>1, <1>2 DEF PushTimeout, AfterPush, KillUrb
<1>12. AwakeWhileQueued'
      BY <1>1, <1>2 DEF PushTimeout, AfterPush, KillUrb
<1>13. DoubleUnlinkNeedsDrain'
      BY <1>1, <1>2 DEF PushTimeout, AfterPush, KillUrb
<1> QED
    BY <1>2, <1>3, <1>4, <1>5, <1>6, <1>7, <1>8, <1>9, <1>10, <1>11, <1>12, <1>13

(* A caller takes its command off the queue. *)
LEMMA FinishStep ==
  ASSUME IInv, NEW s \in Slots, Finish(s)
  PROVE  IInv'
<1> USE KindsAssumption, SlotsAssumption, QueueAssumption
    DEF IInv, TypeOK, KindInv, LiveInv, CallerInv, DeferInv, WorkerInv,
        UsbInv, UsedInv, NoAnswerToDeadStack, AwakeWhileQueued, DoubleUnlinkNeedsDrain,
        Calling, InHand, Queued, Away, Owned, Goto, WorkGoto, PCs, Flags,
        mgrVars, slotVars, workVars, usbVars, histVars
<1>1. s \in Slots /\ Queued(s)
      BY DEF Finish
<1>2. Linked' = Linked \ {s} /\ Inj' /\ list' \in Seq(Slots)
  <2>1. CASE s \in Linked
        BY <1>1, <2>1, WithoutFacts DEF Finish, Unlink
  <2>2. CASE s \notin Linked
    <3>1. list' = list
          BY <2>2 DEF Finish, Unlink
    <3> QED
        BY <2>2, <3>1 DEF Inj, Linked
  <2> QED
      BY <2>1, <2>2
<1>3. TypeOK'
  <2>1. MgrOK'
        BY <1>1, <1>2 DEF Finish, Unlink, Free, Freed, Orphan, MgrOK
  <2>2. SlotOK'
        BY <1>1, <1>2 DEF Finish, Unlink, Free, Freed, Orphan, SlotOK
  <2>3. WorkOK'
        BY <1>1, <1>2 DEF Finish, Unlink, Free, Freed, Orphan, WorkOK
  <2>4. UsbOK'
        BY <1>1, <1>2, FreeType, ZenonT(60) DEF Finish, Unlink, Free, Freed, Orphan, UsbOK
  <2>5. HistOK'
        BY <1>1, <1>2 DEF Finish, Unlink, Free, Freed, Orphan, HistOK
  <2> QED
      BY <2>1, <2>2, <2>3, <2>4, <2>5, Zenon DEF MgrOK, SlotOK, WorkOK, UsbOK, HistOK
<1>4. KindInv'
      BY <1>1, <1>2 DEF Finish, Unlink, Free, Freed, Orphan
<1>5. LiveInv'
      BY <1>1, <1>2 DEF Finish, Unlink, Free, Freed, Orphan
<1>6. CallerInv'
      BY <1>1, <1>2 DEF Finish, Unlink, Free, Freed, Orphan
<1>7. DeferInv'
      BY <1>1, <1>2 DEF Finish, Unlink, Free, Freed, Orphan
<1>8. WorkerInv'
      BY <1>1, <1>2 DEF Finish, Unlink, Free, Freed, Orphan
<1>9. UsbInv'
      BY <1>1, <1>2, FreeType DEF Finish
<1>10. UsedInv'
      BY <1>1, <1>2 DEF Finish, Unlink, Free, Freed, Orphan
<1>11. NoAnswerToDeadStack'
      BY <1>1, <1>2 DEF Finish, Unlink, Free, Freed, Orphan
<1>12. AwakeWhileQueued'
  <2>1. CASE "drain" \notin hist
    <3>1. s \in Linked
          BY <1>1, <2>1
    <3>2. Len(list') = Len(list) - 1 /\ list # <<>>
          BY <1>1, <3>1, WithoutFacts DEF Finish, Unlink, Linked
    <3>3. queueSz' = Len(list') /\ (list' # <<>> <=> queueSz' # 0)
          BY <1>2, <2>1, <3>2 DEF Finish, Unlink
    <3>4. awake' <=> list' # <<>>
      <4>1. awake
            BY <2>1, <3>2
      <4> QED
          BY <3>3, <4>1, Zenon DEF Finish, Unlink
    <3> QED
        BY <3>3, <3>4
  <2>2. CASE "drain" \in hist
        BY <2>2 DEF Finish
  <2> QED
      BY <2>1, <2>2
<1>13. DoubleUnlinkNeedsDrain'
      BY <1>1, <1>2 DEF Finish, Unlink, Free, Freed, Orphan
<1> QED
    BY <1>2, <1>3, <1>4, <1>5, <1>6, <1>7, <1>8, <1>9, <1>10, <1>11, <1>12, <1>13

(* A caller returns. *)
LEMMA LeaveStep ==
  ASSUME IInv, NEW s \in Slots, Leave(s)
  PROVE  IInv'
<1> USE KindsAssumption, SlotsAssumption, QueueAssumption
    DEF IInv, TypeOK, KindInv, LiveInv, CallerInv, DeferInv, WorkerInv,
        UsbInv, UsedInv, NoAnswerToDeadStack, AwakeWhileQueued, DoubleUnlinkNeedsDrain,
        Calling, InHand, Queued, Away, Owned, Goto, WorkGoto, PCs, Flags,
        mgrVars, slotVars, workVars, usbVars, histVars
<1>1. list' = list
      BY DEF Leave, MustWake
<1>2. Linked' = Linked /\ Inj'
      BY <1>1 DEF Inj, Linked
<1>3. TypeOK'
  <2>1. MgrOK'
        BY <1>1, <1>2 DEF Leave, MustWake, MgrOK
  <2>2. SlotOK'
        BY <1>1, <1>2 DEF Leave, MustWake, SlotOK
  <2>3. WorkOK'
        BY <1>1, <1>2 DEF Leave, MustWake, WorkOK
  <2>4. UsbOK'
        BY <1>1, <1>2 DEF Leave, MustWake, UsbOK
  <2>5. HistOK'
        BY <1>1, <1>2 DEF Leave, MustWake, HistOK
  <2> QED
      BY <2>1, <2>2, <2>3, <2>4, <2>5, Zenon DEF MgrOK, SlotOK, WorkOK, UsbOK, HistOK
<1>4. KindInv'
      BY <1>1, <1>2 DEF Leave, MustWake
<1>5. LiveInv'
      BY <1>1, <1>2 DEF Leave, MustWake
<1>6. CallerInv'
      BY <1>1, <1>2 DEF Leave, MustWake
<1>7. DeferInv'
      BY <1>1, <1>2 DEF Leave, MustWake
<1>8. WorkerInv'
      BY <1>1, <1>2 DEF Leave, MustWake
<1>9. UsbInv'
      BY <1>1, <1>2 DEF Leave, MustWake
<1>10. UsedInv'
      BY <1>1, <1>2 DEF Leave, MustWake
<1>11. NoAnswerToDeadStack'
      BY <1>1, <1>2 DEF Leave, MustWake
<1>12. AwakeWhileQueued'
      BY <1>1, <1>2 DEF Leave, MustWake
<1>13. DoubleUnlinkNeedsDrain'
      BY <1>1, <1>2 DEF Leave, MustWake
<1> QED
    BY <1>2, <1>3, <1>4, <1>5, <1>6, <1>7, <1>8, <1>9, <1>10, <1>11, <1>12, <1>13

(* The wait times out. *)
LEMMA ExpireStep ==
  ASSUME IInv, NEW s \in Slots, Expire(s)
  PROVE  IInv'
<1> USE KindsAssumption, SlotsAssumption, QueueAssumption
    DEF IInv, TypeOK, KindInv, LiveInv, CallerInv, DeferInv, WorkerInv,
        UsbInv, UsedInv, NoAnswerToDeadStack, AwakeWhileQueued, DoubleUnlinkNeedsDrain,
        Calling, InHand, Queued, Away, Owned, Goto, WorkGoto, PCs, Flags,
        mgrVars, slotVars, workVars, usbVars, histVars
<1>1. list' = list
      BY DEF Expire
<1>2. Linked' = Linked /\ Inj'
      BY <1>1 DEF Inj, Linked
<1>3. TypeOK'
  <2>1. MgrOK'
        BY <1>1, <1>2 DEF Expire, MgrOK
  <2>2. SlotOK'
        BY <1>1, <1>2 DEF Expire, SlotOK
  <2>3. WorkOK'
        BY <1>1, <1>2 DEF Expire, WorkOK
  <2>4. UsbOK'
        BY <1>1, <1>2 DEF Expire, UsbOK
  <2>5. HistOK'
        BY <1>1, <1>2 DEF Expire, HistOK
  <2> QED
      BY <2>1, <2>2, <2>3, <2>4, <2>5, Zenon DEF MgrOK, SlotOK, WorkOK, UsbOK, HistOK
<1>4. KindInv'
      BY <1>1, <1>2 DEF Expire
<1>5. LiveInv'
      BY <1>1, <1>2 DEF Expire
<1>6. CallerInv'
      BY <1>1, <1>2 DEF Expire
<1>7. DeferInv'
      BY <1>1, <1>2 DEF Expire
<1>8. WorkerInv'
      BY <1>1, <1>2 DEF Expire
<1>9. UsbInv'
      BY <1>1, <1>2 DEF Expire
<1>10. UsedInv'
      BY <1>1, <1>2 DEF Expire
<1>11. NoAnswerToDeadStack'
      BY <1>1, <1>2 DEF Expire
<1>12. AwakeWhileQueued'
      BY <1>1, <1>2 DEF Expire
<1>13. DoubleUnlinkNeedsDrain'
      BY <1>1, <1>2 DEF Expire
<1> QED
    BY <1>2, <1>3, <1>4, <1>5, <1>6, <1>7, <1>8, <1>9, <1>10, <1>11, <1>12, <1>13

(* The caller crashes the manager. *)
LEMMA GiveUpStep ==
  ASSUME IInv, NEW s \in Slots, GiveUp(s)
  PROVE  IInv'
<1> USE KindsAssumption, SlotsAssumption, QueueAssumption
    DEF IInv, TypeOK, KindInv, LiveInv, CallerInv, DeferInv, WorkerInv,
        UsbInv, UsedInv, NoAnswerToDeadStack, AwakeWhileQueued, DoubleUnlinkNeedsDrain,
        Calling, InHand, Queued, Away, Owned, Goto, WorkGoto, PCs, Flags,
        mgrVars, slotVars, workVars, usbVars, histVars
<1>1. list' = list
      BY DEF GiveUp, Crash, Sleeps
<1>2. Linked' = Linked /\ Inj'
      BY <1>1 DEF Inj, Linked
<1>3. TypeOK'
  <2>1. MgrOK'
        BY <1>1, <1>2 DEF GiveUp, Crash, Sleeps, MgrOK
  <2>2. SlotOK'
        BY <1>1, <1>2 DEF GiveUp, Crash, Sleeps, SlotOK
  <2>3. WorkOK'
        BY <1>1, <1>2 DEF GiveUp, Crash, Sleeps, WorkOK
  <2>4. UsbOK'
        BY <1>1, <1>2 DEF GiveUp, Crash, Sleeps, UsbOK
  <2>5. HistOK'
        BY <1>1, <1>2 DEF GiveUp, Crash, Sleeps, HistOK
  <2> QED
      BY <2>1, <2>2, <2>3, <2>4, <2>5, Zenon DEF MgrOK, SlotOK, WorkOK, UsbOK, HistOK
<1>4. KindInv'
      BY <1>1, <1>2 DEF GiveUp, Crash, Sleeps
<1>5. LiveInv'
      BY <1>1, <1>2 DEF GiveUp, Crash, Sleeps
<1>6. CallerInv'
      BY <1>1, <1>2 DEF GiveUp, Crash, Sleeps
<1>7. DeferInv'
      BY <1>1, <1>2 DEF GiveUp, Crash, Sleeps
<1>8. WorkerInv'
      BY <1>1, <1>2 DEF GiveUp, Crash, Sleeps
<1>9. UsbInv'
      BY <1>1, <1>2 DEF GiveUp, Crash, Sleeps
<1>10. UsedInv'
      BY <1>1, <1>2 DEF GiveUp, Crash, Sleeps
<1>11. NoAnswerToDeadStack'
      BY <1>1, <1>2 DEF GiveUp, Crash, Sleeps
<1>12. AwakeWhileQueued'
      BY <1>1, <1>2 DEF GiveUp, Crash, Sleeps
<1>13. DoubleUnlinkNeedsDrain'
      BY <1>1, <1>2 DEF GiveUp, Crash, Sleeps
<1> QED
    BY <1>2, <1>3, <1>4, <1>5, <1>6, <1>7, <1>8, <1>9, <1>10, <1>11, <1>12, <1>13

(* The caller frees what was not queued, or failed. *)
LEMMA FailedStep ==
  ASSUME IInv, NEW s \in Slots, Failed(s)
  PROVE  IInv'
<1> USE KindsAssumption, SlotsAssumption, QueueAssumption
    DEF IInv, TypeOK, KindInv, LiveInv, CallerInv, DeferInv, WorkerInv,
        UsbInv, UsedInv, NoAnswerToDeadStack, AwakeWhileQueued, DoubleUnlinkNeedsDrain,
        Calling, InHand, Queued, Away, Owned, Goto, WorkGoto, PCs, Flags,
        mgrVars, slotVars, workVars, usbVars, histVars
<1>1. list' = list
      BY DEF Failed, Free, Freed, Orphan
<1>2. Linked' = Linked /\ Inj'
      BY <1>1 DEF Inj, Linked
<1>3. TypeOK'
  <2>1. MgrOK'
        BY <1>1, <1>2 DEF Failed, Free, Freed, Orphan, MgrOK
  <2>2. SlotOK'
        BY <1>1, <1>2 DEF Failed, Free, Freed, Orphan, SlotOK
  <2>3. WorkOK'
        BY <1>1, <1>2 DEF Failed, Free, Freed, Orphan, WorkOK
  <2>4. UsbOK'
        BY <1>1, <1>2, FreeType, ZenonT(60) DEF Failed, Free, Freed, Orphan, UsbOK
  <2>5. HistOK'
        BY <1>1, <1>2 DEF Failed, Free, Freed, Orphan, HistOK
  <2> QED
      BY <2>1, <2>2, <2>3, <2>4, <2>5, Zenon DEF MgrOK, SlotOK, WorkOK, UsbOK, HistOK
<1>4. KindInv'
      BY <1>1, <1>2 DEF Failed, Free, Freed, Orphan
<1>5. LiveInv'
      BY <1>1, <1>2 DEF Failed, Free, Freed, Orphan
<1>6. CallerInv'
      BY <1>1, <1>2 DEF Failed, Free, Freed, Orphan
<1>7. DeferInv'
      BY <1>1, <1>2 DEF Failed, Free, Freed, Orphan
<1>8. WorkerInv'
      BY <1>1, <1>2 DEF Failed, Free, Freed, Orphan
<1>9. UsbInv'
      BY <1>1, <1>2, FreeType DEF Failed
<1>10. UsedInv'
      BY <1>1, <1>2 DEF Failed, Free, Freed, Orphan
<1>11. NoAnswerToDeadStack'
      BY <1>1, <1>2 DEF Failed, Free, Freed, Orphan
<1>12. AwakeWhileQueued'
      BY <1>1, <1>2 DEF Failed, Free, Freed, Orphan
<1>13. DoubleUnlinkNeedsDrain'
      BY <1>1, <1>2 DEF Failed, Free, Freed, Orphan
<1> QED
    BY <1>2, <1>3, <1>4, <1>5, <1>6, <1>7, <1>8, <1>9, <1>10, <1>11, <1>12, <1>13

(* The worker looks at the head of the queue. *)
LEMMA WorkScanStep ==
  ASSUME IInv, WorkStart \/ WorkScan
  PROVE  IInv'
<1> USE KindsAssumption, SlotsAssumption, QueueAssumption
    DEF IInv, TypeOK, KindInv, LiveInv, CallerInv, DeferInv, WorkerInv,
        UsbInv, UsedInv, NoAnswerToDeadStack, AwakeWhileQueued, DoubleUnlinkNeedsDrain,
        Calling, InHand, Queued, Away, Owned, Goto, WorkGoto, PCs, Flags,
        mgrVars, slotVars, workVars, usbVars, histVars
<1>1. list' = list
      BY DEF WorkStart, WorkScan, ToPush, Linked
<1>2. Linked' = Linked /\ Inj'
      BY <1>1 DEF Inj, Linked
<1>3. TypeOK'
  <2>1. MgrOK'
        BY <1>1, <1>2 DEF WorkStart, WorkScan, ToPush, Linked, MgrOK
  <2>2. SlotOK'
        BY <1>1, <1>2 DEF WorkStart, WorkScan, ToPush, Linked, SlotOK
  <2>3. WorkOK'
    <3>1. ToPush \subseteq DOMAIN list
          BY DEF ToPush
    <3>2. \A i \in DOMAIN list : list[i] \in Slots
          OBVIOUS
    <3>3. CASE WorkStart
          BY <3>3 DEF WorkStart, WorkOK
    <3>4. CASE WorkScan
          BY <3>1, <3>2, <3>4 DEF WorkScan, WorkOK
    <3> QED
        BY <3>3, <3>4
  <2>4. UsbOK'
        BY <1>1, <1>2 DEF WorkStart, WorkScan, ToPush, Linked, UsbOK
  <2>5. HistOK'
        BY <1>1, <1>2 DEF WorkStart, WorkScan, ToPush, Linked, HistOK
  <2> QED
      BY <2>1, <2>2, <2>3, <2>4, <2>5, Zenon DEF MgrOK, SlotOK, WorkOK, UsbOK, HistOK
<1>4. KindInv'
      BY <1>1, <1>2 DEF WorkStart, WorkScan, ToPush, Linked
<1>5. LiveInv'
      BY <1>1, <1>2 DEF WorkStart, WorkScan, ToPush, Linked
<1>6. CallerInv'
      BY <1>1, <1>2 DEF WorkStart, WorkScan, ToPush, Linked
<1>7. DeferInv'
      BY <1>1, <1>2 DEF WorkStart, WorkScan, ToPush, Linked
<1>8. WorkerInv'
      BY <1>1, <1>2 DEF WorkStart, WorkScan, ToPush, Linked
<1>9. UsbInv'
      BY <1>1, <1>2 DEF WorkStart, WorkScan, ToPush, Linked
<1>10. UsedInv'
      BY <1>1, <1>2 DEF WorkStart, WorkScan, ToPush, Linked
<1>11. NoAnswerToDeadStack'
      BY <1>1, <1>2 DEF WorkStart, WorkScan, ToPush, Linked
<1>12. AwakeWhileQueued'
      BY <1>1, <1>2 DEF WorkStart, WorkScan, ToPush, Linked
<1>13. DoubleUnlinkNeedsDrain'
      BY <1>1, <1>2 DEF WorkStart, WorkScan, ToPush, Linked
<1> QED
    BY <1>2, <1>3, <1>4, <1>5, <1>6, <1>7, <1>8, <1>9, <1>10, <1>11, <1>12, <1>13

(* The worker writes a deferred command to the device. *)
LEMMA WorkPushStep ==
  ASSUME IInv, WorkPush
  PROVE  IInv'
<1> USE KindsAssumption, SlotsAssumption, QueueAssumption
    DEF IInv, TypeOK, KindInv, LiveInv, CallerInv, DeferInv, WorkerInv,
        UsbInv, UsedInv, NoAnswerToDeadStack, AwakeWhileQueued, DoubleUnlinkNeedsDrain,
        Calling, InHand, Queued, Away, Owned, Goto, WorkGoto, PCs, Flags,
        mgrVars, slotVars, workVars, usbVars, histVars
<1>1. list' = list
      BY DEF WorkPush, Transmit, NoTransmit, Request
<1>2. Linked' = Linked /\ Inj'
      BY <1>1 DEF Inj, Linked
<1>3. TypeOK'
  <2>1. MgrOK'
        BY <1>1, <1>2 DEF WorkPush, Transmit, NoTransmit, Request, MgrOK
  <2>2. SlotOK'
        BY <1>1, <1>2 DEF WorkPush, Transmit, NoTransmit, Request, SlotOK
  <2>3. WorkOK'
        BY <1>1, <1>2 DEF WorkPush, Transmit, NoTransmit, Request, WorkOK
  <2>4. UsbOK'
    <3>1. Request(wcur) \in Requests
          BY DEF WorkPush, Request, Requests
    <3> QED
        BY <3>1, ZenonT(60) DEF WorkPush, Transmit, NoTransmit, UsbOK
  <2>5. HistOK'
        BY <1>1, <1>2 DEF WorkPush, Transmit, NoTransmit, Request, HistOK
  <2> QED
      BY <2>1, <2>2, <2>3, <2>4, <2>5, Zenon DEF MgrOK, SlotOK, WorkOK, UsbOK, HistOK
<1>4. KindInv'
      BY <1>1, <1>2 DEF WorkPush, Transmit, NoTransmit, Request
<1>5. LiveInv'
      BY <1>1, <1>2 DEF WorkPush, Transmit, NoTransmit, Request
<1>6. CallerInv'
      BY <1>1, <1>2 DEF WorkPush, Transmit, NoTransmit, Request
<1>7. DeferInv'
      BY <1>1, <1>2 DEF WorkPush, Transmit, NoTransmit, Request
<1>8. WorkerInv'
      BY <1>1, <1>2 DEF WorkPush, Transmit, NoTransmit, Request
<1>9. UsbInv'
  <2>1. Request(wcur) \in Requests
        BY DEF WorkPush, Request, Requests
  <2> QED
      BY <2>1 DEF WorkPush, Transmit, NoTransmit
<1>10. UsedInv'
      BY <1>1, <1>2 DEF WorkPush, Transmit, NoTransmit, Request
<1>11. NoAnswerToDeadStack'
      BY <1>1, <1>2 DEF WorkPush, Transmit, NoTransmit, Request
<1>12. AwakeWhileQueued'
      BY <1>1, <1>2 DEF WorkPush, Transmit, NoTransmit, Request
<1>13. DoubleUnlinkNeedsDrain'
      BY <1>1, <1>2 DEF WorkPush, Transmit, NoTransmit, Request
<1> QED
    BY <1>2, <1>3, <1>4, <1>5, <1>6, <1>7, <1>8, <1>9, <1>10, <1>11, <1>12, <1>13

(* The worker waits. *)
LEMMA WorkWaitStep ==
  ASSUME IInv, WorkPushed \/ WorkPushTimeout \/ WorkExpire
  PROVE  IInv'
<1> USE KindsAssumption, SlotsAssumption, QueueAssumption
    DEF IInv, TypeOK, KindInv, LiveInv, CallerInv, DeferInv, WorkerInv,
        UsbInv, UsedInv, NoAnswerToDeadStack, AwakeWhileQueued, DoubleUnlinkNeedsDrain,
        Calling, InHand, Queued, Away, Owned, Goto, WorkGoto, PCs, Flags,
        mgrVars, slotVars, workVars, usbVars, histVars
<1>1. list' = list
      BY DEF WorkPushed, WorkPushTimeout, WorkExpire, KillUrb
<1>2. Linked' = Linked /\ Inj'
      BY <1>1 DEF Inj, Linked
<1>3. TypeOK'
  <2>1. MgrOK'
        BY <1>1, <1>2 DEF WorkPushed, WorkPushTimeout, WorkExpire, KillUrb, MgrOK
  <2>2. SlotOK'
        BY <1>1, <1>2 DEF WorkPushed, WorkPushTimeout, WorkExpire, KillUrb, SlotOK
  <2>3. WorkOK'
        BY <1>1, <1>2 DEF WorkPushed, WorkPushTimeout, WorkExpire, KillUrb, WorkOK
  <2>4. UsbOK'
        BY <1>1, <1>2, ZenonT(60) DEF WorkPushed, WorkPushTimeout, WorkExpire, KillUrb, UsbOK
  <2>5. HistOK'
        BY <1>1, <1>2 DEF WorkPushed, WorkPushTimeout, WorkExpire, KillUrb, HistOK
  <2> QED
      BY <2>1, <2>2, <2>3, <2>4, <2>5, Zenon DEF MgrOK, SlotOK, WorkOK, UsbOK, HistOK
<1>4. KindInv'
      BY <1>1, <1>2 DEF WorkPushed, WorkPushTimeout, WorkExpire, KillUrb
<1>5. LiveInv'
      BY <1>1, <1>2 DEF WorkPushed, WorkPushTimeout, WorkExpire, KillUrb
<1>6. CallerInv'
      BY <1>1, <1>2 DEF WorkPushed, WorkPushTimeout, WorkExpire, KillUrb
<1>7. DeferInv'
      BY <1>1, <1>2 DEF WorkPushed, WorkPushTimeout, WorkExpire, KillUrb
<1>8. WorkerInv'
      BY <1>1, <1>2 DEF WorkPushed, WorkPushTimeout, WorkExpire, KillUrb
<1>9. UsbInv'
  <2>1. NoRequest \notin Requests
        BY DEF NoRequest, Requests
  <2> QED
      BY <2>1 DEF WorkPushed, WorkPushTimeout, WorkExpire, KillUrb
<1>10. UsedInv'
      BY <1>1, <1>2 DEF WorkPushed, WorkPushTimeout, WorkExpire, KillUrb
<1>11. NoAnswerToDeadStack'
      BY <1>1, <1>2 DEF WorkPushed, WorkPushTimeout, WorkExpire, KillUrb
<1>12. AwakeWhileQueued'
      BY <1>1, <1>2 DEF WorkPushed, WorkPushTimeout, WorkExpire, KillUrb
<1>13. DoubleUnlinkNeedsDrain'
      BY <1>1, <1>2 DEF WorkPushed, WorkPushTimeout, WorkExpire, KillUrb
<1> QED
    BY <1>2, <1>3, <1>4, <1>5, <1>6, <1>7, <1>8, <1>9, <1>10, <1>11, <1>12, <1>13

(* The worker takes its command off the queue. *)
LEMMA WorkFinishStep ==
  ASSUME IInv, WorkFinish
  PROVE  IInv'
<1> USE KindsAssumption, SlotsAssumption, QueueAssumption
    DEF IInv, TypeOK, KindInv, LiveInv, CallerInv, DeferInv, WorkerInv,
        UsbInv, UsedInv, NoAnswerToDeadStack, AwakeWhileQueued, DoubleUnlinkNeedsDrain,
        Calling, InHand, Queued, Away, Owned, Goto, WorkGoto, PCs, Flags,
        mgrVars, slotVars, workVars, usbVars, histVars
<1>1. wcur \in Slots /\ Queued(wcur)
      BY DEF WorkFinish
<1>2. Linked' = Linked \ {wcur} /\ Inj' /\ list' \in Seq(Slots)
  <2>1. CASE wcur \in Linked
        BY <1>1, <2>1, WithoutFacts DEF WorkFinish, Unlink
  <2>2. CASE wcur \notin Linked
    <3>1. list' = list
          BY <2>2 DEF WorkFinish, Unlink
    <3> QED
        BY <2>2, <3>1 DEF Inj, Linked
  <2> QED
      BY <2>1, <2>2
<1>3. TypeOK'
  <2>1. MgrOK'
        BY <1>1, <1>2 DEF WorkFinish, Unlink, Free, Freed, Orphan, MgrOK
  <2>2. SlotOK'
        BY <1>1, <1>2 DEF WorkFinish, Unlink, Free, Freed, Orphan, SlotOK
  <2>3. WorkOK'
        BY <1>1, <1>2 DEF WorkFinish, Unlink, Free, Freed, Orphan, WorkOK
  <2>4. UsbOK'
        BY <1>1, <1>2, FreeType, ZenonT(60) DEF WorkFinish, Unlink, Free, Freed, Orphan, UsbOK
  <2>5. HistOK'
        BY <1>1, <1>2 DEF WorkFinish, Unlink, Free, Freed, Orphan, HistOK
  <2> QED
      BY <2>1, <2>2, <2>3, <2>4, <2>5, Zenon DEF MgrOK, SlotOK, WorkOK, UsbOK, HistOK
<1>4. KindInv'
      BY <1>1, <1>2 DEF WorkFinish, Unlink, Free, Freed, Orphan
<1>5. LiveInv'
      BY <1>1, <1>2 DEF WorkFinish, Unlink, Free, Freed, Orphan
<1>6. CallerInv'
      BY <1>1, <1>2 DEF WorkFinish, Unlink, Free, Freed, Orphan
<1>7. DeferInv'
      BY <1>1, <1>2 DEF WorkFinish, Unlink, Free, Freed, Orphan
<1>8. WorkerInv'
      BY <1>1, <1>2 DEF WorkFinish, Unlink, Free, Freed, Orphan
<1>9. UsbInv'
      BY <1>1, <1>2, FreeType DEF WorkFinish
<1>10. UsedInv'
      BY <1>1, <1>2 DEF WorkFinish, Unlink, Free, Freed, Orphan
<1>11. NoAnswerToDeadStack'
      BY <1>1, <1>2 DEF WorkFinish, Unlink, Free, Freed, Orphan
<1>12. AwakeWhileQueued'
  <2>1. CASE "drain" \notin hist
    <3>1. wcur \in Linked
          BY <1>1, <2>1
    <3>2. Len(list') = Len(list) - 1 /\ list # <<>>
          BY <1>1, <3>1, WithoutFacts DEF WorkFinish, Unlink, Linked
    <3>3. queueSz' = Len(list') /\ (list' # <<>> <=> queueSz' # 0)
          BY <1>2, <2>1, <3>2 DEF WorkFinish, Unlink
    <3>4. awake' <=> list' # <<>>
      <4>1. awake
            BY <2>1, <3>2
      <4> QED
          BY <3>3, <4>1, Zenon DEF WorkFinish, Unlink
    <3> QED
        BY <3>3, <3>4
  <2>2. CASE "drain" \in hist
        BY <2>2 DEF WorkFinish
  <2> QED
      BY <2>1, <2>2
<1>13. DoubleUnlinkNeedsDrain'
      BY <1>1, <1>2 DEF WorkFinish, Unlink, Free, Freed, Orphan
<1> QED
    BY <1>2, <1>3, <1>4, <1>5, <1>6, <1>7, <1>8, <1>9, <1>10, <1>11, <1>12, <1>13

(* The worker crashes the manager. *)
LEMMA WorkGiveUpStep ==
  ASSUME IInv, WorkGiveUp
  PROVE  IInv'
<1> USE KindsAssumption, SlotsAssumption, QueueAssumption
    DEF IInv, TypeOK, KindInv, LiveInv, CallerInv, DeferInv, WorkerInv,
        UsbInv, UsedInv, NoAnswerToDeadStack, AwakeWhileQueued, DoubleUnlinkNeedsDrain,
        Calling, InHand, Queued, Away, Owned, Goto, WorkGoto, PCs, Flags,
        mgrVars, slotVars, workVars, usbVars, histVars
<1>1. list' = list
      BY DEF WorkGiveUp, Crash, Sleeps
<1>2. Linked' = Linked /\ Inj'
      BY <1>1 DEF Inj, Linked
<1>3. TypeOK'
  <2>1. MgrOK'
        BY <1>1, <1>2 DEF WorkGiveUp, Crash, Sleeps, MgrOK
  <2>2. SlotOK'
        BY <1>1, <1>2 DEF WorkGiveUp, Crash, Sleeps, SlotOK
  <2>3. WorkOK'
        BY <1>1, <1>2 DEF WorkGiveUp, Crash, Sleeps, WorkOK
  <2>4. UsbOK'
        BY <1>1, <1>2 DEF WorkGiveUp, Crash, Sleeps, UsbOK
  <2>5. HistOK'
        BY <1>1, <1>2 DEF WorkGiveUp, Crash, Sleeps, HistOK
  <2> QED
      BY <2>1, <2>2, <2>3, <2>4, <2>5, Zenon DEF MgrOK, SlotOK, WorkOK, UsbOK, HistOK
<1>4. KindInv'
      BY <1>1, <1>2 DEF WorkGiveUp, Crash, Sleeps
<1>5. LiveInv'
      BY <1>1, <1>2 DEF WorkGiveUp, Crash, Sleeps
<1>6. CallerInv'
      BY <1>1, <1>2 DEF WorkGiveUp, Crash, Sleeps
<1>7. DeferInv'
      BY <1>1, <1>2 DEF WorkGiveUp, Crash, Sleeps
<1>8. WorkerInv'
      BY <1>1, <1>2 DEF WorkGiveUp, Crash, Sleeps
<1>9. UsbInv'
      BY <1>1, <1>2 DEF WorkGiveUp, Crash, Sleeps
<1>10. UsedInv'
      BY <1>1, <1>2 DEF WorkGiveUp, Crash, Sleeps
<1>11. NoAnswerToDeadStack'
      BY <1>1, <1>2 DEF WorkGiveUp, Crash, Sleeps
<1>12. AwakeWhileQueued'
      BY <1>1, <1>2 DEF WorkGiveUp, Crash, Sleeps
<1>13. DoubleUnlinkNeedsDrain'
      BY <1>1, <1>2 DEF WorkGiveUp, Crash, Sleeps
<1> QED
    BY <1>2, <1>3, <1>4, <1>5, <1>6, <1>7, <1>8, <1>9, <1>10, <1>11, <1>12, <1>13

(* The URB is done or cancelled, the manager is cleared. *)
LEMMA UrbDoneStep ==
  ASSUME IInv, UrbDone \/ Unplug \/ Deinit
  PROVE  IInv'
<1> USE KindsAssumption, SlotsAssumption, QueueAssumption
    DEF IInv, TypeOK, KindInv, LiveInv, CallerInv, DeferInv, WorkerInv,
        UsbInv, UsedInv, NoAnswerToDeadStack, AwakeWhileQueued, DoubleUnlinkNeedsDrain,
        Calling, InHand, Queued, Away, Owned, Goto, WorkGoto, PCs, Flags,
        mgrVars, slotVars, workVars, usbVars, histVars
<1>1. list' = list
      BY DEF UrbDone, Unplug, Deinit, KillUrb
<1>2. Linked' = Linked /\ Inj'
      BY <1>1 DEF Inj, Linked
<1>3. TypeOK'
  <2>1. MgrOK'
        BY <1>1, <1>2 DEF UrbDone, Unplug, Deinit, KillUrb, MgrOK
  <2>2. SlotOK'
        BY <1>1, <1>2 DEF UrbDone, Unplug, Deinit, KillUrb, SlotOK
  <2>3. WorkOK'
        BY <1>1, <1>2 DEF UrbDone, Unplug, Deinit, KillUrb, WorkOK
  <2>4. UsbOK'
    <3>1. CASE UrbDone
      <4>1. urb \in Requests /\ buf \in Requests
            BY <3>1 DEF UrbDone
      <4>2. \A r \in Requests : Append(device, r) \in Seq(Requests)
            OBVIOUS
      <4> QED
          BY <3>1, <4>1, <4>2 DEF UrbDone, UsbOK
    <3>2. CASE Unplug \/ Deinit
          BY <3>2, ZenonT(60) DEF Unplug, Deinit, KillUrb, UsbOK
    <3> QED
        BY <3>1, <3>2
  <2>5. HistOK'
        BY <1>1, <1>2 DEF UrbDone, Unplug, Deinit, KillUrb, HistOK
  <2> QED
      BY <2>1, <2>2, <2>3, <2>4, <2>5, Zenon DEF MgrOK, SlotOK, WorkOK, UsbOK, HistOK
<1>4. KindInv'
      BY <1>1, <1>2 DEF UrbDone, Unplug, Deinit, KillUrb
<1>5. LiveInv'
      BY <1>1, <1>2 DEF UrbDone, Unplug, Deinit, KillUrb
<1>6. CallerInv'
      BY <1>1, <1>2 DEF UrbDone, Unplug, Deinit, KillUrb
<1>7. DeferInv'
      BY <1>1, <1>2 DEF UrbDone, Unplug, Deinit, KillUrb
<1>8. WorkerInv'
      BY <1>1, <1>2 DEF UrbDone, Unplug, Deinit, KillUrb
<1>9. UsbInv'
  <2>1. NoRequest \notin Requests
        BY DEF NoRequest, Requests
  <2> QED
      BY <2>1 DEF UrbDone, Unplug, Deinit, KillUrb
<1>10. UsedInv'
      BY <1>1, <1>2 DEF UrbDone, Unplug, Deinit, KillUrb
<1>11. NoAnswerToDeadStack'
      BY <1>1, <1>2 DEF UrbDone, Unplug, Deinit, KillUrb
<1>12. AwakeWhileQueued'
      BY <1>1, <1>2 DEF UrbDone, Unplug, Deinit, KillUrb
<1>13. DoubleUnlinkNeedsDrain'
      BY <1>1, <1>2 DEF UrbDone, Unplug, Deinit, KillUrb
<1> QED
    BY <1>2, <1>3, <1>4, <1>5, <1>6, <1>7, <1>8, <1>9, <1>10, <1>11, <1>12, <1>13

(* An answer comes. *)
LEMMA AnswerStep ==
  ASSUME IInv, Answer
  PROVE  IInv'
<1> USE KindsAssumption, SlotsAssumption, QueueAssumption
    DEF IInv, TypeOK, KindInv, LiveInv, CallerInv, DeferInv, WorkerInv,
        UsbInv, UsedInv, NoAnswerToDeadStack, AwakeWhileQueued, DoubleUnlinkNeedsDrain,
        Calling, InHand, Queued, Away, Owned, Goto, WorkGoto, PCs, Flags,
        mgrVars, slotVars, workVars, usbVars, histVars
<1>1. list' = list
      BY DEF Answer
<1>2. Linked' = Linked /\ Inj'
      BY <1>1 DEF Inj, Linked
<1>a. /\ flags' \in [Slots -> SUBSET Flags] /\ done' \in [Slots -> BOOLEAN]
      /\ \A t \in Slots : flags'[t] \subseteq flags[t] \cup {"DONE"}
  <2>1. CASE UNCHANGED <<flags, done>>
        BY <2>1
  <2>2. CASE \E i \in DOMAIN list : Confirm(Head(device), i)
    <3>1. PICK i \in DOMAIN list : Confirm(Head(device), i)
          BY <2>2
    <3> DEFINE c == list[i]
    <3>2. c \in Slots
          OBVIOUS
    <3>3. /\ flags' = [flags EXCEPT ![c] = (flags[c] \ {"WAIT_CFM"}) \cup {"DONE"}]
          /\ done' = [done EXCEPT ![c] = TRUE]
          BY <3>1, Zenon DEF Confirm
    <3>4. flags \in [Slots -> SUBSET Flags] /\ done \in [Slots -> BOOLEAN] /\ "DONE" \in Flags
          OBVIOUS
    <3> HIDE DEF c
    <3> QED
        BY ONLY <3>2, <3>3, <3>4
  <2> QED
      BY <2>1, <2>2 DEF Answer
<1>b. UNCHANGED <<used, kind, pc, wpc, wcur, hist>>
      BY DEF Answer
<1>3. TypeOK'
  <2>1. MgrOK'
        BY <1>1, <1>2 DEF Answer, Sleeps, MgrOK
  <2>2. SlotOK'
        BY <1>a, <1>b DEF SlotOK
  <2>3. WorkOK'
        BY <1>1, <1>2 DEF Answer, Sleeps, WorkOK
  <2>4. UsbOK'
        BY <1>1, <1>2 DEF Answer, Sleeps, UsbOK
  <2>5. HistOK'
        BY DEF Answer, Confirm, HistOK
  <2> QED
      BY <2>1, <2>2, <2>3, <2>4, <2>5, Zenon DEF MgrOK, SlotOK, WorkOK, UsbOK, HistOK
<1>4. KindInv'
      BY <1>1, <1>2 DEF Answer, Sleeps
<1>5. LiveInv'
      BY <1>1, <1>2 DEF Answer, Sleeps
<1>6. CallerInv'
      BY <1>1, <1>2 DEF Answer, Sleeps
<1>7. DeferInv'
      BY ONLY IInv, <1>a, <1>b, <1>2 DEF IInv, DeferInv, Queued
<1>8. WorkerInv'
      BY <1>1, <1>2 DEF Answer, Sleeps
<1>9. UsbInv'
      BY <1>1, <1>2 DEF Answer, Sleeps
<1>10. UsedInv'
      BY <1>1, <1>2 DEF Answer, Sleeps
<1>11. NoAnswerToDeadStack'
  <2>1. Linked \subseteq Slots
        BY DEF Linked
  <2> QED
      BY ONLY IInv, <1>a, <1>b, <1>2, <2>1 DEF IInv, NoAnswerToDeadStack, Calling, InHand
<1>12. AwakeWhileQueued'
      BY <1>1, <1>2 DEF Answer, Sleeps
<1>13. DoubleUnlinkNeedsDrain'
      BY DEF Answer, Confirm
<1> QED
    BY <1>2, <1>3, <1>4, <1>5, <1>6, <1>7, <1>8, <1>9, <1>10, <1>11, <1>12, <1>13

(* The queue is drained. *)
LEMMA DrainStep ==
  ASSUME IInv, Drain
  PROVE  IInv'
<1> USE KindsAssumption, SlotsAssumption, QueueAssumption
    DEF IInv, TypeOK, KindInv, LiveInv, CallerInv, DeferInv, WorkerInv,
        UsbInv, UsedInv, NoAnswerToDeadStack, AwakeWhileQueued, DoubleUnlinkNeedsDrain,
        Calling, InHand, Queued, Away, Owned, Goto, WorkGoto, PCs, Flags,
        mgrVars, slotVars, workVars, usbVars, histVars
<1>1. list' = <<>>
      BY DEF Drain
<1>2. Linked' = {} /\ Inj'
      BY <1>1 DEF Inj, Linked
<1>3. TypeOK'
  <2>1. MgrOK'
        BY <1>1, <1>2 DEF Drain, MgrOK
  <2>2. SlotOK'
        BY <1>1, <1>2 DEF Drain, SlotOK
  <2>3. WorkOK'
        BY <1>1, <1>2 DEF Drain, WorkOK
  <2>4. UsbOK'
        BY <1>1, <1>2 DEF Drain, UsbOK
  <2>5. HistOK'
        BY <1>1, <1>2 DEF Drain, HistOK
  <2> QED
      BY <2>1, <2>2, <2>3, <2>4, <2>5, Zenon DEF MgrOK, SlotOK, WorkOK, UsbOK, HistOK
<1>4. KindInv'
      BY <1>1, <1>2 DEF Drain
<1>5. LiveInv'
      BY <1>1, <1>2 DEF Drain
<1>6. CallerInv'
      BY <1>1, <1>2 DEF Drain
<1>7. DeferInv'
      BY <1>1, <1>2 DEF Drain
<1>8. WorkerInv'
      BY <1>1, <1>2 DEF Drain
<1>9. UsbInv'
      BY <1>1, <1>2 DEF Drain
<1>10. UsedInv'
      BY <1>1, <1>2 DEF Drain
<1>11. NoAnswerToDeadStack'
      BY <1>1, <1>2 DEF Drain
<1>12. AwakeWhileQueued'
      BY <1>1, <1>2 DEF Drain
<1>13. DoubleUnlinkNeedsDrain'
      BY <1>1, <1>2 DEF Drain
<1> QED
    BY <1>2, <1>3, <1>4, <1>5, <1>6, <1>7, <1>8, <1>9, <1>10, <1>11, <1>12, <1>13

(* A step that changes nothing. *)
LEMMA StutterStep ==
  ASSUME IInv, UNCHANGED vars
  PROVE  IInv'
<1> USE KindsAssumption, SlotsAssumption, QueueAssumption
    DEF IInv, TypeOK, KindInv, LiveInv, CallerInv, DeferInv, WorkerInv,
        UsbInv, UsedInv, NoAnswerToDeadStack, AwakeWhileQueued, DoubleUnlinkNeedsDrain,
        Calling, InHand, Queued, Away, Owned, Goto, WorkGoto, PCs, Flags,
        mgrVars, slotVars, workVars, usbVars, histVars
<1>1. list' = list
      BY DEF vars
<1>2. Linked' = Linked /\ Inj'
      BY <1>1 DEF Inj, Linked
<1>3. TypeOK'
  <2>1. MgrOK'
        BY <1>1, <1>2 DEF vars, MgrOK
  <2>2. SlotOK'
        BY <1>1, <1>2 DEF vars, SlotOK
  <2>3. WorkOK'
        BY <1>1, <1>2 DEF vars, WorkOK
  <2>4. UsbOK'
        BY <1>1, <1>2 DEF vars, UsbOK
  <2>5. HistOK'
        BY <1>1, <1>2 DEF vars, HistOK
  <2> QED
      BY <2>1, <2>2, <2>3, <2>4, <2>5, Zenon DEF MgrOK, SlotOK, WorkOK, UsbOK, HistOK
<1>4. KindInv'
      BY <1>1, <1>2 DEF vars
<1>5. LiveInv'
      BY <1>1, <1>2 DEF vars
<1>6. CallerInv'
      BY <1>1, <1>2 DEF vars
<1>7. DeferInv'
      BY <1>1, <1>2 DEF vars
<1>8. WorkerInv'
      BY <1>1, <1>2 DEF vars
<1>9. UsbInv'
      BY <1>1, <1>2 DEF vars
<1>10. UsedInv'
      BY <1>1, <1>2 DEF vars
<1>11. NoAnswerToDeadStack'
      BY <1>1, <1>2 DEF vars
<1>12. AwakeWhileQueued'
      BY <1>1, <1>2 DEF vars
<1>13. DoubleUnlinkNeedsDrain'
      BY <1>1, <1>2 DEF vars
<1> QED
    BY <1>2, <1>3, <1>4, <1>5, <1>6, <1>7, <1>8, <1>9, <1>10, <1>11, <1>12, <1>13

-----------------------------------------------------------------------------
(* The theorems *)

(* The strengthened invariant holds at first. *)
LEMMA InitInv == Init => IInv
<1> SUFFICES ASSUME Init PROVE IInv
    OBVIOUS
<1>1. Linked = {} /\ Inj
      BY DEF Init, Linked, Inj
<1>2. TypeOK
  <2>a. <<>> \in Seq(Slots) /\ <<>> \in Seq(Requests)
        OBVIOUS
  <2>1. MgrOK
    <3>1. list = <<>> /\ awake = FALSE /\ queueSz = 0 /\ state = "inited"
          BY DEF Init
    <3>2. list \in Seq(Slots)
          BY ONLY <2>a, <3>1, Zenon
    <3>3. queueSz \in Int
          BY <3>1
    <3> QED
        BY ONLY <3>1, <3>2, <3>3, Zenon DEF MgrOK
  <2>2. SlotOK
        BY DEF Init, SlotOK, PCs, Flags
  <2>3. WorkOK
        BY DEF Init, WorkOK
  <2>4. UsbOK
        BY <2>a DEF Init, UsbOK
  <2>5. HistOK
        BY DEF Init, HistOK
  <2> QED
      BY <2>1, <2>2, <2>3, <2>4, <2>5, TypeParts
<1>3. UsbInv
      BY DEF Init, UsbInv
<1>4. AwakeWhileQueued
      BY DEF Init, AwakeWhileQueued
<1> QED
    BY <1>1, <1>2, <1>3, <1>4
    DEF Init, IInv, KindInv, LiveInv, CallerInv, DeferInv, WorkerInv, UsedInv,
        NoAnswerToDeadStack, DoubleUnlinkNeedsDrain, Away, Owned

(* Every step keeps it. *)
LEMMA NextInv == IInv /\ [Next]_vars => IInv'
<1> SUFFICES ASSUME IInv, [Next]_vars PROVE IInv'
    OBVIOUS
<1>1. ASSUME NEW s \in Slots, Caller(s) PROVE IInv'
      BY <1>1, RejectStep, LinkStep, WakeStep, PushStep, PushedStep, PushTimeoutStep,
         FinishStep, LeaveStep, ExpireStep, GiveUpStep, FailedStep DEF Caller
<1>2. CASE Worker
      BY <1>2, WorkScanStep, WorkPushStep, WorkWaitStep, WorkFinishStep, WorkGiveUpStep
      DEF Worker
<1> QED
    BY <1>1, <1>2, SendStep, UrbDoneStep, AnswerStep, DrainStep, StutterStep DEF Next

(* It is an invariant. *)
THEOREM Invariance == Spec => []IInv
<1> QED
    BY InitInv, NextInv, PTL DEF Spec

(* Every variable of the command manager keeps its type. *)
THEOREM TypeCorrect == Spec => []TypeOK
<1>1. IInv => TypeOK
      BY DEF IInv
<1> QED
    BY <1>1, Invariance, PTL

(* No answer is copied to the stack of a caller that has returned, in      *)
(* spite of time-outs, kills and a disconnect.                             *)
THEOREM StacksAreSafe == Spec => []NoAnswerToDeadStack
<1>1. IInv => NoAnswerToDeadStack
      BY DEF IInv
<1> QED
    BY <1>1, Invariance, PTL

(* Until a drain queue_sz is the length of the list, and the device is     *)
(* awake exactly while it is not empty.                                    *)
THEOREM AwakeExactly == Spec => []AwakeWhileQueued
<1>1. IInv => AwakeWhileQueued
      BY DEF IInv
<1> QED
    BY <1>1, Invariance, PTL

(* Until a drain no entry is taken off the list twice. *)
THEOREM UnlinkedOnce == Spec => []DoubleUnlinkNeedsDrain
<1>1. IInv => DoubleUnlinkNeedsDrain
      BY DEF IInv
<1> QED
    BY <1>1, Invariance, PTL

(* Until a drain a slot in use is queued or held by a caller, and until a  *)
(* time-out no freed slot is queued.                                       *)
THEOREM SlotsAccounted == Spec => []SlotsAccountedFor
<1>1. IInv => SlotsAccountedFor
  <2>1. Linked \subseteq Slots \/ ~TypeOK
        BY DEF Linked, TypeOK
  <2> QED
      BY <2>1 DEF IInv, UsedInv, LiveInv, SlotsAccountedFor
<1> QED
    BY <1>1, Invariance, PTL
=============================================================================
