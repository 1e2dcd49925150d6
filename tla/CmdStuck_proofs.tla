--------------------------- MODULE CmdStuck_proofs ---------------------------
(***************************************************************************)
(* What the order of the queue does to commands that were deferred, and to *)
(* the one buffer and the one URB, for every set of slots and every mix of *)
(* commands.                                                               *)
(*                                                                         *)
(* The mark WAIT_PUSH is set when a command is linked and removed only by  *)
(* the worker, at the head of the queue.  Behind a deferred command        *)
(* everything is deferred; a command that timed out therefore is in front  *)
(* of all the deferred ones, and nobody takes it away.                     *)
(***************************************************************************)
EXTENDS CmdOrder_proofs

NoDrain == "drain" \notin hist
Deferred(s) == "WAIT_PUSH" \in flags[s]

(* What the worker has pushed is no longer deferred. *)
PushedInv == wpc \in {"pushing", "wait", "late"} => ~Deferred(wcur)

(* Behind a deferred command everything is deferred. *)
BehindInv ==
  NoDrain => \A i, j \in DOMAIN list : i < j /\ Deferred(list[i]) => Deferred(list[j])

(* A command that was pushed and that neither caller nor worker will       *)
(* unlink: its slot may have been freed, and serves plain messages only.   *)
Pinned(x) ==
  /\ x \in Linked /\ ~Deferred(x)
  /\ \/ pc[x] \in {"idle", "wake", "queue", "fail"}
     \/ pc[x] \in {"push", "pushing"} /\ kind[x] = "plain"
  /\ wpc \in Owned => wcur # x

(* A crash leaves such a command in the queue. *)
StuckInv == state = "crashed" /\ NoDrain => \E x \in Slots : Pinned(x)

(* The drain comes after the bus has gone down. *)
BusInv == ~NoDrain => usb = "down"

(* Only a plain message makes plain requests. *)
PlainInv == "plain" \notin hist => urb.kind # "plain"

SInv ==
  /\ PushedInv /\ BehindInv /\ StuckInv
  /\ BusInv /\ PlainInv /\ OverwriteNeedsPlain
-----------------------------------------------------------------------------
(* The mark of a deferred command *)

(* It is set by the step that links the command. *)
LEMMA MarkSet ==
  ASSUME OInv, [Next]_vars, NEW s \in Slots, ~Deferred(s), Deferred(s)'
  PROVE  Link(s)
<1> USE DEF Deferred
<1>1. flags \in [Slots -> SUBSET Flags]
  BY DEF OInv, IInv, TypeOK
<1>2. ASSUME NEW t \in Slots, (\E k \in Kinds : Send(t, k)) \/ Caller(t) PROVE Link(s)
  <2>1. CASE \E k \in Kinds : Send(t, k)
    BY <1>1, <2>1 DEF Send
  <2>2. CASE Link(t)
    BY <1>1, <2>2 DEF Link
  <2>3. CASE Reject(t) \/ Finish(t) \/ Failed(t)
    BY <1>1, <2>3 DEF Reject, Finish, Failed, Free, Freed
  <2>4. CASE GiveUp(t)
    BY <1>1, <2>4 DEF GiveUp, Crash
  <2>5. CASE Wake(t) \/ Push(t) \/ Pushed(t) \/ PushTimeout(t) \/ Leave(t) \/ Expire(t)
    BY <2>5 DEF Wake, Push, Pushed, PushTimeout, Leave, Expire
  <2> QED BY <1>2, <2>1, <2>2, <2>3, <2>4, <2>5 DEF Caller
<1>3. ASSUME Worker PROVE Link(s)
  <2>1. CASE WorkPush
    BY <1>1, <2>1 DEF WorkPush
  <2>2. CASE WorkFinish
    BY <1>1, <2>2 DEF WorkFinish, Free, Freed
  <2>3. CASE WorkGiveUp
    BY <1>1, <2>3 DEF WorkGiveUp, Crash
  <2>4. CASE WorkStart \/ WorkScan \/ WorkPushed \/ WorkPushTimeout \/ WorkExpire
    BY <2>4 DEF WorkStart, WorkScan, WorkPushed, WorkPushTimeout, WorkExpire, slotVars
  <2> QED BY <1>3, <2>1, <2>2, <2>3, <2>4 DEF Worker
<1>4. ASSUME UrbDone \/ Unplug \/ Drain \/ Deinit \/ UNCHANGED vars PROVE Link(s)
  BY <1>4 DEF UrbDone, Unplug, Drain, Deinit, slotVars, vars
<1>5. ASSUME Answer PROVE Link(s)
  BY <1>1, <1>5 DEF Answer, Confirm
<1> QED BY <1>2, <1>3, <1>4, <1>5 DEF Next

(* It is removed by the push of the worker: the owner of a slot that gives *)
(* it back was not deferred.                                               *)
LEMMA MarkKept ==
  ASSUME OInv, PushedInv, [Next]_vars, NEW s \in Slots, Deferred(s), ~Deferred(s)'
  PROVE  WorkPush /\ wcur = s
<1> USE DEF Deferred
<1>1. flags \in [Slots -> SUBSET Flags] /\ pc[s] \in Away
  BY DEF OInv, IInv, TypeOK, DeferInv
<1>2. ASSUME NEW t \in Slots, (\E k \in Kinds : Send(t, k)) \/ Caller(t)
      PROVE  WorkPush /\ wcur = s
  <2>1. CASE \E k \in Kinds : Send(t, k)
    BY <1>1, <2>1 DEF Send
  <2>2. CASE Link(t)
    BY <1>1, <2>2 DEF Link
  <2>3. CASE Reject(t) \/ Finish(t) \/ Failed(t)
    BY <1>1, <2>3 DEF Reject, Finish, Failed, Free, Freed, Away
  <2>4. CASE GiveUp(t)
    BY <1>1, <2>4 DEF GiveUp, Crash
  <2>5. CASE Wake(t) \/ Push(t) \/ Pushed(t) \/ PushTimeout(t) \/ Leave(t) \/ Expire(t)
    BY <2>5 DEF Wake, Push, Pushed, PushTimeout, Leave, Expire
  <2> QED BY <1>2, <2>1, <2>2, <2>3, <2>4, <2>5 DEF Caller
<1>3. ASSUME Worker PROVE WorkPush /\ wcur = s
  <2>1. CASE WorkPush
    BY <1>1, <2>1 DEF WorkPush
  <2>2. CASE WorkFinish
    BY <1>1, <2>2 DEF WorkFinish, Free, Freed, PushedInv
  <2>3. CASE WorkGiveUp
    BY <1>1, <2>3 DEF WorkGiveUp, Crash
  <2>4. CASE WorkStart \/ WorkScan \/ WorkPushed \/ WorkPushTimeout \/ WorkExpire
    BY <2>4 DEF WorkStart, WorkScan, WorkPushed, WorkPushTimeout, WorkExpire, slotVars
  <2> QED BY <1>3, <2>1, <2>2, <2>3, <2>4 DEF Worker
<1>4. ASSUME UrbDone \/ Unplug \/ Drain \/ Deinit \/ UNCHANGED vars
      PROVE  WorkPush /\ wcur = s
  BY <1>4 DEF UrbDone, Unplug, Drain, Deinit, slotVars, vars
<1>5. ASSUME Answer PROVE WorkPush /\ wcur = s
  BY <1>1, <1>5 DEF Answer, Confirm
<1> QED BY <1>2, <1>3, <1>4, <1>5 DEF Next

(* The worker removes the mark of what it pushes, and keeps it removed. *)
LEMMA MarkGone ==
  ASSUME OInv, PushedInv, [Next]_vars
  PROVE  PushedInv'
<1> SUFFICES ASSUME wpc' \in {"pushing", "wait", "late"} PROVE ~Deferred(wcur)'
  BY DEF PushedInv
<1>1. flags \in [Slots -> SUBSET Flags]
  BY DEF OInv, IInv, TypeOK
<1>2. CASE WorkPush
  <2>1. wcur' = wcur /\ wcur \in Slots
    BY <1>2 DEF WorkPush, OInv, IInv, WorkerInv, Owned
  <2> QED BY <1>1, <1>2, <2>1 DEF WorkPush, Deferred
<1>3. CASE ~WorkPush
  <2>1. wpc \in {"pushing", "wait", "late"} /\ wcur' = wcur
    <3>1. CASE UNCHANGED <<wpc, wcur>>
      BY <3>1
    <3>2. CASE Worker
      BY <1>3, <3>2 DEF Worker, WorkStart, WorkScan, WorkPushed, WorkPushTimeout, WorkFinish,
             WorkExpire, WorkGiveUp, WorkGoto
    <3>3. UNCHANGED <<wpc, wcur>> \/ Worker
      BY DEF Next, Caller, Send, Reject, Link, Wake, Push, Pushed, PushTimeout, Finish, Leave,
             Expire, GiveUp, Failed, UrbDone, Answer, Unplug, Drain, Deinit, workVars, vars
    <3> QED BY <3>1, <3>2, <3>3
  <2>2. wcur \in Slots /\ pc[wcur] \in Away /\ ~Deferred(wcur)
    BY <2>1 DEF PushedInv, OInv, IInv, WorkerInv, Owned
  <2>3. ~Link(wcur)
    BY <2>2 DEF Link, Away
  <2> QED BY <2>1, <2>2, <2>3, MarkSet DEF Deferred
<1> QED BY <1>2, <1>3

-----------------------------------------------------------------------------
(* The queue *)

(* What can become of the queue: it grows at its end, or a command goes    *)
(* that was not deferred.                                                  *)
LEMMA QueueSteps ==
  ASSUME OInv, PushedInv, [Next]_vars, NoDrain'
  PROVE  /\ NoDrain
         /\ \/ list' = list
            \/ \E s \in Slots : Link(s)
            \/ \E s \in Linked : /\ list' = Without(s) /\ flags' = [flags EXCEPT ![s] = {}]
                                 /\ Finish(s) \/ (WorkFinish /\ s = wcur)
<1> USE DEF NoDrain
<1>1. /\ hist \subseteq {"kill", "drain", "plain"} /\ Linked \subseteq Slots
      /\ \A s \in Slots : pc[s] = "wait" /\ NoDrain => s \in Linked
      /\ wpc = "wait" /\ NoDrain => wcur \in Linked
  BY DEF OInv, IInv, TypeOK, CallerInv, WorkerInv, Owned, Queued, Linked
<1>2. ASSUME NEW t \in Slots, Finish(t)
      PROVE  /\ NoDrain /\ t \in Linked /\ list' = Without(t)
             /\ flags' = [flags EXCEPT ![t] = {}]
  BY <1>1, <1>2 DEF Finish, Unlink, Free, Freed
<1>3. ASSUME WorkFinish
      PROVE  /\ NoDrain /\ wcur \in Linked /\ list' = Without(wcur)
             /\ flags' = [flags EXCEPT ![wcur] = {}]
  BY <1>1, <1>3 DEF WorkFinish, Unlink, Free, Freed
<1>4. ASSUME NEW t \in Slots, Push(t) PROVE NoDrain /\ list' = list
  BY <1>4 DEF Push, Transmit, NoTransmit, mgrVars, histVars
<1>5. ASSUME WorkPush PROVE NoDrain /\ list' = list
  BY <1>5 DEF WorkPush, Transmit, NoTransmit, mgrVars, histVars
<1>6. ASSUME NEW t \in Slots, Link(t) PROVE NoDrain
  BY <1>6 DEF Link, histVars
<1>7. ASSUME NEW t \in Slots,
             \/ \E k \in Kinds : Send(t, k)
             \/ Reject(t) \/ Wake(t) \/ Pushed(t) \/ PushTimeout(t) \/ Leave(t)
             \/ Expire(t) \/ GiveUp(t) \/ Failed(t)
      PROVE  NoDrain /\ list' = list
  BY <1>7 DEF Send, Reject, Wake, Pushed, PushTimeout, Leave, Expire, GiveUp, Crash, Failed,
         mgrVars, histVars
<1>8. ASSUME \/ WorkStart \/ WorkScan \/ WorkPushed \/ WorkPushTimeout \/ WorkExpire
             \/ WorkGiveUp \/ UrbDone \/ Answer \/ Unplug \/ Deinit \/ UNCHANGED vars
      PROVE  NoDrain /\ list' = list
  BY <1>8 DEF WorkStart, WorkScan, WorkPushed, WorkPushTimeout, WorkExpire, WorkGiveUp, Crash,
         UrbDone, Answer, Unplug, Deinit, mgrVars, histVars, vars
<1>9. ~Drain
  BY <1>1 DEF Drain
<1> QED BY <1>1, <1>2, <1>3, <1>4, <1>5, <1>6, <1>7, <1>8, <1>9 DEF Next, Caller, Worker

(* Behind a deferred command everything stays deferred. *)
LEMMA BehindStep ==
  ASSUME OInv, PushedInv, BehindInv, [Next]_vars
  PROVE  BehindInv'
<1> SUFFICES ASSUME NoDrain', NEW i \in DOMAIN list', NEW j \in DOMAIN list', i < j,
                    NEW a, NEW b, a = list'[i], b = list'[j], Deferred(a)'
             PROVE  Deferred(b)'
  BY DEF BehindInv, Deferred
<1>1. /\ list \in Seq(Slots) /\ flags \in [Slots -> SUBSET Flags] /\ Inj /\ NoDrain
      /\ \A k \in DOMAIN list : list[k] \in Slots
  BY QueueSteps DEF OInv, IInv, TypeOK
<1>2. \A k, l \in DOMAIN list : k < l /\ Deferred(list[k]) => Deferred(list[l])
  BY <1>1 DEF BehindInv
<1>3. ASSUME NEW s \in Slots, Link(s) PROVE Deferred(b)'
  <2>1. list' = Append(list, s) /\ pc[s] = "queue"
    BY <1>3 DEF Link
  <2>2. i \in DOMAIN list /\ a = list[i] /\ j \in 1..Len(list) + 1
    BY <1>1, <2>1
  <2>3. ASSUME NEW t \in Slots, t # s PROVE Deferred(t)' <=> Deferred(t)
    BY <1>1, <1>3, <2>3 DEF Link, Deferred
  <2>4. ~Deferred(s)
    BY <2>1 DEF OInv, IInv, DeferInv, Deferred, Away
  <2>5. CASE a # s
    <3>1. Deferred(a)
      BY <1>1, <2>2, <2>3, <2>5
    <3>2. CASE j \in DOMAIN list
      <4>1. Deferred(b) /\ b \in Slots
        BY <1>1, <1>2, <2>1, <3>1, <3>2, <2>2
      <4> QED BY <2>3, <2>4, <4>1
    <3>3. CASE j = Len(list) + 1
      <4>1. i = Len(list) \/ i < Len(list)
        BY <1>1, <2>2
      <4>2. list # <<>> /\ Len(list) \in DOMAIN list /\ Deferred(list[Len(list)])
        BY <1>1, <1>2, <2>2, <3>1, <4>1
      <4>3. Defers(s)
        BY <4>2 DEF Defers, Deferred
      <4>4. b = s /\ "WAIT_PUSH" \in flags'[s]
        BY <1>1, <1>3, <2>1, <3>3, <4>3 DEF Link
      <4> QED BY <4>4 DEF Deferred
    <3> QED BY <1>1, <2>2, <3>2, <3>3
  <2>6. CASE a = s
    <3>1. s \in Linked
      BY <2>2, <2>6 DEF Linked
    <3> QED BY <1>3, <2>1, <3>1 DEF OInv, IInv, LiveInv, Link, Away, Owned
  <2> QED BY <2>5, <2>6
<1>4. ASSUME NEW s \in Linked, list' = Without(s), flags' = [flags EXCEPT ![s] = {}]
      PROVE  Deferred(b)'
  <2>1. PICK k \in DOMAIN list, l \in DOMAIN list :
           k < l /\ a = list[k] /\ b = list[l] /\ a # s /\ b # s
    <3>1. s \in Slots
      BY <1>1 DEF Linked
    <3> QED BY <1>1, <1>4, <3>1, WithoutOrder
  <2>2. flags'[a] = flags[a] /\ flags'[b] = flags[b]
    BY <1>1, <1>4, <2>1
  <2> QED BY <1>2, <2>1, <2>2 DEF Deferred
<1>5. ASSUME list' = list, \A s \in Slots : ~Link(s) PROVE Deferred(b)'
  <2>1. Deferred(a) /\ a \in Slots /\ b \in Slots
    BY <1>1, <1>5, MarkSet
  <2>2. Deferred(b)
    BY <1>2, <1>5, <2>1
  <2>3. CASE ~Deferred(b)'
    <3>1. WorkPush /\ wcur = b
      BY <2>1, <2>2, <2>3, MarkKept
    <3>2. list[1] = b
      BY <1>5, <3>1 DEF WorkPush, OInv, Ordered, HeadInv, Linked
    <3>3. 1 \in DOMAIN list /\ j \in DOMAIN list /\ i \in DOMAIN list
      BY <1>1, <1>5
    <3>4. j = 1
      BY <1>1, <1>5, <3>2, <3>3 DEF Inj
    <3> QED BY <1>1, <3>3, <3>4
  <2> QED BY <2>3
<1> QED BY <1>3, <1>4, <1>5, QueueSteps

-----------------------------------------------------------------------------
(* The crash *)

(* A pinned command stays pinned. *)
LEMMA PinnedStep ==
  ASSUME OInv, PushedInv, [Next]_vars, state = "crashed", NoDrain',
         NEW x \in Slots, Pinned(x)
  PROVE  Pinned(x)'
<1>1. /\ list \in Seq(Slots) /\ Inj /\ pc \in [Slots -> PCs]
      /\ kind \in [Slots -> Kinds \cup {"none"}]
      /\ x \in Linked /\ Linked \subseteq Slots
  BY DEF OInv, IInv, TypeOK, Linked, Pinned
<1>2. \A s \in Slots : ~Link(s)
  BY DEF Link
<1>3. ~Deferred(x)'
  BY <1>2, MarkSet DEF Pinned
<1>4. (x \in Linked)'
  <2>1. CASE list' = list
    BY <1>1, <2>1 DEF Linked
  <2>2. ASSUME NEW s \in Linked, list' = Without(s), Finish(s) \/ (WorkFinish /\ s = wcur)
        PROVE  (x \in Linked)'
    <3>1. s # x
      BY <2>2 DEF Finish, WorkFinish, Pinned, Owned
    <3>2. Linked' = Linked \ {s}
      BY <1>1, <2>2, WithoutFacts
    <3> QED BY <1>1, <3>1, <3>2
  <2> QED BY <1>2, <2>1, <2>2, QueueSteps
<1>5. (wpc \in Owned => wcur # x)'
  <2>1. CASE WorkScan
    BY <2>1 DEF WorkScan, ToPush, WorkGoto, Pinned, Deferred, Owned
  <2>2. CASE ~WorkScan
    <3>1. wpc' \in Owned => wpc \in Owned /\ wcur' = wcur
      <4>1. CASE Worker
        BY <2>2, <4>1 DEF Worker, WorkStart, WorkPush, WorkPushed, WorkPushTimeout, WorkFinish,
               WorkExpire, WorkGiveUp, WorkGoto, Owned
      <4>2. UNCHANGED <<wpc, wcur>> \/ Worker
        BY DEF Next, Caller, Send, Reject, Link, Wake, Push, Pushed, PushTimeout, Finish, Leave,
               Expire, GiveUp, Failed, UrbDone, Answer, Unplug, Drain, Deinit, workVars, vars
      <4> QED BY <4>1, <4>2
    <3> QED BY <3>1 DEF Pinned
  <2> QED BY <2>1, <2>2
<1>6. (\/ pc[x] \in {"idle", "wake", "queue", "fail"}
       \/ pc[x] \in {"push", "pushing"} /\ kind[x] = "plain")'
  <2> USE DEF Pinned, Goto
  <2>1. ASSUME NEW t \in Slots, \E k \in Kinds : Send(t, k)
        PROVE  \/ pc'[x] \in {"idle", "wake", "queue", "fail"}
               \/ pc'[x] \in {"push", "pushing"} /\ kind'[x] = "plain"
    BY <1>1, <2>1 DEF Send
  <2>2. ASSUME NEW t \in Slots, Reject(t) \/ Failed(t)
        PROVE  \/ pc'[x] \in {"idle", "wake", "queue", "fail"}
               \/ pc'[x] \in {"push", "pushing"} /\ kind'[x] = "plain"
    BY <1>1, <2>2 DEF Reject, Failed, Free
  <2>3. ASSUME NEW t \in Slots, Finish(t) \/ WorkFinish
        PROVE  \/ pc'[x] \in {"idle", "wake", "queue", "fail"}
               \/ pc'[x] \in {"push", "pushing"} /\ kind'[x] = "plain"
    BY <1>1, <2>3 DEF Finish, WorkFinish, Free, Owned
  <2>4. ASSUME NEW t \in Slots,
               \/ Wake(t) \/ Push(t) \/ Pushed(t) \/ PushTimeout(t)
               \/ Leave(t) \/ Expire(t) \/ GiveUp(t)
        PROVE  \/ pc'[x] \in {"idle", "wake", "queue", "fail"}
               \/ pc'[x] \in {"push", "pushing"} /\ kind'[x] = "plain"
    BY <1>1, <2>4 DEF Wake, Push, Pushed, PushTimeout, Leave, Expire, GiveUp, AfterPush
  <2>5. CASE UNCHANGED <<pc, kind>>
    BY <2>5
  <2>6. \/ UNCHANGED <<pc, kind>> \/ WorkFinish
        \/ \E t \in Slots : (\E k \in Kinds : Send(t, k)) \/ Caller(t)
    BY DEF Next, Worker, WorkStart, WorkScan, WorkPush, WorkPushed, WorkPushTimeout, WorkExpire,
           WorkGiveUp, UrbDone, Answer, Unplug, Drain, Deinit, slotVars, vars
  <2> QED BY <1>2, <2>1, <2>2, <2>3, <2>4, <2>5, <2>6 DEF Caller
<1> QED BY <1>3, <1>4, <1>5, <1>6 DEF Pinned

(* The command that times out is pinned from then on. *)
LEMMA StuckStep ==
  ASSUME OInv, PushedInv, StuckInv, [Next]_vars
  PROVE  StuckInv'
<1> SUFFICES ASSUME state' = "crashed", NoDrain' PROVE (\E x \in Slots : Pinned(x))'
  BY DEF StuckInv
<1>1. /\ NoDrain /\ flags \in [Slots -> SUBSET Flags] /\ pc \in [Slots -> PCs]
  BY QueueSteps DEF OInv, IInv, TypeOK
<1>2. CASE state = "crashed"
  BY <1>1, <1>2, PinnedStep DEF StuckInv
<1>3. ASSUME NEW s \in Slots, GiveUp(s) PROVE Pinned(s)'
  <2>1. s \in Linked /\ ~Deferred(s) /\ (wpc \in Owned => wcur # s)
    BY <1>1, <1>3 DEF GiveUp, OInv, IInv, CallerInv, DeferInv, WorkerInv, Queued, NoDrain,
           Deferred, Away
  <2> QED BY <1>1, <1>3, <2>1 DEF GiveUp, Crash, Goto, Pinned, Linked, Deferred, workVars
<1>4. ASSUME NEW s \in Slots, s = wcur, WorkGiveUp PROVE Pinned(s)'
  <2>1. s \in Linked /\ ~Deferred(s) /\ pc[s] \in Away
    BY <1>1, <1>4 DEF WorkGiveUp, OInv, IInv, WorkerInv, Queued, NoDrain, PushedInv, Owned
  <2> QED BY <1>1, <1>4, <2>1
          DEF WorkGiveUp, WorkGoto, Crash, Pinned, Linked, Deferred, Away, Owned
<1>5. CASE state # "crashed"
  <2>1. WorkGiveUp \/ \E s \in Slots : GiveUp(s)
    BY <1>5 DEF Next, Caller, Send, Reject, Link, Wake, Push, Pushed, PushTimeout, Finish, Leave,
           Expire, Failed, Worker, WorkStart, WorkScan, WorkPush, WorkPushed, WorkPushTimeout,
           WorkFinish, WorkExpire, UrbDone, Answer, Unplug, Drain, Deinit, mgrVars, vars
  <2>2. CASE WorkGiveUp
    <3>1. PICK s \in Slots : s = wcur
      BY <2>2 DEF WorkGiveUp, OInv, IInv, WorkerInv, Owned
    <3>2. Pinned(s)'
      BY <1>4, <2>2, <3>1
    <3> QED BY <3>2
  <2>3. ASSUME NEW s \in Slots, GiveUp(s) PROVE (\E x \in Slots : Pinned(x))'
    <3>1. Pinned(s)'
      BY <1>3, <2>3
    <3> QED BY <3>1
  <2> QED BY <2>1, <2>2, <2>3
<1> QED BY <1>2, <1>5

-----------------------------------------------------------------------------
(* The buffer and the URB *)

(* The bus is down for good when the queue is drained. *)
LEMMA BusStep ==
  ASSUME OInv, BusInv, [Next]_vars
  PROVE  BusInv'
<1> USE DEF BusInv, NoDrain
<1>1. CASE Unplug
  BY <1>1 DEF Unplug
<1>2. CASE Drain
  BY <1>2 DEF Drain
<1>3. ASSUME usb' = usb, "drain" \in hist' => "drain" \in hist PROVE BusInv'
  BY <1>3
<1>4. ASSUME NEW s \in Slots, (\E k \in Kinds : Send(s, k)) \/ Caller(s)
      PROVE  usb' = usb /\ ("drain" \in hist' => "drain" \in hist)
  BY <1>4 DEF Caller, Send, Reject, Link, Wake, Push, Transmit, NoTransmit, Pushed, PushTimeout,
         Finish, Leave, Expire, GiveUp, Failed, histVars
<1>5. ASSUME Worker \/ UrbDone \/ Answer \/ Deinit \/ UNCHANGED vars
      PROVE  usb' = usb /\ ("drain" \in hist' => "drain" \in hist)
  BY <1>5 DEF Worker, WorkStart, WorkScan, WorkPush, Transmit, NoTransmit, WorkPushed,
         WorkPushTimeout, WorkFinish, WorkExpire, WorkGiveUp, UrbDone, Answer, Deinit,
         histVars, vars
<1> QED BY <1>1, <1>2, <1>3, <1>4, <1>5 DEF Next

(* A request keeps its kind when its slot is freed. *)
LEMMA OrphanKind ==
  ASSUME NEW r \in Requests \cup {NoRequest}, NEW s \in Slots
  PROVE  Orphan(r, s).kind = r.kind
  BY DEF Orphan, Requests, NoRequest

(* Plain requests come from plain messages. *)
LEMMA PlainStep ==
  ASSUME OInv, PlainInv, [Next]_vars
  PROVE  PlainInv'
<1> SUFFICES ASSUME "plain" \notin hist' PROVE urb'.kind # "plain"
  BY DEF PlainInv
<1>1. urb \in Requests \cup {NoRequest} /\ NoRequest.kind # "plain"
  BY DEF OInv, IInv, TypeOK, NoRequest
<1>2. ASSUME NEW s \in Slots, Transmit(s) PROVE urb'.kind # "plain"
  BY <1>2 DEF Transmit, Request, PlainInv
<1>3. ASSUME NEW s \in Slots, Free(s, TRUE) \/ Free(s, FALSE) \/ Free(s, s \in Linked),
             "plain" \notin hist
      PROVE  urb'.kind # "plain"
  BY <1>1, <1>3, OrphanKind DEF Free, PlainInv
<1>4. ASSUME urb' \in {urb, NoRequest}, "plain" \notin hist PROVE urb'.kind # "plain"
  BY <1>1, <1>4 DEF PlainInv
<1>5. ASSUME NEW s \in Slots, (\E k \in Kinds : Send(s, k)) \/ Caller(s)
      PROVE  urb'.kind # "plain"
  <2>1. CASE Push(s)
    BY <1>2, <1>4, <2>1 DEF Push, NoTransmit, usbVars, histVars
  <2>2. CASE Reject(s) \/ Finish(s) \/ Failed(s)
    BY <1>3, <2>2 DEF Reject, Finish, Failed, histVars
  <2>3. CASE \/ \E k \in Kinds : Send(s, k)
             \/ Link(s) \/ Wake(s) \/ Pushed(s) \/ PushTimeout(s)
             \/ Leave(s) \/ Expire(s) \/ GiveUp(s)
    BY <1>4, <2>3 DEF Send, Link, Wake, Pushed, PushTimeout, KillUrb, Leave, Expire, GiveUp,
           usbVars, histVars
  <2> QED BY <1>5, <2>1, <2>2, <2>3 DEF Caller
<1>6. ASSUME Worker PROVE urb'.kind # "plain"
  <2>1. wpc \in Owned => wcur \in Slots
    BY DEF OInv, IInv, WorkerInv
  <2>2. CASE WorkPush
    BY <1>2, <1>4, <2>1, <2>2 DEF WorkPush, NoTransmit, usbVars, histVars, Owned
  <2>3. CASE WorkFinish
    BY <1>3, <2>1, <2>3 DEF WorkFinish, Owned
  <2>4. CASE WorkStart \/ WorkScan \/ WorkPushed \/ WorkPushTimeout \/ WorkExpire \/ WorkGiveUp
    BY <1>4, <2>4 DEF WorkStart, WorkScan, WorkPushed, WorkPushTimeout, KillUrb, WorkExpire,
           WorkGiveUp, usbVars, histVars
  <2> QED BY <1>6, <2>2, <2>3, <2>4 DEF Worker
<1>7. ASSUME UrbDone \/ Answer \/ Unplug \/ Drain \/ Deinit \/ UNCHANGED vars
      PROVE  urb'.kind # "plain"
  BY <1>4, <1>7 DEF UrbDone, Answer, Unplug, KillUrb, Drain, Deinit, usbVars, histVars, vars
<1> QED BY <1>5, <1>6, <1>7 DEF Next

(* A command that is pushed while nothing has gone wrong finds the URB     *)
(* free: the request in it would be one to be answered, and there is none. *)
LEMMA OverwriteStep ==
  ASSUME OInv, BusInv, PlainInv, OverwriteNeedsPlain, [Next]_vars
  PROVE  OverwriteNeedsPlain'
<1> SUFFICES ASSUME "overwritten" \in harm', hist' \cap {"plain", "kill"} = {},
                    state' = "inited"
             PROVE  FALSE
  BY DEF OverwriteNeedsPlain
<1>1. /\ urb \in Requests \cup {NoRequest} /\ Linked \subseteq Slots
      /\ hist \subseteq {"kill", "drain", "plain"} /\ IInv
      /\ wpc \in Owned => wcur \in Slots
  BY DEF OInv, IInv, TypeOK, Linked, WorkerInv
<1>2. ASSUME NEW s \in Slots, Transmit(s), state' = state,
             pc[s] = "push" \/ (Deferred(s) /\ WorkPush /\ s = wcur)
      PROVE  FALSE
  <2>1. hist \cap {"plain", "kill"} = {} /\ kind[s] # "plain" /\ usb = "up"
    BY <1>2 DEF Transmit
  <2>2. Good /\ "overwritten" \notin harm
    BY <1>1, <1>2, <2>1 DEF BusInv, NoDrain, Good, OverwriteNeedsPlain
  <2>3. urb \in Requests /\ Out(urb)
    BY <1>1, <1>2, <2>1, <2>2 DEF Transmit, PlainInv, Out
  <2>4. s \in Linked
    BY <1>1, <1>2, <2>1, <2>2 DEF IInv, CallerInv, DeferInv, Queued, Good, Deferred
  <2>5. "WAIT_CFM" \in flags[s] /\ (Deferred(s) => s = list[1])
    <3>1. CASE pc[s] = "push"
      BY <2>1, <2>2, <3>1, <1>1 DEF OInv, Ordered, PushInv, IInv, DeferInv, Deferred, Away
    <3>2. CASE WorkPush /\ s = wcur
      BY <2>2, <2>4, <3>2 DEF WorkPush, OInv, Ordered, WorkPushInv, HeadInv
    <3> QED BY <1>2, <3>1, <3>2
  <2> QED BY <1>2, <2>2, <2>3, <2>4, <2>5, PushAlone DEF Deferred
<1>3. ASSUME "overwritten" \in harm, hist \subseteq hist', state = "inited" PROVE FALSE
  BY <1>3 DEF OverwriteNeedsPlain
<1>4. ASSUME NEW s \in Slots, (\E k \in Kinds : Send(s, k)) \/ Caller(s) PROVE FALSE
  <2>1. CASE Push(s)
    BY <1>2, <1>3, <2>1 DEF Push, NoTransmit, mgrVars, histVars
  <2>2. CASE Finish(s)
    BY <1>3, <2>2 DEF Finish, Unlink
  <2>3. CASE \/ \E k \in Kinds : Send(s, k)
             \/ Reject(s) \/ Link(s) \/ Wake(s) \/ Pushed(s) \/ PushTimeout(s)
             \/ Leave(s) \/ Expire(s) \/ GiveUp(s) \/ Failed(s)
    BY <1>3, <2>3 DEF Send, Reject, Link, Wake, Pushed, PushTimeout, Leave, Expire, GiveUp, Crash,
           Failed, mgrVars, histVars
  <2> QED BY <1>4, <2>1, <2>2, <2>3 DEF Caller
<1>5. ASSUME Worker PROVE FALSE
  <2>1. CASE WorkPush
    <3>1. CASE NoTransmit
      BY <1>3, <2>1, <3>1 DEF WorkPush, NoTransmit, mgrVars, histVars
    <3>2. CASE Transmit(wcur)
      <4>1. /\ wcur \in Slots /\ state' = state
        BY <1>1, <2>1 DEF WorkPush, Owned, mgrVars
      <4>2. hist \cap {"plain", "kill"} = {} /\ usb = "up"
        BY <3>2 DEF Transmit
      <4>3. Good
        BY <1>1, <4>1, <4>2 DEF BusInv, NoDrain, Good
      <4>4. Deferred(wcur)
        BY <2>1, <4>3 DEF WorkPush, OInv, Ordered, WorkPushInv, Deferred
      <4> QED BY <1>2, <2>1, <3>2, <4>1, <4>4
    <3> QED BY <2>1, <3>1, <3>2 DEF WorkPush
  <2>2. CASE WorkFinish
    BY <1>3, <2>2 DEF WorkFinish, Unlink
  <2>3. CASE WorkStart \/ WorkScan \/ WorkPushed \/ WorkPushTimeout \/ WorkExpire \/ WorkGiveUp
    BY <1>3, <2>3 DEF WorkStart, WorkScan, WorkPushed, WorkPushTimeout, WorkExpire, WorkGiveUp,
           Crash, mgrVars, histVars
  <2> QED BY <1>5, <2>1, <2>2, <2>3 DEF Worker
<1>6. ASSUME UrbDone \/ Answer \/ Unplug \/ Drain \/ Deinit \/ UNCHANGED vars PROVE FALSE
  BY <1>3, <1>6 DEF UrbDone, Answer, Confirm, Unplug, Drain, Deinit, mgrVars, histVars, vars
<1> QED BY <1>4, <1>5, <1>6 DEF Next

-----------------------------------------------------------------------------
(* The invariant *)

(* It holds at the start. *)
LEMMA InitStuck == Init => SInv
  BY DEF Init, SInv, PushedInv, BehindInv, StuckInv, BusInv, PlainInv, OverwriteNeedsPlain,
         NoDrain, NoRequest

(* Every step keeps it. *)
LEMMA NextStuck == OInv /\ SInv /\ [Next]_vars => SInv'
  BY MarkGone, BehindStep, StuckStep, BusStep, PlainStep, OverwriteStep DEF SInv

(* The marks, the command left by a crash, and the URB, in every state. *)
THEOREM StuckInvariance == Spec => []SInv
  BY InitStuck, NextStuck, OrderInvariance, PTL DEF Spec

(* A confirmed command finds the one URB in use only after a plain         *)
(* message, a kill, or a time-out that has crashed the manager.            *)
THEOREM OverwritesNeedPlain == Spec => []OverwriteNeedsPlain
<1>1. SInv => OverwriteNeedsPlain
  BY DEF SInv
<1> QED BY <1>1, StuckInvariance, PTL

(* What was deferred when a time-out crashed the manager stays deferred.   *)
THEOREM StrandsDeferred == Spec => DeferredIsStranded
<1>1. ASSUME OInv, SInv, [Next]_vars, NEW s \in Linked, state = "crashed",
             "WAIT_PUSH" \in flags[s], "drain" \notin hist', "WAIT_PUSH" \notin flags'[s]
      PROVE  FALSE
  <2>1. s \in Slots /\ list \in Seq(Slots)
    BY <1>1 DEF OInv, IInv, TypeOK, Linked
  <2>2. WorkPush /\ wcur = s
    BY <1>1, <2>1, MarkKept DEF SInv, Deferred
  <2>3. list[1] = s /\ NoDrain
    BY <1>1, <2>2, QueueSteps DEF WorkPush, OInv, Ordered, HeadInv, SInv, NoDrain
  <2>4. PICK x \in Slots : Pinned(x)
    BY <1>1, <2>3 DEF SInv, StuckInv
  <2>5. PICK j \in DOMAIN list : list[j] = x
    BY <2>4 DEF Pinned, Linked
  <2>6. j # 1 /\ 1 \in DOMAIN list /\ 1 < j
    BY <1>1, <2>1, <2>3, <2>4, <2>5 DEF Pinned, Deferred
  <2>7. Deferred(list[j])
    BY <1>1, <2>3, <2>6, <2>5 DEF SInv, BehindInv, Deferred
  <2> QED BY <2>4, <2>5, <2>7 DEF Pinned
<1>2. OInv /\ SInv /\ [Next]_vars =>
        [\A s \in Linked : state = "crashed" /\ "WAIT_PUSH" \in flags[s] =>
            "drain" \in hist' \/ "WAIT_PUSH" \in flags'[s]]_vars
  BY <1>1
<1> QED BY <1>2, OrderInvariance, StuckInvariance, PTL DEF Spec, DeferredIsStranded
=============================================================================
