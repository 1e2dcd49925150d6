------------------------------- MODULE CmdMgr -------------------------------
(***************************************************************************)
(* The command manager of the aic8800 USB driver (rwnx_cmds.c) with the    *)
(* slots its callers take their commands from (rwnx_msg_tx.c) and the one  *)
(* URB that carries a command to the device (aicwf_usb.c).                 *)
(*                                                                         *)
(* A slot stands for the command in it and for the task that sent it.  The *)
(* actions are the sections between two points where another task can come *)
(* in: a lock is released, a wait begins, a call to the USB core returns.  *)
(*                                                                         *)
(* Kinds of commands: a "query" has a buffer on its caller's stack for the *)
(* answer; "set" and "traffic" have none, and "traffic" is always left to  *)
(* the worker; "remove" comes through cmd_mgr_queue_force_defer; a "plain" *)
(* message needs no confirmation and bypasses the queue.                   *)
(***************************************************************************)
EXTENDS Integers, Sequences, FiniteSets

CONSTANTS Slots,      \* cmd_array
          Kinds,      \* the kinds of commands that are sent
          MaxQueued,  \* RWNX_CMD_MAX_QUEUED
          MayKill,    \* a waiting caller may receive a fatal signal
          MayUnplug   \* the device may be disconnected

ASSUME SlotsAssumption == IsFiniteSet(Slots) /\ "none" \notin Slots
ASSUME KindsAssumption ==
  Kinds \subseteq {"query", "set", "traffic", "remove", "plain"}
ASSUME QueueAssumption == MaxQueued \in Nat \ {0}
ASSUME FaultAssumption == MayKill \in BOOLEAN /\ MayUnplug \in BOOLEAN

VARIABLES
  \* the manager
  state,     \* cmd_mgr->state
  list,      \* cmd_mgr->cmds
  queueSz,   \* cmd_mgr->queue_sz
  awake,     \* the wakeup source ws_tx is held
  \* the slots
  used,      \* cmd->used
  kind,      \* what the command is, in place of its ids and e2a_msg
  flags,     \* cmd->flags
  done,      \* cmd->complete
  pc,        \* where the task that sent the command is
  \* the worker
  wpc, wcur, \* where cmd_mgr_task_process is, and its command
  work,      \* cmdWork is queued
  \* the way to the device and back
  usb,       \* usb_dev->state
  urb,       \* the request msg_out_urb was submitted with
  buf,       \* the request in cmd_buf
  finished,  \* msg_finished
  device,    \* requests the device has and has not answered
  \* history
  hist,      \* what has happened: a kill, a drain, a plain message
  harm       \* what has gone wrong

mgrVars  == <<state, list, queueSz, awake>>
slotVars == <<used, kind, flags, done, pc>>
workVars == <<wpc, wcur, work>>
usbVars  == <<urb, buf, finished, device>>
histVars == <<hist, harm>>
vars == <<mgrVars, slotVars, workVars, usb, usbVars, histVars>>

Flags == {"REQ_CFM", "WAIT_PUSH", "WAIT_CFM", "DONE"}
PCs == {"idle", "queue", "push", "pushing", "wait", "late", "fail", "wake", "leave"}
NoRequest == [slot |-> "none", kind |-> "none", own |-> FALSE]
(* "own" holds as long as the slot still holds the command of the request. *)
Requests == [slot : Slots, kind : Kinds, own : BOOLEAN]

Linked == {list[i] : i \in DOMAIN list}

TypeOK ==
  /\ state \in {"inited", "crashed", "deinit"}
  /\ list \in Seq(Slots) /\ queueSz \in Int /\ awake \in BOOLEAN
  /\ used \in [Slots -> BOOLEAN] /\ kind \in [Slots -> Kinds \cup {"none"}]
  /\ flags \in [Slots -> SUBSET Flags] /\ done \in [Slots -> BOOLEAN]
  /\ pc \in [Slots -> PCs]
  /\ wpc \in {"idle", "scan", "push", "pushing", "wait", "late"}
  /\ wcur \in Slots \cup {"none"} /\ work \in BOOLEAN
  /\ usb \in {"up", "down"}
  /\ urb \in Requests \cup {NoRequest} /\ buf \in Requests \cup {NoRequest}
  /\ finished \in BOOLEAN /\ device \in Seq(Requests)
  /\ hist \subseteq {"kill", "drain", "plain"}
  /\ harm \subseteq {"wrongAnswer", "doubleUnlink", "overwritten"}

Init ==
  /\ state = "inited" /\ list = <<>> /\ queueSz = 0 /\ awake = FALSE
  /\ used = [s \in Slots |-> FALSE] /\ kind = [s \in Slots |-> "none"]
  /\ flags = [s \in Slots |-> {}] /\ done = [s \in Slots |-> FALSE]
  /\ pc = [s \in Slots |-> "idle"]
  /\ wpc = "idle" /\ wcur = "none" /\ work = FALSE
  /\ usb = "up" /\ urb = NoRequest /\ buf = NoRequest
  /\ finished = FALSE /\ device = <<>>
  /\ hist = {} /\ harm = {}

Goto(s, l) == pc' = [pc EXCEPT ![s] = l]

-----------------------------------------------------------------------------
(* Slots *)

(* The request no longer belongs to the command in slot s. *)
Orphan(r, s) == IF r.slot = s THEN [r EXCEPT !.own = FALSE] ELSE r

(* Mutant: the flags survive the slot. *)
MutFreed(s) == flags

(* The flags after rwnx_cmd_free. *)
Freed(s) == [flags EXCEPT ![s] = {}]

(* rwnx_cmd_free: the slot can be taken again, also while it is linked.    *)
(* (What nobody reads before the next owner has written it is cleared.)    *)
Free(s, linked) ==
  /\ used' = [used EXCEPT ![s] = FALSE]
  /\ flags' = Freed(s)
  /\ kind' = [kind EXCEPT ![s] = IF linked THEN @ ELSE "none"]
  /\ done' = [done EXCEPT ![s] = FALSE]
  /\ urb' = Orphan(urb, s) /\ buf' = Orphan(buf, s)
  /\ device' = [i \in DOMAIN device |-> Orphan(device[i], s)]

(* rwnx_send_msg and rwnx_send_msg1 up to the queue: rwnx_cmd_malloc and   *)
(* the fields of the command.  With the bus down they return 0 at once.    *)
Send(s, k) ==
  /\ pc[s] = "idle" /\ ~used[s] /\ usb = "up"
  /\ used' = [used EXCEPT ![s] = TRUE]
  /\ kind' = [kind EXCEPT ![s] = k]
  /\ flags' = [flags EXCEPT ![s] = IF k = "plain" THEN @ ELSE @ \cup {"REQ_CFM"}]
  /\ Goto(s, IF k = "plain" THEN "push" ELSE "queue")
  /\ UNCHANGED <<mgrVars, done, workVars, usb, usbVars, histVars>>

-----------------------------------------------------------------------------
(* cmd_mgr_queue and cmd_mgr_queue_force_defer *)

Full == list # <<>> /\ queueSz = MaxQueued

(* The loop before the queue: a query polls until the list is empty. *)
MayQueue(s) == kind[s] = "query" => list = <<>>

(* Mutant: the caller keeps the slot. *)
MutReject(s) ==
  /\ pc[s] = "queue" /\ used[s]
  /\ state # "inited" \/ (MayQueue(s) /\ Full)
  /\ Goto(s, "idle")
  /\ UNCHANGED <<mgrVars, used, kind, flags, done, workVars, usb, usbVars, histVars>>

(* Returns -EPIPE or -ENOMEM; the caller frees the slot. *)
Reject(s) ==
  /\ pc[s] = "queue" /\ used[s]
  /\ state # "inited" \/ (MayQueue(s) /\ Full)
  /\ Free(s, s \in Linked) /\ Goto(s, "idle")
  /\ UNCHANGED <<mgrVars, workVars, usb, finished, histVars>>

(* Mutant: only a command that was not pushed yet makes the next one wait. *)
MutDefers(s) ==
  \/ kind[s] \in {"traffic", "remove"}
  \/ list # <<>> /\ "WAIT_PUSH" \in flags[list[Len(list)]]

(* The command is left to the worker. *)
Defers(s) ==
  \/ kind[s] \in {"traffic", "remove"}
  \/ list # <<>> /\ flags[list[Len(list)]] \cap {"WAIT_PUSH", "WAIT_CFM"} # {}

(* Accepted, under one hold of the lock. *)
Link(s) ==
  /\ pc[s] = "queue" /\ used[s] /\ state = "inited"
  /\ MayQueue(s) /\ ~Full
  /\ list' = Append(list, s) /\ queueSz' = queueSz + 1
  /\ awake' = (awake \/ queueSz = 0)
  /\ done' = [done EXCEPT ![s] = FALSE]
  /\ flags' = [flags EXCEPT ![s] =
                 @ \cup {"WAIT_CFM"} \cup IF Defers(s) THEN {"WAIT_PUSH"} ELSE {}]
  /\ Goto(s, IF ~Defers(s) THEN "push"
             ELSE IF kind[s] = "remove" \/ queueSz = 0 THEN "wake" ELSE "idle")
  /\ UNCHANGED <<state, used, kind, workVars, usb, usbVars, histVars>>

(* WAKE_CMD_WORK for a command that was deferred; the caller returns. *)
Wake(s) ==
  /\ pc[s] = "wake"
  /\ work' = TRUE /\ Goto(s, "idle")
  /\ UNCHANGED <<mgrVars, used, kind, flags, done, wpc, wcur, usb, usbVars, histVars>>

-----------------------------------------------------------------------------
(* aicwf_set_cmd_tx and aicwf_usb_bus_txmsg: one buffer and one URB *)

Request(s) == [slot |-> s, kind |-> kind[s], own |-> TRUE]

(* Written into cmd_buf whether or not the URB is free; submitting an URB  *)
(* that is in flight fails.  next is where the sender goes when it waits   *)
(* for the URB, past when it does not.                                     *)
Transmit(s) ==
  /\ usb = "up"
  /\ buf' = Request(s) /\ finished' = FALSE
  /\ urb' = IF urb = NoRequest THEN Request(s) ELSE urb
  /\ harm' = IF urb = NoRequest THEN harm ELSE harm \cup {"overwritten"}
  /\ hist' = IF kind[s] = "plain" THEN hist \cup {"plain"} ELSE hist
  /\ UNCHANGED device

NoTransmit == usb = "down" /\ UNCHANGED <<usbVars, histVars>>

(* Where a task goes after its push: only a plain message is over then. *)
AfterPush(s) == IF kind[s] = "plain" THEN "fail" ELSE "wait"

Push(s) ==
  /\ pc[s] = "push"
  /\ \/ Transmit(s) /\ Goto(s, IF urb = NoRequest THEN "pushing" ELSE AfterPush(s))
     \/ NoTransmit /\ Goto(s, AfterPush(s))
  /\ UNCHANGED <<mgrVars, used, kind, flags, done, workVars, usb>>

Pushed(s) ==
  /\ pc[s] = "pushing" /\ finished
  /\ Goto(s, AfterPush(s))
  /\ UNCHANGED <<mgrVars, used, kind, flags, done, workVars, usb, usbVars, histVars>>

(* The push times out: usb_kill_urb, whose completion sets msg_finished. *)
KillUrb ==
  urb' = NoRequest /\ buf' = NoRequest /\ finished' = TRUE /\ UNCHANGED device

PushTimeout(s) ==
  /\ pc[s] = "pushing" /\ ~finished
  /\ KillUrb /\ Goto(s, AfterPush(s))
  /\ UNCHANGED <<mgrVars, used, kind, flags, done, workVars, usb, histVars>>

(* aicwf_usb_send_msg_complete: the device has what the buffer held when   *)
(* the transfer was made.                                                  *)
UrbDone ==
  /\ urb # NoRequest /\ usb = "up"
  /\ \E r \in {urb, buf} :
        device' = IF r.kind = "plain" THEN device ELSE Append(device, r)
  /\ urb' = NoRequest /\ buf' = NoRequest /\ finished' = TRUE
  /\ UNCHANGED <<mgrVars, slotVars, workVars, usb, histVars>>

-----------------------------------------------------------------------------
(* cmd_mgr_msgind *)

(* Mutant: the last command that fits is taken. *)
MutMatches(r, i) ==
  /\ kind[list[i]] = r.kind /\ "WAIT_CFM" \in flags[list[i]]
  /\ \A j \in i+1..Len(list) : ~(kind[list[j]] = r.kind /\ "WAIT_CFM" \in flags[list[j]])

(* The answer to r is taken for that to the i-th command of the queue, the *)
(* first of its kind that waits for a confirmation.                        *)
Matches(r, i) ==
  /\ kind[list[i]] = r.kind /\ "WAIT_CFM" \in flags[list[i]]
  /\ \A j \in 1..i-1 : ~(kind[list[j]] = r.kind /\ "WAIT_CFM" \in flags[list[j]])

Confirm(r, i) ==
  LET c == list[i]
  IN  /\ Matches(r, i)
      /\ flags' = [flags EXCEPT ![c] = (@ \ {"WAIT_CFM"}) \cup {"DONE"}]
      /\ done' = [done EXCEPT ![c] = TRUE]
      /\ harm' = IF r.own /\ r.slot = c THEN harm ELSE harm \cup {"wrongAnswer"}

(* Mutant: whatever the count is. *)
MutSleeps == awake' = FALSE

(* cmd_complete lets the device sleep when the count is zero. *)
Sleeps == awake' = (awake /\ queueSz # 0)

Answer ==
  /\ device # <<>> /\ "drain" \notin hist
  /\ device' = Tail(device)
  /\ \/ \E i \in DOMAIN list : Confirm(Head(device), i) /\ Sleeps
     \/ /\ \A i \in DOMAIN list : ~Matches(Head(device), i)
        /\ UNCHANGED <<flags, done, harm, awake>>
  /\ UNCHANGED <<state, list, queueSz, used, kind, pc, workVars, usb, urb, buf,
                 finished, hist>>

-----------------------------------------------------------------------------
(* The end of a command *)

(* list_del, where the entry is linked. *)
Without(s) ==
  LET p == CHOOSE i \in DOMAIN list : list[i] = s
  IN  [j \in 1..Len(list) - 1 |-> IF j < p THEN list[j] ELSE list[j + 1]]

Unlink(s) ==
  /\ list' = IF s \in Linked THEN Without(s) ELSE list
  /\ harm' = IF s \in Linked THEN harm ELSE harm \cup {"doubleUnlink"}
  /\ queueSz' = queueSz - 1
  /\ awake' = (awake /\ queueSz' # 0)

(* The caller was completed, or a fatal signal ended its wait: the result  *)
(* of the wait is not zero in either case.                                 *)
Finish(s) ==
  /\ pc[s] = "wait"
  /\ \/ done[s] /\ UNCHANGED hist
     \/ ~done[s] /\ MayKill /\ "kill" \notin hist /\ hist' = hist \cup {"kill"}
  /\ Unlink(s) /\ Free(s, FALSE) /\ Goto(s, "leave")
  /\ UNCHANGED <<state, workVars, usb, finished>>

(* Mutant: the worker is not woken for the commands that were deferred. *)
MutMustWake == FALSE

MustWake == list # <<>> /\ usb = "up"

Leave(s) ==
  /\ pc[s] = "leave"
  /\ work' = (work \/ MustWake)
  /\ Goto(s, "idle")
  /\ UNCHANGED <<mgrVars, used, kind, flags, done, wpc, wcur, usb, usbVars, histVars>>

(* The wait times out; an answer may still come before the lock is taken.  *)
Expire(s) ==
  /\ pc[s] = "wait" /\ ~done[s]
  /\ Goto(s, "late")
  /\ UNCHANGED <<mgrVars, used, kind, flags, done, workVars, usb, usbVars, histVars>>

(* The manager is crashed, the command stays linked. *)
Crash(s) ==
  /\ state' = "crashed"
  /\ flags' = [flags EXCEPT ![s] = @ \cup {"DONE"}]
  /\ Sleeps
  /\ UNCHANGED <<list, queueSz>>

GiveUp(s) ==
  /\ pc[s] = "late"
  /\ Crash(s) /\ Goto(s, "fail")
  /\ UNCHANGED <<used, kind, done, workVars, usb, usbVars, histVars>>

(* rwnx_send_msg frees what was not queued or returned an error. *)
Failed(s) ==
  /\ pc[s] = "fail"
  /\ Free(s, s \in Linked) /\ Goto(s, "idle")
  /\ UNCHANGED <<mgrVars, workVars, usb, finished, histVars>>

-----------------------------------------------------------------------------
(* cmd_mgr_task_process *)

WorkGoto(l) == wpc' = l

WorkStart ==
  /\ work /\ wpc = "idle" /\ state # "deinit"
  /\ work' = FALSE /\ WorkGoto("scan")
  /\ UNCHANGED <<mgrVars, slotVars, wcur, usb, usbVars, histVars>>

(* Mutants: a first command that its caller has pushed is taken; one       *)
(* behind the first is taken.                                              *)
MutUnconfirmed == {i \in {1} \cap DOMAIN list : "WAIT_CFM" \in flags[list[i]]}
MutDeferred == {i \in DOMAIN list : "WAIT_PUSH" \in flags[list[i]]}

(* Only the first command is looked at. *)
ToPush == {i \in {1} \cap DOMAIN list : "WAIT_PUSH" \in flags[list[i]]}

WorkScan ==
  /\ wpc = "scan"
  /\ \/ \E i \in ToPush : wcur' = list[i] /\ WorkGoto("push")
     \/ ToPush = {} /\ wcur' = "none" /\ WorkGoto("idle")
  /\ UNCHANGED <<mgrVars, slotVars, work, usb, usbVars, histVars>>

WorkPush ==
  /\ wpc = "push"
  /\ flags' = [flags EXCEPT ![wcur] = @ \ {"WAIT_PUSH"}]
  /\ \/ Transmit(wcur) /\ WorkGoto(IF urb = NoRequest THEN "pushing" ELSE "wait")
     \/ NoTransmit /\ WorkGoto("wait")
  /\ UNCHANGED <<mgrVars, used, kind, done, pc, wcur, work, usb>>

WorkPushed ==
  /\ wpc = "pushing" /\ finished
  /\ WorkGoto("wait")
  /\ UNCHANGED <<mgrVars, slotVars, wcur, work, usb, usbVars, histVars>>

WorkPushTimeout ==
  /\ wpc = "pushing" /\ ~finished
  /\ KillUrb /\ WorkGoto("wait")
  /\ UNCHANGED <<mgrVars, slotVars, wcur, work, usb, histVars>>

WorkFinish ==
  /\ wpc = "wait" /\ done[wcur]
  /\ Unlink(wcur) /\ Free(wcur, FALSE) /\ WorkGoto("scan")
  /\ wcur' = "none"
  /\ UNCHANGED <<state, pc, work, usb, finished, hist>>

WorkExpire ==
  /\ wpc = "wait" /\ ~done[wcur]
  /\ WorkGoto("late")
  /\ UNCHANGED <<mgrVars, slotVars, wcur, work, usb, usbVars, histVars>>

WorkGiveUp ==
  /\ wpc = "late"
  /\ Crash(wcur) /\ WorkGoto("scan") /\ wcur' = "none"
  /\ UNCHANGED <<used, kind, done, pc, work, usb, usbVars, histVars>>

-----------------------------------------------------------------------------
(* The disconnect: the bus goes down, the URBs are cancelled, the queue is *)
(* drained, the workqueue is flushed, the manager is cleared.              *)

Unplug ==
  /\ MayUnplug /\ usb = "up"
  /\ usb' = "down" /\ KillUrb
  /\ UNCHANGED <<mgrVars, slotVars, workVars, histVars>>

Drain ==
  /\ usb = "down" /\ "drain" \notin hist
  /\ list' = <<>>
  /\ done' = [s \in Slots |-> done[s] \/ s \in Linked]
  /\ hist' = hist \cup {"drain"}
  /\ UNCHANGED <<state, queueSz, awake, used, kind, flags, pc, workVars, usb,
                 usbVars, harm>>

Deinit ==
  /\ "drain" \in hist /\ state # "deinit" /\ wpc = "idle" /\ ~work
  /\ state' = "deinit" /\ queueSz' = 0
  /\ UNCHANGED <<list, awake, slotVars, workVars, usb, usbVars, histVars>>

-----------------------------------------------------------------------------

Caller(s) ==
  \/ Reject(s) \/ Link(s) \/ Wake(s)
  \/ Push(s) \/ Pushed(s) \/ PushTimeout(s)
  \/ Finish(s) \/ Leave(s) \/ Expire(s) \/ GiveUp(s) \/ Failed(s)

Worker ==
  \/ WorkStart \/ WorkScan \/ WorkPush \/ WorkPushed \/ WorkPushTimeout
  \/ WorkFinish \/ WorkExpire \/ WorkGiveUp

Next ==
  \/ \E s \in Slots : (\E k \in Kinds : Send(s, k)) \/ Caller(s)
  \/ Worker \/ UrbDone \/ Answer
  \/ Unplug \/ Drain \/ Deinit

Spec == Init /\ [][Next]_vars

(* A task that can go on does, the worker runs when it is queued, the      *)
(* controller completes an URB.  The device need not answer: the waits of  *)
(* the manager are bounded.                                                *)
FairSpec ==
  /\ Spec
  /\ \A s \in Slots : WF_vars(Caller(s))
  /\ WF_vars(Worker) /\ WF_vars(UrbDone)

-----------------------------------------------------------------------------
(* Properties *)

InHand == {"push", "pushing", "wait", "late"}

(* The task of the command has not returned to its caller. *)
Calling(s) == pc[s] \in InHand \cup {"queue", "fail"}

(* cmd_mgr_msgind copies an answer into the buffer of the command it fits: *)
(* the buffer of a query is on its caller's stack, so whoever still waits  *)
(* for a confirmation in the queue has a caller that has not returned, be  *)
(* it after a time-out, a kill or a disconnect.                            *)
NoAnswerToDeadStack ==
  \A s \in Linked : kind[s] = "query" /\ "WAIT_CFM" \in flags[s] => Calling(s)

(* An answer names only the kind of its command.  While no caller was      *)
(* killed and the manager has not crashed, no command is taken for         *)
(* confirmed by the answer to another one.                                 *)
OwnAnswer == "wrongAnswer" \in harm => "kill" \in hist \/ state # "inited"

(* Nobody sends a command while an earlier one of the queue is             *)
(* unconfirmed, although callers and worker push without the lock.         *)
OneAtATime ==
  \A i, j \in DOMAIN list :
     i < j /\ "WAIT_CFM" \in flags[list[i]] => "WAIT_PUSH" \in flags[list[j]]

(* The one buffer and the one URB need no lock of their own as long as     *)
(* only commands that are confirmed go through them: the push of such a    *)
(* command meets an URB in flight only after a plain message, a kill or a  *)
(* time-out.                                                               *)
OverwriteNeedsPlain ==
  "overwritten" \in harm => hist \cap {"plain", "kill"} # {} \/ state # "inited"

(* queue_sz counts the list and the device is kept awake exactly while a   *)
(* command is queued, until the drain, which takes the entries and not the *)
(* count.                                                                  *)
AwakeWhileQueued ==
  "drain" \notin hist => queueSz = Len(list) /\ (awake <=> list # <<>>)

(* An entry is taken off the list once, by the caller or by the worker.    *)
(* Only the drain of a disconnect takes entries whose owners will do it    *)
(* again.                                                                  *)
DoubleUnlinkNeedsDrain == "doubleUnlink" \in harm => "drain" \in hist

(* No slot is lost before a drain: a slot in use is queued or its caller   *)
(* is still there; and the queue holds no slot that was freed, until a     *)
(* time-out has crashed the manager.                                       *)
SlotsAccountedFor ==
  /\ "drain" \notin hist => \A s \in Slots : used[s] => s \in Linked \/ Calling(s)
  /\ state = "inited" => \A s \in Linked : used[s]

(* What was deferred when a time-out crashed the manager is never sent:    *)
(* the command that timed out stays at the head, where the worker stops.   *)
DeferredIsStranded ==
  [][\A s \in Linked : state = "crashed" /\ "WAIT_PUSH" \in flags[s] =>
        "drain" \in hist' \/ "WAIT_PUSH" \in flags'[s]]_vars

(* A deferred command gets its turn, or the manager crashes.               *)
DeferredEnds ==
  \A s \in Slots : []<>(s \notin Linked \/ state # "inited")

(* The manager implements the abstract queue: confirmed in the order of    *)
(* acceptance, retired only when confirmed, accepting nothing once broken. *)
Fifo == INSTANCE CommandFifo WITH
  Commands <- Slots,
  queue <- [i \in DOMAIN list |->
              [cmd |-> list[i], waiting |-> "WAIT_CFM" \in flags[list[i]]]],
  broken <- (state # "inited")

FifoSpec == Fifo!Spec
=============================================================================
