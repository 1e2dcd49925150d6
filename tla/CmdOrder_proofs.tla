--------------------------- MODULE CmdOrder_proofs ---------------------------
(***************************************************************************)
(* The order of the command queue, for every set of slots and every mix of *)
(* commands: an answer names only the kind of its command and still        *)
(* reaches the command it is for, because one command at a time is on its  *)
(* way to the device.                                                      *)
(*                                                                         *)
(* Neither half stands alone: the answer is the right one because nothing  *)
(* else is under way, and nothing else is under way because the caller and *)
(* the worker wait for the right answer.                                   *)
(***************************************************************************)
EXTENDS CmdMgr_proofs

(* The worker pushes nothing but the head. *)
HeadInv == wpc = "push" /\ wcur \in Linked => list[1] = wcur

(* No caller was killed, no time-out has crashed the manager, no drain. *)
Good == state = "inited" /\ hist \cap {"kill", "drain"} = {}

(* A request to be answered, for the one command that waits for it. *)
Out(r) == r \in Requests /\ r.kind # "plain"
Live(r) ==
  /\ r.own /\ r.slot \in Linked /\ kind[r.slot] = r.kind /\ pc[r.slot] # "push"
  /\ "WAIT_CFM" \in flags[r.slot] /\ "WAIT_PUSH" \notin flags[r.slot]

(* What is to be pushed, or was deferred, is unconfirmed. *)
PushInv ==
  Good => \A s \in Slots : pc[s] = "push" /\ kind[s] # "plain" => "WAIT_CFM" \in flags[s]
WorkPushInv == Good /\ wpc = "push" => {"WAIT_CFM", "WAIT_PUSH"} \subseteq flags[wcur]
BothInv == Good => \A s \in Linked : "WAIT_PUSH" \in flags[s] => "WAIT_CFM" \in flags[s]

(* What is on its way is the request of the unconfirmed command, once. *)
UrbLive == Good => (Out(urb) => Live(urb)) /\ (Out(buf) => Live(buf))
DevLive ==
  Good => \/ device = <<>>
          \/ Len(device) = 1 /\ Live(device[1]) /\ ~Out(urb) /\ ~Out(buf)

(* What was completed was confirmed. *)
DoneInv == "drain" \notin hist => \A s \in Linked : done[s] => "WAIT_CFM" \notin flags[s]

Ordered ==
  /\ OneAtATime /\ HeadInv
  /\ PushInv /\ WorkPushInv /\ BothInv /\ UrbLive /\ DevLive /\ DoneInv /\ OwnAnswer

OInv == IInv /\ Ordered

-----------------------------------------------------------------------------
(* The queue and the order *)

(* Flags that change the right way keep the order. *)
LEMMA OrderKept ==
  ASSUME OneAtATime, list' = list,
         \A i \in DOMAIN list :
            /\ "WAIT_CFM" \in flags'[list[i]] => "WAIT_CFM" \in flags[list[i]]
            /\ "WAIT_PUSH" \in flags[list[i]] => "WAIT_PUSH" \in flags'[list[i]]
  PROVE  OneAtATime'
  BY DEF OneAtATime

(* Two entries that remain are in the order they had, and the head remains *)
(* when it is not the one that goes.                                       *)
LEMMA WithoutOrder ==
  ASSUME list \in Seq(Slots), Inj, NEW s \in Slots, s \in Linked,
         list' = Without(s)
  PROVE  /\ \A i, j \in DOMAIN list' : i < j =>
              \E k, l \in DOMAIN list :
                 k < l /\ list'[i] = list[k] /\ list'[j] = list[l] /\ list[k] # s /\ list[l] # s
         /\ list[1] # s => list'[1] = list[1]
<1> DEFINE p == CHOOSE i \in DOMAIN list : list[i] = s
<1>1. p \in DOMAIN list /\ list[p] = s
      BY DEF Linked
<1>2. DOMAIN list = 1..Len(list) /\ Len(list) \in Nat
      OBVIOUS
<1>3. list' = [j \in 1..Len(list) - 1 |-> IF j < p THEN list[j] ELSE list[j + 1]]
      BY DEF Without
<1>4. Len(list) - 1 \in Nat /\ DOMAIN list' = 1..Len(list) - 1
      BY <1>1, <1>2, <1>3
<1> HIDE DEF p
<1> DEFINE up(j) == IF j < p THEN j ELSE j + 1
<1>5. \A j \in 1..Len(list) - 1 :
         up(j) \in 1..Len(list) /\ list'[j] = list[up(j)] /\ up(j) # p
      BY <1>1, <1>2, <1>3, <1>4
<1>6. \A i, j \in 1..Len(list) - 1 : i < j => up(i) < up(j)
      BY <1>1, <1>2
<1> HIDE DEF up
<1>7. \A i \in DOMAIN list : i # p => list[i] # s
      BY <1>1 DEF Inj
<1>8. \A i, j \in DOMAIN list' : i < j =>
         \E k, l \in DOMAIN list :
            k < l /\ list'[i] = list[k] /\ list'[j] = list[l] /\ list[k] # s /\ list[l] # s
  <2> SUFFICES ASSUME NEW i \in 1..Len(list) - 1, NEW j \in 1..Len(list) - 1, i < j
               PROVE  \E k, l \in DOMAIN list :
                        k < l /\ list'[i] = list[k] /\ list'[j] = list[l] /\ list[k] # s /\ list[l] # s
      BY <1>4
  <2>1. up(i) \in DOMAIN list /\ up(j) \in DOMAIN list /\ up(i) < up(j)
        BY <1>2, <1>5, <1>6
  <2>2. list'[i] = list[up(i)] /\ list'[j] = list[up(j)] /\ list[up(i)] # s /\ list[up(j)] # s
        BY <1>5, <1>7, <2>1
  <2> QED
      BY <2>1, <2>2
<1>9. ASSUME list[1] # s PROVE list'[1] = list[1]
  <2>1. p # 1 /\ p \in 1..Len(list)
        BY <1>1, <1>2, <1>9
  <2> QED
      BY <1>2, <1>3, <1>4, <2>1
<1> QED
    BY <1>8, <1>9

(* The head, and the order, when a command goes. *)
LEMMA UnlinkOrder ==
  ASSUME OInv, NEW s \in Slots, s \in Linked, list' = Without(s),
         flags' = [flags EXCEPT ![s] = {}]
  PROVE  OneAtATime' /\ (list[1] # s => list'[1] = list[1])
<1>1. list \in Seq(Slots) /\ Inj /\ flags \in [Slots -> SUBSET Flags]
      BY DEF OInv, IInv, TypeOK
<1>2. \A i \in DOMAIN list : list[i] \in Slots
      BY <1>1
<1>3. \A i \in DOMAIN list : list[i] # s => flags'[list[i]] = flags[list[i]]
      BY <1>1, <1>2
<1> HIDE DEF Without
<1>4. OneAtATime
      BY DEF OInv, Ordered
<1> QED
    BY <1>1, <1>3, <1>4, WithoutOrder DEF OneAtATime

(* At most one linked command is unconfirmed and not deferred. *)
LEMMA OneLive ==
  ASSUME OneAtATime, TypeOK, NEW s \in Linked, NEW t \in Linked,
         "WAIT_CFM" \in flags[s], "WAIT_PUSH" \notin flags[s],
         "WAIT_CFM" \in flags[t], "WAIT_PUSH" \notin flags[t]
  PROVE  s = t
<1>1. PICK i \in DOMAIN list : list[i] = s
      BY DEF Linked
<1>2. PICK j \in DOMAIN list : list[j] = t
      BY DEF Linked
<1>3. i \in Int /\ j \in Int
      BY DEF TypeOK
<1> QED
    BY <1>1, <1>2, <1>3 DEF OneAtATime

(* While nothing has gone wrong, a linked slot is in use by a command. *)
LEMMA GoodLinked ==
  ASSUME IInv, Good, NEW s \in Linked
  PROVE  /\ s \in Slots /\ used[s] /\ kind[s] # "plain"
         /\ pc[s] \in {"idle", "wake", "push", "pushing", "wait", "late"}
<1>1. s \in Slots
      BY DEF Linked, IInv, TypeOK
<1> QED
    BY <1>1 DEF IInv, LiveInv, Good, Away, Owned

-----------------------------------------------------------------------------
(* The steps *)

(* A step that leaves the queue and the requests of its commands alone. *)
LEMMA Calm ==
  ASSUME OInv, list' = list, OwnAnswer',
         \A s \in Slots : /\ "WAIT_CFM" \in flags'[s] => "WAIT_CFM" \in flags[s]
                          /\ "WAIT_PUSH" \in flags[s] => "WAIT_PUSH" \in flags'[s],
         Good' => /\ Good /\ device' = device
                  /\ Out(urb)' => urb' = urb
                  /\ Out(buf)' => buf' = buf
                  /\ \A s \in Linked : /\ kind'[s] = kind[s] /\ flags'[s] = flags[s]
                                       /\ pc'[s] = "push" => pc[s] = "push"
                  /\ \A s \in Slots : pc'[s] = "push" /\ kind'[s] # "plain" =>
                        pc[s] = "push" /\ kind[s] # "plain" /\ flags'[s] = flags[s],
         wpc' = "push" => wpc = "push" /\ wcur' = wcur,
         "drain" \notin hist' =>
            "drain" \notin hist /\ \A s \in Linked : done'[s] => done[s]
  PROVE  Ordered'
<1>1. Linked' = Linked /\ Linked \subseteq Slots
      BY DEF Linked, OInv, IInv, TypeOK
<1>2. OneAtATime'
      BY <1>1, OrderKept DEF OInv, Ordered, Linked
<1>3. HeadInv'
      BY <1>1 DEF OInv, Ordered, HeadInv
<1>4. DoneInv'
      BY <1>1 DEF OInv, Ordered, DoneInv
<1>5. CASE ~Good'
      BY <1>2, <1>3, <1>4, <1>5
      DEF Ordered, PushInv, WorkPushInv, BothInv, UrbLive, DevLive
<1>6. CASE Good'
  <2>1. PushInv' /\ BothInv'
        BY <1>1, <1>6 DEF OInv, Ordered, PushInv, BothInv
  <2>2. WorkPushInv'
    <3>1. wpc = "push" => wcur \in Linked
          BY <1>6 DEF OInv, IInv, WorkerInv, Owned, Queued, Good
    <3> QED
        BY <1>6, <3>1 DEF OInv, Ordered, WorkPushInv
  <2>3. \A r : Live(r) => Live(r)'
        BY <1>1, <1>6 DEF Live
  <2>4. UrbLive'
        BY <1>6, <2>3 DEF OInv, Ordered, UrbLive
  <2>5. DevLive'
        BY <1>6, <2>3 DEF OInv, Ordered, DevLive
  <2> QED
      BY <1>2, <1>3, <1>4, <2>1, <2>2, <2>4, <2>5 DEF Ordered
<1> QED
    BY <1>5, <1>6

(* OwnAnswer is lost with a wrong answer only. *)
LEMMA OwnKept ==
  ASSUME OInv, "wrongAnswer" \in harm' => "wrongAnswer" \in harm,
         hist \subseteq hist', state' = "inited" => state = "inited"
  PROVE  OwnAnswer'
  BY DEF OInv, Ordered, OwnAnswer

(* The steps of callers and worker that neither send nor end a command,    *)
(* the disconnect but for the drain, and no step at all.                   *)
LEMMA CalmSteps ==
  ASSUME OInv,
         \/ \E s \in Slots :
               \/ Wake(s) \/ Pushed(s) \/ PushTimeout(s) \/ Leave(s) \/ Expire(s) \/ GiveUp(s)
         \/ WorkStart \/ WorkPushed \/ WorkPushTimeout \/ WorkExpire \/ WorkGiveUp
         \/ Unplug \/ Deinit \/ UNCHANGED vars
  PROVE  Ordered'
<1> USE DEF mgrVars, slotVars, workVars, usbVars, histVars, Goto, WorkGoto, AfterPush
<1>1. /\ flags \in [Slots -> SUBSET Flags] /\ pc \in [Slots -> PCs]
      /\ wpc \in Owned => wcur \in Slots
      /\ NoRequest \notin Requests /\ Linked \subseteq Slots
      BY SlotsAssumption DEF OInv, IInv, TypeOK, WorkerInv, NoRequest, Requests, Linked
<1>2. ASSUME NEW s \in Slots, Wake(s) PROVE Ordered'
  <2>1. OwnAnswer'
        BY <1>2, OwnKept DEF Wake
  <2> QED
      BY <1>1, <1>2, <2>1, Calm DEF Wake, Good, Out, Owned
<1>3. ASSUME NEW s \in Slots, Pushed(s) PROVE Ordered'
  <2>1. OwnAnswer'
        BY <1>3, OwnKept DEF Pushed
  <2> QED
      BY <1>1, <1>3, <2>1, Calm DEF Pushed, Good, Out, Owned
<1>4. ASSUME NEW s \in Slots, PushTimeout(s) PROVE Ordered'
  <2>1. OwnAnswer'
        BY <1>4, OwnKept DEF PushTimeout, KillUrb
  <2> QED
      BY <1>1, <1>4, <2>1, Calm DEF PushTimeout, KillUrb, Good, Out, Owned
<1>5. ASSUME NEW s \in Slots, Leave(s) PROVE Ordered'
  <2>1. OwnAnswer'
        BY <1>5, OwnKept DEF Leave
  <2> QED
      BY <1>1, <1>5, <2>1, Calm DEF Leave, Good, Out, Owned
<1>6. ASSUME NEW s \in Slots, Expire(s) PROVE Ordered'
  <2>1. OwnAnswer'
        BY <1>6, OwnKept DEF Expire
  <2> QED
      BY <1>1, <1>6, <2>1, Calm DEF Expire, Good, Out, Owned
<1>7. ASSUME NEW s \in Slots, GiveUp(s) PROVE Ordered'
  <2>1. OwnAnswer'
        BY <1>7, OwnKept DEF GiveUp, Crash
  <2> QED
      BY <1>1, <1>7, <2>1, Calm DEF GiveUp, Crash, Good, Out, Owned
<1>8. CASE WorkStart
  <2>1. OwnAnswer'
        BY <1>8, OwnKept DEF WorkStart
  <2> QED
      BY <1>1, <1>8, <2>1, Calm DEF WorkStart, Good, Out, Owned
<1>9. CASE WorkPushed
  <2>1. OwnAnswer'
        BY <1>9, OwnKept DEF WorkPushed
  <2> QED
      BY <1>1, <1>9, <2>1, Calm DEF WorkPushed, Good, Out, Owned
<1>10. CASE WorkPushTimeout
  <2>1. OwnAnswer'
        BY <1>10, OwnKept DEF WorkPushTimeout, KillUrb
  <2> QED
      BY <1>1, <1>10, <2>1, Calm DEF WorkPushTimeout, KillUrb, Good, Out, Owned
<1>11. CASE WorkExpire
  <2>1. OwnAnswer'
        BY <1>11, OwnKept DEF WorkExpire
  <2> QED
      BY <1>1, <1>11, <2>1, Calm DEF WorkExpire, Good, Out, Owned
<1>12. CASE WorkGiveUp
  <2>1. OwnAnswer'
        BY <1>12, OwnKept DEF WorkGiveUp, Crash
  <2> QED
      BY <1>1, <1>12, <2>1, Calm DEF WorkGiveUp, Crash, Good, Out, Owned
<1>13. CASE Unplug
  <2>1. OwnAnswer'
        BY <1>13, OwnKept DEF Unplug, KillUrb
  <2> QED
      BY <1>1, <1>13, <2>1, Calm DEF Unplug, KillUrb, Good, Out, Owned
<1>14. CASE Deinit
  <2>1. OwnAnswer'
        BY <1>14, OwnKept DEF Deinit
  <2> QED
      BY <1>1, <1>14, <2>1, Calm DEF Deinit, Good, Out, Owned
<1>15. CASE UNCHANGED vars
  <2>1. OwnAnswer'
        BY <1>15, OwnKept DEF vars
  <2> QED
      BY <1>1, <1>15, <2>1, Calm DEF vars, Good, Out, Owned
<1> QED
    BY <1>2, <1>3, <1>4, <1>5, <1>6, <1>7, <1>8, <1>9, <1>10, <1>11, <1>12, <1>13, <1>14, <1>15

(* Freeing a slot without a live request touches none. *)
LEMMA FreeCalm ==
  ASSUME OInv, Good, NEW s \in Slots, \A r : Live(r) => r.slot # s, NEW b, Free(s, b)
  PROVE  /\ device' = device /\ (Out(urb)' => urb' = urb) /\ (Out(buf)' => buf' = buf)
         /\ \A t \in Linked \ {s} : kind'[t] = kind[t] /\ flags'[t] = flags[t]
<1>1. /\ flags \in [Slots -> SUBSET Flags] /\ kind \in [Slots -> Kinds \cup {"none"}]
      /\ urb \in Requests \cup {NoRequest} /\ buf \in Requests \cup {NoRequest}
      /\ device \in Seq(Requests) /\ Linked \subseteq Slots
      BY DEF OInv, IInv, TypeOK, Linked
<1>2. ASSUME NEW r \in Requests \cup {NoRequest}, Out(r) => Live(r), Out(Orphan(r, s))
      PROVE  Orphan(r, s) = r
  <2>1. CASE r.slot # s
        BY <2>1 DEF Orphan
  <2>2. CASE r.slot = s
    <3>1. r \in Requests
          BY <1>2, OrphanType DEF Out
    <3>2. r.kind = Orphan(r, s).kind
          BY <2>2, <3>1 DEF Orphan, Requests
    <3>3. Live(r)
          BY <1>2, <3>1, <3>2 DEF Out
    <3> QED
        BY <2>2, <3>3 DEF Live
  <2> QED
      BY <2>1, <2>2
<1>3. (Out(urb)' => urb' = urb) /\ (Out(buf)' => buf' = buf)
      BY <1>1, <1>2 DEF Free, OInv, Ordered, UrbLive, Out
<1>4. \A i \in DOMAIN device : Orphan(device[i], s) = device[i]
      BY <1>1 DEF OInv, Ordered, DevLive, Live, Orphan
<1>5. device' = [i \in DOMAIN device |-> device[i]]
      BY <1>4 DEF Free
<1>6. device' = device
      BY <1>1, <1>5
<1>7. \A t \in Linked \ {s} : kind'[t] = kind[t] /\ flags'[t] = flags[t]
      BY <1>1 DEF Free, Freed
<1> QED
    BY <1>3, <1>6, <1>7

(* A caller takes a slot, or gives it back. *)
LEMMA CallerSlots ==
  ASSUME OInv, NEW s \in Slots, (\E k \in Kinds : Send(s, k)) \/ Reject(s) \/ Failed(s)
  PROVE  Ordered'
<1> USE DEF mgrVars, slotVars, workVars, usbVars, histVars, Goto
<1>1. /\ flags \in [Slots -> SUBSET Flags] /\ pc \in [Slots -> PCs]
      /\ kind \in [Slots -> Kinds \cup {"none"}] /\ done \in [Slots -> BOOLEAN]
      /\ Linked \subseteq Slots /\ IInv
      BY DEF OInv, IInv, TypeOK, Linked
<1>2. ASSUME NEW k \in Kinds, Send(s, k) PROVE Ordered'
  <2>1. OwnAnswer'
        BY <1>2, OwnKept DEF Send
  <2>2. Good => s \notin Linked
        BY <1>1, <1>2, GoodLinked DEF Send
  <2> QED
      BY <1>1, <1>2, <2>1, <2>2, Calm DEF Send, Good, Out
<1>3. CASE Reject(s) \/ Failed(s)
  <2>1. OwnAnswer'
        BY <1>3, OwnKept DEF Reject, Failed
  <2>2. /\ list' = list /\ state' = state /\ hist' = hist /\ wpc' = wpc /\ wcur' = wcur
        /\ pc[s] \in {"queue", "fail"} /\ pc' = [pc EXCEPT ![s] = "idle"]
        BY <1>3 DEF Reject, Failed
  <2>3. Free(s, s \in Linked)
        BY <1>3, Zenon DEF Reject, Failed
  <2>4. Good => s \notin Linked
        BY <1>1, <2>2, GoodLinked
  <2>5. /\ flags' = [flags EXCEPT ![s] = {}] /\ done' = [done EXCEPT ![s] = FALSE]
        /\ "WAIT_PUSH" \notin flags[s]
        BY <1>1, <2>2, <2>3 DEF Free, Freed, IInv, DeferInv, Away
  <2>6. Good => /\ device' = device /\ (Out(urb)' => urb' = urb) /\ (Out(buf)' => buf' = buf)
                /\ \A t \in Linked : kind'[t] = kind[t] /\ flags'[t] = flags[t]
        BY <2>3, <2>4, FreeCalm DEF Live
  <2>7. \A t \in Slots : pc'[t] = "push" =>
           pc[t] = "push" /\ kind'[t] = kind[t] /\ flags'[t] = flags[t]
        BY <1>1, <2>2, <2>3 DEF Free, Freed
  <2>8. Good' <=> Good
        BY <2>2 DEF Good
  <2> QED
      BY <1>1, <2>1, <2>2, <2>5, <2>6, <2>7, <2>8, Calm
<1> QED
    BY <1>2, <1>3

(* A command is queued: it waits for whoever is unconfirmed. *)
LEMMA LinkOrder ==
  ASSUME OInv, NEW s \in Slots, Link(s)
  PROVE  Ordered'
<1> USE DEF slotVars, workVars, usbVars, histVars, Goto
<1>1. /\ flags \in [Slots -> SUBSET Flags] /\ pc \in [Slots -> PCs]
      /\ list \in Seq(Slots) /\ done \in [Slots -> BOOLEAN]
      /\ Linked \subseteq Slots /\ IInv
      BY DEF OInv, IInv, TypeOK, Linked
<1>2. s \notin Linked /\ "WAIT_PUSH" \notin flags[s] /\ kind[s] # "plain"
  <2>1. state = "inited" /\ pc[s] = "queue"
        BY DEF Link
  <2> QED
      BY <1>1, <2>1 DEF IInv, LiveInv, DeferInv, CallerInv, Away, Owned
<1>3. /\ list' = Append(list, s) /\ Linked' = Linked \cup {s}
      /\ kind' = kind /\ urb' = urb /\ buf' = buf /\ device' = device
      /\ wpc' = wpc /\ wcur' = wcur /\ state' = state /\ hist' = hist /\ harm' = harm
      BY <1>1, <1>2, AppendFacts DEF Link, IInv
<1>4. \A t \in Linked : flags'[t] = flags[t] /\ pc'[t] = pc[t] /\ done'[t] = done[t]
      BY <1>1, <1>2 DEF Link
<1>5. /\ "WAIT_CFM" \in flags'[s] /\ ~done'[s]
      /\ list # <<>> /\ flags[list[Len(list)]] \cap {"WAIT_PUSH", "WAIT_CFM"} # {}
            => "WAIT_PUSH" \in flags'[s]
      BY <1>1 DEF Link, Defers
<1>6. OneAtATime'
  <2> SUFFICES ASSUME NEW i \in DOMAIN list', NEW j \in DOMAIN list', i < j,
                      "WAIT_CFM" \in flags'[list'[i]]
               PROVE  "WAIT_PUSH" \in flags'[list'[j]]
      BY DEF OneAtATime
  <2>1. /\ i \in 1..Len(list) + 1 /\ j \in 1..Len(list) + 1 /\ Len(list) \in Nat
        /\ DOMAIN list = 1..Len(list)
        BY <1>1, <1>3
  <2>2. i \in DOMAIN list /\ list'[i] = list[i] /\ "WAIT_CFM" \in flags[list[i]]
        BY <1>1, <1>3, <1>4, <2>1 DEF Linked
  <2>3. CASE j \in DOMAIN list
        BY <1>1, <1>3, <1>4, <2>1, <2>2, <2>3 DEF OInv, Ordered, OneAtATime, Linked
  <2>4. CASE j = Len(list) + 1
    <3>1. list'[j] = s /\ list # <<>> /\ Len(list) \in DOMAIN list
          BY <1>1, <1>3, <2>1, <2>2, <2>4
    <3>2. flags[list[Len(list)]] \cap {"WAIT_PUSH", "WAIT_CFM"} # {}
          BY <2>1, <2>2, <3>1 DEF OInv, Ordered, OneAtATime
    <3> QED
        BY <1>5, <3>1, <3>2
  <2> QED
      BY <2>1, <2>3, <2>4
<1>7. HeadInv'
  <2>1. ASSUME wpc = "push", wcur \in Linked' PROVE list'[1] = wcur
    <3>1. wcur \in Linked
      <4>1. wcur # s
            BY <1>1, <2>1 DEF IInv, WorkerInv, Owned, Away, Link
      <4> QED
          BY <1>3, <2>1, <4>1
    <3>2. list[1] = wcur /\ 1 \in DOMAIN list
          BY <1>1, <2>1, <3>1 DEF OInv, Ordered, HeadInv, Linked
    <3> QED
        BY <1>1, <1>3, <3>2
  <2> QED
      BY <1>3, <2>1 DEF HeadInv
<1>8. PushInv' /\ BothInv' /\ DoneInv' /\ OwnAnswer'
  <2>1. \A t \in Slots : t # s => pc'[t] = pc[t] /\ flags'[t] = flags[t]
        BY <1>1 DEF Link
  <2> QED
      BY <1>3, <1>4, <1>5, <2>1
      DEF OInv, Ordered, PushInv, BothInv, DoneInv, OwnAnswer, Good
<1>9. WorkPushInv'
  <2>1. wpc = "push" /\ Good => wcur \in Linked
        BY <1>1 DEF IInv, WorkerInv, Owned, Queued, Good
  <2> QED
      BY <1>3, <1>4, <2>1 DEF OInv, Ordered, WorkPushInv, Good
<1>10. UrbLive' /\ DevLive'
  <2>1. \A r : Live(r) => Live(r)'
        BY <1>3, <1>4 DEF Live
  <2> QED
      BY <1>3, <2>1 DEF OInv, Ordered, UrbLive, DevLive, Good, Out
<1> QED
    BY <1>6, <1>7, <1>8, <1>9, <1>10 DEF Ordered

(* What the push of a command writes, when the order holds, is the only    *)
(* request there is.                                                       *)
LEMMA PushAlone ==
  ASSUME OInv, Good, NEW s \in Linked,
         "WAIT_CFM" \in flags[s], pc[s] = "push" \/ "WAIT_PUSH" \in flags[s],
         "WAIT_PUSH" \in flags[s] => s = list[1]
  PROVE  device = <<>> /\ ~Out(urb) /\ ~Out(buf)
<1>1. TypeOK /\ OneAtATime /\ list \in Seq(Slots) /\ flags \in [Slots -> SUBSET Flags]
      BY DEF OInv, Ordered, IInv, TypeOK
<1>2. ASSUME NEW r, Live(r) PROVE FALSE
  <2>1. /\ r.slot \in Linked /\ "WAIT_CFM" \in flags[r.slot] /\ "WAIT_PUSH" \notin flags[r.slot]
        /\ pc[r.slot] # "push"
        BY <1>2 DEF Live
  <2>2. CASE "WAIT_PUSH" \notin flags[s]
    <3>1. r.slot = s
          BY <1>1, <2>1, <2>2, OneLive
    <3> QED
        BY <2>1, <2>2, <3>1
  <2>3. CASE "WAIT_PUSH" \in flags[s]
    <3>1. PICK j \in DOMAIN list : list[j] = r.slot
          BY <2>1 DEF Linked
    <3>2. j # 1 /\ 1 \in DOMAIN list /\ 1 < j /\ list[1] = s
          BY <1>1, <2>1, <2>3, <3>1
    <3> QED
        BY <1>1, <2>1, <3>1, <3>2 DEF OneAtATime
  <2> QED
      BY <2>2, <2>3
<1> QED
    BY <1>2 DEF OInv, Ordered, UrbLive, DevLive

(* A caller writes its command to the device. *)
LEMMA PushOrder ==
  ASSUME OInv, NEW s \in Slots, Push(s)
  PROVE  Ordered'
<1> USE DEF mgrVars, workVars, usbVars, histVars, Goto, AfterPush
<1>1. /\ flags \in [Slots -> SUBSET Flags] /\ pc \in [Slots -> PCs]
      /\ Linked \subseteq Slots /\ IInv
      BY DEF OInv, IInv, TypeOK, Linked
<1>2. /\ list' = list /\ kind' = kind /\ flags' = flags /\ done' = done /\ state' = state
      /\ wpc' = wpc /\ wcur' = wcur /\ device' = device /\ pc[s] = "push"
      /\ \A t \in Slots : pc'[t] = "push" => pc[t] = "push"
      /\ pc'[s] # "push" /\ ("drain" \in hist' <=> "drain" \in hist)
      /\ hist \subseteq hist' /\ ("kill" \in hist' <=> "kill" \in hist)
      BY <1>1 DEF Push, Transmit, NoTransmit
<1>3. /\ urb' \in {urb, Request(s)}
      /\ buf' \in {buf, Request(s)}
      BY DEF Push, Transmit, NoTransmit
<1>4. OwnAnswer'
      BY <1>2, OwnKept DEF Push, Transmit, NoTransmit
<1>5. Good' <=> Good
      BY <1>2 DEF Good
<1>6. CASE ~Good \/ kind[s] = "plain"
  <2>1. kind[s] = "plain" => ~Out(Request(s))
        BY DEF Out, Request
  <2> QED
      BY <1>1, <1>2, <1>3, <1>4, <1>5, <1>6, <2>1, Calm DEF Out
<1>7. CASE Good /\ kind[s] # "plain"
  <2>1. s \in Linked /\ "WAIT_CFM" \in flags[s] /\ "WAIT_PUSH" \notin flags[s]
        BY <1>1, <1>2, <1>7
        DEF IInv, CallerInv, DeferInv, Queued, Away, Good, OInv, Ordered, PushInv
  <2>2. device = <<>> /\ ~Out(urb) /\ ~Out(buf)
        BY <1>2, <1>7, <2>1, PushAlone
  <2>3. Linked' = Linked
        BY <1>2 DEF Linked
  <2>4. Live(Request(s))'
        BY <1>2, <2>1, <2>3 DEF Live, Request
  <2>5. UrbLive' /\ DevLive'
        BY <1>2, <1>3, <1>5, <2>2, <2>4 DEF UrbLive, DevLive, Out, Request
  <2> QED
      BY <1>1, <1>2, <1>4, <1>5, <2>3, <2>5
      DEF OInv, Ordered, OneAtATime, HeadInv, PushInv, WorkPushInv, BothInv, DoneInv
<1> QED
    BY <1>6, <1>7

(* The worker looks at the head of the queue. *)
LEMMA ScanOrder ==
  ASSUME OInv, WorkScan
  PROVE  Ordered'
<1> USE DEF mgrVars, slotVars, usbVars, histVars, WorkGoto
<1>1. CASE wpc' = "idle"
  <2>1. OwnAnswer'
        BY OwnKept DEF WorkScan
  <2> QED
      BY <1>1, <2>1, Calm DEF WorkScan, Good, Out
<1>2. CASE wpc' = "push"
  <2>1. 1 \in DOMAIN list /\ wcur' = list[1] /\ "WAIT_PUSH" \in flags[list[1]]
        BY <1>2 DEF WorkScan, ToPush
  <2>2. /\ list' = list /\ Linked' = Linked /\ flags' = flags /\ kind' = kind /\ pc' = pc
        /\ done' = done /\ state' = state /\ hist' = hist /\ harm' = harm
        /\ urb' = urb /\ buf' = buf /\ device' = device
        BY DEF WorkScan, Linked
  <2>3. HeadInv' /\ WorkPushInv'
        BY <2>1, <2>2 DEF HeadInv, WorkPushInv, OInv, Ordered, BothInv, Good, Linked
  <2>4. \A r : Live(r) => Live(r)'
        BY <2>2 DEF Live
  <2>5. UrbLive' /\ DevLive'
        BY <2>2, <2>4 DEF OInv, Ordered, UrbLive, DevLive, Good, Out
  <2> QED
      BY <2>2, <2>3, <2>5
      DEF OInv, Ordered, OneAtATime, PushInv, BothInv, DoneInv, OwnAnswer, Good
<1> QED
    BY <1>1, <1>2 DEF WorkScan

(* The worker writes the head to the device. *)
LEMMA WorkPushOrder ==
  ASSUME OInv, WorkPush
  PROVE  Ordered'
<1> USE DEF mgrVars, usbVars, histVars, WorkGoto
<1>1. /\ flags \in [Slots -> SUBSET Flags] /\ list \in Seq(Slots)
      /\ Linked \subseteq Slots /\ IInv /\ wcur \in Slots /\ pc[wcur] \in Away
      BY DEF OInv, IInv, TypeOK, Linked, WorkerInv, WorkPush, Owned
<1>2. /\ list' = list /\ kind' = kind /\ done' = done /\ state' = state /\ pc' = pc
      /\ wpc' # "push" /\ wcur' = wcur /\ device' = device
      /\ ("drain" \in hist' <=> "drain" \in hist)
      /\ hist \subseteq hist' /\ ("kill" \in hist' <=> "kill" \in hist)
      BY DEF WorkPush, Transmit, NoTransmit
<1>3. /\ urb' \in {urb, Request(wcur)} /\ buf' \in {buf, Request(wcur)}
      /\ flags' = [flags EXCEPT ![wcur] = @ \ {"WAIT_PUSH"}]
      BY DEF WorkPush, Transmit, NoTransmit
<1>4. OwnAnswer'
      BY <1>2, OwnKept DEF WorkPush, Transmit, NoTransmit
<1>5. (Good' <=> Good) /\ Linked' = Linked
      BY <1>2 DEF Good, Linked
<1>6. \A t \in Slots :
         /\ "WAIT_CFM" \in flags'[t] <=> "WAIT_CFM" \in flags[t]
         /\ "WAIT_PUSH" \in flags'[t] => "WAIT_PUSH" \in flags[t]
         /\ t # wcur => flags'[t] = flags[t]
      BY <1>1, <1>3
<1>7. OneAtATime'
  <2> SUFFICES ASSUME NEW i \in DOMAIN list, NEW j \in DOMAIN list, i < j,
                      "WAIT_CFM" \in flags'[list[i]]
               PROVE  "WAIT_PUSH" \in flags'[list[j]]
      BY <1>2 DEF OneAtATime
  <2>1. list[j] # wcur
    <3>1. ASSUME list[j] = wcur PROVE FALSE
      <4>1. list[1] = wcur /\ 1 \in DOMAIN list /\ j # 1
            BY <1>1, <3>1 DEF OInv, Ordered, HeadInv, Linked, WorkPush
      <4> QED
          BY <3>1, <4>1 DEF OInv, IInv, Inj
    <3> QED
        BY <3>1
  <2> QED
      BY <1>1, <1>6, <2>1 DEF OInv, Ordered, OneAtATime, Linked
<1>8. PushInv' /\ BothInv' /\ DoneInv'
      BY <1>1, <1>2, <1>5, <1>6 DEF OInv, Ordered, PushInv, BothInv, DoneInv
<1>9. UrbLive' /\ DevLive'
  <2> SUFFICES ASSUME Good PROVE UrbLive' /\ DevLive'
      BY <1>5 DEF UrbLive, DevLive
  <2>1. wcur \in Linked /\ {"WAIT_CFM", "WAIT_PUSH"} \subseteq flags[wcur]
        BY <1>1 DEF OInv, Ordered, WorkPushInv, WorkPush, IInv, WorkerInv, Owned, Queued, Good
  <2>2. wcur = list[1]
        BY <2>1 DEF OInv, Ordered, HeadInv, WorkPush
  <2>3. device = <<>> /\ ~Out(urb) /\ ~Out(buf)
        BY <2>1, <2>2, PushAlone
  <2>4. "WAIT_CFM" \in flags'[wcur] /\ "WAIT_PUSH" \notin flags'[wcur]
        BY <1>1, <1>3, <2>1
  <2>5. Live(Request(wcur))'
        BY <1>1, <1>2, <1>5, <2>1, <2>4 DEF Live, Request, Away
  <2> QED
      BY <1>2, <1>3, <2>3, <2>5 DEF UrbLive, DevLive, Out, Request
<1> QED
    BY <1>2, <1>4, <1>7, <1>8, <1>9 DEF Ordered, HeadInv, WorkPushInv

(* A confirmed command leaves the queue. *)
LEMMA UnlinkedOrder ==
  ASSUME OInv, NEW s \in Slots, Queued(s), Unlink(s), Free(s, FALSE),
         state' = state, hist \subseteq hist', "drain" \in hist' => "drain" \in hist,
         "kill" \notin hist' => done[s],
         \A t \in Slots \ {s} : pc'[t] = pc[t],
         pc'[s] # "push",
         wpc' = "push" => wpc = "push" /\ wcur' = wcur /\ wcur # s
  PROVE  Ordered'
<1>1. /\ flags \in [Slots -> SUBSET Flags] /\ kind \in [Slots -> Kinds \cup {"none"}]
      /\ done \in [Slots -> BOOLEAN] /\ list \in Seq(Slots) /\ Inj
      /\ Linked \subseteq Slots /\ IInv
      BY DEF OInv, IInv, TypeOK, Linked
<1>2. /\ flags' = [flags EXCEPT ![s] = {}] /\ done' = [done EXCEPT ![s] = FALSE]
      /\ \A t \in Slots : t # s => kind'[t] = kind[t]
      BY <1>1 DEF Free, Freed
<1>3. OwnAnswer'
      BY OwnKept DEF Unlink
<1>4. CASE s \notin Linked
  <2>1. list' = list /\ Linked' = Linked /\ ~Good' /\ "drain" \in hist'
        BY <1>4 DEF Unlink, Linked, Queued, Good
  <2>2. OneAtATime'
        BY <1>1, <1>2, <1>4, <2>1 DEF OInv, Ordered, OneAtATime, Linked
  <2>3. HeadInv'
        BY <2>1 DEF OInv, Ordered, HeadInv
  <2> QED
      BY <1>3, <2>1, <2>2, <2>3
      DEF Ordered, PushInv, WorkPushInv, BothInv, UrbLive, DevLive, DoneInv
<1>5. CASE s \in Linked
  <2>1. list' = Without(s) /\ Linked' = Linked \ {s}
        BY <1>1, <1>5, WithoutFacts DEF Unlink
  <2>2. OneAtATime' /\ (list[1] # s => list'[1] = list[1])
        BY <1>2, <1>5, <2>1, UnlinkOrder
  <2>3. HeadInv'
        BY <2>1, <2>2 DEF OInv, Ordered, HeadInv
  <2>4. DoneInv'
        BY <1>1, <1>2, <2>1 DEF OInv, Ordered, DoneInv
  <2>5. CASE ~Good'
        BY <1>3, <2>2, <2>3, <2>4, <2>5
        DEF Ordered, PushInv, WorkPushInv, BothInv, UrbLive, DevLive
  <2>6. CASE Good'
    <3>1. Good /\ done[s] /\ "WAIT_CFM" \notin flags[s]
          BY <1>5, <2>6 DEF Good, OInv, Ordered, DoneInv
    <3>2. \A r : Live(r) => r.slot # s
          BY <3>1 DEF Live
    <3>3. /\ device' = device /\ (Out(urb)' => urb' = urb) /\ (Out(buf)' => buf' = buf)
          BY <3>1, <3>2, FreeCalm
    <3>4. \A r : Live(r) => Live(r)'
          BY <1>1, <1>2, <2>1, <3>2 DEF Live
    <3>5. UrbLive' /\ DevLive'
          BY <3>1, <3>3, <3>4 DEF OInv, Ordered, UrbLive, DevLive
    <3>6. PushInv' /\ BothInv' /\ WorkPushInv'
      <4>1. wpc = "push" => wcur \in Slots
            BY <1>1 DEF IInv, WorkerInv, Owned
      <4> QED
          BY <1>1, <1>2, <2>1, <3>1, <4>1 DEF OInv, Ordered, PushInv, BothInv, WorkPushInv
    <3> QED
        BY <1>3, <2>2, <2>3, <2>4, <3>5, <3>6 DEF Ordered
  <2> QED
      BY <2>5, <2>6
<1> QED
    BY <1>4, <1>5

(* By its caller, which a kill may have ended, or by the worker. *)
LEMMA FinishOrder ==
  ASSUME OInv, (\E s \in Slots : Finish(s)) \/ WorkFinish
  PROVE  Ordered'
<1> USE DEF workVars, Goto, WorkGoto
<1>1. IInv /\ pc \in [Slots -> PCs] /\ hist \subseteq {"kill", "drain", "plain"}
      BY DEF OInv, IInv, TypeOK
<1>2. ASSUME NEW s \in Slots, Finish(s) PROVE Ordered'
  <2>1. /\ Queued(s) /\ Unlink(s) /\ Free(s, FALSE) /\ pc' = [pc EXCEPT ![s] = "leave"]
        /\ state' = state /\ wpc' = wpc /\ wcur' = wcur /\ pc[s] = "wait"
        BY <1>1, <1>2 DEF Finish, IInv, CallerInv
  <2>2. /\ hist \subseteq hist' /\ ("drain" \in hist' => "drain" \in hist)
        /\ "kill" \notin hist' => done[s]
        BY <1>2 DEF Finish
  <2>3. wpc = "push" => wcur # s
        BY <1>1, <2>1 DEF IInv, WorkerInv, Owned, Away
  <2> QED
      BY <1>1, <2>1, <2>2, <2>3, UnlinkedOrder
<1>3. ASSUME WorkFinish PROVE Ordered'
  <2>1. /\ wcur \in Slots /\ Queued(wcur) /\ Unlink(wcur) /\ Free(wcur, FALSE)
        /\ pc' = pc /\ pc[wcur] # "push" /\ state' = state /\ hist' = hist
        /\ done[wcur] /\ wpc' # "push"
        BY <1>1, <1>3 DEF WorkFinish, IInv, WorkerInv, Owned, Away
  <2> QED
      BY <2>1, UnlinkedOrder
<1> QED
    BY <1>2, <1>3

(* The URB is done. *)
LEMMA UrbDoneOrder ==
  ASSUME OInv, UrbDone
  PROVE  Ordered'
<1> USE DEF mgrVars, slotVars, workVars, histVars
<1>1. /\ device \in Seq(Requests) /\ NoRequest \notin Requests
      /\ urb \in Requests /\ buf \in Requests
      BY SlotsAssumption DEF OInv, IInv, TypeOK, UsbInv, NoRequest, Requests, UrbDone
<1>2. /\ list' = list /\ Linked' = Linked /\ flags' = flags /\ kind' = kind /\ pc' = pc
      /\ done' = done /\ state' = state /\ hist' = hist /\ harm' = harm
      /\ wpc' = wpc /\ wcur' = wcur /\ ~Out(urb)' /\ ~Out(buf)' /\ (Good' <=> Good)
      BY <1>1 DEF UrbDone, Linked, Out, Good
<1>3. \A r : Live(r) => Live(r)'
      BY <1>2 DEF Live
<1>4. DevLive'
  <2>1. PICK r \in {urb, buf} :
           device' = IF r.kind = "plain" THEN device ELSE Append(device, r)
        BY DEF UrbDone
  <2>2. CASE r.kind = "plain"
        BY <1>2, <1>3, <2>1, <2>2 DEF OInv, Ordered, DevLive
  <2>3. CASE r.kind # "plain" /\ Good
    <3>1. Out(r) /\ Live(r) /\ device = <<>>
          BY <1>1, <2>3 DEF OInv, Ordered, DevLive, UrbLive, Out
    <3>2. device' = <<r>>
          BY <1>1, <2>1, <2>3, <3>1
    <3> QED
        BY <1>2, <1>3, <3>1, <3>2 DEF DevLive
  <2> QED
      BY <1>2, <2>2, <2>3 DEF DevLive
<1> QED
    BY <1>2, <1>4
    DEF OInv, Ordered, OneAtATime, HeadInv, PushInv, WorkPushInv, BothInv, UrbLive,
        DoneInv, OwnAnswer

(* While all is well an answer is for the command it is taken for. *)
LEMMA AnswerTo ==
  ASSUME OInv, Good, device # <<>>, NEW i \in DOMAIN list, Matches(Head(device), i)
  PROVE  /\ Len(device) = 1 /\ Live(Head(device)) /\ ~Out(urb) /\ ~Out(buf)
         /\ Head(device).slot = list[i]
<1> DEFINE r == Head(device)
<1>1. list \in Seq(Slots) /\ device \in Seq(Requests)
      BY DEF OInv, IInv, TypeOK
<1>2. Len(device) = 1 /\ Live(r) /\ ~Out(urb) /\ ~Out(buf)
      BY <1>1 DEF OInv, Ordered, DevLive
<1>3. PICK k \in DOMAIN list : list[k] = r.slot
      BY <1>2 DEF Live, Linked
<1>4. ~(i < k)
      BY <1>2, <1>3 DEF OInv, Ordered, OneAtATime, Live, Matches
<1>5. ~(k < i)
  <2>1. kind[list[k]] = r.kind /\ "WAIT_CFM" \in flags[list[k]]
        BY <1>2, <1>3 DEF Live
  <2>2. \A j \in 1..i-1 : ~(kind[list[j]] = r.kind /\ "WAIT_CFM" \in flags[list[j]])
        BY DEF Matches
  <2> QED
      BY <1>1, <2>1, <2>2
<1> QED
    BY <1>1, <1>2, <1>3, <1>4, <1>5

(* An answer is taken for that to its own command. *)
LEMMA AnswerOrder ==
  ASSUME OInv, Answer
  PROVE  Ordered'
<1> USE DEF workVars
<1>1. /\ flags \in [Slots -> SUBSET Flags] /\ done \in [Slots -> BOOLEAN]
      /\ list \in Seq(Slots) /\ device \in Seq(Requests)
      /\ Linked \subseteq Slots /\ IInv /\ device # <<>>
      BY DEF OInv, IInv, TypeOK, Linked, Answer
<1>2. /\ list' = list /\ Linked' = Linked /\ kind' = kind /\ pc' = pc /\ state' = state
      /\ hist' = hist /\ wpc' = wpc /\ wcur' = wcur /\ urb' = urb /\ buf' = buf
      /\ device' = Tail(device) /\ (Good' <=> Good)
      BY DEF Answer, Linked, Good
<1> DEFINE r == Head(device)
<1>3. ASSUME NEW i \in DOMAIN list, Confirm(r, i)
      PROVE  Ordered'
  <2> DEFINE c == list[i]
  <2>1. /\ c \in Slots /\ c \in Linked /\ "WAIT_CFM" \in flags[c] /\ kind[c] = r.kind
        BY <1>1, <1>3 DEF Confirm, Matches, Linked
  <2>2. /\ flags' = [flags EXCEPT ![c] = (flags[c] \ {"WAIT_CFM"}) \cup {"DONE"}]
        /\ done' = [done EXCEPT ![c] = TRUE]
        BY <1>3, Zenon DEF Confirm
  <2>3. \A t \in Slots :
           /\ "WAIT_CFM" \in flags'[t] <=> "WAIT_CFM" \in flags[t] /\ t # c
           /\ "WAIT_PUSH" \in flags'[t] <=> "WAIT_PUSH" \in flags[t]
           /\ t # c => done'[t] = done[t]
    <3> HIDE DEF c
    <3> QED
        BY ONLY <1>1, <2>1, <2>2
  <2>4. OneAtATime' /\ HeadInv' /\ DoneInv'
    <3>1. OneAtATime'
          BY <1>1, <1>2, <2>3, OrderKept DEF OInv, Ordered
    <3>2. HeadInv' /\ DoneInv'
          BY <1>1, <1>2, <2>3 DEF OInv, Ordered, HeadInv, DoneInv
    <3> QED
        BY <3>1, <3>2
  <2>5. CASE ~Good
    <3>1. OwnAnswer'
          BY <1>2, <2>5 DEF OwnAnswer, Good, Answer
    <3> QED
        BY <1>2, <2>4, <2>5, <3>1
        DEF Ordered, PushInv, WorkPushInv, BothInv, UrbLive, DevLive
  <2>6. CASE Good
    <3>1. Len(device) = 1 /\ Live(r) /\ ~Out(urb) /\ ~Out(buf)
          BY <1>1, <1>3, <2>6, AnswerTo DEF Confirm
    <3>2. r.slot = c
          BY <1>1, <1>3, <2>6, AnswerTo DEF Confirm
    <3>3. harm' = harm
          BY <1>3, <3>1, <3>2 DEF Confirm, Live
    <3>4. device' = <<>> /\ "WAIT_PUSH" \notin flags[c] /\ pc[c] # "push"
          BY <1>1, <1>2, <3>1, <3>2 DEF Live
    <3>5. UrbLive' /\ DevLive'
          BY <1>2, <3>1, <3>4 DEF UrbLive, DevLive, Out
    <3>6. PushInv' /\ BothInv'
          BY <1>1, <1>2, <2>3, <3>4 DEF OInv, Ordered, PushInv, BothInv
    <3>7. WorkPushInv'
      <4>1. wpc = "push" => wcur \in Slots
            BY <1>1 DEF IInv, WorkerInv, Owned
      <4> QED
          BY <1>1, <1>2, <2>3, <3>4, <4>1 DEF OInv, Ordered, WorkPushInv
    <3>8. OwnAnswer'
          BY <1>2, <3>3 DEF OInv, Ordered, OwnAnswer
    <3> QED
        BY <2>4, <3>5, <3>6, <3>7, <3>8 DEF Ordered
  <2> QED
      BY <2>5, <2>6
<1>4. ASSUME \A i \in DOMAIN list : ~Matches(r, i), UNCHANGED <<flags, done, harm>>
      PROVE  Ordered'
  <2>1. OwnAnswer'
        BY <1>2, <1>4, OwnKept
  <2>2. CASE ~Good
        BY <1>1, <1>2, <1>4, <2>1, <2>2, Calm DEF Answer
  <2>3. ASSUME Good PROVE FALSE
    <3>1. Live(r)
          BY <1>1, <2>3 DEF OInv, Ordered, DevLive
    <3>2. PICK k \in DOMAIN list : list[k] = r.slot
          BY <3>1 DEF Live, Linked
    <3>3. PICK j \in DOMAIN list : j < k /\ "WAIT_CFM" \in flags[list[j]]
          BY <1>1, <1>4, <3>1, <3>2 DEF Matches, Live
    <3> QED
        BY <3>1, <3>2, <3>3 DEF OInv, Ordered, OneAtATime, Live
  <2> QED
      BY <2>2, <2>3
<1> QED
    BY <1>3, <1>4, Zenon DEF Answer

(* The drain leaves nothing to be ordered. *)
LEMMA DrainOrder ==
  ASSUME OInv, Drain
  PROVE  Ordered'
<1>1. list' = <<>> /\ Linked' = {} /\ ~Good' /\ "drain" \in hist' /\ harm' = harm
      BY DEF Drain, Linked, Good
<1>2. OwnAnswer'
      BY <1>1, OwnKept DEF Drain
<1>3. OneAtATime' /\ HeadInv'
      BY <1>1 DEF OneAtATime, HeadInv
<1> QED
    BY <1>1, <1>2, <1>3
    DEF Ordered, PushInv, WorkPushInv, BothInv, UrbLive, DevLive, DoneInv

-----------------------------------------------------------------------------
(* The theorems *)

(* The order holds at first. *)
LEMMA InitOrder == Init => OInv
<1> SUFFICES ASSUME Init PROVE OInv
    OBVIOUS
<1>1. Linked = {} /\ urb = NoRequest /\ buf = NoRequest /\ NoRequest \notin Requests
      BY SlotsAssumption DEF Init, Linked, NoRequest, Requests
<1> QED
    BY <1>1, InitInv
    DEF Init, OInv, Ordered, OneAtATime, HeadInv, PushInv, WorkPushInv, BothInv,
        UrbLive, DevLive, DoneInv, OwnAnswer, Out

(* Every step keeps it. *)
LEMMA NextOrder == OInv /\ [Next]_vars => OInv'
<1> SUFFICES ASSUME OInv, [Next]_vars PROVE OInv'
    OBVIOUS
<1>1. IInv'
      BY NextInv DEF OInv
<1>2. ASSUME NEW s \in Slots, (\E k \in Kinds : Send(s, k)) \/ Caller(s) PROVE Ordered'
  <2>1. CASE (\E k \in Kinds : Send(s, k)) \/ Reject(s) \/ Failed(s)
        BY <2>1, CallerSlots
  <2>2. CASE Link(s) \/ Push(s) \/ Finish(s)
        BY <2>2, LinkOrder, PushOrder, FinishOrder
  <2>3. CASE Wake(s) \/ Pushed(s) \/ PushTimeout(s) \/ Leave(s) \/ Expire(s) \/ GiveUp(s)
        BY <2>3, CalmSteps
  <2> QED
      BY <1>2, <2>1, <2>2, <2>3 DEF Caller
<1>3. ASSUME Worker PROVE Ordered'
  <2>1. CASE WorkStart \/ WorkPushed \/ WorkPushTimeout \/ WorkExpire \/ WorkGiveUp
        BY <2>1, CalmSteps
  <2> QED
      BY <1>3, <2>1, ScanOrder, WorkPushOrder, FinishOrder DEF Worker
<1>4. ASSUME Unplug \/ Deinit \/ UNCHANGED vars PROVE Ordered'
      BY <1>4, CalmSteps
<1>5. Ordered'
      BY <1>2, <1>3, <1>4, UrbDoneOrder, AnswerOrder, DrainOrder DEF Next
<1> QED
    BY <1>1, <1>5 DEF OInv

(* The order is an invariant. *)
THEOREM OrderInvariance == Spec => []OInv
<1> QED
    BY InitOrder, NextOrder, PTL DEF Spec

(* Callers and worker together keep one command under way, without a lock  *)
(* around their pushes.                                                    *)
THEOREM SendsOneAtATime == Spec => []OneAtATime
<1>1. OInv => OneAtATime
      BY DEF OInv, Ordered
<1> QED
    BY <1>1, OrderInvariance, PTL

(* No command is confirmed by the answer to another one before a kill or a *)
(* time-out.                                                               *)
THEOREM AnswersAreOwn == Spec => []OwnAnswer
<1>1. OInv => OwnAnswer
      BY DEF OInv, Ordered
<1> QED
    BY <1>1, OrderInvariance, PTL

-----------------------------------------------------------------------------
(* The refinement *)

(* The queue of the abstract specification, and what becomes of it. *)
Waits(s) == "WAIT_CFM" \in flags[s]
Queue == [i \in DOMAIN list |-> [cmd |-> list[i], waiting |-> Waits(list[i])]]

(* Nobody was killed and nothing was unplugged. *)
NoFault == hist \cap {"kill", "drain"} = {} /\ usb = "up"

(* The confirmation of one entry, or the loss of its slot. *)
LEMMA QueueMark ==
  ASSUME TypeOK, Inj, list' = list, NEW p \in DOMAIN list, Waits(list[p])' = FALSE,
         \A i \in DOMAIN list : list[i] # list[p] => (Waits(list[i])' = Waits(list[i]))
  PROVE  Queue' = [Queue EXCEPT ![p].waiting = FALSE]
<1> DEFINE R == [Queue EXCEPT ![p].waiting = FALSE]
<1>1. DOMAIN Queue' = DOMAIN list /\ DOMAIN R = DOMAIN list
      BY DEF Queue
<1>2. \A i \in DOMAIN list : Queue'[i] = R[i]
  <2> TAKE i \in DOMAIN list
  <2>1. CASE i = p
        BY <2>1 DEF Queue
  <2>2. CASE i # p
    <3>1. list[i] # list[p]
          BY <2>2 DEF Inj
    <3> QED
        BY <2>2, <3>1 DEF Queue
  <2> QED
      BY <2>1, <2>2
<1> QED
    BY <1>1, <1>2 DEF Queue

(* A command comes to the end. *)
LEMMA QueueAppend ==
  ASSUME TypeOK, NEW s, list' = Append(list, s), Waits(s)' = TRUE,
         \A i \in DOMAIN list : Waits(list[i])' = Waits(list[i])
  PROVE  Queue' = Append(Queue, [cmd |-> s, waiting |-> TRUE])
<1>1. list \in Seq(Slots) /\ DOMAIN list = 1..Len(list) /\ Len(list) \in Nat
      BY DEF TypeOK
<1>2. /\ DOMAIN list' = 1..Len(list) + 1 /\ list'[Len(list) + 1] = s
      /\ \A i \in 1..Len(list) : list'[i] = list[i]
      BY <1>1
<1> DEFINE R == Append(Queue, [cmd |-> s, waiting |-> TRUE])
           q == [i \in 1..Len(list) |-> [cmd |-> list[i], waiting |-> Waits(list[i])]]
<1>3. Queue = q /\ Len(q) = Len(list)
      BY <1>1 DEF Queue
<1>4. R = [i \in 1..Len(list) + 1 |->
             IF i \in 1..Len(list) THEN q[i] ELSE [cmd |-> s, waiting |-> TRUE]]
      BY <1>1, <1>3
<1>5. Queue' = [i \in 1..Len(list) + 1 |-> [cmd |-> list'[i], waiting |-> Waits(list[i])']]
      BY <1>2 DEF Queue
<1>6. \A i \in 1..Len(list) + 1 : Queue'[i] = R[i]
  <2> TAKE i \in 1..Len(list) + 1
  <2>1. CASE i \in 1..Len(list)
        BY <1>1, <1>2, <1>4, <1>5, <2>1
  <2>2. CASE i = Len(list) + 1
        BY <1>1, <1>2, <1>4, <1>5, <2>2, ZenonT(60)
  <2>3. i \in 1..Len(list) \/ i = Len(list) + 1
        BY <1>1
  <2> QED
      BY <2>1, <2>2, <2>3, Zenon
<1> QED
    BY <1>4, <1>5, <1>6

(* A command leaves from its place. *)
LEMMA QueueWithout ==
  ASSUME TypeOK, Inj, NEW s \in Linked, list' = Without(s),
         \A t \in Slots \ {s} : Waits(t)' = Waits(t)
  PROVE  \E p \in DOMAIN list :
            /\ list[p] = s
            /\ Queue' = [j \in 1..Len(list) - 1 |-> IF j < p THEN Queue[j] ELSE Queue[j + 1]]
<1> DEFINE p == CHOOSE i \in DOMAIN list : list[i] = s
<1>1. p \in DOMAIN list /\ list[p] = s
      BY DEF Linked
<1>2. list \in Seq(Slots) /\ DOMAIN list = 1..Len(list) /\ Len(list) \in Nat
      BY DEF TypeOK
<1>3. list' = [j \in 1..Len(list) - 1 |-> IF j < p THEN list[j] ELSE list[j + 1]]
      BY DEF Without
<1> HIDE DEF p
<1>4. Queue' = [j \in 1..Len(list) - 1 |-> [cmd |-> list'[j], waiting |-> Waits(list[j])']]
      BY <1>1, <1>2, <1>3 DEF Queue
<1>5. \A j \in 1..Len(list) - 1 :
         [cmd |-> list'[j], waiting |-> Waits(list[j])'] =
            IF j < p THEN Queue[j] ELSE Queue[j + 1]
  <2> TAKE j \in 1..Len(list) - 1
  <2>1. CASE j < p
    <3>1. list'[j] = list[j] /\ j \in DOMAIN list /\ list[j] # s
          BY <1>1, <1>2, <1>3, <2>1 DEF Inj
    <3>2. list[j] \in Slots \ {s}
          BY <1>2, <3>1
    <3>3. Waits(list[j])' = Waits(list[j])
          BY <3>1, <3>2
    <3>4. Queue[j] = [cmd |-> list[j], waiting |-> Waits(list[j])]
          BY <3>1 DEF Queue
    <3> QED
        BY ONLY <2>1, <3>1, <3>3, <3>4
  <2>2. CASE ~(j < p)
    <3>1. list'[j] = list[j + 1] /\ j + 1 \in DOMAIN list /\ list[j + 1] # s
          BY <1>1, <1>2, <1>3, <2>2 DEF Inj
    <3>2. list[j + 1] \in Slots \ {s}
          BY <1>2, <3>1
    <3>3. Waits(list[j])' = Waits(list[j + 1])
          BY <3>1, <3>2
    <3>4. Queue[j + 1] = [cmd |-> list[j + 1], waiting |-> Waits(list[j + 1])]
          BY <3>1 DEF Queue
    <3> QED
        BY ONLY <2>2, <3>1, <3>3, <3>4
  <2> QED
      BY <2>1, <2>2
<1>6. Queue' = [j \in 1..Len(list) - 1 |-> IF j < p THEN Queue[j] ELSE Queue[j + 1]]
      BY <1>4, <1>5
<1> QED
    BY <1>1, <1>6

(* A step that changes neither the queue nor the state. *)
LEMMA FifoSame ==
  ASSUME list' = list, (state' = "inited" <=> state = "inited"),
         \A i \in DOMAIN list : Waits(list[i])' = Waits(list[i])
  PROVE  UNCHANGED Fifo!vars
<1>1. Queue' = Queue
      BY DEF Queue
<1> QED
    BY <1>1 DEF Queue, Waits, Fifo!vars

(* A time-out breaks the manager. *)
LEMMA FifoCrash ==
  ASSUME TypeOK, NEW s \in Slots, Crash(s)
  PROVE  [Fifo!Next]_(Fifo!vars)
<1>1. /\ list' = list /\ state' = "crashed"
      /\ flags' = [flags EXCEPT ![s] = @ \cup {"DONE"}]
      BY DEF Crash
<1>2. \A i \in DOMAIN list : list[i] \in Slots
      BY DEF TypeOK
<1>3. \A t \in Slots : Waits(t)' = Waits(t)
      BY <1>1 DEF TypeOK, Waits
<1>4. Queue' = Queue
      BY <1>1, <1>2, <1>3 DEF Queue
<1>5. CASE state = "inited"
      BY <1>1, <1>4, <1>5 DEF Queue, Waits, Fifo!Break, Fifo!Next
<1>6. CASE state # "inited"
      BY <1>1, <1>4, <1>6 DEF Queue, Waits, Fifo!vars
<1> QED
    BY <1>5, <1>6

(* A slot that is freed is not queued, or the manager is broken.           *)
LEMMA FifoFree ==
  ASSUME OInv, NoFault, NEW s \in Slots, Reject(s) \/ Failed(s)
  PROVE  [Fifo!Next]_(Fifo!vars)
<1>1. /\ list' = list /\ state' = state /\ pc[s] \in {"queue", "fail"}
      /\ flags' = [flags EXCEPT ![s] = {}]
      BY DEF Reject, Failed, Free, Freed, mgrVars
<1>2. TypeOK /\ Inj /\ \A i \in DOMAIN list : list[i] \in Slots
      BY DEF OInv, IInv, TypeOK
<1>3. /\ \A t \in Slots \ {s} : Waits(t)' = Waits(t)
      /\ Waits(s)' = FALSE
      BY <1>1, <1>2 DEF TypeOK, Waits
<1>4. CASE s \notin Linked
      BY <1>1, <1>2, <1>3, <1>4, FifoSame DEF Linked
<1>5. CASE s \in Linked
  <2>1. state # "inited"
        BY <1>1, <1>5 DEF OInv, IInv, LiveInv, Away, Owned
  <2>2. PICK p \in DOMAIN list : list[p] = s
        BY <1>5 DEF Linked
  <2>3. Queue' = [Queue EXCEPT ![p].waiting = FALSE] /\ p \in DOMAIN Queue
    <3>1. \A i \in DOMAIN list : list[i] # list[p] => Waits(list[i])' = Waits(list[i])
          BY <1>1, <1>2, <1>3, <2>2
    <3>2. Waits(list[p])' = FALSE
          BY <1>1, <1>3, <2>2
    <3>3. DOMAIN Queue = DOMAIN list
          BY DEF Queue
    <3> QED
        BY <1>1, <1>2, <3>1, <3>2, <3>3, QueueMark
  <2>4. Fifo!GiveUp(p)
        BY <1>1, <2>1, <2>3 DEF Fifo!GiveUp, Queue, Waits
  <2> QED
      BY <2>3, <2>4 DEF Fifo!Next, Queue, Waits
<1> QED
    BY <1>4, <1>5

(* A command is accepted. *)
LEMMA FifoAccept ==
  ASSUME OInv, NEW s \in Slots, Link(s)
  PROVE  Fifo!Next
<1>1. TypeOK /\ Inj /\ \A i \in DOMAIN list : list[i] \in Slots
      BY DEF OInv, IInv, TypeOK
<1>2. s \notin Linked
      BY DEF OInv, IInv, LiveInv, Away, Owned, Link
<1>3. /\ list' = Append(list, s) /\ state = "inited" /\ state' = state
      /\ flags' = [flags EXCEPT ![s] =
                     @ \cup {"WAIT_CFM"} \cup IF Defers(s) THEN {"WAIT_PUSH"} ELSE {}]
      BY DEF Link
<1>4. Waits(s)' = TRUE /\ \A t \in Slots \ {s} : Waits(t)' = Waits(t)
      BY <1>1, <1>3 DEF TypeOK, Waits
<1>5. \A i \in DOMAIN list : Waits(list[i])' = Waits(list[i])
  <2>1. \A i \in DOMAIN list : list'[i] = list[i] /\ list[i] \in Slots \ {s}
        BY <1>1, <1>2, <1>3 DEF TypeOK, Linked
  <2> QED
      BY <1>4, <2>1
<1>6. Queue' = Append(Queue, [cmd |-> s, waiting |-> TRUE])
      BY <1>1, <1>3, <1>4, <1>5, QueueAppend
<1> QED
    BY <1>3, <1>6 DEF Fifo!Accept, Fifo!Next, Queue, Waits

(* A command that was confirmed is retired. *)
LEMMA FifoRetire ==
  ASSUME OInv, NoFault, NEW s \in Slots, s \in Linked, done[s], list' = Without(s),
         flags' = [flags EXCEPT ![s] = {}], state' = state
  PROVE  Fifo!Next
<1>1. TypeOK /\ Inj /\ \A i \in DOMAIN list : list[i] \in Slots
      BY DEF OInv, IInv, TypeOK
<1>2. ~Waits(s)
      BY DEF OInv, Ordered, DoneInv, NoFault, Waits
<1>3. \A t \in Slots \ {s} : Waits(t)' = Waits(t)
      BY <1>1 DEF TypeOK, Waits
<1>4. PICK p \in DOMAIN list :
         /\ list[p] = s
         /\ Queue' = [j \in 1..Len(list) - 1 |-> IF j < p THEN Queue[j] ELSE Queue[j + 1]]
      BY <1>1, <1>3, QueueWithout
<1>5. Len(Queue) = Len(list) /\ p \in DOMAIN Queue /\ Queue[p].waiting = FALSE
      BY <1>1, <1>2, <1>4 DEF Queue, TypeOK
<1>6. Fifo!Retire(p)
      BY <1>4, <1>5 DEF Fifo!Retire, Queue, Waits
<1> QED
    BY <1>5, <1>6 DEF Fifo!Next, Queue, Waits

(* An answer confirms the first command that waits, or finds a broken      *)
(* manager.                                                                *)
LEMMA FifoAnswer ==
  ASSUME OInv, NoFault, Answer
  PROVE  [Fifo!Next]_(Fifo!vars)
<1>1. TypeOK /\ Inj /\ list' = list /\ state' = state /\ device # <<>>
      /\ \A i \in DOMAIN list : list[i] \in Slots
      BY DEF OInv, IInv, TypeOK, Answer
<1>2. CASE UNCHANGED flags
      BY <1>1, <1>2, FifoSame DEF Waits
<1>3. ASSUME NEW p \in DOMAIN list, Confirm(Head(device), p) PROVE Fifo!Next
  <2> DEFINE c == list[p]
  <2>1. c \in Slots /\ Waits(c) /\ Matches(Head(device), p)
        BY <1>1, <1>3 DEF Confirm, Matches, Waits
  <2>2. flags' = [flags EXCEPT ![c] = (flags[c] \ {"WAIT_CFM"}) \cup {"DONE"}]
        BY <1>3, Zenon DEF Confirm
  <2>3. ~Waits(c)' /\ \A t \in Slots \ {c} : Waits(t)' = Waits(t)
    <3>1. "WAIT_CFM" \notin flags'[c] /\ \A t \in Slots \ {c} : flags'[t] = flags[t]
      <4> HIDE DEF c
      <4> QED
          BY <1>1, <2>1, <2>2 DEF TypeOK
    <3> QED
        BY <1>1, <3>1 DEF Waits
  <2>4. Queue' = [Queue EXCEPT ![p].waiting = FALSE]
    <3>1. \A i \in DOMAIN list : list[i] # list[p] => Waits(list[i])' = Waits(list[i])
          BY <1>1, <2>3
    <3>2. Waits(list[p])' = FALSE
          BY <1>1, <2>3
    <3> QED
        BY <1>1, <3>1, <3>2, QueueMark
  <2>5. DOMAIN Queue = DOMAIN list /\ \A i \in DOMAIN list : Queue[i].waiting = Waits(list[i])
        BY DEF Queue
  <2>6. CASE state # "inited"
    <3>1. Fifo!GiveUp(p)
          BY <1>1, <2>4, <2>5, <2>6 DEF Fifo!GiveUp, Queue, Waits
    <3> QED
        BY <2>5, <3>1 DEF Fifo!Next, Queue, Waits
  <2>7. CASE state = "inited"
    <3>1. "WAIT_PUSH" \notin flags[c]
          BY <1>1, <2>1, <2>7, AnswerTo DEF Good, NoFault, Live
    <3>2. \A j \in 1..p - 1 : ~Waits(list[j])
          BY <1>1, <3>1 DEF OInv, Ordered, OneAtATime, Waits, TypeOK
    <3>3. \A j \in 1..p - 1 : j \in DOMAIN list
          BY <1>1 DEF TypeOK
    <3>4. \A j \in 1..p - 1 : ~Queue[j].waiting
          BY <2>5, <3>2, <3>3
    <3>5. Queue[p].waiting
          BY <2>1, <2>5
    <3>6. Fifo!Confirm(p)
          BY <1>1, <2>4, <2>5, <3>4, <3>5 DEF Fifo!Confirm, Queue, Waits
    <3> QED
        BY <2>5, <3>6 DEF Fifo!Next, Queue, Waits
  <2> QED
      BY <2>6, <2>7
<1> QED
    BY <1>2, <1>3 DEF Answer

(* Every step of the manager is one of the abstract queue, or none.        *)
LEMMA FifoStep ==
  ASSUME OInv, NoFault, [Next]_vars, ~MayKill, ~MayUnplug
  PROVE  [Fifo!Next]_(Fifo!vars)
<1> USE DEF mgrVars, slotVars, workVars, usbVars, histVars
<1>1. /\ IInv /\ TypeOK /\ flags \in [Slots -> SUBSET Flags]
      /\ \A i \in DOMAIN list : list[i] \in Slots
      BY DEF OInv, IInv, TypeOK
<1>2. ASSUME UNCHANGED <<list, state, flags>> PROVE UNCHANGED Fifo!vars
      BY <1>2, FifoSame DEF Waits
<1>3. ASSUME NEW s \in Slots, NEW k \in Kinds, Send(s, k) PROVE UNCHANGED Fifo!vars
  <2>1. list' = list /\ state' = state
        BY <1>3 DEF Send
  <2>2. \A t \in Slots : Waits(t)' = Waits(t)
        BY <1>1, <1>3 DEF Send, Waits
  <2> QED
      BY <1>1, <2>1, <2>2, FifoSame
<1>4. ASSUME NEW s \in Slots, Caller(s) PROVE [Fifo!Next]_(Fifo!vars)
  <2>1. CASE Reject(s) \/ Failed(s)
        BY <2>1, FifoFree
  <2>2. CASE Link(s)
        BY <2>2, FifoAccept
  <2>3. CASE Finish(s)
    <3>1. /\ s \in Linked /\ flags' = [flags EXCEPT ![s] = {}] /\ state' = state
          /\ list' = Without(s)
          BY <1>1, <2>3
          DEF Finish, Unlink, Free, Freed, IInv, CallerInv, Queued, NoFault
    <3>2. CASE done[s]
          BY <3>1, <3>2, FifoRetire
    <3>3. CASE ~done[s] /\ MayKill
          BY <2>3, <3>3 DEF Finish
    <3> QED
        BY <2>3, <3>2, <3>3 DEF Finish
  <2>4. CASE GiveUp(s)
        BY <1>1, <2>4, FifoCrash DEF GiveUp
  <2>5. CASE Wake(s) \/ Push(s) \/ Pushed(s) \/ PushTimeout(s) \/ Leave(s) \/ Expire(s)
        BY <1>2, <2>5 DEF Wake, Push, Pushed, PushTimeout, Leave, Expire
  <2> QED
      BY <1>4, <2>1, <2>2, <2>3, <2>4, <2>5 DEF Caller
<1>5. ASSUME Worker PROVE [Fifo!Next]_(Fifo!vars)
  <2>1. CASE WorkFinish
    <3>1. /\ wcur \in Slots /\ wcur \in Linked /\ flags' = [flags EXCEPT ![wcur] = {}]
          /\ state' = state /\ list' = Without(wcur) /\ done[wcur]
          BY <1>1, <2>1
          DEF WorkFinish, Unlink, Free, Freed, IInv, WorkerInv, Owned, Queued, NoFault
    <3> QED
        BY <3>1, FifoRetire
  <2>2. CASE WorkGiveUp
    <3>1. wcur \in Slots /\ Crash(wcur)
          BY <1>1, <2>2 DEF WorkGiveUp, IInv, WorkerInv, Owned
    <3> QED
        BY <1>1, <3>1, FifoCrash
  <2>3. CASE WorkPush
    <3>1. list' = list /\ state' = state /\ wcur \in Slots
          /\ flags' = [flags EXCEPT ![wcur] = @ \ {"WAIT_PUSH"}]
          BY <1>1, <2>3 DEF WorkPush, IInv, WorkerInv, Owned
    <3>2. \A t \in Slots : Waits(t)' = Waits(t)
          BY <1>1, <3>1 DEF Waits
    <3> QED
        BY <1>1, <3>1, <3>2, FifoSame
  <2>4. CASE WorkStart \/ WorkScan \/ WorkPushed \/ WorkPushTimeout \/ WorkExpire
        BY <1>2, <2>4 DEF WorkStart, WorkScan, WorkPushed, WorkPushTimeout, WorkExpire
  <2> QED
      BY <1>5, <2>1, <2>2, <2>3, <2>4 DEF Worker
<1>6. ASSUME UrbDone \/ UNCHANGED vars PROVE UNCHANGED Fifo!vars
      BY <1>2, <1>6 DEF UrbDone, vars
<1>7. ~(Unplug \/ Drain \/ Deinit)
      BY DEF NoFault, Unplug, Drain, Deinit
<1> QED
    BY <1>3, <1>4, <1>5, <1>6, <1>7, FifoAnswer DEF Next

(* Without kills and disconnects the manager implements the abstract       *)
(* queue: it confirms commands in the order in which it accepted them,     *)
(* retires none unconfirmed, and accepts none after a time-out.            *)
THEOREM ImplementsFifo == ~MayKill /\ ~MayUnplug => (Spec => FifoSpec)
<1> SUFFICES ASSUME ~MayKill, ~MayUnplug PROVE Spec => FifoSpec
    OBVIOUS
<1>1. Init => Fifo!Init /\ NoFault
  <2>1. Init => Queue = <<>>
        BY DEF Init, Queue
  <2> QED
      BY <2>1 DEF Init, Fifo!Init, NoFault, Queue, Waits
<1>2. NoFault /\ [Next]_vars => NoFault'
  <2> SUFFICES ASSUME NoFault, [Next]_vars PROVE NoFault'
      OBVIOUS
  <2> USE DEF mgrVars, slotVars, workVars, usbVars, histVars, NoFault
  <2>1. ASSUME NEW s \in Slots, (\E k \in Kinds : Send(s, k)) \/ Caller(s) PROVE NoFault'
        BY <2>1
        DEF Send, Caller, Reject, Link, Wake, Push, Transmit, NoTransmit, Pushed,
            PushTimeout, Finish, Leave, Expire, GiveUp, Failed
  <2>2. ASSUME Worker PROVE NoFault'
        BY <2>2
        DEF Worker, WorkStart, WorkScan, WorkPush, Transmit, NoTransmit, WorkPushed,
            WorkPushTimeout, WorkFinish, WorkExpire, WorkGiveUp
  <2> QED
      BY <2>1, <2>2 DEF Next, UrbDone, Answer, Unplug, Drain, Deinit, vars
<1>3. OInv /\ NoFault /\ [Next]_vars => [Fifo!Next]_(Fifo!vars)
      BY FifoStep
<1> QED
    BY <1>1, <1>2, <1>3, OrderInvariance, PTL DEF Spec, FifoSpec, Fifo!Spec
=============================================================================
