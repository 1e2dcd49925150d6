---------------------------- MODULE CommandFifo ----------------------------
(***************************************************************************)
(* What a command manager promises: commands are confirmed one after the   *)
(* other in the order in which they were accepted, a command leaves the    *)
(* queue only after it was confirmed, and a broken manager accepts         *)
(* nothing any more, whatever is still in its queue.                       *)
(***************************************************************************)
EXTENDS Naturals, Sequences

CONSTANT Commands

VARIABLES queue,  \* the accepted commands, each waiting or confirmed
          broken  \* the manager has given up

vars == <<queue, broken>>

Entries == [cmd : Commands, waiting : BOOLEAN]

Init == queue = <<>> /\ broken = FALSE

Accept(c) ==
  /\ ~broken
  /\ queue' = Append(queue, [cmd |-> c, waiting |-> TRUE])
  /\ UNCHANGED broken

Confirm(i) ==
  /\ i \in DOMAIN queue /\ queue[i].waiting
  /\ \A j \in 1..i-1 : ~queue[j].waiting
  /\ queue' = [queue EXCEPT ![i].waiting = FALSE]
  /\ UNCHANGED broken

Retire(i) ==
  /\ i \in DOMAIN queue /\ ~queue[i].waiting
  /\ queue' = [j \in 1..Len(queue) - 1 |-> IF j < i THEN queue[j] ELSE queue[j + 1]]
  /\ UNCHANGED broken

Break == ~broken /\ broken' = TRUE /\ UNCHANGED queue

(* Only a broken manager gives a command up. *)
GiveUp(i) ==
  /\ broken /\ i \in DOMAIN queue
  /\ queue' = [queue EXCEPT ![i].waiting = FALSE]
  /\ UNCHANGED broken

Next == \/ \E c \in Commands : Accept(c)
        \/ \E i \in DOMAIN queue : Confirm(i) \/ Retire(i) \/ GiveUp(i)
        \/ Break

Spec == Init /\ [][Next]_vars
=============================================================================
