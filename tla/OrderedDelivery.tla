-------------------------- MODULE OrderedDelivery --------------------------
(***************************************************************************)
(* What a reorder buffer promises: a frame is taken in only if it is after *)
(* all that was delivered and does not wait already; what waits is         *)
(* delivered from its low end, each frame once; and nothing that waits is  *)
(* given up, unless the buffer has been closed.                            *)
(***************************************************************************)
EXTENDS Integers

CONSTANT Frames

VARIABLES open,      \* the buffer is not being taken down
          waiting,   \* the frames it holds
          delivered  \* the frames delivered since it was started

vars == <<open, waiting, delivered>>

Before(A, B) == \A a \in A, b \in B : a < b

Init == open = TRUE /\ waiting = {} /\ delivered = {}

(* Of the frames W those in D are delivered, the others wait. *)
Release(W, D) ==
  /\ D \subseteq W /\ Before(D, W \ D)
  /\ delivered' = delivered \cup D /\ waiting' = W \ D

(* A frame is taken in; with it something may come into sequence. *)
Accept(n) ==
  /\ n \notin waiting /\ Before(delivered, {n})
  /\ \E D \in SUBSET (waiting \cup {n}) : Release(waiting \cup {n}, D)
  /\ UNCHANGED open

(* A gap is given up. *)
Skip == (\E D \in SUBSET waiting : Release(waiting, D)) /\ UNCHANGED open

(* The buffer starts anew, with nothing left behind. *)
Restart ==
  /\ open => waiting = {}
  /\ delivered' = {} /\ UNCHANGED <<open, waiting>>

Close == open /\ open' = FALSE /\ UNCHANGED <<waiting, delivered>>

Discard ==
  /\ ~open /\ open' \in BOOLEAN
  /\ waiting' = {} /\ UNCHANGED delivered

Next == (\E n \in Frames : Accept(n)) \/ Skip \/ Restart \/ Close \/ Discard

Spec == Init /\ [][Next]_vars
=============================================================================
