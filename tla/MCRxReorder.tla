---------------------------- MODULE MCRxReorder ----------------------------
(* Frames have an order and threads have names: nothing is symmetric. *)
EXTENDS RxReorder
=============================================================================
