------------------------------ MODULE MCUsbTx ------------------------------
(* The aic8800 USB transmit path on small pools. *)
EXTENDS UsbTx
=============================================================================
