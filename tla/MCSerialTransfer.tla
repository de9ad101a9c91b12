-------------------------- MODULE MCSerialTransfer --------------------------
(* Instances of SerialTransfer for TLC.                                       *)
EXTENDS SerialTransfer
=============================================================================
