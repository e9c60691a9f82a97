------------------------------ MODULE MCMsgBus ------------------------------
(* Instances of MsgBus for TLC. *)
EXTENDS MsgBus

CONSTANTS a, b
=============================================================================
