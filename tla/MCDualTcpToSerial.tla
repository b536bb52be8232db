------------------------- MODULE MCDualTcpToSerial --------------------------
(***************************************************************************)
(* The instance of DualTcpToSerial for TLC, with the clock scaled down: it *)
(* starts late enough for TimeTick to wrap half way through the run.       *)
(***************************************************************************)
EXTENDS DualTcpToSerial
=============================================================================
