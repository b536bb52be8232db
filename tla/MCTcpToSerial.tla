--------------------------- MODULE MCTcpToSerial ----------------------------
(***************************************************************************)
(* The instance of TcpToSerial for TLC: one second is two ticks, and a     *)
(* select() times out after two.                                           *)
(***************************************************************************)
EXTENDS TcpToSerial
=============================================================================
