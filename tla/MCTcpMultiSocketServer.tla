----------------------- MODULE MCTcpMultiSocketServer -----------------------
(***************************************************************************)
(* Instances of TcpMultiSocketServer for TLC: a table of two, and just the *)
(* descriptors that two clients, a third one that is turned away and the   *)
(* listening socket need, so that every number is used again.              *)
(***************************************************************************)
EXTENDS TcpMultiSocketServer
=============================================================================
