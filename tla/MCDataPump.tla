----------------------------- MODULE MCDataPump -----------------------------
(***************************************************************************)
(* Instances of DataPump for TLC.  A uint32_t is scaled to 8 values and a  *)
(* uint16_t to 4, one second to two ticks and TCP_WRITE_TIMEOUT to three.  *)
(* The network brings more bytes than a buffer holds, the serial port one. *)
(***************************************************************************)
EXTENDS DataPump

ThreeAndOne == <<3, 1>>
=============================================================================
