--------------------------- MODULE MCSerialBurner ---------------------------
(***************************************************************************)
(* Instances of SerialBurner for TLC: two ports, two rates and one value   *)
(* of each timeout, besides what zeroed RAM and erased flash hold.         *)
(***************************************************************************)
EXTENDS SerialBurner

(* One submission changes the listen port and the rate, the other is what  *)
(* the defaults are.                                                       *)
Submitted(port, rate) == [ServerListenPort |-> port, ClientTimeout |-> 6,
                          ClientOverrrideTimeout |-> 2, BaudRate |-> rate,
                          FlowControl |-> 0]
ThereAndBack == {Submitted(2, 4), Submitted(1, 9)}
PortOnly == {Submitted(2, 9)}
=============================================================================
