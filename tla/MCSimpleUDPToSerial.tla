------------------------ MODULE MCSimpleUDPToSerial -------------------------
(***************************************************************************)
(* Instances of SimpleUDPToSerial for TLC: submissions that differ from    *)
(* the defaults and from each other in every field.                        *)
(***************************************************************************)
EXTENDS SimpleUDPToSerial

All(v) == [tfLocalPort |-> v, tfDestPort |-> v, tfDestIpAddr |-> v]
MCDefaults == All(1)
MCForms == {All(2), All(3)}
=============================================================================
