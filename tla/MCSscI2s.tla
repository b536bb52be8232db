------------------------------ MODULE MCSscI2s ------------------------------
(***************************************************************************)
(* Instances of SscI2s for TLC.  Depth is the code's; pool and queue are   *)
(* smaller but keep the code's relation: what the pool holds beyond the    *)
(* queue just fills both rings and the task's hands, 16 - 8 = 3 + 3 + 2.   *)
(***************************************************************************)
EXTENDS SscI2s
=============================================================================
