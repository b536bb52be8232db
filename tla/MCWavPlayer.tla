---------------------------- MODULE MCWavPlayer -----------------------------
(***************************************************************************)
(* Instances of WavPlayer for TLC: blocks of two samples, so that files of *)
(* one to five samples are less than a block, whole blocks, and whole      *)
(* blocks with a shorter one after them.                                   *)
(***************************************************************************)
EXTENDS WavPlayer

Stereo == {[kind |-> "good", size |-> n, channels |-> 2] : n \in 1..5}
Mono == [kind |-> "good", size |-> 3, channels |-> 1]
Damaged == {[kind |-> k, size |-> 1, channels |-> 2] : k \in {"bad", "torn"}}
MCFile == Stereo \cup {Mono} \cup Damaged
MCDisk == {Mono} \cup {f \in Damaged : f.kind = "bad"}
=============================================================================
