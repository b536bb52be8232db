------------------------------ MODULE BytePipe ------------------------------
(***************************************************************************)
(* What the serial-to-Ethernet bridges promise about the bytes they carry, *)
(* while a connection lasts: each direction is a lossless first-in         *)
(* first-out pipe of bounded depth.  The bytes that arrive on one side are *)
(* numbered 1, 2, 3, ...; the pipe has taken in the first taken[d] of them *)
(* and handed on the sequence given[d].  When nothing is in transit the    *)
(* numbers may begin anew.                                                 *)
(***************************************************************************)
EXTENDS Integers, Sequences

CONSTANTS Direction,   (* the directions of the bridge                    *)
          Depth        (* the most bytes a direction may hold             *)

VARIABLES taken,       (* taken[d]: how many bytes were taken in          *)
          given        (* given[d]: the sequence of bytes handed on       *)

pipeVars == <<taken, given>>

InTransit(d) == taken[d] - Len(given[d])

PipeInit == /\ taken = [d \in Direction |-> 0]
            /\ given = [d \in Direction |-> << >>]

(* Take in the next n bytes, if the pipe has room for them. *)
Take(d, n) ==
    /\ InTransit(d) + n <= Depth
    /\ taken' = [taken EXCEPT ![d] = @ + n]
    /\ UNCHANGED given

(* Hand on the next n bytes that are in transit, in the order they came. *)
Give(d, n) ==
    /\ n <= InTransit(d)
    /\ given' = [given EXCEPT ![d] = @ \o [i \in 1..n |-> Len(@) + i]]
    /\ UNCHANGED taken

(* All that was taken in has been handed on: count from 1 again. *)
Renumber(d) ==
    /\ InTransit(d) = 0
    /\ taken' = [taken EXCEPT ![d] = 0]
    /\ given' = [given EXCEPT ![d] = << >>]

PipeNext == \E d \in Direction :
                Renumber(d) \/ \E n \in 1..Depth : Take(d, n) \/ Give(d, n)

PipeSpec == PipeInit /\ [][PipeNext]_pipeVars
=============================================================================
