--------------------------- MODULE MCDipSwitches ----------------------------
(***************************************************************************)
(* Instances of DipSwitches for TLC: an object, then one with an escaped   *)
(* quote in a string.  The beginning of one and the other together are     *)
(* longer than the buffer.                                                 *)
(***************************************************************************)
EXTENDS DipSwitches, SequencesExt

MCTexts == << <<"{", "}">>,
              <<"{", "quote", "escape", "quote", "quote", "}">> >>

(* These texts are objects, with the counts that ConsumeSocket() makes of  *)
(* them.                                                                   *)
Counts(n) == [i \in 0..Len(Texts[n]) |->
                FoldLeft(ConsumeSocket, Outside, SubSeq(Whole(n), 1, i))]
ASSUME TextsAreObjects ==
    \A n \in Message : Texts[n] # << >> /\ CountsOf(n, Counts(n))
=============================================================================
