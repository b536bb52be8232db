---------------------------- MODULE ManyClients -----------------------------
(***************************************************************************)
(* What a server of Capacity connections promises: the clients that queue  *)
(* are served in the order they came as long as there is room; only when   *)
(* there is none is the next one turned away; and a connection, once it is *)
(* served, ends for a reason of its own.                                   *)
(***************************************************************************)
EXTENDS Sequences, FiniteSets, SequencesExt

CONSTANTS Client, Capacity

VARIABLES waiting,   (* the clients queued on the listening socket *)
          serving,   (* the clients whose connection is open       *)
          refused,   (* the clients told that there is no room     *)
          leaving    (* the clients that have quit or failed       *)

mcVars == <<waiting, serving, refused, leaving>>

MCInit == waiting = << >> /\ serving = {} /\ refused = {} /\ leaving = {}

Join(c) == waiting' = Append(waiting, c) /\ UNCHANGED <<serving, refused, leaving>>

GiveUp(place) == /\ waiting' = RemoveAt(waiting, place)
                 /\ UNCHANGED <<serving, refused, leaving>>

Serve == /\ waiting # << >>
         /\ Cardinality(serving) < Capacity
         /\ serving' = serving \cup {Head(waiting)}
         /\ waiting' = Tail(waiting)
         /\ UNCHANGED <<refused, leaving>>

TurnAway == /\ waiting # << >>
            /\ Cardinality(serving) = Capacity
            /\ refused' = refused \cup {Head(waiting)}
            /\ waiting' = Tail(waiting)
            /\ UNCHANGED <<serving, leaving>>

(* The listening socket fails: whoever queued on it is lost. *)
DropAll == waiting' = << >> /\ UNCHANGED <<serving, refused, leaving>>

Leave(c) == /\ c \in serving
            /\ leaving' = leaving \cup {c}
            /\ UNCHANGED <<waiting, serving, refused>>

Finish(c) == /\ c \in serving \cap leaving
             /\ serving' = serving \ {c}
             /\ leaving' = leaving \ {c}
             /\ UNCHANGED <<waiting, refused>>

MCNext == \/ Serve \/ TurnAway \/ DropAll
          \/ \E place \in DOMAIN waiting : GiveUp(place)
          \/ \E c \in Client : Join(c) \/ Leave(c) \/ Finish(c)

MCSpec == MCInit /\ [][MCNext]_mcVars
=============================================================================
