----------------------------- MODULE OneClient ------------------------------
(***************************************************************************)
(* What the serial-to-Ethernet servers promise about their connections:    *)
(* one client is served at a time; the others queue on the listening       *)
(* socket and are served in the order they came, each only after the       *)
(* connection before it has been closed.                                   *)
(***************************************************************************)
EXTENDS Sequences

CONSTANT Client

VARIABLES waiting,   (* the clients queued on the listening socket         *)
          open       (* the clients whose connection the server holds open *)

ocVars == <<waiting, open>>

OCInit == waiting = << >> /\ open = {}

Join(c) == waiting' = Append(waiting, c) /\ UNCHANGED open

(* The next client is served: nobody else is. *)
Serve == /\ open = {}
         /\ waiting # << >>
         /\ open' = {Head(waiting)}
         /\ waiting' = Tail(waiting)

Finish == open # {} /\ open' = {} /\ UNCHANGED waiting

(* The listening socket is closed: whoever queued on it is refused.        *)
Refuse == waiting' = << >> /\ UNCHANGED open

OCNext == (\E c \in Client : Join(c)) \/ Serve \/ Finish \/ Refuse

OCSpec == OCInit /\ [][OCNext]_ocVars
=============================================================================
