---------------------------- MODULE TcpToSerial -----------------------------
(***************************************************************************)
(* The single task of serial/TcpToSerial: accept a client, carry data both *)
(* ways around one select(), and close the connection after an error, an   *)
(* override or an inactivity timeout.  Data passes straight through: of a  *)
(* batch only that it waits to be read matters, and there is no end of     *)
(* batches on either side.  What is modelled is who is connected, and when *)
(* and how that ends.                                                      *)
(***************************************************************************)
EXTENDS Integers, Sequences

CONSTANTS TicksPerSecond,   (* TICKS_PER_SECOND                            *)
          SelectTicks,      (* TCP_WRITE_TIMEOUT, the select() timeout     *)
          TimeoutLimit,     (* TIMEOUT_LIMIT, seconds; 0 disables          *)
          OverideTimeout,   (* OVERIDE_TIMEOUT, seconds                    *)
          Never,            (* 0xFFFFFFFF                                  *)
          MaxClients        (* bound: clients that connect                 *)

ASSUME TcpToSerialAssumption ==
    /\ TicksPerSecond \in Nat \ {0} /\ SelectTicks \in Nat \ {0}
    /\ TimeoutLimit \in Nat /\ OverideTimeout \in Nat /\ Never \in Nat
    /\ MaxClients \in Nat

Client == 1..MaxClients
None == 0
inactivityLimit == TimeoutLimit * TicksPerSecond

VARIABLES
    fdnet,        (* the connected client, or None: the task is in accept() *)
    tcp_timeout,  (* ticks counted towards the timeouts                     *)
    ready,        (* what is left of the fd sets select() returned          *)
    backlog,      (* clients queued on fdListen                             *)
    open,         (* the clients whose connection has not been closed       *)
    netData,      (* data from the client waits to be read                  *)
    serialData,   (* data from the serial port waits to be read             *)
    fault,        (* the client's connection reports an error               *)
    ended,        (* history: how the last connection ended, if it has      *)
    quiet,        (* history: ticks waited since the client last sent, or   *)
                  (* connected                                              *)
    clients       (* counted against the bound                              *)

taskVars == <<fdnet, tcp_timeout, ready, open, ended, quiet>>
vars == <<taskVars, backlog, netData, serialData, fault, clients>>

(* The sets in the order the code tests them. *)
Rank == [net |-> 1, serial |-> 2, error |-> 3, suitor |-> 4]

Init ==
    /\ fdnet = None
    /\ tcp_timeout = 0
    /\ ready = {}
    /\ backlog = << >>
    /\ open = {}
    /\ netData = FALSE
    /\ serialData = FALSE
    /\ fault = FALSE
    /\ ended = "none"
    /\ quiet = 0
    /\ clients = 0

(***************************************************************************)
(* The task.                                                               *)
(***************************************************************************)
(* Mutant of StartTimeout: the counter of the last connection is kept.     *)
MutantStartTimeout == tcp_timeout
StartTimeout == 0

(* accept() returns the next client; the counter starts anew. *)
Accept ==
    /\ fdnet = None
    /\ ready = {}
    /\ backlog # << >>
    /\ fdnet' = Head(backlog)
    /\ backlog' = Tail(backlog)
    /\ open' = open \cup {fdnet'}
    /\ tcp_timeout' = StartTimeout
    /\ netData' = FALSE /\ fault' = FALSE
    /\ ended' = "none" /\ quiet' = 0
    /\ UNCHANGED <<ready, serialData, clients>>

(* Mutant of overideExpired: seconds are compared with ticks. *)
allowOveride == OverideTimeout # Never
MutantOverideExpired == OverideTimeout = 0 \/ tcp_timeout >= OverideTimeout
overideExpired == \/ OverideTimeout = 0
                  \/ tcp_timeout >= OverideTimeout * TicksPerSecond

(* Mutant of Armed: the listening socket is left out of the sets.          *)
MutantArmed == {"net", "serial", "error"}

Armed == {"net", "serial", "error"}
           \cup (IF allowOveride /\ overideExpired THEN {"suitor"} ELSE {})

Pending == (IF netData \/ fault THEN {"net"} ELSE {})
             \cup (IF serialData THEN {"serial"} ELSE {})
             \cup (IF fault THEN {"error"} ELSE {})
             \cup (IF backlog # << >> THEN {"suitor"} ELSE {})

Selecting == fdnet # None /\ ready = {}

Select ==
    /\ Selecting
    /\ Armed \cap Pending # {}
    /\ ready' = Armed \cap Pending
    /\ UNCHANGED <<fdnet, tcp_timeout, open, ended, quiet, backlog,
                   netData, serialData, fault, clients>>

(* Mutant of Close: the descriptor is forgotten but not closed. *)
MutantClose == fdnet' = None /\ UNCHANGED open

(* close(fdnet); fdnet = 0 *)
Close == fdnet' = None /\ open' = open \ {fdnet}

Counted(ticks) == ticks + SelectTicks
Expired(ticks) == ticks >= inactivityLimit

UpTo(ticks) == IF ticks < inactivityLimit THEN ticks ELSE inactivityLimit

(* select() returned 0: nothing was ready for SelectTicks. *)
SelectTimeout ==
    /\ Selecting
    /\ Armed \cap Pending = {}
    /\ TimeoutLimit > 0
    /\ tcp_timeout' = Counted(tcp_timeout)
    /\ quiet' = UpTo(quiet + SelectTicks)
    /\ IF Expired(tcp_timeout') THEN Close /\ ended' = "timedout"
                                ELSE UNCHANGED <<fdnet, open, ended>>
    /\ UNCHANGED <<ready, backlog, netData, serialData, fault, clients>>

(* Handler h is the next of the ready ones. *)
Turn(h) == /\ h \in ready
           /\ \A g \in ready : Rank[h] <= Rank[g]
           /\ ready' = ready \ {h}

(* Data, or an error, is read from the client and written to the serial    *)
(* port; the counter starts anew either way.                               *)
FromNetwork ==
    /\ Turn("net")
    /\ netData' = FALSE
    /\ tcp_timeout' = 0
    /\ quiet' = IF netData THEN 0 ELSE quiet
    /\ UNCHANGED <<fdnet, open, ended, backlog, serialData, fault, clients>>

FromSerial ==
    /\ Turn("serial")
    /\ serialData' = FALSE
    /\ UNCHANGED <<fdnet, tcp_timeout, open, ended, quiet, backlog, netData,
                   fault, clients>>

Error ==
    /\ Turn("error")
    /\ Close
    /\ ended' = "error"
    /\ UNCHANGED <<tcp_timeout, quiet, backlog, netData, serialData,
                   fault, clients>>

(* Tell the client and close it.  After Error in the same pass fdnet is 0  *)
(* already: the message and the close() go to descriptor 0, which is no    *)
(* client's.                                                               *)
Override ==
    /\ Turn("suitor")
    /\ Close
    /\ ended' = "overridden"
    /\ UNCHANGED <<tcp_timeout, quiet, backlog, netData, serialData, fault,
                   clients>>

Task == \/ Accept \/ Select \/ SelectTimeout \/ FromNetwork \/ FromSerial
        \/ Error \/ Override

(***************************************************************************)
(* The environment.                                                        *)
(***************************************************************************)
Connect ==
    /\ clients < MaxClients
    /\ clients' = clients + 1
    /\ backlog' = Append(backlog, clients')
    /\ UNCHANGED <<taskVars, netData, serialData, fault>>

Send ==
    /\ fdnet # None /\ ~netData /\ ~fault
    /\ netData' = TRUE
    /\ UNCHANGED <<taskVars, backlog, serialData, fault, clients>>

SerialInput ==
    /\ ~serialData
    /\ serialData' = TRUE
    /\ UNCHANGED <<taskVars, backlog, netData, fault, clients>>

Fail ==
    /\ fdnet # None /\ ~fault
    /\ fault' = TRUE
    /\ UNCHANGED <<taskVars, backlog, netData, serialData, clients>>

Next == Task \/ Connect \/ Send \/ SerialInput \/ Fail

Spec == Init /\ [][Next]_vars

(* The task is scheduled again and again; the peers owe nothing. *)
FairSpec == Spec /\ WF_vars(Task)
-----------------------------------------------------------------------------
TypeOK ==
    /\ fdnet \in Client \cup {None}
    /\ tcp_timeout \in 0..(inactivityLimit + SelectTicks - 1)
    /\ ready \subseteq DOMAIN Rank
    /\ backlog \in Seq(Client)
    /\ open \subseteq Client
    /\ {netData, serialData, fault} \subseteq BOOLEAN
    /\ ended \in {"none", "timedout", "error", "overridden"}
    /\ quiet \in Nat
    /\ clients \in 0..MaxClients

(* The program serves one client at a time, in the order they connected,   *)
(* and never abandons a connection: accept() is only reached after close().*)
Server == INSTANCE OneClient WITH waiting <- backlog
ServesOneClient == Server!OCSpec

(* The counter is always this connection's own: an inactivity timeout ends *)
(* a connection only if its client sent nothing for the whole limit.       *)
CutOnlyWhenQuiet ==
    /\ TypeOK
    /\ (ended = "timedout") => quiet >= inactivityLimit

(* A connection is only offered to a waiting client when its client was    *)
(* quiet for the override timeout before the pass began.                   *)
OverridesOnlyQuiet ==
    [][("suitor" \in ready' \ ready) => quiet >= OverideTimeout * TicksPerSecond]_vars

(* What the peers may grant: no client sends for ever; and whoever is      *)
(* served, select() times out again and again, so time is counted.         *)
ClientsFallSilent == <>[][~Send]_vars
LinkPauses == []<>(fdnet = None) \/ []<><<SelectTimeout>>_vars

Queued(c) == \E i \in 1..Len(backlog) : backlog[i] = c

(* Once the override timeout has been counted, a waiting client ends the   *)
(* connection unless its client sends again, however busy the serial port  *)
(* keeps select().  Before that, time is only counted when select() times  *)
(* out: if the link pauses again and again, a client that falls silent is  *)
(* cut even if it never errs, and every queued client is served in the     *)
(* end.  Without the pauses, a serial port that is never quiet for one     *)
(* select() lets a silent client hold the server for ever.                 *)
EveryClientServed ==
    /\ (fdnet # None /\ backlog # << >> /\ allowOveride /\ overideExpired)
            ~> (fdnet = None \/ tcp_timeout = 0)
    /\ (ClientsFallSilent /\ LinkPauses)
            => \A c \in Client : Queued(c) ~> (fdnet = c)
=============================================================================
