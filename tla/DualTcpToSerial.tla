-------------------------- MODULE DualTcpToSerial ---------------------------
(***************************************************************************)
(* SerialToEthernetFunction() of serial/DualTcpToSerial.  The program runs *)
(* it in two tasks, one per serial port, that share nothing but the clock: *)
(* this module is one of them.  The listening socket is closed while a     *)
(* client is served and opened again once the connection has been idle for *)
(* idle_timeout ticks of TimeTick, an unsigned counter that wraps; the     *)
(* next client to connect then replaces the old one.                       *)
(*                                                                         *)
(* Time passes while the task is blocked; its own steps take none.         *)
(***************************************************************************)
EXTENDS Integers, Sequences

CONSTANTS WordSpan,         (* how many values a uint32_t has              *)
          StartTick,        (* bound: the ticks the system may start at    *)
          LastTick,         (* bound: the tick at which the model ends,    *)
                            (* within one turn of the clock                *)
          idle_timeout,     (* OVERRIDE_TIMEOUT, ticks                     *)
          SelectTicks,      (* the select() timeout                        *)
          ListenMayFail,    (* listen() may return an error                *)
          MaxClients,       (* bound: clients that connect                 *)
          MaxBatches        (* bound: batches of data that arrive          *)

ASSUME DualTcpToSerialAssumption ==
    /\ WordSpan \in Nat \ {0} /\ StartTick \subseteq 0..(WordSpan - 1)
    /\ LastTick \in 0..(WordSpan - 1)
    /\ idle_timeout \in 1..(WordSpan - 1) /\ SelectTicks \in Nat \ {0}
    /\ ListenMayFail \in BOOLEAN /\ MaxClients \in Nat /\ MaxBatches \in Nat

Client == 1..MaxClients
None == 0
(* fdListen: 0, a listening socket, or an error code. *)
Open == 1
Failed == -1

VARIABLES
    TimeTick,       (* the system clock                                    *)
    fdListen,
    fdnet,          (* the connected client, or None                       *)
    timeout_value,  (* the tick of the last activity                       *)
    phase,          (* "outer", "arm", "select" or "handle"                *)
    armed,          (* the fd sets of this pass                            *)
    ready,          (* what is left of the sets select() returned          *)
    waited,         (* ticks this select() has blocked                     *)
    backlog,        (* the queue of fdListen, at most one long             *)
    open,           (* the clients whose connection has not been closed    *)
    netData, serialData, fault, (* what the descriptors have to report     *)
    quiet,          (* history: ticks since data moved, up to QuietCap     *)
    ended,          (* history: how the last connection ended, if it has   *)
    clients, batches    (* counted against the bounds                      *)

taskVars == <<fdListen, fdnet, timeout_value, phase, armed, ready, open, ended>>
inputVars == <<netData, serialData, fault, batches>>
vars == <<TimeTick, taskVars, waited, backlog, inputVars, quiet, clients>>

QuietCap == idle_timeout + SelectTicks + 1
Rank == [net |-> 1, serial |-> 2, error |-> 3, suitor |-> 4]

Init ==
    /\ TimeTick \in StartTick
    /\ fdListen = 0
    /\ fdnet = None
    /\ timeout_value = 0
    /\ phase = "outer"
    /\ armed = {} /\ ready = {} /\ waited = 0
    /\ backlog = << >> /\ open = {}
    /\ netData = FALSE /\ serialData = FALSE /\ fault = FALSE
    /\ quiet = 0 /\ ended = "none"
    /\ clients = 0 /\ batches = 0

(***************************************************************************)
(* The task.                                                               *)
(***************************************************************************)
(* listen(INADDR_ANY, listen_port, 1), if there is no listening socket.    *)
EnsureListening ==
    fdListen' \in IF fdListen # 0 THEN {fdListen}
                  ELSE {Open} \cup (IF ListenMayFail THEN {Failed} ELSE {})

Listen ==
    /\ phase = "outer" /\ fdListen = 0
    /\ EnsureListening
    /\ UNCHANGED <<TimeTick, fdnet, timeout_value, phase, armed, ready, open, ended,
                   waited, backlog, inputVars, quiet, clients>>

(* accept() returns a client; the listening socket is closed, and with it  *)
(* whoever queued on it is refused.                                        *)
Accept ==
    /\ phase = "outer" /\ fdListen = Open /\ backlog # << >>
    /\ fdnet' = Head(backlog)
    /\ open' = open \cup {fdnet'}
    /\ timeout_value' = TimeTick
    /\ fdListen' = 0
    /\ backlog' = Tail(backlog)
    /\ phase' = "arm"
    /\ netData' = FALSE /\ fault' = FALSE
    /\ quiet' = 0 /\ ended' = "none"
    /\ UNCHANGED <<TimeTick, armed, ready, waited, serialData, batches, clients>>

(* accept() on a socket that was never opened fails: try to listen again.  *)
AcceptFails ==
    /\ phase = "outer" /\ fdListen = Failed
    /\ fdListen' = 0
    /\ timeout_value' = TimeTick
    /\ UNCHANGED <<TimeTick, fdnet, phase, armed, ready, open, ended, waited, backlog,
                   inputVars, quiet, clients>>

(* Mutants of Idle: the limit itself is enough; it must be met exactly.    *)
MutantIdle == (timeout_value + idle_timeout) % WordSpan <= TimeTick
MutantIdleExactly == (timeout_value + idle_timeout) % WordSpan = TimeTick

(* Has the connection been idle for longer than idle_timeout?  The sum and *)
(* the clock are both uint32_t.                                            *)
Idle == (timeout_value + idle_timeout) % WordSpan < TimeTick

(* Mutant of Watched: the socket is only watched when it was just opened.  *)
MutantWatched == IF Idle /\ fdListen = 0 /\ fdListen' = Open THEN {"suitor"} ELSE {}
Watched == IF Idle /\ fdListen' = Open THEN {"suitor"} ELSE {}

(* Set up the fd sets of a pass; listen again if the connection is idle.   *)
Arm ==
    /\ phase = "arm"
    /\ IF Idle THEN EnsureListening ELSE UNCHANGED fdListen
    /\ armed' = {"net", "serial", "error"} \cup Watched
    /\ phase' = "select"
    /\ waited' = 0
    /\ UNCHANGED <<TimeTick, fdnet, timeout_value, ready, open, ended, backlog,
                   inputVars, quiet, clients>>

Pending == (IF netData \/ fault THEN {"net"} ELSE {})
             \cup (IF serialData THEN {"serial"} ELSE {})
             \cup (IF fault THEN {"error"} ELSE {})
             \cup (IF backlog # << >> THEN {"suitor"} ELSE {})

Select ==
    /\ phase = "select"
    /\ \/ /\ armed \cap Pending # {}
          /\ ready' = armed \cap Pending /\ phase' = "handle"
       \/ /\ armed \cap Pending = {} /\ waited = SelectTicks
          /\ phase' = "arm" /\ UNCHANGED ready
    /\ UNCHANGED <<TimeTick, fdListen, fdnet, timeout_value, armed, open, ended, waited,
                   backlog, inputVars, quiet, clients>>

(* Handler h is the next of the ready ones. *)
Turn(h) == /\ phase = "handle"
           /\ h \in ready
           /\ \A g \in ready : Rank[h] <= Rank[g]

(* The pass goes on with the next handler, or is over. *)
Proceed(h) == /\ ready' = ready \ {h}
              /\ phase' = IF ready' = {} THEN "arm" ELSE "handle"

Stamp(moved) == timeout_value' = IF moved THEN TimeTick ELSE timeout_value

FromNetwork ==
    /\ Turn("net") /\ Proceed("net")
    /\ Stamp(netData)
    /\ netData' = FALSE
    /\ quiet' = IF netData THEN 0 ELSE quiet
    /\ UNCHANGED <<TimeTick, fdListen, fdnet, armed, open, ended, waited, backlog,
                   serialData, fault, batches, clients>>

(* The write to the network may fail or be partial: no activity then. *)
FromSerial ==
    /\ Turn("serial") /\ Proceed("serial")
    /\ serialData' = FALSE
    /\ \E written \in BOOLEAN :
         /\ Stamp(written)
         /\ quiet' = IF written THEN 0 ELSE quiet
    /\ UNCHANGED <<TimeTick, fdListen, fdnet, armed, open, ended, waited, backlog,
                   netData, fault, batches, clients>>

(* Mutant of Hangup: the connection is replaced but not closed. *)
MutantHangup == fdnet' = None /\ UNCHANGED open
Hangup == fdnet' = None /\ open' = open \ {fdnet}

(* close(fdnet), and break out of the loop: the rest of the pass is left.  *)
Leave(h, how) ==
    /\ Turn(h)
    /\ Hangup
    /\ ended' = how
    /\ ready' = {} /\ phase' = "outer"
    /\ UNCHANGED <<TimeTick, fdListen, timeout_value, armed, waited, backlog, inputVars,
                   quiet, clients>>

Error == Leave("error", "error")
Override == Leave("suitor", "overridden")

Task == \/ Listen \/ Accept \/ AcceptFails \/ Arm \/ Select
        \/ FromNetwork \/ FromSerial \/ Error \/ Override

(***************************************************************************)
(* The environment.                                                        *)
(***************************************************************************)
BlockedInSelect ==
    phase = "select" /\ armed \cap Pending = {} /\ waited < SelectTicks
BlockedInAccept == phase = "outer" /\ fdListen = Open /\ backlog = << >>

Tick ==
    /\ BlockedInSelect \/ BlockedInAccept
    /\ TimeTick # LastTick
    /\ TimeTick' = (TimeTick + 1) % WordSpan
    /\ waited' = IF BlockedInSelect THEN waited + 1 ELSE waited
    /\ quiet' = IF quiet < QuietCap THEN quiet + 1 ELSE quiet
    /\ UNCHANGED <<taskVars, backlog, inputVars, clients>>

(* The queue of the listening socket holds one client. *)
Connect ==
    /\ fdListen = Open /\ backlog = << >> /\ clients < MaxClients
    /\ clients' = clients + 1
    /\ backlog' = << clients' >>
    /\ UNCHANGED <<TimeTick, taskVars, waited, inputVars, quiet>>

Send ==
    /\ fdnet # None /\ ~netData /\ ~fault /\ batches < MaxBatches
    /\ netData' = TRUE
    /\ batches' = batches + 1
    /\ UNCHANGED <<TimeTick, taskVars, waited, backlog, serialData, fault, quiet, clients>>

SerialInput ==
    /\ ~serialData /\ batches < MaxBatches
    /\ serialData' = TRUE
    /\ batches' = batches + 1
    /\ UNCHANGED <<TimeTick, taskVars, waited, backlog, netData, fault, quiet, clients>>

Fail ==
    /\ fdnet # None /\ ~fault
    /\ fault' = TRUE
    /\ UNCHANGED <<TimeTick, taskVars, waited, backlog, netData, serialData, batches,
                   quiet, clients>>

Next == Task \/ Tick \/ Connect \/ Send \/ SerialInput \/ Fail

Spec == Init /\ [][Next]_vars

(* The task is scheduled again and again. *)
FairSpec == Spec /\ WF_vars(Task)
-----------------------------------------------------------------------------
TypeOK ==
    /\ {TimeTick, timeout_value} \subseteq 0..(WordSpan - 1)
    /\ fdListen \in {0, Open, Failed}
    /\ fdnet \in Client \cup {None}
    /\ phase \in {"outer", "arm", "select", "handle"}
    /\ armed \subseteq DOMAIN Rank /\ ready \subseteq armed
    /\ (phase = "handle") <=> (ready # {})
    /\ waited \in 0..SelectTicks
    /\ backlog \in Seq(Client) /\ Len(backlog) <= 1
    /\ open \subseteq Client
    /\ {netData, serialData, fault} \subseteq BOOLEAN
    /\ quiet \in 0..QuietCap
    /\ ended \in {"none", "error", "overridden"}
    /\ clients \in 0..MaxClients /\ batches \in 0..MaxBatches

(* One client at a time, in the order they connected, none abandoned. *)
Server == INSTANCE OneClient WITH waiting <- backlog
ServesOneClient == Server!OCSpec

(* The limit of this connection lies beyond the wrap of TimeTick, which is  *)
(* still to come: the sum is small already, and the connection counts as   *)
(* idle although data moved a moment ago.                                  *)
LimitWrappedFirst == timeout_value + idle_timeout >= WordSpan /\ TimeTick >= timeout_value

(* TimeTick has wrapped and the limit has not: the connection is not idle  *)
(* for the rest of a turn of the clock.                                    *)
ClockWrappedFirst == timeout_value + idle_timeout < WordSpan /\ TimeTick < timeout_value

(* main.cpp, idle_timeout: the number of time ticks to wait before         *)
(* allowing a new connection to bump the old one: not a tick less, except  *)
(* while only the limit has wrapped.                                       *)
BumpedOnlyWhenIdle ==
    [][("suitor" \in armed' \ armed) => (quiet > idle_timeout \/ LimitWrappedFirst)]_vars

(* main.cpp: in a half open socket condition the old socket will be left  *)
(* open until a new connection request is received.  At the latest one     *)
(* select() after the limit the server has a listening socket again and    *)
(* select() watches it, so that it looks at the next client, and at one    *)
(* that queued in an earlier idle time and saw the connection turn active  *)
(* again.  Three things the code does are left out: only the clock has     *)
(* wrapped (or has made a whole turn since, which LastTick keeps out), or  *)
(* listen() has failed in this session: the error code stays in fdListen,  *)
(* and nobody can replace the client until its own connection fails.       *)
ReplaceableInTime ==
    /\ TypeOK
    /\ fdnet # None /\ quiet > idle_timeout + SelectTicks =>
          \/ ClockWrappedFirst
          \/ fdListen = Failed
          \/ fdListen = Open /\ "suitor" \in armed
=============================================================================
