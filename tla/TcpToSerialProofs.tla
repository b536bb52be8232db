------------------------- MODULE TcpToSerialProofs --------------------------
(***************************************************************************)
(* What TcpToSerial guarantees for every choice of its timeouts and for    *)
(* any number of clients: its types, that the inactivity timeout and the   *)
(* override hit only a quiet client, and that it implements OneClient.     *)
(***************************************************************************)
EXTENDS TcpToSerial, TLAPS

LEMMA Durations ==
    /\ SelectTicks \in Nat \ {0}
    /\ inactivityLimit \in Nat
    /\ TimeoutLimit > 0 => inactivityLimit > 0
    /\ OverideTimeout * TicksPerSecond \in Nat
    /\ OverideTimeout = 0 => OverideTimeout * TicksPerSecond = 0
<1>1. \A m, n \in Nat : /\ m * n \in Nat
                        /\ m > 0 /\ n # 0 => m * n > 0
                        /\ m = 0 => m * n = 0
  OBVIOUS
<1>2. QED
  BY <1>1, TcpToSerialAssumption DEF inactivityLimit

LEMMA Clients == None \notin Client
  BY DEF None, Client

(* The types, without the bound on the counter. *)
Types ==
    /\ fdnet \in Client \cup {None}
    /\ tcp_timeout \in Nat
    /\ ready \subseteq DOMAIN Rank
    /\ backlog \in Seq(Client)
    /\ open \subseteq Client
    /\ netData \in BOOLEAN /\ serialData \in BOOLEAN /\ fault \in BOOLEAN
    /\ ended \in {"none", "timedout", "error", "overridden"}
    /\ quiet \in Nat
    /\ clients \in 0..MaxClients

(* A connection is open exactly while it is served.                        *)
ServedIsOpen == open = IF fdnet = None THEN {} ELSE {fdnet}

(* While a client is served the counter is below the limit, and no more    *)
(* than the time its client has been quiet.                                *)
CounterIsOwn ==
    fdnet # None => /\ tcp_timeout <= quiet
                    /\ tcp_timeout > 0 => tcp_timeout < inactivityLimit

(* Without a client the counter may have passed the limit by one select(). *)
CounterIsBounded ==
    tcp_timeout <= inactivityLimit + SelectTicks - 1

(* After an inactivity timeout nothing of its pass is left to be handled,  *)
(* so nothing can touch the idle time.                                     *)
TimedOutIsOver ==
    (ended = "timedout") => /\ fdnet = None /\ ready = {}
                            /\ quiet >= inactivityLimit

IInv == Types /\ ServedIsOpen /\ CounterIsOwn /\ CounterIsBounded /\ TimedOutIsOver

LEMMA InitIInv == Init => IInv
<1> SUFFICES ASSUME Init PROVE IInv
  OBVIOUS
<1> USE DEF Init
<1>1. backlog \in Seq(Client) /\ ready \subseteq DOMAIN Rank
  OBVIOUS
<1>2. netData \in BOOLEAN /\ serialData \in BOOLEAN /\ fault \in BOOLEAN
  OBVIOUS
<1>3. tcp_timeout \in Nat /\ quiet \in Nat
      /\ clients \in 0..MaxClients
  BY TcpToSerialAssumption
<1>4. Types
  BY <1>1, <1>2, <1>3 DEF Types
<1>5. ServedIsOpen /\ CounterIsOwn /\ TimedOutIsOver
  BY DEF ServedIsOpen, CounterIsOwn, TimedOutIsOver
<1>6. CounterIsBounded
  BY Durations DEF CounterIsBounded
<1>7. QED
  BY <1>4, <1>5, <1>6 DEF IInv

LEMMA ArmedHandlers == Armed \subseteq DOMAIN Rank
  BY DEF Armed, Rank

(* One step of the task or of its environment keeps the invariant.         *)
LEMMA Step == IInv /\ [Next]_vars => IInv'
<1> SUFFICES ASSUME IInv, [Next]_vars PROVE IInv'
  OBVIOUS
<1> USE Durations, Clients
    DEF IInv, Types, ServedIsOpen, CounterIsOwn, CounterIsBounded, TimedOutIsOver
<1>1. CASE Accept
  <2>1. backlog # << >> /\ Head(backlog) \in Client /\ Tail(backlog) \in Seq(Client)
    BY <1>1 DEF Accept
  <2>2. Types'
    BY <1>1, <2>1 DEF Accept, StartTimeout
  <2>3. ServedIsOpen'
    BY <1>1, <2>1 DEF Accept
  <2>4. (CounterIsOwn /\ CounterIsBounded /\ TimedOutIsOver)'
    BY <1>1 DEF Accept, StartTimeout
  <2>5. QED
    BY <2>2, <2>3, <2>4
<1>2. CASE Select
  BY <1>2, ArmedHandlers DEF Select, Selecting
<1>3. CASE SelectTimeout
  <2>1. /\ tcp_timeout' = tcp_timeout + SelectTicks
        /\ quiet' = IF quiet + SelectTicks < inactivityLimit THEN quiet + SelectTicks
                    ELSE inactivityLimit
        /\ TimeoutLimit > 0 /\ fdnet # None
    BY <1>3 DEF SelectTimeout, Counted, UpTo, Selecting
  <2>2. tcp_timeout < inactivityLimit
    BY <2>1
  <2>3. CASE tcp_timeout' >= inactivityLimit
    BY <1>3, <2>1, <2>2, <2>3 DEF SelectTimeout, Expired, Close, Selecting
  <2>4. CASE tcp_timeout' < inactivityLimit
    BY <1>3, <2>1, <2>2, <2>4 DEF SelectTimeout, Expired, Selecting
  <2>5. QED
    BY <2>1, <2>3, <2>4
<1>4. CASE FromNetwork
  <2>1. quiet' = 0 \/ quiet' = quiet
    BY <1>4 DEF FromNetwork
  <2>2. ended # "timedout"
    BY <1>4 DEF FromNetwork, Turn
  <2>3. Types'
    BY <1>4, <2>1 DEF FromNetwork, Turn
  <2>4. QED
    BY <1>4, <2>1, <2>2, <2>3 DEF FromNetwork
<1>5. CASE FromSerial
  BY <1>5 DEF FromSerial, Turn
<1>6. CASE Error
  BY <1>6 DEF Error, Turn, Close
<1>7. CASE Override
  BY <1>7 DEF Override, Turn, Close
<1>8. CASE Connect
  <2>1. clients' \in Client /\ clients' \in 0..MaxClients
    BY <1>8, TcpToSerialAssumption DEF Connect, Client
  <2>2. Append(backlog, clients') \in Seq(Client)
    BY <2>1
  <2>3. QED
    BY <1>8, <2>1, <2>2 DEF Connect, taskVars
<1>9. CASE Send
  BY <1>9, TcpToSerialAssumption DEF Send, taskVars
<1>10. CASE SerialInput
  BY <1>10, TcpToSerialAssumption DEF SerialInput, taskVars
<1>11. CASE Fail
  BY <1>11 DEF Fail, taskVars
<1>12. CASE UNCHANGED vars
  BY <1>12 DEF vars, taskVars
<1>13. QED
  BY <1>1, <1>2, <1>3, <1>4, <1>5, <1>6, <1>7, <1>8, <1>9, <1>10, <1>11, <1>12
     DEF Next, Task

LEMMA Invariant == Spec => []IInv
  BY InitIInv, Step, PTL DEF Spec

(* The types hold, and an inactivity timeout only ends a connection whose  *)
(* client sent nothing for the whole limit: no tick of the counter is left *)
(* over from an earlier client or an earlier pass.                         *)
THEOREM TimeoutCorrect == Spec => []CutOnlyWhenQuiet
<1>1. IInv => CutOnlyWhenQuiet
  BY Durations DEF IInv, Types, CounterIsBounded, TimedOutIsOver, CutOnlyWhenQuiet, TypeOK
<1>2. QED
  BY <1>1, Invariant, PTL

(* A waiting client is only looked at when the client that is served has   *)
(* been quiet for the override timeout.                                    *)
THEOREM OverrideCorrect == Spec => OverridesOnlyQuiet
<1>1. IInv /\ [Next]_vars =>
        [("suitor" \in ready' \ ready) => quiet >= OverideTimeout * TicksPerSecond]_vars
  <2> SUFFICES ASSUME IInv, Next, "suitor" \in ready' \ ready
               PROVE  quiet >= OverideTimeout * TicksPerSecond
    OBVIOUS
  <2>1. Select
    BY DEF Next, Task, Accept, SelectTimeout, FromNetwork, FromSerial, Error, Override,
       Turn, Connect, Send, SerialInput, Fail, taskVars
  <2>2. overideExpired /\ fdnet # None
    BY <2>1 DEF Select, Armed, Selecting
  <2>3. tcp_timeout >= OverideTimeout * TicksPerSecond
    BY <2>2, Durations DEF overideExpired, IInv, Types
  <2>4. QED
    BY <2>2, <2>3, Durations DEF IInv, Types, CounterIsOwn
<1>2. QED
  BY <1>1, Invariant, PTL DEF Spec, OverridesOnlyQuiet

(* One client is served at a time, in the order they queued, and none is   *)
(* abandoned: although an error and an override may be handled in one pass.*)
THEOREM ImplementsOneClient == Spec => ServesOneClient
<1>1. Init => Server!OCInit
  BY DEF Init, Server!OCInit
<1>2. IInv /\ [Next]_vars => [Server!OCNext]_Server!ocVars
  <2> SUFFICES ASSUME IInv, [Next]_vars
               PROVE  Server!OCNext \/ UNCHANGED <<backlog, open>>
    BY DEF Server!ocVars
  <2>1. CASE Accept
    BY <2>1 DEF Accept, IInv, ServedIsOpen, Server!OCNext, Server!Serve
  <2>2. ASSUME Close, UNCHANGED backlog
        PROVE  Server!OCNext \/ UNCHANGED <<backlog, open>>
    BY <2>2 DEF Close, IInv, ServedIsOpen, Server!OCNext, Server!Finish
  <2>3. CASE SelectTimeout \/ Error \/ Override
    BY <2>2, <2>3 DEF SelectTimeout, Error, Override
  <2>4. CASE Connect
    <3>1. clients' \in Client
      BY <2>4, TcpToSerialAssumption DEF Connect, Client, IInv, Types
    <3>2. QED
      BY <2>4, <3>1 DEF Connect, taskVars, Server!OCNext, Server!Join
  <2>5. QED
    BY <2>1, <2>3, <2>4 DEF Next, Task, Select, FromNetwork, FromSerial, Send,
       SerialInput, Fail, vars, taskVars
<1>3. QED
  BY <1>1, <1>2, Invariant, PTL DEF Spec, ServesOneClient, Server!OCSpec
=============================================================================
