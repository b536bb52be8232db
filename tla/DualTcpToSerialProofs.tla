----------------------- MODULE DualTcpToSerialProofs ------------------------
(***************************************************************************)
(* What DualTcpToSerial guarantees for every idle timeout, every width of  *)
(* the clock and any number of clients: it implements OneClient, and the   *)
(* unsigned comparison bumps nobody too early but where it is known to.    *)
(***************************************************************************)
EXTENDS DualTcpToSerial, TLAPS

LEMMA Widths == /\ WordSpan \in Nat \ {0}
                /\ idle_timeout \in 1..(WordSpan - 1) /\ idle_timeout \in Nat
                /\ SelectTicks \in Nat \ {0}
                /\ StartTick \subseteq 0..(WordSpan - 1)
                /\ QuietCap \in Nat /\ QuietCap > idle_timeout
  BY DualTcpToSerialAssumption DEF QuietCap

LEMMA Clients == None \notin Client
  BY DEF None, Client

(* What a sum of two words is after it went through one.                   *)
LEMMA Wrapped ==
  ASSUME NEW x \in 0..(2 * WordSpan - 1)
  PROVE  x % WordSpan = IF x < WordSpan THEN x ELSE x - WordSpan
<1>1. WordSpan \in Nat /\ WordSpan > 0 /\ x \in Nat /\ x < 2 * WordSpan
  BY Widths
<1>2. CASE x < WordSpan
  BY <1>1, <1>2
<1>3. CASE x >= WordSpan
  BY <1>1, <1>3
<1>4. QED
  BY <1>1, <1>2, <1>3

(* The ticks since timeout_value, as far as a word can tell.               *)
Elapsed == IF timeout_value <= TimeTick THEN TimeTick - timeout_value
           ELSE TimeTick - timeout_value + WordSpan

(* The types of what the theorems are about.                               *)
Types ==
    /\ TimeTick \in 0..(WordSpan - 1) /\ timeout_value \in 0..(WordSpan - 1)
    /\ fdnet \in Client \cup {None}
    /\ phase \in {"outer", "arm", "select", "handle"}
    /\ backlog \in Seq(Client)
    /\ quiet \in Nat
    /\ clients \in 0..MaxClients

(* The task is inside the loop exactly while a client is served, and that  *)
(* client's is the only open connection.                                   *)
ServedIsOpen ==
    /\ (phase = "outer") <=> (fdnet = None)
    /\ open = IF fdnet = None THEN {} ELSE {fdnet}

(* Of two accounts of the idle time, the clock's is never the longer one   *)
(* while it matters: the time since timeout_value is also quiet time.      *)
QuietCovers == fdnet # None => quiet >= Elapsed \/ quiet > idle_timeout

IInv == Types /\ ServedIsOpen /\ QuietCovers

LEMMA InitIInv == Init => IInv
<1> SUFFICES ASSUME Init PROVE IInv
  OBVIOUS
<1>1. Types
  <2>1. backlog \in Seq(Client)
    BY DEF Init
  <2>2. TimeTick \in 0..(WordSpan - 1) /\ 0 \in 0..(WordSpan - 1)
    BY Widths DEF Init
  <2>3. QED
    BY <2>1, <2>2, DualTcpToSerialAssumption DEF Init, Types
<1>2. ServedIsOpen /\ QuietCovers
  BY DEF Init, ServedIsOpen, QuietCovers
<1>3. QED
  BY <1>1, <1>2 DEF IInv

(* Activity is stamped and starts a new quiet time, or neither.            *)
LEMMA StampStep ==
  ASSUME IInv, fdnet' = fdnet, TimeTick' = TimeTick, NEW moved, Stamp(moved),
         quiet' = IF moved THEN 0 ELSE quiet
  PROVE  /\ timeout_value' \in 0..(WordSpan - 1) /\ quiet' \in Nat
         /\ QuietCovers'
<1> USE Widths DEF IInv, Types, QuietCovers, Stamp, Elapsed
<1>1. CASE moved
  BY <1>1
<1>2. CASE ~moved
  BY <1>2
<1>3. QED
  BY <1>1, <1>2

(* One step of the task or of its environment keeps the invariant.         *)
LEMMA Step == IInv /\ [Next]_vars => IInv'
<1> SUFFICES ASSUME IInv, [Next]_vars PROVE IInv'
  OBVIOUS
<1> USE Widths, Clients
<1>1. CASE Listen \/ AcceptFails
  <2>1. fdnet = None
    BY <1>1 DEF Listen, AcceptFails, IInv, ServedIsOpen
  <2>2. QED
    BY <1>1, <2>1 DEF Listen, AcceptFails, inputVars, IInv, Types, ServedIsOpen, QuietCovers
<1>2. CASE Accept
  <2>1. Head(backlog) \in Client /\ Tail(backlog) \in Seq(Client)
    BY <1>2 DEF Accept, IInv, Types
  <2>2. Types'
    BY <1>2, <2>1 DEF Accept, IInv, Types
  <2>3. ServedIsOpen'
    BY <1>2, <2>1 DEF Accept, IInv, ServedIsOpen
  <2>4. QuietCovers'
    BY <1>2 DEF Accept, IInv, Types, QuietCovers, Elapsed
  <2>5. QED
    BY <2>2, <2>3, <2>4 DEF IInv
<1>3. CASE Arm \/ Select
  BY <1>3 DEF Arm, Select, inputVars, IInv, Types, ServedIsOpen, QuietCovers, Elapsed
<1>4. ASSUME NEW h, NEW moved, Turn(h), Proceed(h), Stamp(moved),
             quiet' = IF moved THEN 0 ELSE quiet,
             UNCHANGED <<TimeTick, fdnet, open, backlog, clients>>
      PROVE  IInv'
  <2>1. timeout_value' \in 0..(WordSpan - 1) /\ quiet' \in Nat /\ QuietCovers'
    BY <1>4, StampStep
  <2>2. phase = "handle" /\ phase' \in {"arm", "handle"}
    BY <1>4 DEF Turn, Proceed
  <2>3. QED
    BY <1>4, <2>1, <2>2 DEF IInv, Types, ServedIsOpen
<1>5. CASE FromNetwork
  BY <1>4, <1>5 DEF FromNetwork
<1>6. CASE FromSerial
  BY <1>4, <1>6 DEF FromSerial
<1>7. CASE Error \/ Override
  BY <1>7 DEF Error, Override, Leave, Turn, Hangup, inputVars, IInv, Types, ServedIsOpen,
     QuietCovers
<1>8. CASE Tick
  <2>1. TimeTick' = IF TimeTick + 1 < WordSpan THEN TimeTick + 1 ELSE 0
    <3>1. TimeTick + 1 \in 0..(2 * WordSpan - 1) /\ TimeTick + 1 <= WordSpan
      BY DEF IInv, Types
    <3>2. TimeTick' = (TimeTick + 1) % WordSpan
      BY <1>8 DEF Tick
    <3>3. CASE TimeTick + 1 < WordSpan
      BY <3>1, <3>2, <3>3, Wrapped
    <3>4. CASE TimeTick + 1 = WordSpan
      BY <3>1, <3>2, <3>4, Wrapped
    <3>5. QED
      BY <3>1, <3>3, <3>4
  <2>2. quiet' \in Nat /\ (quiet' = quiet + 1 \/ (quiet' = quiet /\ quiet > idle_timeout))
    <3>1. quiet \in Nat /\ quiet' = IF quiet < QuietCap THEN quiet + 1 ELSE quiet
      BY <1>8 DEF Tick, IInv, Types
    <3>2. QED
      BY <3>1
  <2>3. Types' /\ ServedIsOpen'
    BY <1>8, <2>1, <2>2 DEF Tick, taskVars, inputVars, IInv, Types, ServedIsOpen
  <2>4. QuietCovers'
    BY <1>8, <2>1, <2>2 DEF Tick, taskVars, IInv, Types, QuietCovers, Elapsed
  <2>5. QED
    BY <2>3, <2>4 DEF IInv
<1>9. CASE Connect
  <2>1. clients' \in Client /\ clients' \in 0..MaxClients
    BY <1>9, DualTcpToSerialAssumption DEF Connect, Client, IInv, Types
  <2>2. backlog' \in Seq(Client)
    BY <1>9, <2>1 DEF Connect
  <2>3. QED
    BY <1>9, <2>1, <2>2 DEF Connect, taskVars, inputVars, IInv, Types, ServedIsOpen,
       QuietCovers, Elapsed
<1>10. CASE Send \/ SerialInput \/ Fail \/ UNCHANGED vars
  BY <1>10 DEF Send, SerialInput, Fail, vars, taskVars, IInv, Types, ServedIsOpen,
     QuietCovers, Elapsed
<1>11. QED
  BY <1>1, <1>2, <1>3, <1>5, <1>6, <1>7, <1>8, <1>9, <1>10 DEF Next, Task

LEMMA Invariant == Spec => []IInv
  BY InitIInv, Step, PTL DEF Spec

(* The code's comparison says idle only of a connection that was quiet for *)
(* more than idle_timeout, unless the limit has wrapped before the clock.  *)
LEMMA IdleIsQuiet ==
  ASSUME IInv, fdnet # None, Idle
  PROVE  quiet > idle_timeout \/ LimitWrappedFirst
<1> DEFINE limit == timeout_value + idle_timeout
<1> USE Widths DEF IInv, Types
<1>1. limit \in 0..(2 * WordSpan - 1)
  OBVIOUS
<1>2. (IF limit < WordSpan THEN limit ELSE limit - WordSpan) < TimeTick
  BY <1>1, Wrapped DEF Idle
<1>3. Elapsed > idle_timeout \/ LimitWrappedFirst
  BY <1>2 DEF Elapsed, LimitWrappedFirst
<1>4. Elapsed \in Int
  BY DEF Elapsed
<1>5. QED
  BY <1>3, <1>4 DEF QuietCovers

(* Nobody is bumped before the idle time is over, also when the clock has  *)
(* wrapped in it; but for the connections whose limit has wrapped first.   *)
THEOREM BumpCorrect == Spec => BumpedOnlyWhenIdle
<1>1. IInv /\ [Next]_vars =>
        [("suitor" \in armed' \ armed) => (quiet > idle_timeout \/ LimitWrappedFirst)]_vars
  <2> SUFFICES ASSUME IInv, Next, "suitor" \in armed' \ armed
               PROVE  quiet > idle_timeout \/ LimitWrappedFirst
    OBVIOUS
  <2>1. Arm
    BY DEF Next, Task, Listen, Accept, AcceptFails, Select, FromNetwork, FromSerial, Error,
       Override, Leave, Tick, Connect, Send, SerialInput, Fail, taskVars
  <2>2. Idle /\ fdnet # None
    BY <2>1 DEF Arm, Watched, IInv, ServedIsOpen
  <2>3. QED
    BY <2>2, IdleIsQuiet
<1>2. QED
  BY <1>1, Invariant, PTL DEF Spec, BumpedOnlyWhenIdle

(* One client is served at a time, in the order they queued, and none is   *)
(* abandoned, although the listening socket comes and goes.                *)
THEOREM ImplementsOneClient == Spec => ServesOneClient
<1>1. Init => Server!OCInit
  BY DEF Init, Server!OCInit
<1>2. IInv /\ [Next]_vars => [Server!OCNext]_Server!ocVars
  <2> SUFFICES ASSUME IInv, [Next]_vars
               PROVE  Server!OCNext \/ UNCHANGED <<backlog, open>>
    BY DEF Server!ocVars
  <2>1. CASE Accept
    BY <2>1 DEF Accept, IInv, ServedIsOpen, Server!OCNext, Server!Serve
  <2>2. CASE Error \/ Override
    BY <2>2 DEF Error, Override, Leave, Turn, Hangup, IInv, ServedIsOpen, Server!OCNext,
       Server!Finish
  <2>3. CASE Connect
    <3>1. clients' \in Client /\ backlog' = Append(backlog, clients')
      BY <2>3, DualTcpToSerialAssumption DEF Connect, Client, IInv, Types
    <3>2. QED
      BY <2>3, <3>1 DEF Connect, taskVars, Server!OCNext, Server!Join
  <2>4. QED
    BY <2>1, <2>2, <2>3 DEF Next, Task, Listen, AcceptFails, Arm, Select, FromNetwork,
       FromSerial, Tick, Send, SerialInput, Fail, vars, taskVars
<1>3. QED
  BY <1>1, <1>2, Invariant, PTL DEF Spec, ServesOneClient, Server!OCSpec

(* For the other direction the clock must not make a whole turn within an  *)
(* idle time: what is left of the run fits into what is left of the turn.  *)
Left == IF TimeTick <= LastTick THEN LastTick - TimeTick ELSE LastTick - TimeTick + WordSpan
NoWholeTurn == fdnet # None => Elapsed + Left < WordSpan /\ quiet <= Elapsed

(* From the pass that found the limit exceeded on, the task listens, or    *)
(* has tried to, and select() looks at the socket.  The ticks since that   *)
(* pass began are the ones this select() has waited.                       *)
LooksWhenIdle ==
    fdnet # None /\ Elapsed > idle_timeout + waited =>
        \/ ClockWrappedFirst
        \/ fdListen # 0 /\ (fdListen = Open => "suitor" \in armed)

LInv == IInv /\ TypeOK /\ NoWholeTurn /\ LooksWhenIdle

LEMMA ElapsedTyped ==
  ASSUME Types
  PROVE  Elapsed \in 0..(WordSpan - 1) /\ Left \in 0..(WordSpan - 1)
  BY Widths, DualTcpToSerialAssumption DEF Types, Elapsed, Left

(* A connection that was idle for longer than the limit counts as idle,    *)
(* unless the clock has wrapped before the limit.                          *)
LEMMA QuietIsIdle ==
  ASSUME Types, Elapsed > idle_timeout
  PROVE  Idle \/ ClockWrappedFirst
<1> DEFINE limit == timeout_value + idle_timeout
<1> USE Widths DEF Types
<1>1. limit \in 0..(2 * WordSpan - 1)
  OBVIOUS
<1>2. limit % WordSpan = IF limit < WordSpan THEN limit ELSE limit - WordSpan
  BY <1>1, Wrapped
<1>3. CASE limit < WordSpan
  BY <1>2, <1>3 DEF Idle, Elapsed, ClockWrappedFirst
<1>4. CASE limit >= WordSpan
  BY <1>2, <1>4 DEF Idle, Elapsed
<1>5. QED
  BY <1>3, <1>4

(* While the clock stands still and the connection is the same one, an     *)
(* activity ends the idle time, and nothing else concerns it.              *)
LEMMA ClockStands ==
  ASSUME LInv, Types', UNCHANGED <<TimeTick, fdnet, fdListen, armed, waited>>,
         \/ UNCHANGED <<timeout_value, quiet>>
         \/ timeout_value' = TimeTick /\ quiet' = 0
  PROVE  NoWholeTurn' /\ LooksWhenIdle'
<1> USE Widths, DualTcpToSerialAssumption DEF LInv
<1>1. CASE UNCHANGED <<timeout_value, quiet>>
  BY <1>1 DEF NoWholeTurn, LooksWhenIdle, Elapsed, Left, ClockWrappedFirst
<1>2. CASE timeout_value' = TimeTick /\ quiet' = 0
  <2>1. Elapsed' = 0 /\ Left' = Left /\ Left < WordSpan /\ waited' \in Nat
    BY <1>2, ElapsedTyped DEF IInv, Types, Elapsed, Left, TypeOK
  <2>2. QED
    BY <1>2, <2>1, ElapsedTyped DEF NoWholeTurn, LooksWhenIdle, IInv
<1>3. QED
  BY <1>1, <1>2

LEMMA InitLInv == Init => LInv
<1> SUFFICES ASSUME Init PROVE LInv
  OBVIOUS
<1> USE DEF Init
<1>1. backlog \in Seq(Client) /\ Len(backlog) <= 1
  OBVIOUS
<1>2. {netData, serialData, fault} \subseteq BOOLEAN
  OBVIOUS
<1>3. TypeOK
  BY <1>1, <1>2, InitIInv, Widths, DualTcpToSerialAssumption DEF IInv, Types, TypeOK
<1>4. QED
  BY <1>3, InitIInv DEF LInv, NoWholeTurn, LooksWhenIdle

(* The steps keep the types of all variables.                              *)
LEMMA TypesKept ==
  ASSUME LInv, [Next]_vars, Types'
  PROVE  TypeOK'
<1> USE Widths DEF LInv
<1>1. CASE Listen \/ AcceptFails
  BY <1>1 DEF Listen, EnsureListening, AcceptFails, TypeOK, inputVars, Open, Failed, Types
<1>2. CASE Accept
  <2>1. Len(Tail(backlog)) <= 1
    BY <1>2 DEF Accept, TypeOK
  <2>2. {netData', serialData', fault'} \subseteq BOOLEAN
    BY <1>2 DEF Accept, TypeOK
  <2>3. Head(backlog) \in Client
    BY <1>2 DEF Accept, TypeOK
  <2>4. quiet' \in 0..QuietCap
    BY <1>2 DEF Accept
  <2>5. QED
    BY <1>2, <2>1, <2>2, <2>3, <2>4 DEF Accept, TypeOK, Types
<1>3. CASE Arm
  <2>1. armed' \subseteq DOMAIN Rank
    BY <1>3 DEF Arm, Watched, Rank
  <2>2. fdListen' \in {0, Open, Failed}
    BY <1>3 DEF Arm, EnsureListening, TypeOK
  <2>3. ready' = {}
    BY <1>3 DEF Arm, TypeOK
  <2>4. QED
    BY <1>3, <2>1, <2>2, <2>3 DEF Arm, TypeOK, Types, inputVars
<1>4. CASE Select
  BY <1>4 DEF Select, TypeOK, Types, inputVars
<1>5. ASSUME NEW h, Turn(h), Proceed(h), NEW moved,
             quiet' = IF moved THEN 0 ELSE quiet,
             {netData', serialData', fault'} \subseteq BOOLEAN,
             UNCHANGED <<fdListen, fdnet, armed, open, ended, waited, backlog, batches, clients>>
      PROVE  TypeOK'
  <2>1. ready' \subseteq armed' /\ ((phase' = "handle") <=> (ready' # {}))
        /\ phase' \in {"arm", "handle"}
    BY <1>5 DEF Proceed, TypeOK
  <2>2. quiet' \in 0..QuietCap
    BY <1>5 DEF TypeOK
  <2>3. QED
    BY <1>5, <2>1, <2>2 DEF TypeOK, Types
<1>6. CASE FromNetwork
  BY <1>5, <1>6 DEF FromNetwork, TypeOK
<1>7. CASE FromSerial
  BY <1>5, <1>7 DEF FromSerial, TypeOK
<1>8. CASE Error \/ Override
  BY <1>8 DEF Error, Override, Leave, Hangup, TypeOK, Types, inputVars
<1>9. CASE Tick
  <2>1. waited' \in 0..SelectTicks
    BY <1>9 DEF Tick, BlockedInSelect, TypeOK
  <2>2. quiet' \in 0..QuietCap
    BY <1>9 DEF Tick, TypeOK
  <2>3. QED
    BY <1>9, <2>1, <2>2 DEF Tick, taskVars, inputVars, TypeOK, Types
<1>10. CASE Connect
  <2>1. clients' \in Client
    BY <1>10, DualTcpToSerialAssumption DEF Connect, TypeOK, Client
  <2>2. Len(backlog') <= 1
    BY <1>10, <2>1 DEF Connect
  <2>3. QED
    BY <1>10, <2>2 DEF Connect, taskVars, inputVars, TypeOK, Types
<1>11. CASE Send \/ SerialInput
  <2>1. batches' \in 0..MaxBatches
    BY <1>11, DualTcpToSerialAssumption DEF Send, SerialInput, TypeOK
  <2>2. {netData', serialData', fault'} \subseteq BOOLEAN
    BY <1>11 DEF Send, SerialInput, TypeOK
  <2>3. QED
    BY <1>11, <2>1, <2>2 DEF Send, SerialInput, taskVars, TypeOK, Types
<1>12. CASE Fail
  <2>1. {netData', serialData', fault'} \subseteq BOOLEAN
    BY <1>12 DEF Fail, TypeOK
  <2>2. QED
    BY <1>12, <2>1 DEF Fail, taskVars, TypeOK, Types
<1>13. CASE UNCHANGED vars
  BY <1>13 DEF vars, taskVars, inputVars, TypeOK
<1>14. QED
  BY <1>1, <1>2, <1>3, <1>4, <1>6, <1>7, <1>8, <1>9, <1>10, <1>11, <1>12, <1>13 DEF Next, Task

(* A tick within a select() is one of its own ticks, and no turn of the    *)
(* clock ends with it.                                                     *)
LEMMA TickKept ==
  ASSUME LInv, Types', Tick
  PROVE  NoWholeTurn' /\ LooksWhenIdle'
<1> USE Widths, DualTcpToSerialAssumption
<1>1. UNCHANGED <<fdnet, fdListen, armed, timeout_value>>
  BY DEF Tick, taskVars
<1>2. CASE fdnet = None
  BY <1>1, <1>2 DEF NoWholeTurn, LooksWhenIdle
<1>3. CASE fdnet # None
  <2>1. TimeTick \in 0..(WordSpan - 1) /\ timeout_value \in 0..(WordSpan - 1)
        /\ waited \in Nat /\ quiet \in Nat
    BY DEF LInv, TypeOK, IInv, Types
  <2>2. waited' = waited + 1 /\ quiet' <= quiet + 1 /\ quiet' \in Nat
    <3>1. phase # "outer"
      BY <1>3 DEF LInv, IInv, ServedIsOpen
    <3>2. waited' = waited + 1
      BY <3>1 DEF Tick, BlockedInSelect, BlockedInAccept
    <3>3. QED
      BY <2>1, <3>2 DEF Tick
  <2>3. TimeTick' = IF TimeTick + 1 < WordSpan THEN TimeTick + 1 ELSE 0
    <3>1. TimeTick + 1 \in 0..(2 * WordSpan - 1) /\ TimeTick + 1 <= WordSpan
      BY <2>1
    <3>2. TimeTick' = (TimeTick + 1) % WordSpan
      BY DEF Tick
    <3>3. QED
      BY <3>1, <3>2, Wrapped
  <2>4. TimeTick # LastTick
    BY DEF Tick
  <2>5. Left' = Left - 1 /\ Left \in Nat
    BY <2>1, <2>3, <2>4 DEF Left
  <2>6. Elapsed + Left < WordSpan /\ quiet <= Elapsed /\ Elapsed \in Nat
    BY <1>3, ElapsedTyped DEF LInv, NoWholeTurn, IInv
  <2>7. Elapsed + 1 < WordSpan
    <3>1. Left # 0
      BY <2>1, <2>4 DEF Left
    <3>2. QED
      BY <2>5, <2>6, <3>1
  <2>8. Elapsed' = Elapsed + 1
    BY <1>1, <2>1, <2>3, <2>7 DEF Elapsed
  <2>9. NoWholeTurn'
    BY <2>1, <2>2, <2>5, <2>6, <2>8 DEF NoWholeTurn
  <2>10. ClockWrappedFirst => ClockWrappedFirst'
    BY <1>1, <2>1, <2>3, <2>7 DEF ClockWrappedFirst, Elapsed
  <2>11. LooksWhenIdle'
    BY <1>1, <1>3, <2>1, <2>2, <2>6, <2>8, <2>10 DEF LInv, LooksWhenIdle
  <2>12. QED
    BY <2>9, <2>11
<1>4. QED
  BY <1>2, <1>3

LEMMA LooksKept ==
  ASSUME LInv, [Next]_vars, Types', ServedIsOpen'
  PROVE  NoWholeTurn' /\ LooksWhenIdle'
<1>1. CASE Listen \/ AcceptFails \/ Error \/ Override
  <2>1. fdnet' = None
    BY <1>1 DEF Listen, AcceptFails, Error, Override, Leave, Hangup, LInv, IInv, ServedIsOpen
  <2>2. QED
    BY <2>1 DEF NoWholeTurn, LooksWhenIdle
<1>2. CASE Accept
  <2>1. timeout_value' = TimeTick /\ TimeTick' = TimeTick /\ quiet' = 0 /\ waited' = waited
    BY <1>2 DEF Accept
  <2>2. Elapsed' = 0 /\ Left' = Left /\ Left < WordSpan /\ waited' \in Nat
    BY <2>1, ElapsedTyped, Widths DEF LInv, IInv, Types, Elapsed, Left, TypeOK
  <2>3. QED
    BY <2>1, <2>2, ElapsedTyped, Widths DEF NoWholeTurn, LooksWhenIdle, LInv, IInv
<1>3. CASE Arm
  <2>1. /\ UNCHANGED <<TimeTick, fdnet, timeout_value, quiet>> /\ waited' = 0
        /\ Idle => fdListen' # 0 /\ (fdListen' = Open => "suitor" \in armed')
    BY <1>3 DEF Arm, EnsureListening, Watched, Open, Failed
  <2>2. Elapsed' = Elapsed /\ Left' = Left /\ (ClockWrappedFirst => ClockWrappedFirst')
    BY <2>1 DEF Elapsed, Left, ClockWrappedFirst
  <2>3. Types /\ NoWholeTurn
    BY DEF LInv, IInv
  <2>4. Elapsed > idle_timeout => Idle \/ ClockWrappedFirst
    BY <2>3, QuietIsIdle
  <2>5. NoWholeTurn'
    BY <2>1, <2>2, <2>3 DEF NoWholeTurn
  <2>6. LooksWhenIdle'
    BY <2>1, <2>2, <2>4, Widths DEF LooksWhenIdle
  <2>7. QED
    BY <2>5, <2>6
<1>4. CASE FromNetwork \/ FromSerial
  BY <1>4, ClockStands DEF FromNetwork, FromSerial, Stamp
<1>5. CASE Tick
  BY <1>5, TickKept
<1>6. CASE Select \/ Connect \/ Send \/ SerialInput \/ Fail \/ UNCHANGED vars
  BY <1>6, ClockStands DEF Select, Connect, Send, SerialInput, Fail, vars, taskVars
<1>7. QED
  BY <1>1, <1>2, <1>3, <1>4, <1>5, <1>6 DEF Next, Task

(* At the latest one select() after the idle time the task has a listening *)
(* socket again and watches it, so that a dead connection is replaced when *)
(* a client comes: within one turn of the clock, unless the clock has      *)
(* wrapped before the limit, and unless listen() failed in this session,   *)
(* which the code never tries again.                                       *)
THEOREM ReplaceCorrect == Spec => []ReplaceableInTime
<1>1. LInv /\ [Next]_vars => LInv'
  <2> SUFFICES ASSUME LInv, [Next]_vars PROVE LInv'
    OBVIOUS
  <2>1. IInv'
    BY Step DEF LInv
  <2>2. QED
    BY <2>1, TypesKept, LooksKept DEF LInv, IInv
<1>2. LInv => ReplaceableInTime
  <2> SUFFICES ASSUME LInv, fdnet # None, quiet > idle_timeout + SelectTicks
               PROVE  \/ ClockWrappedFirst
                      \/ fdListen = Failed
                      \/ fdListen = Open /\ "suitor" \in armed
    BY DEF ReplaceableInTime, LInv
  <2>1. Elapsed > idle_timeout + waited
    <3>1. waited \in Nat /\ waited <= SelectTicks /\ quiet \in Nat
      BY Widths DEF LInv, TypeOK
    <3>2. quiet <= Elapsed /\ Elapsed \in Nat
      BY ElapsedTyped, Widths DEF LInv, NoWholeTurn, IInv
    <3>3. QED
      BY <3>1, <3>2, Widths
  <2>2. QED
    BY <2>1 DEF LInv, LooksWhenIdle, TypeOK
<1>3. QED
  BY InitLInv, <1>1, <1>2, PTL DEF Spec
=============================================================================
