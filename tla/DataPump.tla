------------------------------ MODULE DataPump ------------------------------
(***************************************************************************)
(* DataPump() of serial/SerialBurner: one call, from entry to return.  It  *)
(* moves bytes between the network connection (fd1, side 1) and the serial *)
(* port (fd2, side 2) around one select(), with one buffer per direction,  *)
(* an inactivity timeout and an override timeout after which a connection  *)
(* waiting on the listening socket ends this one.                          *)
(*                                                                         *)
(* A byte is the position at which it arrived on its side, so that order   *)
(* and loss are visible.  Traffic has no end: positions are counted anew   *)
(* from time to time (Recount).  The peers, the stack's queues behind the  *)
(* two file descriptors and the listening socket are the environment.      *)
(***************************************************************************)
EXTENDS Integers, Sequences

CONSTANTS BufferSize,        (* BUFFER_SIZE                                *)
          TicksPerSecond,    (* TICKS_PER_SECOND                           *)
          SelectTicks,       (* TCP_WRITE_TIMEOUT, the select() timeout    *)
          WordSpan,          (* how many values a uint32_t has             *)
          FieldSpan,         (* how many a uint16_t settings field has     *)
          Timeouts,          (* bound: the inactivity timeouts asked for   *)
          Overrides,         (* bound: the override timeouts asked for     *)
          TxRoom,            (* bytes a descriptor's send queue can hold   *)
          MaxBytes           (* bound: bytes that arrive on each side      *)
                             (* between two recounts, see Recount          *)

ASSUME DataPumpAssumption ==
    /\ BufferSize \in Nat \ {0} /\ TxRoom \in Nat \ {0} /\ MaxBytes \in [{1, 2} -> Nat]
    /\ TicksPerSecond \in Nat \ {0} /\ SelectTicks \in Nat \ {0}
    /\ FieldSpan \in Nat \ {0, 1} /\ WordSpan \in Nat \ {0}
    /\ (WordSpan - 1) % FieldSpan = FieldSpan - 1
    /\ Timeouts \subseteq Nat /\ Overrides \subseteq Nat

Side == {1, 2}
Other(s) == 3 - s

VARIABLES
    settings,    (* the settings asked for, in seconds                      *)
    buffer,      (* buffer[s]: the bytes read from side s, positions from 0 *)
    start,       (* start[s]: position of the first unsent byte             *)
    end,         (* end[s]: position after the last unsent byte             *)
    tcp_timeout, (* ticks counted towards the two timeouts                  *)
    ready,       (* what is left of the fd sets select() returned           *)
    result,      (* "running", or why the call has returned                 *)
    rxctr,       (* rxctr[s]: bytes read from side s                        *)
    sent,        (* sent[s]: the bytes written to side s                    *)
    arrived,     (* arrived[s]: bytes the stack has received on side s      *)
    room,        (* room[s]: free space in the send queue of side s         *)
    fault,       (* fault[s]: the descriptor of side s reports an error     *)
    suitor,      (* a connection waits on the listening socket              *)
    idle         (* history: ticks waited since a byte moved, up to the limit *)

pump == <<buffer, start, end, tcp_timeout, ready, result, rxctr, sent>>
env == <<settings, arrived, room, fault, suitor>>
pumpVars == <<pump, env, idle>>

(* The settings are kept in uint16_t fields and read back into uint32_t.   *)
(* A timeout of 0 disables it, an override timeout of all ones is "never". *)
Stored(value) == value % FieldSpan
totalTimeout == Stored(settings.ClientTimeout)
overrideTimeout == Stored(settings.ClientOverrideTimeout)
inactivityLimit == totalTimeout * TicksPerSecond
Never == WordSpan - 1

(* The members of the three fd sets, in the order the code tests them.     *)
Handler == ({"read", "write", "error"} \X Side) \cup {<<"suitor", 1>>}
Rank == [read |-> 0, write |-> 2, error |-> 4, suitor |-> 6]
Place(h) == Rank[h[1]] + h[2]

(* The verdicts of one call: the code returns fd1, fd2, or 0 twice.        *)
Result == {"running", "fd1", "fd2", "overridden", "timedout"}

PumpInit ==
    /\ settings \in [ClientTimeout : Timeouts, ClientOverrideTimeout : Overrides]
    /\ buffer = [s \in Side |-> [i \in 0..(BufferSize - 1) |-> 0]]
    /\ start = [s \in Side |-> 0]
    /\ end = [s \in Side |-> 0]
    /\ tcp_timeout = 0
    /\ ready = {}
    /\ result = "running"
    /\ rxctr = [s \in Side |-> 0]
    /\ sent = [s \in Side |-> << >>]
    /\ arrived = [s \in Side |-> 0]
    /\ room = [s \in Side |-> TxRoom]
    /\ fault = [s \in Side |-> FALSE]
    /\ suitor = FALSE
    /\ idle = 0

(***************************************************************************)
(* The call.                                                               *)
(***************************************************************************)
Unsent(s) == end[s] - start[s]

(* Mutant of allowOveride: 0 disables, as it does for the other timeout.   *)
MutantAllowOveride == overrideTimeout # 0
allowOveride == overrideTimeout # Never
(* Mutant of overideExpired: seconds compared with ticks.                  *)
MutantOverideExpired == overrideTimeout = 0 \/ tcp_timeout >= overrideTimeout
overideExpired == \/ overrideTimeout = 0
                  \/ tcp_timeout >= overrideTimeout * TicksPerSecond

(* Mutants of Armed: reads even while the buffer holds unsent bytes; the   *)
(* wrong descriptor is set for the bytes owed to the network.              *)
MutantArmedPaste ==
    ({"error"} \X Side)
      \cup {<<"read", s>> : s \in {t \in Side : start[t] = end[t]}}
      \cup {<<"write", 2>> : s \in {t \in Side : start[t] # end[t]}}
      \cup (IF allowOveride /\ overideExpired THEN {<<"suitor", 1>>} ELSE {})
MutantArmed ==
    ({"error", "read"} \X Side)
      \cup {<<"write", Other(s)>> : s \in {t \in Side : start[t] # end[t]}}
      \cup (IF allowOveride /\ overideExpired THEN {<<"suitor", 1>>} ELSE {})

(* What is put into the fd sets: errors always, and per direction either   *)
(* the descriptor to read from or the one to write to.                     *)
Armed ==
    ({"error"} \X Side)
      \cup {<<"read", s>> : s \in {t \in Side : start[t] = end[t]}}
      \cup {<<"write", Other(s)>> : s \in {t \in Side : start[t] # end[t]}}
      \cup (IF allowOveride /\ overideExpired THEN {<<"suitor", 1>>} ELSE {})

(* What select() finds ready, given the state of the descriptors.          *)
Pending ==
    {<<"error", s>> : s \in {t \in Side : fault[t]}}
      \cup {<<"read", s>> : s \in {t \in Side : fault[t] \/ arrived[t] > rxctr[t]}}
      \cup {<<"write", s>> : s \in {t \in Side : fault[t] \/ room[t] > 0}}
      \cup (IF suitor THEN {<<"suitor", 1>>} ELSE {})

Selecting == result = "running" /\ ready = {}

Select ==
    /\ Selecting
    /\ Armed \cap Pending # {}
    /\ ready' = Armed \cap Pending
    /\ UNCHANGED <<buffer, start, end, tcp_timeout, result, rxctr, sent, env, idle>>

(* Mutant of Expired: the limit itself is still allowed.                   *)
MutantExpired(ticks) == ticks > inactivityLimit

Expired(ticks) == ticks >= inactivityLimit
Counted(ticks) == ticks + SelectTicks

(* select() returned 0: nothing was ready for SelectTicks.                 *)
SelectTimeout ==
    /\ Selecting
    /\ Armed \cap Pending = {}
    /\ totalTimeout > 0
    /\ tcp_timeout' = Counted(tcp_timeout)
    /\ result' = IF Expired(tcp_timeout') THEN "timedout" ELSE result
    /\ idle' = IF idle + SelectTicks < inactivityLimit
                 THEN idle + SelectTicks ELSE inactivityLimit
    /\ UNCHANGED <<buffer, start, end, ready, rxctr, sent, env>>

(* Handler h is the next of the ready ones in the order of the code.       *)
Turn(h) ==
    /\ result = "running"
    /\ h \in ready
    /\ \A g \in ready : Place(h) <= Place(g)
    /\ ready' = ready \ {h}

ReadLimit == BufferSize

(* Read into the buffer of side s.  A failed read leaves everything alone. *)
Read(s) ==
    /\ Turn(<<"read", s>>)
    /\ \/ \E rv \in 1..ReadLimit :
            /\ rv <= arrived[s] - rxctr[s]
            /\ buffer' = [buffer EXCEPT ![s] = [i \in 0..(BufferSize - 1) |->
                            IF i < rv THEN rxctr[s] + 1 + i ELSE @[i]]]
            /\ start' = [start EXCEPT ![s] = 0]
            /\ end' = [end EXCEPT ![s] = rv]
            /\ rxctr' = [rxctr EXCEPT ![s] = @ + rv]
            /\ idle' = 0
       \/ /\ fault[s]
          /\ UNCHANGED <<buffer, start, end, rxctr, idle>>
    /\ UNCHANGED <<tcp_timeout, result, sent, env>>

(* Mutant of Chunk: writes from the head of the buffer, not from start.    *)
MutantChunk(o, rv) == [i \in 1..rv |-> buffer[o][i - 1]]

(* The next rv unsent bytes of the buffer of side o.                       *)
Chunk(o, rv) == [i \in 1..rv |-> buffer[o][start[o] + i - 1]]

(* Write to side s what the other side's buffer still holds, as far as the *)
(* send queue has room.                                                    *)
Write(s) ==
    /\ Turn(<<"write", s>>)
    /\ LET o == Other(s) IN
       \/ \E rv \in 1..Unsent(o) :
            /\ rv <= room[s]
            /\ sent' = [sent EXCEPT ![s] = @ \o Chunk(o, rv)]
            /\ start' = [start EXCEPT ![o] = @ + rv]
            /\ room' = [room EXCEPT ![s] = @ - rv]
            /\ idle' = 0
       \/ /\ fault[s]
          /\ UNCHANGED <<sent, start, room, idle>>
    /\ UNCHANGED <<settings, buffer, end, tcp_timeout, result, rxctr, arrived, fault,
                   suitor>>

(* An error on a descriptor ends the call with that descriptor.            *)
Error(s) ==
    /\ Turn(<<"error", s>>)
    /\ result' = IF s = 1 THEN "fd1" ELSE "fd2"
    /\ UNCHANGED <<buffer, start, end, tcp_timeout, rxctr, sent, env, idle>>

(* A new connection is waiting: tell both sides and return 0.              *)
Yield ==
    /\ Turn(<<"suitor", 1>>)
    /\ result' = "overridden"
    /\ UNCHANGED <<buffer, start, end, tcp_timeout, rxctr, sent, env, idle>>

Pump == \/ Select
        \/ SelectTimeout
        \/ \E s \in Side : Read(s) \/ Write(s) \/ Error(s)
        \/ Yield

(***************************************************************************)
(* The environment.                                                        *)
(***************************************************************************)
Arrive(s) ==
    /\ result = "running"
    /\ ~fault[s]
    /\ arrived[s] < MaxBytes[s]
    /\ arrived' = [arrived EXCEPT ![s] = @ + 1]
    /\ UNCHANGED <<settings, pump, room, fault, suitor, idle>>

(* The far end takes the bytes of the send queue off. *)
Drain(s) ==
    /\ result = "running"
    /\ room[s] < TxRoom
    /\ room' = [room EXCEPT ![s] = TxRoom]
    /\ UNCHANGED <<settings, pump, arrived, fault, suitor, idle>>

Fail(s) ==
    /\ result = "running"
    /\ ~fault[s]
    /\ fault' = [fault EXCEPT ![s] = TRUE]
    /\ UNCHANGED <<settings, pump, arrived, room, suitor, idle>>

Knock ==
    /\ result = "running"
    /\ ~suitor
    /\ suitor' = TRUE
    /\ UNCHANGED <<settings, pump, arrived, room, fault, idle>>

(* The positions of side s are counted anew from the first byte not yet    *)
(* read, when all that was read has been written; what is left of it in    *)
(* the buffer becomes position 0.  MaxBytes bounds the bytes of one count, *)
(* not the traffic, which may go on for ever and keep select() from ever   *)
(* timing out.                                                             *)
Recount(s) ==
    /\ result = "running"
    /\ start[s] = end[s] /\ rxctr[s] > 0
    /\ arrived' = [arrived EXCEPT ![s] = @ - rxctr[s]]
    /\ rxctr' = [rxctr EXCEPT ![s] = 0]
    /\ sent' = [sent EXCEPT ![Other(s)] = << >>]
    /\ buffer' = [buffer EXCEPT ![s] = [i \in 0..(BufferSize - 1) |-> 0]]
    /\ UNCHANGED <<settings, start, end, tcp_timeout, ready, result, room,
                   fault, suitor, idle>>

Environment == \/ \E s \in Side : Arrive(s) \/ Drain(s) \/ Fail(s) \/ Recount(s)
               \/ Knock

PumpNext == Pump \/ Environment

PumpSpec == PumpInit /\ [][PumpNext]_pumpVars

(* The task that runs the pump is scheduled again and again; the peers     *)
(* owe nothing.                                                            *)
PumpFairSpec == PumpSpec /\ WF_pumpVars(Pump)

-----------------------------------------------------------------------------
PumpTypeOK ==
    /\ settings \in [ClientTimeout : Timeouts, ClientOverrideTimeout : Overrides]
    /\ buffer \in [Side -> [0..(BufferSize - 1) -> Nat]]
    /\ start \in [Side -> 0..BufferSize]
    /\ end \in [Side -> 0..BufferSize]
    /\ tcp_timeout \in Nat
    /\ ready \subseteq Handler
    /\ result \in Result
    /\ rxctr \in [Side -> Nat]
    /\ sent \in [Side -> Seq(Nat)]
    /\ arrived \in [Side -> Nat]
    /\ room \in [Side -> 0..TxRoom]
    /\ fault \in [Side -> BOOLEAN]
    /\ suitor \in BOOLEAN
    /\ idle \in Nat
    /\ \A s \in Side : rxctr[s] <= arrived[s]

(* The buffers carry what has been read and not yet written, in order: the *)
(* bytes between the two positions are the next ones the far side is owed, *)
(* and nothing read is anywhere else (the two counters of each direction   *)
(* differ by exactly what the buffer holds).                               *)
BufferHoldsTheGap ==
    \A s \in Side :
        /\ start[s] <= end[s]
        /\ rxctr[s] = Len(sent[Other(s)]) + Unsent(s)
        /\ \A i \in start[s]..(end[s] - 1) :
               buffer[s][i] = Len(sent[Other(s)]) + 1 + (i - start[s])

(* A dead link is cut in time: a call that still runs has not sat through  *)
(* ClientTimeout seconds in which nothing moved, whatever it waited before *)
(* and whatever woke it in between.                                        *)
DeadLinkIsCut ==
    (result = "running" /\ totalTimeout > 0) => idle < inactivityLimit

(* The pump implements a bounded lossless FIFO pipe in each direction.     *)
Pipe == INSTANCE BytePipe WITH
            Direction <- Side, Depth <- BufferSize,
            taken <- rxctr, given <- [s \in Side |-> sent[Other(s)]]
PumpsLikeAPipe == Pipe!PipeSpec

(* Peers that keep taking bytes off the send queues. *)
PeersDrain == \A s \in Side : WF_pumpVars(Drain(s))

(* With such peers no direction starves while the call runs, whatever the  *)
(* order of arrivals, partial reads and partial writes: it catches up      *)
(* again and again or, when traffic never lets it, goes on writing.        *)
EveryByteForwarded ==
    PeersDrain => \A s \in Side :
        \/ []<>(result # "running" \/ Len(sent[Other(s)]) = arrived[s])
        \/ []<><<Write(Other(s)) /\ start' # start>>_pumpVars

(* The link pauses: again and again nothing is ready for one select().     *)
LinkPauses == []<><<SelectTimeout>>_pumpVars

(* A connection waiting once the override timeout has been counted ends    *)
(* the call, even on a link that never pauses again.  Before that, time is *)
(* only counted in the pauses, and only if the inactivity timeout is       *)
(* enabled: on a link that pauses, however much traffic lies in between,   *)
(* the waiting connection gets its turn; on one that never does, it waits  *)
(* for ever.                                                               *)
SuitorServed ==
    /\ (suitor /\ tcp_timeout >= overrideTimeout * TicksPerSecond)
            ~> (result # "running")
    /\ LinkPauses => (suitor ~> (result # "running"))

(* Asked for the override timeout 0xFFFFFFFF, which nvsettings.h documents *)
(* as "ignore the incoming connection", the pump never yields to a waiting *)
(* one.  The value does not survive its uint16_t field, so the test for it *)
(* is never true: what keeps the promise is that the inactivity timeout is *)
(* held in a field of the same width and ends the call first.              *)
NeverMeansNever ==
    (settings.ClientOverrideTimeout = Never) => result # "overridden"

(* datapump.cpp: the call returns 0 if nothing has happened for the number *)
(* of ticks specified by ClientTimeout.                                    *)
TimedOutMeansIdle ==
    (result = "timedout") => idle >= inactivityLimit
=============================================================================
