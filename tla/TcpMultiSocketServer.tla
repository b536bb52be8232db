------------------------ MODULE TcpMultiSocketServer ------------------------
(***************************************************************************)
(* The single task of TCP/TcpMultiSocketServer: a table of connections and *)
(* a listening socket behind one select().  A descriptor is a number that  *)
(* is used again once it has been closed, so a number in the sets that     *)
(* select() returned may by then stand for another connection.             *)
(***************************************************************************)
EXTENDS Integers, Sequences, FiniteSets, SequencesExt

CONSTANTS maxConnections,   (* slots of the table                          *)
          MaxFd,            (* descriptors of the TCP stack                *)
          MaxClients,       (* bound: clients that connect                 *)
          MaxSends,         (* bound: messages and losses                  *)
          MaxFaults         (* bound: errors of the listening socket and of*)
                            (* accept()                                    *)

ASSUME ServerAssumption ==
    /\ maxConnections \in Nat \ {0}
    /\ MaxFd \in Nat /\ MaxFd >= maxConnections + 2
    /\ MaxClients \in Nat /\ MaxSends \in Nat /\ MaxFaults \in Nat

Slot == 1..maxConnections
Fd == 1..MaxFd
Client == 1..MaxClients
None == 0                   (* no descriptor, or a free one                *)
Listener == MaxClients + 1  (* what the listening descriptor stands for    *)

VARIABLES
    fdArray, fdListen,
    readFds, errorFds,   (* what select() returned                         *)
    pc, slot,            (* the step of the pass, and the slot it looks at *)
    socket,              (* what each descriptor stands for                *)
    backlog,             (* the clients queued on fdListen                 *)
    refused,             (* the clients told that the server is full       *)
    input,               (* what is to be read from each client: "data",   *)
                         (* "quit" if it begins with 'Q', "late" if a 'Q'  *)
                         (* comes behind data, the end or an error         *)
    fault,               (* the listening socket reports an error          *)
    clients, sends, faults   (* counted against the bounds                 *)

taskVars == <<fdArray, fdListen, readFds, errorFds, pc, slot>>
envVars == <<clients, sends, faults>>
vars == <<taskVars, socket, backlog, refused, input, fault, envVars>>

Init ==
    /\ fdArray = [i \in Slot |-> None]
    /\ fdListen \in {1, None}
    /\ readFds = {} /\ errorFds = {}
    /\ pc = "select" /\ slot = 1
    /\ socket = [f \in Fd |-> IF f = fdListen THEN Listener ELSE None]
    /\ backlog = << >> /\ refused = {}
    /\ input = [c \in Client |-> "none"]
    /\ fault = FALSE
    /\ clients = 0 /\ sends = 0 /\ faults = 0

Free == {f \in Fd : socket[f] = None}

(***************************************************************************)
(* The task.                                                               *)
(***************************************************************************)
Then == [select |-> "accept", accept |-> "listen", listen |-> "slots"]

Armed == ({fdArray[i] : i \in Slot} \cup {fdListen}) \ {None}

Readable(f) == IF socket[f] = Listener THEN backlog # << >>
               ELSE socket[f] # None /\ input[socket[f]] \in {"data", "late", "quit", "closed"}
Failing(f) == IF socket[f] = Listener THEN fault
              ELSE socket[f] # None /\ input[socket[f]] = "reset"

(* It waits until a descriptor of the sets is readable or has an error. *)
Select ==
    /\ pc = "select"
    /\ readFds' = {f \in Armed : Readable(f)}
    /\ errorFds' = {f \in Armed : Failing(f)}
    /\ readFds' \cup errorFds' # {}
    /\ pc' = Then[pc]
    /\ UNCHANGED <<fdArray, fdListen, slot, socket, backlog, refused, input, fault, envVars>>

(* Mutant of OpenSlots: the last slot of the table is not tried. *)
MutantOpenSlots == {i \in Slot : fdArray[i] = None /\ i < maxConnections}
OpenSlots == {i \in Slot : fdArray[i] = None}
FirstOf(slots) == CHOOSE i \in slots : \A j \in slots : i <= j

(* What accept() returns is put into the first open slot, or refused. *)
Place(fdAccept) ==
    IF OpenSlots # {}
      THEN /\ fdArray' = [fdArray EXCEPT ![FirstOf(OpenSlots)] = fdAccept]
           /\ socket' = [socket EXCEPT ![fdAccept] = Head(backlog)]
           /\ UNCHANGED refused
      ELSE /\ refused' = refused \cup {Head(backlog)}
           /\ UNCHANGED <<fdArray, socket>>

(* accept() has no timeout: if the client has given up since select(), it  *)
(* waits for another one.  An error code is refused like a client, and     *)
(* closing it has no effect.                                               *)
Accept ==
    /\ pc = "accept"
    /\ pc' = Then[pc]
    /\ \/ /\ fdListen \notin readFds
          /\ UNCHANGED <<fdArray, socket, backlog, refused, faults>>
       \/ /\ fdListen \in readFds /\ backlog # << >>
          /\ backlog' = Tail(backlog)
          /\ \E fdAccept \in Free : Place(fdAccept)
          /\ UNCHANGED faults
       \/ /\ fdListen \in readFds /\ faults < MaxFaults
          /\ faults' = faults + 1
          /\ UNCHANGED <<fdArray, socket, backlog, refused>>
    /\ UNCHANGED <<fdListen, readFds, errorFds, slot, input, fault, clients, sends>>

(* Mutant of Listening: the new descriptor is not kept. *)
MutantListening(f) == fdListen' = fdListen
Listening(f) == fdListen' = f

(* close(fdListen), listen(): which may get any free number, or fail.      *)
Listen ==
    /\ pc = "listen"
    /\ pc' = Then[pc]
    /\ IF fdListen \notin errorFds
         THEN UNCHANGED <<fdListen, socket, backlog, fault>>
         ELSE /\ backlog' = << >> /\ fault' = FALSE
              /\ \/ \E f \in Free \cup {fdListen} :
                      /\ Listening(f)
                      /\ socket' = [socket EXCEPT ![fdListen] = None, ![f] = Listener]
                 \/ /\ fdListen' = None
                    /\ socket' = [socket EXCEPT ![fdListen] = None]
    /\ UNCHANGED <<fdArray, readFds, errorFds, slot, refused, input, envVars>>

(* Mutant of CloseSlot: the slot keeps the descriptor it has closed. *)
MutantCloseSlot(i) ==
    /\ socket' = [socket EXCEPT ![fdArray[i]] = None]
    /\ UNCHANGED fdArray
CloseSlot(i) ==
    /\ socket' = [socket EXCEPT ![fdArray[i]] = None]
    /\ fdArray' = [fdArray EXCEPT ![i] = None]

(* Mutant of ReadError: only the errors that select() reports count. *)
MutantReadError(i) == FALSE
ReadError(i) == /\ fdArray[i] \in readFds
                /\ input[socket[fdArray[i]]] \in {"none", "closed", "reset"}
Quits(i) == /\ fdArray[i] \in readFds
            /\ input[socket[fdArray[i]]] = "quit"

(* One read() takes all there is, up to the size of the buffer, and only   *)
(* its first character is looked at: a 'Q' behind data is lost with it,    *)
(* unless the data alone fill the buffer.                                  *)
Rest(unread) == CASE unread = "data" -> {"none"}
                  [] unread = "late" -> {"none", "quit"}
                  [] OTHER           -> {unread}

LastSlot == slot = maxConnections

(* The slot's connection: read it, close it on 'Q' or an error.  After 'Q' *)
(* descriptor 0 is looked up, which is never in errorFds.                  *)
ProcessSlot ==
    /\ pc = "slots"
    /\ LET i == slot  f == fdArray[slot] IN
         /\ IF f # None /\ (Quits(i) \/ ReadError(i) \/ f \in errorFds)
              THEN CloseSlot(i)
              ELSE UNCHANGED <<fdArray, socket>>
         /\ IF f \in readFds
              THEN \E rest \in Rest(input[socket[f]]) :
                      input' = [input EXCEPT ![socket[f]] = rest]
              ELSE UNCHANGED input
    /\ IF LastSlot
         THEN slot' = 1 /\ pc' = "select" /\ readFds' = {} /\ errorFds' = {}
         ELSE slot' = slot + 1 /\ UNCHANGED <<pc, readFds, errorFds>>
    /\ UNCHANGED <<fdListen, backlog, refused, fault, envVars>>

Task == Select \/ Accept \/ Listen \/ ProcessSlot

(***************************************************************************)
(* The clients and the stack.                                              *)
(***************************************************************************)
Connected == {socket[f] : f \in Fd} \cap Client

Connect ==
    /\ clients < MaxClients /\ fdListen # None
    /\ clients' = clients + 1
    /\ backlog' = Append(backlog, clients')
    /\ UNCHANGED <<taskVars, socket, refused, input, fault, sends, faults>>

(* A queued client gives up before it is accepted. *)
Withdraw(place) ==
    /\ sends < MaxSends
    /\ backlog' = RemoveAt(backlog, place)
    /\ sends' = sends + 1
    /\ UNCHANGED <<taskVars, socket, refused, input, fault, clients, faults>>

(* What a client does, before or after what it did last has been read. *)
Says(c, what) ==
    /\ c \in Connected /\ sends < MaxSends
    /\ \/ input[c] = "none" /\ input' = [input EXCEPT ![c] = what]
       \/ input[c] = "data" /\ what = "quit" /\ input' = [input EXCEPT ![c] = "late"]
       \/ /\ input[c] \in {"data", "late", "quit"} /\ what = "reset"
          /\ input' = [input EXCEPT ![c] = what]
    /\ sends' = sends + 1
    /\ UNCHANGED <<taskVars, socket, backlog, refused, fault, clients, faults>>

ListenFault ==
    /\ fdListen # None /\ ~fault /\ faults < MaxFaults
    /\ fault' = TRUE
    /\ faults' = faults + 1
    /\ UNCHANGED <<taskVars, socket, backlog, refused, input, clients, sends>>

Next == \/ Task \/ Connect \/ ListenFault
        \/ \E place \in DOMAIN backlog : Withdraw(place)
        \/ \E c \in Client, what \in {"data", "quit", "closed", "reset"} : Says(c, what)

Spec == Init /\ [][Next]_vars

(* The task is scheduled again and again; the clients owe nothing. *)
FairSpec == Spec /\ WF_vars(Task)
-----------------------------------------------------------------------------
TypeOK ==
    /\ fdArray \in [Slot -> Fd \cup {None}]
    /\ fdListen \in Fd \cup {None}
    /\ readFds \subseteq Fd /\ errorFds \subseteq Fd
    /\ pc \in {"select", "accept", "listen", "slots"} /\ slot \in Slot
    /\ socket \in [Fd -> 0..Listener]
    /\ backlog \in Seq(Client) /\ refused \subseteq Client
    /\ input \in [Client -> {"none", "data", "late", "quit", "closed", "reset"}]
    /\ fault \in BOOLEAN
    /\ clients \in 0..MaxClients /\ sends \in 0..MaxSends /\ faults \in 0..MaxFaults

(* The table and the open connections are the same at every moment: none   *)
(* is lost, none is listed twice, and no slot holds a closed descriptor or *)
(* the listening one, whatever numbers the stack uses again.               *)
TableIsTheConnections ==
    /\ TypeOK
    /\ \A i \in Slot : fdArray[i] # None => socket[fdArray[i]] \in Client
    /\ \A f \in Fd : socket[f] \in Client =>
          Cardinality({i \in Slot : fdArray[i] = f}) = 1
    /\ \A f \in Fd : socket[f] = Listener <=> f = fdListen

(* A server of maxConnections clients: in order, turned away only when the *)
(* table is full, and closed only when the client itself quit or failed,   *)
(* never because a number stood for somebody else in select()'s sets.  A   *)
(* client has quit when its 'Q' is the next thing to be read.              *)
Leaving == {c \in Connected : input[c] \in {"quit", "closed", "reset"}}
Server == INSTANCE ManyClients WITH Capacity <- maxConnections,
              waiting <- backlog, serving <- Connected, leaving <- Leaving
ServesManyClients == Server!MCSpec

AcceptWaits == pc = "accept" /\ fdListen \in readFds /\ backlog = << >>

(* Every queued client is accepted, turned away, or lost with the listening*)
(* socket it queued on; and one whose 'Q' is the next thing to be read, or *)
(* that is lost, gives up its slot, unless accept() waits for a client     *)
(* that is no longer there.  A 'Q' behind unread data promises nothing:    *)
(* where the read takes both, the greeting's "'Q' to quit" is not kept and *)
(* the client has its slot until it says more.                             *)
EveryClientDealtWith == \A c \in Client :
    /\ c \in ToSet(backlog) ~> c \notin ToSet(backlog)
    /\ c \in Leaving ~> c \notin Connected \/ AcceptWaits
=============================================================================
