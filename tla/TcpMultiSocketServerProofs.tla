--------------------- MODULE TcpMultiSocketServerProofs ---------------------
(***************************************************************************)
(* What TcpMultiSocketServer guarantees for a table of any size, any       *)
(* number of clients and however the stack gives its descriptor numbers    *)
(* out again: the table lists exactly the open connections, and the task   *)
(* implements ManyClients.                                                 *)
(***************************************************************************)
EXTENDS TcpMultiSocketServer, FiniteSetTheorems, SequenceTheorems, TLAPS

(* Every connection has a slot, and one only; no slot holds a descriptor   *)
(* that is closed or listens.                                              *)
SlotsHoldConnections ==
    /\ \A i \in Slot : fdArray[i] # None => socket[fdArray[i]] \in Client
    /\ \A i, j \in Slot : (fdArray[i] = fdArray[j] /\ fdArray[i] # None) => i = j
    /\ \A f \in Fd : socket[f] \in Client => \E i \in Slot : fdArray[i] = f

ListensOnOne == \A f \in Fd : socket[f] = Listener <=> f = fdListen

(* No client has two connections. *)
OneEach == \A f, g \in Fd : (socket[f] = socket[g] /\ socket[f] \in Client) => f = g

(* A client in the queue is there once, has no connection yet, and nothing *)
(* has been heard of it; nor of a client still to come.                    *)
NewAreNew ==
    /\ \A m, n \in DOMAIN backlog : backlog[m] = backlog[n] => m = n
    /\ \A n \in DOMAIN backlog : backlog[n] <= clients /\ input[backlog[n]] = "none"
    /\ \A n \in DOMAIN backlog, f \in Fd : socket[f] # backlog[n]
    /\ \A f \in Fd : socket[f] \in Client => socket[f] <= clients
    /\ \A c \in Client : c > clients => input[c] = "none"

(* Until accept() is done, no number in the sets of select() is free.      *)
SetsAreOpen == (pc = "accept") => (readFds \cup errorFds) \cap Free = {}

(* The slots this pass has yet to look at: what select() said of their     *)
(* descriptors is still true of the connections they hold.                 *)
Ahead(i) == pc \in {"accept", "listen"} \/ (pc = "slots" /\ i >= slot)
SetsAreTrue ==
    \A i \in Slot : Ahead(i) =>
       /\ fdArray[i] \in readFds =>
             input[socket[fdArray[i]]] \in {"data", "late", "quit", "closed", "reset"}
       /\ fdArray[i] \in errorFds => input[socket[fdArray[i]]] = "reset"

IInv == /\ TypeOK /\ SlotsHoldConnections /\ ListensOnOne /\ OneEach /\ NewAreNew
        /\ SetsAreOpen /\ SetsAreTrue

LEMMA Numbers ==
    /\ None \notin Fd /\ None \notin Client /\ Listener \notin Client /\ Listener # None
    /\ 1 \in Fd /\ 1 \in Slot
    /\ \A c \in Client : c \in Nat \ {0} /\ c \in 0..Listener
    /\ None \in 0..Listener /\ Listener \in 0..Listener
  BY ServerAssumption DEF None, Fd, Client, Listener, Slot

(* RemoveAt of the community modules keeps elements of the sequence, each  *)
(* from a place of its own.                                                *)
LEMMA Removed ==
  ASSUME NEW S, NEW s \in Seq(S), NEW n \in 1..Len(s)
  PROVE  /\ RemoveAt(s, n) \in Seq(S)
         /\ \E was \in [DOMAIN RemoveAt(s, n) -> DOMAIN s] :
              /\ \A k \in DOMAIN RemoveAt(s, n) : RemoveAt(s, n)[k] = s[was[k]]
              /\ \A k, m \in DOMAIN RemoveAt(s, n) : was[k] = was[m] => k = m
<1> DEFINE front == SubSeq(s, 1, n - 1)
           back == SubSeq(s, n + 1, Len(s))
<1>1. /\ front \in Seq(S) /\ Len(front) = n - 1
      /\ \A k \in 1..(n - 1) : front[k] = s[k]
  BY SubSeqProperties
<1>2. /\ back \in Seq(S) /\ Len(back) = Len(s) - n
      /\ \A k \in 1..(Len(s) - n) : back[k] = s[n + k]
  BY SubSeqProperties
<1>3. RemoveAt(s, n) = front \o back
  BY DEF RemoveAt
<1> HIDE DEF front, back
<1>4. /\ front \o back \in Seq(S) /\ Len(front \o back) = Len(s) - 1
      /\ \A k \in 1..(Len(s) - 1) :
            (front \o back)[k] = IF k < n THEN front[k] ELSE back[k - (n - 1)]
  <2>1. /\ front \o back \in Seq(S) /\ Len(front \o back) = (n - 1) + (Len(s) - n)
        /\ \A k \in 1..((n - 1) + (Len(s) - n)) :
              (front \o back)[k] = IF k <= n - 1 THEN front[k] ELSE back[k - (n - 1)]
    <3>1. /\ front \o back \in Seq(S) /\ Len(front \o back) = Len(front) + Len(back)
          /\ \A k \in 1..(Len(front) + Len(back)) :
                (front \o back)[k] = IF k <= Len(front) THEN front[k]
                                                       ELSE back[k - Len(front)]
      <4>1. front \in Seq(S) /\ back \in Seq(S)
        BY <1>1, <1>2
      <4>2. QED
        BY <4>1, ConcatProperties
    <3>2. Len(front) = n - 1 /\ Len(back) = Len(s) - n
      BY <1>1, <1>2
    <3>3. QED
      BY <3>1, <3>2, Zenon
  <2>2. n \in Nat /\ Len(s) \in Nat
    OBVIOUS
  <2>3. (n - 1) + (Len(s) - n) = Len(s) - 1
    BY <2>2
  <2>4. \A k \in 1..(Len(s) - 1) : k <= n - 1 <=> k < n
    BY <2>2
  <2>5. QED
    BY <2>1, <2>3, <2>4
<1>5. ASSUME NEW k \in 1..(Len(s) - 1), ~(k < n)
      PROVE  back[k - (n - 1)] = s[k + 1]
  <2>1. k - (n - 1) \in 1..(Len(s) - n) /\ n + (k - (n - 1)) = k + 1
    BY <1>5
  <2>2. QED
    BY <1>2, <2>1
<1> DEFINE was == [k \in 1..(Len(s) - 1) |-> IF k < n THEN k ELSE k + 1]
<1>6. DOMAIN RemoveAt(s, n) = 1..(Len(s) - 1) /\ DOMAIN s = 1..Len(s)
  BY <1>3, <1>4
<1>7. was \in [DOMAIN RemoveAt(s, n) -> DOMAIN s]
  BY <1>6
<1>8. \A k \in DOMAIN RemoveAt(s, n) : RemoveAt(s, n)[k] = s[was[k]]
  <2> SUFFICES ASSUME NEW k \in 1..(Len(s) - 1)
               PROVE  (front \o back)[k] = s[IF k < n THEN k ELSE k + 1]
    BY <1>3, <1>6
  <2>1. CASE k < n
    BY <1>1, <1>4, <2>1
  <2>2. CASE ~(k < n)
    BY <1>4, <1>5, <2>2
  <2>3. QED
    BY <2>1, <2>2
<1>9. \A k, m \in DOMAIN RemoveAt(s, n) : was[k] = was[m] => k = m
  BY <1>6
<1>10. QED
  BY <1>3, <1>4, <1>7, <1>8, <1>9

LEMMA InitIsGood == Init => IInv
<1> SUFFICES ASSUME Init PROVE IInv
  OBVIOUS
<1> USE Numbers DEF Init
<1>1. backlog \in Seq(Client)
  OBVIOUS
<1>2. socket \in [Fd -> 0..Listener]
  OBVIOUS
<1>3. fault \in BOOLEAN
  OBVIOUS
<1>4. TypeOK
  BY <1>1, <1>2, <1>3, ServerAssumption DEF TypeOK
<1>5. SlotsHoldConnections /\ ListensOnOne /\ OneEach
  BY DEF SlotsHoldConnections, ListensOnOne, OneEach
<1>6. NewAreNew /\ SetsAreOpen /\ SetsAreTrue
  BY DEF NewAreNew, SetsAreOpen, SetsAreTrue, Ahead
<1>7. QED
  BY <1>4, <1>5, <1>6 DEF IInv

(* What select() returns is true of every slot's connection.               *)
LEMMA SelectKeeps == IInv /\ Select => IInv'
<1> SUFFICES ASSUME IInv, Select PROVE IInv'
  OBVIOUS
<1> USE Numbers DEF IInv, Select, envVars, Then
<1>1. readFds' \subseteq Fd /\ errorFds' \subseteq Fd
  BY DEF TypeOK, Armed
<1>2. TypeOK'
  BY <1>1 DEF TypeOK
<1>3. SlotsHoldConnections' /\ ListensOnOne' /\ OneEach' /\ NewAreNew'
  BY DEF SlotsHoldConnections, ListensOnOne, OneEach, NewAreNew
<1>4. SetsAreOpen'
  BY DEF SetsAreOpen, TypeOK, Readable, Failing, Free
<1>5. SetsAreTrue'
  BY <1>1 DEF SetsAreTrue, SlotsHoldConnections, Readable, Failing
<1>6. QED
  BY <1>2, <1>3, <1>4, <1>5

(* accept() takes a number that was free, so one in none of the sets, and  *)
(* the lowest slot that holds nothing.                                     *)
LEMMA FirstIsOpen == OpenSlots # {} => FirstOf(OpenSlots) \in OpenSlots
<1> SUFFICES ASSUME OpenSlots # {}
             PROVE  \E i \in OpenSlots : \A j \in OpenSlots : i <= j
  BY DEF FirstOf
<1>1. OpenSlots \subseteq Nat
  BY DEF OpenSlots, Slot
<1>2. PICK i \in OpenSlots : \A j \in OpenSlots : <<j, i>> \notin OpToRel(<, Nat)
  BY <1>1, WFMin, NatLessThanWellFounded
<1>3. \A j \in OpenSlots : ~(j < i)
  BY <1>1, <1>2 DEF OpToRel
<1>4. QED
  BY <1>1, <1>3

(* accept() takes a client; or there is none to take, or it fails. *)
Accepted == /\ backlog # << >> /\ backlog' = Tail(backlog)
            /\ \E fdAccept \in Free : Place(fdAccept)
            /\ UNCHANGED <<input, faults>>

LEMMA AcceptCases ==
  Accept => \/ UNCHANGED <<fdArray, socket, backlog, refused>>
            \/ Accepted
  BY DEF Accept, Accepted

LEMMA AcceptKeeps == IInv /\ Accept => IInv'
<1> SUFFICES ASSUME IInv, Accept PROVE IInv'
  OBVIOUS
<1> USE Numbers DEF IInv
<1>1. CASE UNCHANGED <<fdArray, socket, backlog, refused>>
  <2>1. /\ pc = "accept" /\ pc' = "listen" /\ faults' \in 0..MaxFaults
        /\ UNCHANGED <<fdListen, readFds, errorFds, slot, input, fault, clients, sends>>
    BY <1>1, ServerAssumption DEF Accept, Then, TypeOK
  <2>2. TypeOK'
    BY <1>1, <2>1 DEF TypeOK
  <2>3. SlotsHoldConnections' /\ ListensOnOne' /\ OneEach' /\ NewAreNew'
    BY <1>1, <2>1 DEF SlotsHoldConnections, ListensOnOne, OneEach, NewAreNew
  <2>4. SetsAreOpen' /\ SetsAreTrue'
    BY <1>1, <2>1 DEF SetsAreOpen, SetsAreTrue, Ahead
  <2>5. QED
    BY <2>2, <2>3, <2>4
<1>2. CASE Accepted
  <2> DEFINE c == Head(backlog)
  <2>1. /\ backlog # << >> /\ backlog' = Tail(backlog)
        /\ c \in Client /\ backlog' \in Seq(Client) /\ c = backlog[1]
        /\ 1 \in DOMAIN backlog
        /\ \A n \in DOMAIN backlog' : /\ n \in Nat \ {0} /\ n + 1 \in DOMAIN backlog
                                     /\ backlog'[n] = backlog[n + 1]
    <3>1. backlog # << >> /\ backlog' = Tail(backlog) /\ backlog \in Seq(Client)
      BY <1>2 DEF Accepted, TypeOK
    <3>2. c \in Client /\ c = backlog[1] /\ 1 \in DOMAIN backlog
      BY <3>1
    <3>3. /\ Tail(backlog) \in Seq(Client) /\ Len(Tail(backlog)) = Len(backlog) - 1
          /\ \A n \in 1..Len(Tail(backlog)) : Tail(backlog)[n] = backlog[n + 1]
      BY <3>1, HeadTailProperties
    <3>4. QED
      BY <3>1, <3>2, <3>3
  <2>2. \A n \in DOMAIN backlog' : n \in Nat /\ backlog'[n] # c
    BY <2>1 DEF NewAreNew
  <2>3. /\ pc = "accept" /\ pc' = "listen"
        /\ UNCHANGED <<fdListen, readFds, errorFds, slot, input, fault, clients, sends, faults>>
    BY <1>2 DEF Accept, Accepted, Then
  <2>4. CASE OpenSlots = {}
    <3>1. refused' = refused \cup {c} /\ UNCHANGED <<fdArray, socket>>
      BY <1>2, <2>4 DEF Accepted, Place
    <3>2. TypeOK' /\ SlotsHoldConnections' /\ ListensOnOne' /\ OneEach' /\ SetsAreOpen'
      BY <2>1, <2>3, <3>1 DEF TypeOK, SlotsHoldConnections, ListensOnOne, OneEach, SetsAreOpen
    <3>3. NewAreNew'
      <4>1. /\ \A n \in DOMAIN backlog' : backlog'[n] <= clients /\ input[backlog'[n]] = "none"
            /\ \A n \in DOMAIN backlog', g \in Fd : socket[g] # backlog'[n]
        BY <2>1 DEF NewAreNew
      <4>2. \A m, n \in DOMAIN backlog' : backlog'[m] = backlog'[n] => m = n
        <5>1. ASSUME NEW m \in DOMAIN backlog', NEW n \in DOMAIN backlog',
                     backlog'[m] = backlog'[n]
              PROVE  m = n
          <6>1. m + 1 = n + 1 /\ m \in Nat /\ n \in Nat
            BY <2>1, <5>1 DEF NewAreNew
          <6>2. QED
            BY <6>1
        <5>2. QED
          BY <5>1
      <4>3. QED
        BY <2>3, <3>1, <4>1, <4>2 DEF NewAreNew
    <3>4. SetsAreTrue'
      BY <2>3, <3>1 DEF SetsAreTrue, Ahead
    <3>5. QED
      BY <3>2, <3>3, <3>4
  <2>5. CASE OpenSlots # {}
    <3> DEFINE s == FirstOf(OpenSlots)
    <3>1. s \in Slot /\ fdArray[s] = None
      BY <2>5, FirstIsOpen DEF OpenSlots
    <3>2. PICK f \in Free : /\ fdArray' = [fdArray EXCEPT ![s] = f]
                            /\ socket' = [socket EXCEPT ![f] = c]
      BY <1>2, <2>5 DEF Accepted, Place
    <3>3. f \in Fd /\ socket[f] = None
      BY DEF Free
    <3>4. UNCHANGED refused
      BY <1>2, <2>5 DEF Accepted, Place
    <3> HIDE DEF c, s
    <3>5. TypeOK'
      <4>1. fdArray' \in [Slot -> Fd \cup {None}] /\ socket' \in [Fd -> 0..Listener]
        BY <2>1, <3>1, <3>2, <3>3 DEF TypeOK
      <4>2. QED
        BY <2>1, <2>3, <3>4, <4>1 DEF TypeOK
    <3>6. SlotsHoldConnections'
      BY <2>1, <3>1, <3>2, <3>3 DEF TypeOK, SlotsHoldConnections
    <3>7. ListensOnOne'
      BY <2>1, <2>3, <3>2, <3>3 DEF TypeOK, ListensOnOne
    <3>8. OneEach'
      BY <2>1, <3>2, <3>3 DEF TypeOK, OneEach, NewAreNew, c
    <3>9. NewAreNew'
      <4>1. /\ clients \in Nat /\ c \in Nat /\ c <= clients /\ input[c] = "none"
            /\ UNCHANGED <<clients, input>>
        BY <2>1, <2>3 DEF TypeOK, NewAreNew
      <4>2. \A g \in Fd : socket'[g] = IF g = f THEN c ELSE socket[g]
        BY <3>2 DEF TypeOK
      <4>3. /\ \A m, n \in DOMAIN backlog' : backlog'[m] = backlog'[n] => m = n
            /\ \A n \in DOMAIN backlog' : backlog'[n] <= clients /\ input[backlog'[n]] = "none"
        <5>1. ASSUME NEW m \in DOMAIN backlog', NEW n \in DOMAIN backlog',
                     backlog'[m] = backlog'[n]
              PROVE  m = n
          <6>1. m + 1 = n + 1 /\ m \in Nat /\ n \in Nat
            BY <2>1, <5>1 DEF NewAreNew
          <6>2. QED
            BY <6>1
        <5>2. QED
          BY <2>1, <5>1 DEF NewAreNew
      <4>4. \A n \in DOMAIN backlog', g \in Fd : socket'[g] # backlog'[n]
        <5>1. \A n \in DOMAIN backlog', g \in Fd : socket[g] # backlog'[n]
          BY <2>1 DEF NewAreNew
        <5>2. QED
          BY <2>2, <4>2, <5>1
      <4>5. \A g \in Fd : socket'[g] \in Client => socket'[g] <= clients
        BY <4>1, <4>2 DEF NewAreNew
      <4>6. QED
        BY <4>1, <4>3, <4>4, <4>5 DEF NewAreNew
    <3>10. SetsAreOpen'
      BY <2>3 DEF SetsAreOpen
    <3>11. SetsAreTrue'
      <4>1. f \notin readFds \cup errorFds
        BY <2>3 DEF SetsAreOpen
      <4>2. QED
        BY <2>3, <3>1, <3>2, <3>3, <4>1 DEF SetsAreTrue, Ahead, TypeOK, SlotsHoldConnections
    <3>12. QED
      BY <3>5, <3>6, <3>7, <3>8, <3>9, <3>10, <3>11
  <2>6. QED
    BY <2>4, <2>5
<1>3. QED
  BY <1>1, <1>2, AcceptCases

(* Reopening the listening socket moves no connection. *)
LEMMA ListenKeeps == IInv /\ Listen => IInv'
<1> SUFFICES ASSUME IInv, Listen PROVE IInv'
  OBVIOUS
<1> USE Numbers DEF IInv
<1>1. CASE fdListen \notin errorFds
  BY <1>1 DEF Listen, envVars, Then, TypeOK, SlotsHoldConnections, ListensOnOne, OneEach,
     NewAreNew, SetsAreOpen, SetsAreTrue, Ahead
<1>2. CASE fdListen \in errorFds
  <2>1. /\ pc = "listen" /\ pc' = "slots" /\ backlog' = << >>
        /\ UNCHANGED <<fdArray, readFds, errorFds, slot, refused, input, clients, sends, faults>>
        /\ fault' = FALSE
    BY <1>2 DEF Listen, Then, envVars
  <2>2. fdListen \in Fd /\ socket[fdListen] = Listener
    BY <1>2 DEF TypeOK, ListensOnOne
  <2>3. /\ fdListen' \in Fd \cup {None} /\ socket' \in [Fd -> 0..Listener]
        /\ \A f \in Fd : /\ socket'[f] = Listener <=> f = fdListen'
                         /\ socket[f] \in Client \/ socket'[f] \in Client
                               => socket'[f] = socket[f]
    <3>1. CASE fdListen' = None /\ socket' = [socket EXCEPT ![fdListen] = None]
      BY <2>2, <3>1 DEF TypeOK, ListensOnOne
    <3>2. ASSUME NEW g \in Free \cup {fdListen}, fdListen' = g,
                 socket' = [socket EXCEPT ![fdListen] = None, ![g] = Listener]
          PROVE  <2>3
      <4>1. g \in Fd /\ socket[g] \notin Client
        BY <2>2 DEF Free
      <4>2. QED
        BY <2>2, <3>2, <4>1 DEF TypeOK, ListensOnOne
    <3>3. QED
      BY <1>2, <3>1, <3>2 DEF Listen, Listening
  <2>4. TypeOK' /\ ListensOnOne'
    <3>1. backlog' \in Seq(Client)
      BY <2>1
    <3>2. fault' \in BOOLEAN
      BY <2>1
    <3>3. QED
      BY <2>1, <2>3, <3>1, <3>2 DEF TypeOK, ListensOnOne
  <2>5. SlotsHoldConnections' /\ OneEach'
    BY <2>1, <2>3 DEF TypeOK, SlotsHoldConnections, OneEach
  <2>6. NewAreNew' /\ SetsAreOpen'
    BY <2>1, <2>3 DEF NewAreNew, SetsAreOpen
  <2>7. SetsAreTrue'
    BY <2>1, <2>3 DEF SetsAreTrue, Ahead, SlotsHoldConnections, TypeOK
  <2>8. QED
    BY <2>4, <2>5, <2>6, <2>7
<1>3. QED
  BY <1>1, <1>2

(* Reading a slot changes what is to be read only where there are data. *)
LEMMA ReadKeeps ==
  ASSUME IInv, ProcessSlot
  PROVE  LET f == fdArray[slot] IN
         \/ UNCHANGED input
         \/ /\ f \in readFds /\ input[socket[f]] \in {"data", "late"}
            /\ \E rest \in {"none", "quit"} : input' = [input EXCEPT ![socket[f]] = rest]
            /\ input[socket[f]] = "data" => input' = [input EXCEPT ![socket[f]] = "none"]
<1> DEFINE f == fdArray[slot]
<1>1. f \in readFds => f \in Fd /\ socket[f] \in Client
  BY Numbers DEF ProcessSlot, IInv, TypeOK, SlotsHoldConnections
<1>2. ASSUME f \in readFds, NEW rest \in Rest(input[socket[f]]),
             input' = [input EXCEPT ![socket[f]] = rest]
      PROVE  \/ UNCHANGED input
             \/ /\ input[socket[f]] \in {"data", "late"} /\ rest \in {"none", "quit"}
                /\ input[socket[f]] = "data" => rest = "none"
  BY <1>1, <1>2 DEF Rest, IInv, TypeOK
<1>3. QED
  BY <1>2 DEF ProcessSlot

(* One slot is read, and perhaps closed: the other slots' descriptors are  *)
(* different ones, of other clients.                                       *)
LEMMA SlotKeeps == IInv /\ ProcessSlot => IInv'
<1> SUFFICES ASSUME IInv, ProcessSlot PROVE IInv'
  OBVIOUS
<1> USE Numbers DEF IInv
<1> DEFINE f == fdArray[slot]
<1>1. /\ pc = "slots" /\ slot \in Slot /\ slot \in Nat
      /\ UNCHANGED <<fdListen, backlog, refused, fault, clients, sends, faults>>
  BY DEF ProcessSlot, TypeOK, envVars, Slot
<1>2. \/ f # None /\ socket' = [socket EXCEPT ![f] = None]
                  /\ fdArray' = [fdArray EXCEPT ![slot] = None]
      \/ UNCHANGED <<fdArray, socket>>
  BY DEF ProcessSlot, CloseSlot
<1>3. \/ UNCHANGED input
      \/ /\ f \in readFds /\ input[socket[f]] \in {"data", "late"}
         /\ \E rest \in {"none", "quit"} : input' = [input EXCEPT ![socket[f]] = rest]
  BY ReadKeeps
<1>4. \/ LastSlot /\ slot' = 1 /\ pc' = "select" /\ readFds' = {} /\ errorFds' = {}
      \/ ~LastSlot /\ slot' = slot + 1 /\ UNCHANGED <<pc, readFds, errorFds>>
  BY DEF ProcessSlot
<1>5. f = None \/ (f \in Fd /\ socket[f] \in Client)
  BY <1>1 DEF TypeOK, SlotsHoldConnections
<1>6. f \in readFds => f \in Fd
  BY DEF TypeOK
<1> HIDE DEF f
<1>7. TypeOK'
  <2>1. slot' \in Slot
    BY <1>1, <1>4, ServerAssumption DEF Slot, LastSlot
  <2>2. fdArray' \in [Slot -> Fd \cup {None}]
    BY <1>2 DEF TypeOK
  <2>3. socket' \in [Fd -> 0..Listener]
    BY <1>2 DEF TypeOK
  <2>4. input' \in [Client -> {"none", "data", "late", "quit", "closed", "reset"}]
    BY <1>3 DEF TypeOK
  <2>5. QED
    BY <1>1, <1>4, <2>1, <2>2, <2>3, <2>4 DEF TypeOK
<1>8. SlotsHoldConnections'
  <2>1. CASE UNCHANGED <<fdArray, socket>>
    BY <2>1 DEF SlotsHoldConnections
  <2>2. CASE /\ f # None /\ socket' = [socket EXCEPT ![f] = None]
             /\ fdArray' = [fdArray EXCEPT ![slot] = None]
    <3>1. \A i \in Slot : fdArray'[i] # None =>
             i # slot /\ fdArray'[i] = fdArray[i] /\ fdArray[i] # f /\ fdArray[i] \in Fd
      BY <1>1, <2>2 DEF TypeOK, SlotsHoldConnections, f
    <3>2. \A g \in Fd : socket'[g] \in Client => g # f /\ socket'[g] = socket[g]
      BY <2>2 DEF TypeOK
    <3>3. \A g \in Fd : socket'[g] \in Client => \E i \in Slot : fdArray'[i] = g
      BY <1>1, <2>2, <3>2 DEF TypeOK, SlotsHoldConnections, f
    <3>4. \A i \in Slot : fdArray'[i] # None => socket'[fdArray'[i]] \in Client
      BY <2>2, <3>1 DEF TypeOK, SlotsHoldConnections
    <3>5. QED
      BY <3>1, <3>3, <3>4 DEF SlotsHoldConnections
  <2>3. QED
    BY <1>2, <2>1, <2>2
<1>9. ListensOnOne' /\ OneEach'
  <2>1. \A g \in Fd : socket'[g] = socket[g] \/ (socket'[g] = None /\ socket[g] \in Client)
    BY <1>2, <1>5 DEF TypeOK
  <2>2. QED
    BY <1>1, <2>1 DEF ListensOnOne, OneEach
<1>10. NewAreNew'
  <2>1. \A g \in Fd : socket'[g] = socket[g] \/ socket'[g] = None
    BY <1>2, <1>5 DEF TypeOK
  <2>2. \A c \in Client : input[c] = "none" => input'[c] = "none"
    BY <1>3, <1>5, <1>6 DEF TypeOK
  <2>3. \A n \in DOMAIN backlog : backlog[n] \in Client
    BY DEF TypeOK
  <2>4. QED
    BY <1>1, <2>1, <2>2, <2>3 DEF NewAreNew
<1>11. SetsAreOpen'
  BY <1>1, <1>4 DEF SetsAreOpen
<1>12. SetsAreTrue'
  <2>6. ASSUME NEW i \in Slot, Ahead(i)', fdArray'[i] \in readFds' \cup errorFds'
        PROVE  /\ i \in Nat /\ i >= slot + 1 /\ Ahead(i) /\ fdArray'[i] \in Fd
               /\ UNCHANGED <<readFds, errorFds>>
    <3>1. ~LastSlot /\ slot' = slot + 1 /\ UNCHANGED <<pc, readFds, errorFds>>
      BY <1>4, <2>6
    <3>2. i \in Nat /\ i >= slot + 1 /\ i >= slot
      BY <1>1, <2>6, <3>1 DEF Ahead, Slot
    <3>3. QED
      BY <1>1, <2>6, <3>1, <3>2 DEF Ahead, TypeOK
  <2> SUFFICES ASSUME NEW i \in Slot, i >= slot + 1, fdArray'[i] \in Fd
               PROVE  /\ fdArray[i] = fdArray'[i]
                      /\ socket'[fdArray'[i]] = socket[fdArray[i]]
                      /\ input'[socket[fdArray[i]]] = input[socket[fdArray[i]]]
    BY <2>6 DEF SetsAreTrue
  <2>1. i # slot /\ fdArray[i] = fdArray'[i]
    <3>1. i # slot
      BY <1>1 DEF Slot
    <3>2. QED
      BY <1>2, <3>1 DEF TypeOK
  <2>2. fdArray[i] # None /\ fdArray[i] # f
    BY <1>1, <2>1 DEF SlotsHoldConnections, f
  <2>3. socket'[fdArray[i]] = socket[fdArray[i]]
    BY <1>2, <2>1, <2>2 DEF TypeOK
  <2>4. socket[fdArray[i]] \in Client /\ (f \in Fd => socket[fdArray[i]] # socket[f])
    BY <2>1, <2>2 DEF SlotsHoldConnections, OneEach
  <2>5. QED
    BY <1>3, <1>6, <2>1, <2>3, <2>4 DEF TypeOK
<1>13. QED
  BY <1>7, <1>8, <1>9, <1>10, <1>11, <1>12

LEMMA EnvironmentKeeps ==
  ASSUME IInv, \/ Connect \/ ListenFault
               \/ \E place \in DOMAIN backlog : Withdraw(place)
               \/ \E c \in Client, what \in {"data", "quit", "closed", "reset"} : Says(c, what)
  PROVE  IInv'
<1> USE Numbers DEF IInv
<1>1. CASE Connect
  <2>1. /\ clients' = clients + 1 /\ clients' \in Client /\ clients' \in 0..MaxClients
        /\ backlog' = Append(backlog, clients')
        /\ UNCHANGED <<taskVars, socket, refused, input, fault, sends, faults>>
    BY <1>1, ServerAssumption DEF Connect, TypeOK, Client
  <2>2. /\ backlog' \in Seq(Client) /\ DOMAIN backlog' = DOMAIN backlog \cup {Len(backlog) + 1}
        /\ Len(backlog) + 1 \notin DOMAIN backlog
        /\ \A n \in DOMAIN backlog : backlog'[n] = backlog[n] /\ backlog[n] \in Client
        /\ backlog'[Len(backlog) + 1] = clients'
    <3>1. backlog \in Seq(Client)
      BY DEF TypeOK
    <3>2. /\ backlog' \in Seq(Client) /\ Len(backlog') = Len(backlog) + 1
          /\ \A n \in 1..Len(backlog) : backlog'[n] = backlog[n]
          /\ backlog'[Len(backlog) + 1] = clients'
      BY <2>1, <3>1, AppendProperties
    <3>3. /\ Len(backlog) \in Nat /\ DOMAIN backlog = 1..Len(backlog)
          /\ DOMAIN backlog' = 1..(Len(backlog) + 1)
      BY <3>1, <3>2
    <3>4. \A n \in DOMAIN backlog : backlog[n] \in Client
      BY <3>1
    <3>5. QED
      BY <3>2, <3>3, <3>4
  <2>3. clients \in Nat /\ clients' \in Nat /\ ~(clients' <= clients) /\ clients' > clients
    BY <2>1 DEF TypeOK
  <2>4. TypeOK' /\ SlotsHoldConnections' /\ ListensOnOne' /\ OneEach'
    BY <2>1, <2>2 DEF taskVars, TypeOK, SlotsHoldConnections, ListensOnOne, OneEach
  <2>5. NewAreNew'
    <3>1. \A m, n \in DOMAIN backlog' : backlog'[m] = backlog'[n] => m = n
      BY <2>2, <2>3 DEF NewAreNew
    <3>2. \A n \in DOMAIN backlog' : backlog'[n] <= clients' /\ input[backlog'[n]] = "none"
      <4>1. \A n \in DOMAIN backlog : backlog[n] \in Nat /\ backlog[n] <= clients
        BY <2>2 DEF NewAreNew
      <4>2. \A n \in DOMAIN backlog : backlog[n] <= clients'
        BY <2>1, <2>3, <4>1
      <4>3. clients' <= clients' /\ input[clients'] = "none"
        BY <2>1, <2>3 DEF NewAreNew
      <4>4. QED
        BY <2>2, <4>2, <4>3 DEF NewAreNew
    <3>3. \A n \in DOMAIN backlog', g \in Fd : socket[g] # backlog'[n]
      BY <2>1, <2>2, <2>3 DEF NewAreNew
    <3>4. /\ \A g \in Fd : socket[g] \in Client => socket[g] <= clients'
          /\ \A c \in Client : c > clients' => input[c] = "none"
      <4>1. \A c \in Client : /\ c <= clients => c <= clients'
                              /\ c > clients' => c > clients
        BY <2>1, <2>3
      <4>2. QED
        BY <4>1 DEF NewAreNew
    <3>5. QED
      BY <2>1, <3>1, <3>2, <3>3, <3>4 DEF NewAreNew
  <2>6. SetsAreOpen' /\ SetsAreTrue'
    BY <2>1 DEF taskVars, SetsAreOpen, SetsAreTrue, Ahead, Free
  <2>7. QED
    BY <2>4, <2>5, <2>6
<1>2. ASSUME NEW place \in DOMAIN backlog, Withdraw(place)
      PROVE  IInv'
  <2>1. /\ backlog' = RemoveAt(backlog, place) /\ sends' \in 0..MaxSends
        /\ UNCHANGED <<taskVars, socket, refused, input, fault, clients, faults>>
    BY <1>2, ServerAssumption DEF Withdraw, TypeOK
  <2>2. backlog \in Seq(Client) /\ place \in 1..Len(backlog)
    <3>1. backlog \in Seq(Client)
      BY DEF TypeOK
    <3>2. QED
      BY <3>1
  <2>3. /\ backlog' \in Seq(Client)
        /\ \E was \in [DOMAIN backlog' -> DOMAIN backlog] :
             /\ \A k \in DOMAIN backlog' : backlog'[k] = backlog[was[k]]
             /\ \A k, m \in DOMAIN backlog' : was[k] = was[m] => k = m
    <3>1. /\ RemoveAt(backlog, place) \in Seq(Client)
          /\ \E was \in [DOMAIN RemoveAt(backlog, place) -> DOMAIN backlog] :
             /\ \A k \in DOMAIN RemoveAt(backlog, place) :
                   RemoveAt(backlog, place)[k] = backlog[was[k]]
             /\ \A k, m \in DOMAIN RemoveAt(backlog, place) : was[k] = was[m] => k = m
      BY <2>2, Removed
    <3>2. QED
      BY <2>1, <3>1
  <2>4. TypeOK' /\ SlotsHoldConnections' /\ ListensOnOne' /\ OneEach'
    <3>1. TypeOK'
      BY <2>1, <2>3 DEF taskVars, TypeOK
    <3>2. SlotsHoldConnections' /\ ListensOnOne' /\ OneEach'
      BY <2>1 DEF taskVars, SlotsHoldConnections, ListensOnOne, OneEach
    <3>3. QED
      BY <3>1, <3>2
  <2>5. NewAreNew'
    <3>1. PICK was \in [DOMAIN backlog' -> DOMAIN backlog] :
             /\ \A k \in DOMAIN backlog' : backlog'[k] = backlog[was[k]]
             /\ \A k, m \in DOMAIN backlog' : was[k] = was[m] => k = m
      BY <2>3
    <3>2. QED
      BY <2>1, <3>1 DEF NewAreNew
  <2>6. SetsAreOpen' /\ SetsAreTrue'
    BY <2>1 DEF taskVars, SetsAreOpen, SetsAreTrue, Ahead, Free
  <2>7. QED
    BY <2>4, <2>5, <2>6
<1>3. ASSUME NEW c \in Client, NEW what \in {"data", "quit", "closed", "reset"}, Says(c, what)
      PROVE  IInv'
  <2>1. /\ \E now \in {what, "late"} :
              /\ input' = [input EXCEPT ![c] = now]
              /\ input[c] \in {"none", "data"} \/ now = "reset"
              /\ input[c] # "reset"
        /\ sends' \in 0..MaxSends /\ \E g \in Fd : socket[g] = c
        /\ UNCHANGED <<taskVars, socket, backlog, refused, fault, clients, faults>>
    BY <1>3, ServerAssumption DEF Says, Connected, TypeOK
  <2>2. TypeOK' /\ SlotsHoldConnections' /\ ListensOnOne' /\ OneEach'
    BY <2>1 DEF taskVars, TypeOK, SlotsHoldConnections, ListensOnOne, OneEach
  <2>3. NewAreNew'
    <3>1. c <= clients /\ c \in Nat /\ clients \in Nat
      BY <2>1 DEF NewAreNew, TypeOK
    <3>2. \A n \in DOMAIN backlog : backlog[n] # c /\ backlog[n] \in Client
      BY <2>1 DEF NewAreNew, TypeOK
    <3>3. QED
      BY <2>1, <3>1, <3>2 DEF NewAreNew, TypeOK
  <2>4. SetsAreOpen'
    BY <2>1 DEF taskVars, SetsAreOpen, Free
  <2>5. SetsAreTrue'
    <3>1. ASSUME NEW i \in Slot, Ahead(i)'
          PROVE  Ahead(i) /\ fdArray' = fdArray /\ socket' = socket
                 /\ readFds' = readFds /\ errorFds' = errorFds
      BY <2>1, <3>1 DEF taskVars, Ahead
    <3>2. ASSUME NEW d \in Client
          PROVE  /\ input[d] = "reset" => input'[d] = "reset"
                 /\ input[d] \in {"data", "late", "quit", "closed", "reset"} =>
                      input'[d] \in {"data", "late", "quit", "closed", "reset"}
      BY <2>1 DEF TypeOK
    <3>3. ASSUME NEW i \in Slot, fdArray[i] \in readFds \cup errorFds
          PROVE  socket[fdArray[i]] \in Client
      <4>1. fdArray[i] # None
        BY <3>3 DEF TypeOK
      <4>2. QED
        BY <4>1 DEF SlotsHoldConnections
    <3>4. QED
      BY <3>1, <3>2, <3>3 DEF SetsAreTrue
  <2>6. QED
    BY <2>2, <2>3, <2>4, <2>5
<1>4. CASE ListenFault
  <2>1. fault' \in BOOLEAN
    BY <1>4 DEF ListenFault
  <2>2. QED
    BY <1>4, <2>1, ServerAssumption DEF ListenFault, taskVars, TypeOK, SlotsHoldConnections,
       ListensOnOne, OneEach, NewAreNew, SetsAreOpen, SetsAreTrue, Ahead, Free
<1>5. QED
  BY <1>1, <1>2, <1>3, <1>4

LEMMA Invariant == Spec => []IInv
<1>1. ASSUME IInv, [Next]_vars PROVE IInv'
  <2>1. CASE Task
    BY <1>1, <2>1, SelectKeeps, AcceptKeeps, ListenKeeps, SlotKeeps DEF Task
  <2>2. CASE UNCHANGED vars
    BY <1>1, <2>2 DEF vars, taskVars, envVars, IInv, TypeOK, SlotsHoldConnections,
       ListensOnOne, OneEach, NewAreNew, SetsAreOpen, SetsAreTrue, Ahead, Free
  <2>3. QED
    BY <1>1, <2>1, <2>2, EnvironmentKeeps DEF Next
<1>2. QED
  BY <1>1, InitIsGood, PTL DEF Spec

(* The table and the open connections are the same at every moment: none   *)
(* is lost, none is listed twice, and no slot holds a closed descriptor or *)
(* the listening one, whichever free numbers accept() and listen() get.    *)
THEOREM TableCorrect == Spec => []TableIsTheConnections
<1>1. IInv => TableIsTheConnections
  <2> SUFFICES ASSUME IInv PROVE TableIsTheConnections
    OBVIOUS
  <2>1. ASSUME NEW f \in Fd, socket[f] \in Client
        PROVE  Cardinality({i \in Slot : fdArray[i] = f}) = 1
    <3>1. PICK i \in Slot : fdArray[i] = f
      BY <2>1 DEF IInv, SlotsHoldConnections
    <3>2. {j \in Slot : fdArray[j] = f} = {i}
      BY <3>1, Numbers DEF IInv, SlotsHoldConnections
    <3>3. QED
      BY <3>2, FS_Singleton
  <2>2. QED
    BY <2>1 DEF IInv, SlotsHoldConnections, ListensOnOne, TableIsTheConnections
<1>2. QED
  BY <1>1, Invariant, PTL

(* The slots that are not open and the connections correspond one to one,  *)
(* so the table is full exactly when there are maxConnections clients.     *)
LEMMA FullTable ==
  ASSUME IInv
  PROVE  /\ IsFiniteSet(Connected)
         /\ OpenSlots = {} => Cardinality(Connected) = maxConnections
         /\ OpenSlots # {} => Cardinality(Connected) < maxConnections
<1> DEFINE Busy == Slot \ OpenSlots
           who == [i \in Busy |-> socket[fdArray[i]]]
<1>1. IsFiniteSet(Slot) /\ Cardinality(Slot) = maxConnections
  BY ServerAssumption, FS_Interval DEF Slot
<1>2. /\ IsFiniteSet(Busy) /\ Cardinality(Busy) \in Nat
      /\ Cardinality(Busy) <= maxConnections
      /\ Cardinality(Busy) = maxConnections <=> Busy = Slot
  <2>1. Busy \in SUBSET Slot
    OBVIOUS
  <2>2. /\ IsFiniteSet(Busy) /\ Cardinality(Busy) <= Cardinality(Slot)
        /\ Cardinality(Slot) = Cardinality(Busy) => Slot = Busy
    BY <1>1, <2>1, FS_Subset
  <2>3. QED
    BY <1>1, <2>2, FS_CardinalityType
<1>3. \A i \in Busy : i \in Slot /\ fdArray[i] \in Fd /\ socket[fdArray[i]] \in Client
  BY DEF OpenSlots, IInv, TypeOK, SlotsHoldConnections
<1>4. who \in [Busy -> Connected]
  BY <1>3 DEF Connected
<1>5. \A i, j \in Busy : who[i] = who[j] => i = j
  BY <1>3 DEF OpenSlots, IInv, SlotsHoldConnections, OneEach
<1>6. \A c \in Connected : \E i \in Busy : who[i] = c
  <2> SUFFICES ASSUME NEW f \in Fd, socket[f] \in Client
               PROVE  \E i \in Busy : who[i] = socket[f]
    BY DEF Connected
  <2>1. PICK i \in Slot : fdArray[i] = f
    BY DEF IInv, SlotsHoldConnections
  <2>2. i \in Busy
    BY <2>1, Numbers DEF OpenSlots
  <2>3. QED
    BY <2>1, <2>2
<1> HIDE DEF Busy, who
<1>7. who \in Bijection(Busy, Connected)
  BY <1>4, <1>5, <1>6 DEF Bijection, Injection, Surjection, IsInjective
<1>8. IsFiniteSet(Connected) /\ Cardinality(Connected) = Cardinality(Busy)
  BY <1>2, <1>7, FS_Bijection DEF ExistsBijection
<1>9. OpenSlots = {} <=> Busy = Slot
  BY DEF Busy, OpenSlots
<1>10. QED
  BY <1>2, <1>8, <1>9, ServerAssumption

(* The operators of the library that ManyClients uses are the same here.   *)
LEMMA SameOperators ==
    /\ \A S : Server!Cardinality(S) = Cardinality(S)
    /\ \A q, n : Server!RemoveAt(q, n) = RemoveAt(q, n)
<1>1. \A S : Server!Cardinality(S) = Cardinality(S)
  BY DEF Server!Cardinality, Cardinality
<1>2. QED
  BY <1>1 DEF Server!RemoveAt, RemoveAt

(* The server promises what ManyClients does: clients are served in the    *)
(* order they queued, turned away only when every slot holds an open       *)
(* connection, and closed only after they have quit or failed, although    *)
(* the numbers in the sets of select() may stand for others by then.       *)
THEOREM ImplementsManyClients == Spec => ServesManyClients
<1>1. Init => Server!MCInit
  BY Numbers DEF Init, Server!MCInit, Connected, Leaving
<1>2. IInv /\ [Next]_vars => [Server!MCNext]_Server!mcVars
  <2> SUFFICES ASSUME IInv, [Next]_vars
               PROVE  \/ Server!MCNext
                      \/ UNCHANGED <<backlog, Connected, refused, Leaving>>
    BY DEF Server!mcVars
  <2> USE Numbers
  <2>1. CASE Accept
    <3> DEFINE c == Head(backlog)
    <3>1. CASE UNCHANGED <<fdArray, socket, backlog, refused>>
      BY <2>1, <3>1 DEF Accept, Connected, Leaving
    <3>2. CASE Accepted
      <4>1. backlog # << >> /\ backlog' = Tail(backlog) /\ UNCHANGED input
        BY <3>2 DEF Accepted
      <4>2. c \in Client /\ c = backlog[1] /\ 1 \in DOMAIN backlog
        BY <4>1 DEF IInv, TypeOK
      <4>3. input[c] = "none"
        BY <4>2 DEF IInv, NewAreNew
      <4>4. CASE OpenSlots = {}
        <5>1. refused' = refused \cup {c} /\ UNCHANGED socket
          BY <3>2, <4>4 DEF Accepted, Place
        <5>2. UNCHANGED <<Connected, Leaving>>
          BY <4>1, <5>1 DEF Connected, Leaving
        <5>3. QED
          BY <4>1, <4>4, <5>1, <5>2, FullTable, SameOperators DEF Server!MCNext,
             Server!TurnAway
      <4>5. CASE OpenSlots # {}
        <5>1. PICK f \in Free : socket' = [socket EXCEPT ![f] = c] /\ UNCHANGED refused
          BY <3>2, <4>5 DEF Accepted, Place
        <5>2. f \in Fd /\ socket[f] = None
          BY DEF Free
        <5>3. Connected' = Connected \cup {c}
          BY <4>2, <5>1, <5>2 DEF Connected, IInv, TypeOK
        <5>4. UNCHANGED Leaving
          BY <4>1, <4>3, <5>3 DEF Leaving
        <5>5. Cardinality(Connected) < maxConnections
          BY <4>5, FullTable
        <5>6. QED
          BY <4>1, <5>1, <5>3, <5>4, <5>5, SameOperators DEF Server!MCNext,
             Server!Serve
      <4>6. QED
        BY <4>4, <4>5
    <3>3. QED
      BY <2>1, <3>1, <3>2, AcceptCases
  <2>2. CASE Listen
    <3>1. CASE fdListen \notin errorFds
      BY <2>2, <3>1 DEF Listen, envVars, Connected, Leaving
    <3>2. CASE fdListen \in errorFds
      <4>1. backlog' = << >> /\ UNCHANGED <<refused, input>>
        BY <2>2, <3>2 DEF Listen
      <4>2. fdListen \in Fd /\ socket[fdListen] = Listener
        BY <3>2 DEF IInv, TypeOK, ListensOnOne
      <4>3. \A g \in Fd : (socket[g] \in Client \/ socket'[g] \in Client) => socket'[g] = socket[g]
        <5>1. ASSUME NEW g \in Free \cup {fdListen},
                     socket' = [socket EXCEPT ![fdListen] = None, ![g] = Listener]
              PROVE  <4>3
          BY <4>2, <5>1 DEF Free, IInv, TypeOK
        <5>2. CASE socket' = [socket EXCEPT ![fdListen] = None]
          BY <4>2, <5>2 DEF IInv, TypeOK
        <5>3. QED
          BY <2>2, <3>2, <5>1, <5>2 DEF Listen
      <4>4. UNCHANGED <<Connected, Leaving>>
        BY <4>1, <4>3 DEF Connected, Leaving
      <4>5. QED
        BY <4>1, <4>4 DEF Server!MCNext, Server!DropAll
    <3>3. QED
      BY <3>1, <3>2
  <2>3. CASE ProcessSlot
    <3> DEFINE f == fdArray[slot]
               c == socket[f]
    <3>1. pc = "slots" /\ slot \in Slot /\ slot >= slot /\ UNCHANGED <<backlog, refused>>
      BY <2>3 DEF ProcessSlot, IInv, TypeOK, Slot
    <3>2. CASE f # None /\ (Quits(slot) \/ ReadError(slot) \/ f \in errorFds)
      <4>1. f \in Fd /\ c \in Client /\ socket' = [socket EXCEPT ![f] = None]
        BY <2>3, <3>1, <3>2 DEF ProcessSlot, CloseSlot, IInv, TypeOK, SlotsHoldConnections
      <4>2. input[c] \in {"quit", "closed", "reset"}
        BY <3>1, <3>2 DEF Quits, ReadError, IInv, SetsAreTrue, Ahead
      <4>3. UNCHANGED input
        BY <2>3, <4>2, ReadKeeps
      <4>4. c \in Connected \cap Leaving
        BY <4>1, <4>2 DEF Connected, Leaving
      <4>5. Connected' = Connected \ {c}
        BY <4>1 DEF Connected, IInv, TypeOK, OneEach
      <4>6. Leaving' = Leaving \ {c}
        BY <4>3, <4>5 DEF Leaving
      <4>7. QED
        BY <3>1, <4>1, <4>4, <4>5, <4>6 DEF Server!MCNext, Server!Finish
    <3>3. CASE ~(f # None /\ (Quits(slot) \/ ReadError(slot) \/ f \in errorFds))
      <4>1. UNCHANGED socket
        BY <2>3, <3>3 DEF ProcessSlot
      <4>2. CASE UNCHANGED input
        BY <3>1, <4>1, <4>2 DEF Connected, Leaving
      <4>3. ASSUME f \in readFds, input[c] \in {"data", "late"}, NEW rest \in {"none", "quit"},
                   input' = [input EXCEPT ![c] = rest]
            PROVE  Server!MCNext \/ UNCHANGED <<backlog, Connected, refused, Leaving>>
        <5>1. c \in Client /\ c \in Connected /\ c \notin Leaving
          BY <3>1, <4>3 DEF IInv, TypeOK, SlotsHoldConnections, Connected, Leaving
        <5>2. \A d \in Client : input'[d] = IF d = c THEN rest ELSE input[d]
          BY <4>3 DEF IInv, TypeOK
        <5>3. UNCHANGED Connected
          BY <4>1 DEF Connected
        <5>4. CASE rest = "none"
          <6>1. UNCHANGED Leaving
            BY <5>1, <5>2, <5>3, <5>4 DEF Leaving, Connected
          <6>2. QED
            BY <3>1, <5>3, <6>1
        <5>5. CASE rest = "quit"
          <6>1. Leaving' = Leaving \cup {c}
            BY <5>1, <5>2, <5>3, <5>5 DEF Leaving, Connected
          <6>2. QED
            BY <3>1, <5>1, <5>3, <6>1 DEF Server!MCNext, Server!Leave
        <5>6. QED
          BY <5>4, <5>5
      <4>4. QED
        BY <2>3, <4>2, <4>3, ReadKeeps
    <3>4. QED
      BY <3>2, <3>3
  <2>4. CASE Connect
    <3>1. clients' \in Client /\ backlog' = Append(backlog, clients')
      BY <2>4, ServerAssumption DEF Connect, Client, IInv, TypeOK
    <3>2. UNCHANGED <<Connected, refused, Leaving>>
      BY <2>4 DEF Connect, Connected, Leaving
    <3>3. QED
      BY <3>1, <3>2 DEF Server!MCNext, Server!Join
  <2>5. ASSUME NEW place \in DOMAIN backlog, Withdraw(place)
        PROVE  Server!MCNext
    <3>1. backlog' = Server!RemoveAt(backlog, place) /\ UNCHANGED <<socket, refused, input>>
      BY <2>5, SameOperators DEF Withdraw
    <3>2. UNCHANGED <<Connected, refused, Leaving>>
      BY <3>1 DEF Connected, Leaving
    <3>3. QED
      BY <3>1, <3>2 DEF Server!MCNext, Server!GiveUp
  <2>6. ASSUME NEW c \in Client, NEW what \in {"data", "quit", "closed", "reset"},
               Says(c, what)
        PROVE  Server!MCNext \/ UNCHANGED <<backlog, Connected, refused, Leaving>>
    <3>1. /\ c \in Connected /\ UNCHANGED <<backlog, Connected, refused>>
          /\ \E now \in {what, "late"} :
                /\ \A d \in Client : input'[d] = IF d = c THEN now ELSE input[d]
                /\ input[c] \in {"none", "data"} \/ now = "reset"
      BY <2>6 DEF Says, Connected, IInv, TypeOK
    <3>2. PICK now \in {"data", "late", "quit", "closed", "reset"} :
             /\ \A d \in Client : input'[d] = IF d = c THEN now ELSE input[d]
             /\ input[c] \in {"none", "data"} \/ now = "reset"
      BY <3>1
    <3>3. CASE now \in {"data", "late"}
      <4>1. UNCHANGED Leaving
        BY <3>1, <3>2, <3>3 DEF Leaving, Connected
      <4>2. QED
        BY <3>1, <4>1
    <3>4. CASE now \in {"quit", "closed", "reset"}
      <4>1. Leaving' = Leaving \cup {c}
        BY <3>1, <3>2, <3>4 DEF Leaving, Connected
      <4>2. QED
        BY <3>1, <4>1 DEF Server!MCNext, Server!Leave
    <3>5. QED
      BY <3>2, <3>3, <3>4
  <2>7. CASE Select \/ ListenFault \/ UNCHANGED vars
    BY <2>7 DEF Select, ListenFault, vars, taskVars, envVars, Connected, Leaving
  <2>8. QED
    BY <2>1, <2>2, <2>3, <2>4, <2>5, <2>6, <2>7 DEF Next, Task
<1>3. QED
  BY <1>1, <1>2, Invariant, PTL DEF Spec, ServesManyClients, Server!MCSpec

=============================================================================
