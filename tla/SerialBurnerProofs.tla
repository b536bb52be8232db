------------------------ MODULE SerialBurnerProofs --------------------------
(***************************************************************************)
(* What serial/SerialBurner guarantees.  The data pump, for every buffer   *)
(* size, timeout and amount of data: its types, that each buffer holds     *)
(* exactly the bytes still owed, and that it is a bounded FIFO pipe in     *)
(* each direction.  The two tasks around it, for any ports, timeouts and   *)
(* rates and any number of clients, submissions and power cycles: one      *)
(* listening socket, and settings that a reset restores.                   *)
(***************************************************************************)
EXTENDS DataPump, SerialBurner, TLAPS

(***************************************************************************)
(* The data pump.                                                          *)
(***************************************************************************)
LEMMA Sides == /\ \A s \in Side : Other(s) \in Side /\ Other(s) # s
               /\ \A s \in Side : Other(Other(s)) = s
  BY DEF Side, Other

LEMMA Sizes == /\ BufferSize \in Nat \ {0} /\ TxRoom \in Nat \ {0}
               /\ TicksPerSecond \in Nat \ {0} /\ SelectTicks \in Nat \ {0}
  BY DataPumpAssumption

LEMMA Handlers == Armed \subseteq Handler
  BY Sides DEF Armed, Handler

LEMMA StoredIsNatural ==
  ASSUME NEW value \in Nat
  PROVE  Stored(value) \in Nat
  BY DataPumpAssumption DEF Stored

LEMMA LimitIsNatural ==
  ASSUME settings \in [ClientTimeout : Timeouts, ClientOverrideTimeout : Overrides]
  PROVE  /\ totalTimeout \in Nat /\ inactivityLimit \in Nat
         /\ totalTimeout > 0 => inactivityLimit > 0
<1>1. settings.ClientTimeout \in Nat
  BY DataPumpAssumption
<1>2. totalTimeout \in Nat
  BY <1>1, StoredIsNatural DEF totalTimeout
<1>3. QED
  BY <1>2, Sizes DEF inactivityLimit

(* Every variable keeps its type, for every choice of the constants.       *)
THEOREM PumpTypeCorrect == PumpSpec => []PumpTypeOK
<1>1. PumpInit => PumpTypeOK
  <2> SUFFICES ASSUME PumpInit PROVE PumpTypeOK
    OBVIOUS
  <2>1. buffer \in [Side -> [0..(BufferSize - 1) -> Nat]]
    BY DEF PumpInit
  <2>2. start \in [Side -> 0..BufferSize] /\ end \in [Side -> 0..BufferSize]
        /\ room \in [Side -> 0..TxRoom]
    BY DataPumpAssumption DEF PumpInit
  <2>3. sent \in [Side -> Seq(Nat)] /\ rxctr \in [Side -> Nat]
        /\ arrived \in [Side -> Nat] /\ fault \in [Side -> BOOLEAN]
    BY DEF PumpInit
  <2>4. \A s \in Side : rxctr[s] <= arrived[s]
    BY DEF PumpInit
  <2>5. QED
    BY <2>1, <2>2, <2>3, <2>4 DEF PumpInit, PumpTypeOK, Result
<1>2. PumpTypeOK /\ [PumpNext]_pumpVars => PumpTypeOK'
  <2> SUFFICES ASSUME PumpTypeOK, [PumpNext]_pumpVars PROVE PumpTypeOK'
    OBVIOUS
  <2> USE Sizes
  <2>1. CASE Select
    BY <2>1, Handlers DEF Select, PumpTypeOK, env
  <2>2. CASE SelectTimeout
    <3>1. result' \in Result
      BY <2>2 DEF SelectTimeout, PumpTypeOK, Result
    <3>2. tcp_timeout' \in Nat /\ idle' \in Nat
      BY <2>2, LimitIsNatural DEF SelectTimeout, Counted, PumpTypeOK
    <3>3. QED
      BY <2>2, <3>1, <3>2 DEF SelectTimeout, PumpTypeOK, env
  <2>3. ASSUME NEW s \in Side, Read(s) PROVE PumpTypeOK'
    <3>1. ready' \subseteq Handler
      BY <2>3 DEF Read, Turn, PumpTypeOK
    <3>2. CASE UNCHANGED <<buffer, start, end, rxctr, idle>>
      BY <2>3, <3>1, <3>2 DEF Read, PumpTypeOK, env
    <3>3. ASSUME NEW rv \in 1..BufferSize,
                 buffer' = [buffer EXCEPT ![s] = [i \in 0..(BufferSize - 1) |->
                              IF i < rv THEN rxctr[s] + 1 + i ELSE @[i]]],
                 start' = [start EXCEPT ![s] = 0],
                 end' = [end EXCEPT ![s] = rv],
                 rxctr' = [rxctr EXCEPT ![s] = @ + rv],
                 rv <= arrived[s] - rxctr[s],
                 idle' = 0
          PROVE PumpTypeOK'
      <4>1. buffer' \in [Side -> [0..(BufferSize - 1) -> Nat]]
        <5>1. buffer[s] \in [0..(BufferSize - 1) -> Nat] /\ rxctr[s] \in Nat
          BY DEF PumpTypeOK
        <5>2. \A i \in 0..(BufferSize - 1) : rxctr[s] + 1 + i \in Nat /\ buffer[s][i] \in Nat
          BY <5>1
        <5>3. [i \in 0..(BufferSize - 1) |-> IF i < rv THEN rxctr[s] + 1 + i ELSE buffer[s][i]]
                \in [0..(BufferSize - 1) -> Nat]
          BY <5>2
        <5>4. QED
          BY <5>3, <3>3 DEF PumpTypeOK
      <4>2. start' \in [Side -> 0..BufferSize] /\ end' \in [Side -> 0..BufferSize]
            /\ rxctr' \in [Side -> Nat]
        <5>1. /\ start \in [Side -> 0..BufferSize] /\ end \in [Side -> 0..BufferSize]
              /\ rxctr \in [Side -> Nat] /\ rxctr[s] + rv \in Nat
              /\ 0 \in 0..BufferSize /\ rv \in 0..BufferSize
          <6>1. BufferSize \in Nat \ {0} /\ rv \in 1..BufferSize
            BY Sizes
          <6>2. rxctr \in [Side -> Nat]
            BY DEF PumpTypeOK
          <6>3. start \in [Side -> 0..BufferSize] /\ end \in [Side -> 0..BufferSize]
            BY DEF PumpTypeOK
          <6>4. QED
            BY <6>1, <6>2, <6>3
        <5>2. QED
          BY <3>3, <5>1, Zenon
      <4>3. \A t \in Side : rxctr'[t] <= arrived'[t]
        <5>1. UNCHANGED arrived /\ \A t \in Side : rxctr[t] <= arrived[t]
          BY <2>3 DEF Read, PumpTypeOK, env
        <5>2. rxctr'[s] = rxctr[s] + rv /\ \A t \in Side \ {s} : rxctr'[t] = rxctr[t]
          BY <3>3 DEF PumpTypeOK
        <5>3. rxctr[s] \in Nat /\ arrived[s] \in Nat
          BY DEF PumpTypeOK
        <5>4. QED
          BY <3>3, <5>1, <5>2, <5>3
      <4>4. QED
        BY <2>3, <3>1, <3>3, <4>1, <4>2, <4>3 DEF Read, PumpTypeOK, env
    <3>4. QED
      BY <2>3, <3>2, <3>3 DEF Read, ReadLimit
  <2>4. ASSUME NEW s \in Side, Write(s) PROVE PumpTypeOK'
    <3> DEFINE o == Other(s)
    <3>1. ready' \subseteq Handler /\ o \in Side
      BY <2>4, Sides DEF Write, Turn, PumpTypeOK
    <3>2. CASE UNCHANGED <<sent, start, room, idle>>
      BY <2>4, <3>1, <3>2 DEF Write, PumpTypeOK
    <3>3. ASSUME NEW rv \in 1..Unsent(o),
                 rv <= room[s],
                 sent' = [sent EXCEPT ![s] =
                            @ \o Chunk(o, rv)],
                 start' = [start EXCEPT ![o] = @ + rv],
                 room' = [room EXCEPT ![s] = @ - rv],
                 idle' = 0
          PROVE PumpTypeOK'
      <4>1. rv \in Nat /\ start[o] \in 0..BufferSize /\ end[o] \in 0..BufferSize
            /\ rv <= end[o] - start[o]
        BY <3>1, <3>3 DEF PumpTypeOK, Unsent
      <4>2. Chunk(o, rv) \in Seq(Nat)
        <5>1. \A i \in 1..rv : start[o] + i - 1 \in 0..(BufferSize - 1)
          BY <4>1
        <5>2. \A i \in 1..rv : buffer[o][start[o] + i - 1] \in Nat
          <6>1. buffer[o] \in [0..(BufferSize - 1) -> Nat]
            BY <3>1 DEF PumpTypeOK
          <6>2. QED
            BY <5>1, <6>1
        <5>3. QED
          BY <5>2, <4>1 DEF Chunk
      <4>3. sent' \in [Side -> Seq(Nat)]
        BY <4>2, <3>3 DEF PumpTypeOK
      <4>4. start' \in [Side -> 0..BufferSize] /\ room' \in [Side -> 0..TxRoom]
        <5>1. start[o] + rv \in 0..BufferSize
          BY <4>1
        <5>2. room[s] - rv \in 0..TxRoom
          <6>1. room[s] \in 0..TxRoom
            BY DEF PumpTypeOK
          <6>2. QED
            BY <6>1, <4>1, <3>3
        <5>3. QED
          BY <5>1, <5>2, <3>3, <3>1 DEF PumpTypeOK
      <4>5. QED
        BY <2>4, <3>1, <3>3, <4>3, <4>4 DEF Write, PumpTypeOK
    <3>4. QED
      BY <2>4, <3>2, <3>3 DEF Write
  <2>5. ASSUME NEW s \in Side, Error(s) PROVE PumpTypeOK'
    BY <2>5 DEF Error, Turn, PumpTypeOK, env, Result
  <2>6. CASE Yield
    BY <2>6 DEF Yield, Turn, PumpTypeOK, env, Result
  <2>7. CASE Environment
    <3>1. ASSUME NEW s \in Side, Arrive(s) PROVE PumpTypeOK'
      <4>1. arrived' \in [Side -> Nat] /\ \A t \in Side : rxctr'[t] <= arrived'[t]
        BY <3>1 DEF Arrive, PumpTypeOK, pump
      <4>2. QED
        BY <3>1, <4>1 DEF Arrive, PumpTypeOK, pump
    <3>2. ASSUME NEW s \in Side, Drain(s) PROVE PumpTypeOK'
      <4>1. room' \in [Side -> 0..TxRoom]
        <5>1. TxRoom \in 0..TxRoom
          OBVIOUS
        <5>2. QED
          BY <3>2, <5>1 DEF Drain, PumpTypeOK
      <4>2. QED
        BY <3>2, <4>1 DEF Drain, PumpTypeOK, pump
    <3>3. ASSUME NEW s \in Side, Fail(s) PROVE PumpTypeOK'
      BY <3>3 DEF Fail, PumpTypeOK, pump
    <3>4. CASE Knock
      BY <3>4 DEF Knock, PumpTypeOK, pump
    <3>5. ASSUME NEW s \in Side, Recount(s) PROVE PumpTypeOK'
      <4>1. buffer' \in [Side -> [0..(BufferSize - 1) -> Nat]]
        BY <3>5 DEF Recount, PumpTypeOK
      <4>2. rxctr' \in [Side -> Nat] /\ arrived' \in [Side -> Nat]
            /\ \A t \in Side : rxctr'[t] <= arrived'[t]
        BY <3>5 DEF Recount, PumpTypeOK
      <4>3. sent' \in [Side -> Seq(Nat)]
        <5>1. << >> \in Seq(Nat)
          OBVIOUS
        <5>2. sent' = [sent EXCEPT ![Other(s)] = << >>] /\ sent \in [Side -> Seq(Nat)]
          BY <3>5 DEF Recount, PumpTypeOK
        <5>3. QED
          BY <5>1, <5>2, Zenon
      <4>4. QED
        BY <3>5, <4>1, <4>2, <4>3 DEF Recount, PumpTypeOK
    <3>6. QED
      BY <2>7, <3>1, <3>2, <3>3, <3>4, <3>5 DEF Environment
  <2>8. CASE UNCHANGED pumpVars
    BY <2>8 DEF pumpVars, pump, env, PumpTypeOK
  <2>9. QED
    BY <2>1, <2>2, <2>3, <2>4, <2>5, <2>6, <2>7, <2>8 DEF PumpNext, Pump
<1>3. QED
  BY <1>1, <1>2, PTL DEF PumpSpec

(* A buffer is only ever read into when it holds nothing: the invariant    *)
(* behind BufferHoldsTheGap, since Read overwrites the buffer.             *)
ReadsIntoEmpty == \A s \in Side : <<"read", s>> \in ready => start[s] = end[s]

PumpIInv == PumpTypeOK /\ BufferHoldsTheGap /\ ReadsIntoEmpty

LEMMA InitPumpIInv == PumpInit => BufferHoldsTheGap /\ ReadsIntoEmpty
<1> SUFFICES ASSUME PumpInit PROVE BufferHoldsTheGap /\ ReadsIntoEmpty
  OBVIOUS
<1>1. \A s \in Side : start[s] = 0 /\ end[s] = 0 /\ rxctr[s] = 0
                     /\ Len(sent[Other(s)]) = 0
  BY Sides DEF PumpInit
<1>2. QED
  BY <1>1 DEF BufferHoldsTheGap, ReadsIntoEmpty, Unsent

(* What a successful read and a successful write do to one direction.      *)
LEMMA ReadStep ==
  ASSUME PumpIInv, PumpTypeOK', NEW s \in Side, Read(s),
         ~UNCHANGED <<buffer, start, end, rxctr, idle>>
  PROVE  \E rv \in 1..BufferSize :
           /\ rxctr[s] = Len(sent[Other(s)])
           /\ rxctr' = [rxctr EXCEPT ![s] = @ + rv]
           /\ start' = [start EXCEPT ![s] = 0]
           /\ end' = [end EXCEPT ![s] = rv]
           /\ \A i \in 0..(rv - 1) : buffer'[s][i] = rxctr[s] + 1 + i
           /\ \A t \in Side \ {s} : buffer'[t] = buffer[t]
<1> USE Sizes
<1>1. PICK rv \in 1..BufferSize :
        /\ buffer' = [buffer EXCEPT ![s] = [i \in 0..(BufferSize - 1) |->
                        IF i < rv THEN rxctr[s] + 1 + i ELSE @[i]]]
        /\ start' = [start EXCEPT ![s] = 0]
        /\ end' = [end EXCEPT ![s] = rv]
        /\ rxctr' = [rxctr EXCEPT ![s] = @ + rv]
  BY DEF Read, ReadLimit
<1>2. rxctr[s] = Len(sent[Other(s)])
  <2>1. Unsent(s) = 0
    BY DEF PumpIInv, ReadsIntoEmpty, Read, Turn, Unsent, PumpTypeOK
  <2>2. QED
    BY <2>1, Sides DEF PumpIInv, BufferHoldsTheGap, PumpTypeOK
<1>3. \A i \in 0..(rv - 1) : buffer'[s][i] = rxctr[s] + 1 + i
  <2>1. buffer'[s] = [i \in 0..(BufferSize - 1) |->
                        IF i < rv THEN rxctr[s] + 1 + i ELSE buffer[s][i]]
    BY <1>1 DEF PumpIInv, PumpTypeOK
  <2>2. \A i \in 0..(rv - 1) : i \in 0..(BufferSize - 1) /\ i < rv
    BY <1>1
  <2>3. QED
    BY <2>1, <2>2
<1>4. \A t \in Side \ {s} : buffer'[t] = buffer[t]
  BY <1>1 DEF PumpIInv, PumpTypeOK
<1>5. QED
  BY <1>1, <1>2, <1>3, <1>4

LEMMA WriteStep ==
  ASSUME PumpIInv, NEW s \in Side, Write(s), ~UNCHANGED <<sent, start, room, idle>>
  PROVE  \E rv \in 1..Unsent(Other(s)) :
           /\ sent' = [sent EXCEPT ![s] = @ \o [i \in 1..rv |-> Len(@) + i]]
           /\ start' = [start EXCEPT ![Other(s)] = @ + rv]
<1> DEFINE o == Other(s)
<1> USE Sizes
<1>1. o \in Side /\ Other(o) = s
  BY Sides
<1>2. PICK rv \in 1..Unsent(o) :
        /\ sent' = [sent EXCEPT ![s] =
                      @ \o Chunk(o, rv)]
        /\ start' = [start EXCEPT ![o] = @ + rv]
  BY DEF Write
<1>3. start[o] \in Nat /\ end[o] \in Nat /\ rv \in Nat /\ rv <= end[o] - start[o]
      /\ Len(sent[s]) \in Nat
  BY <1>1, <1>2 DEF PumpIInv, PumpTypeOK, Unsent
<1>4. \A i \in 1..rv : buffer[o][start[o] + i - 1] = Len(sent[s]) + i
  <2>1. \A i \in 1..rv : start[o] + i - 1 \in start[o]..(end[o] - 1)
    BY <1>3
  <2>2. \A j \in start[o]..(end[o] - 1) :
          buffer[o][j] = Len(sent[s]) + 1 + (j - start[o])
    BY <1>1 DEF PumpIInv, BufferHoldsTheGap
  <2>3. \A i \in 1..rv : buffer[o][start[o] + i - 1]
                          = Len(sent[s]) + 1 + ((start[o] + i - 1) - start[o])
    BY <2>1, <2>2
  <2>4. QED
    BY <2>3, <1>3
<1>5. Chunk(o, rv) = [i \in 1..rv |-> Len(sent[s]) + i]
  BY <1>4 DEF Chunk
<1>6. QED
  BY <1>2, <1>5

LEMMA Grows ==
  ASSUME NEW q \in Seq(Nat), NEW n \in Nat
  PROVE  Len(q \o [i \in 1..n |-> Len(q) + i]) = Len(q) + n
<1>1. [i \in 1..n |-> Len(q) + i] \in Seq(Nat)
  OBVIOUS
<1>2. Len([i \in 1..n |-> Len(q) + i]) = n
  OBVIOUS
<1>3. QED
  BY <1>1, <1>2

(* Counting anew happens with nothing owed, and leaves nothing owed.       *)
LEMMA RecountStep ==
  ASSUME PumpIInv, NEW s \in Side, Recount(s)
  PROVE  /\ rxctr[s] = Len(sent[Other(s)])
         /\ start'[s] = end'[s] /\ start'[s] \in Nat
         /\ rxctr'[s] = 0 /\ sent'[Other(s)] = << >>
         /\ \A t \in Side \ {s} :
               /\ start'[t] = start[t] /\ end'[t] = end[t] /\ buffer'[t] = buffer[t]
               /\ rxctr'[t] = rxctr[t] /\ sent'[Other(t)] = sent[Other(t)]
<1>1. start[s] = end[s] /\ start[s] \in Nat /\ rxctr[s] \in Nat /\ rxctr'[s] = 0
      /\ UNCHANGED <<start, end>>
  BY DEF Recount, PumpIInv, PumpTypeOK
<1>2. Unsent(s) = 0
  BY <1>1 DEF Unsent
<1>3. rxctr[s] = Len(sent[Other(s)])
  <2>1. rxctr[s] = Len(sent[Other(s)]) + Unsent(s)
    BY DEF PumpIInv, BufferHoldsTheGap
  <2>2. Len(sent[Other(s)]) \in Nat
    BY Sides DEF PumpIInv, PumpTypeOK
  <2>3. QED
    BY <1>2, <2>1, <2>2
<1>4. sent \in [Side -> Seq(Nat)] /\ sent' = [sent EXCEPT ![Other(s)] = << >>]
  BY DEF Recount, PumpIInv, PumpTypeOK
<1>5. sent'[Other(s)] = << >>
  BY <1>4, Sides, Zenon
<1>6. ASSUME NEW t \in Side \ {s}
      PROVE  /\ buffer'[t] = buffer[t] /\ rxctr'[t] = rxctr[t]
             /\ sent'[Other(t)] = sent[Other(t)]
  <2>1. Other(t) \in Side /\ Other(t) # Other(s)
    BY Sides
  <2>2. sent'[Other(t)] = sent[Other(t)]
    BY <1>4, <2>1, Zenon
  <2>3. buffer'[t] = buffer[t] /\ rxctr'[t] = rxctr[t]
    BY DEF Recount, PumpIInv, PumpTypeOK
  <2>4. QED
    BY <2>2, <2>3
<1>7. QED
  BY <1>1, <1>3, <1>5, <1>6, Zenon

LEMMA GapStep == PumpIInv /\ PumpTypeOK' /\ [PumpNext]_pumpVars => BufferHoldsTheGap'
<1> SUFFICES ASSUME PumpIInv, PumpTypeOK', [PumpNext]_pumpVars PROVE BufferHoldsTheGap'
  OBVIOUS
<1> USE Sizes
<1>1. CASE UNCHANGED <<buffer, start, end, rxctr, sent>>
  BY <1>1 DEF PumpIInv, BufferHoldsTheGap, Unsent
<1>2. ASSUME NEW s \in Side, Read(s), ~UNCHANGED <<buffer, start, end, rxctr, idle>>
      PROVE BufferHoldsTheGap'
  <2>1. PICK rv \in 1..BufferSize :
           /\ rxctr[s] = Len(sent[Other(s)])
           /\ rxctr' = [rxctr EXCEPT ![s] = @ + rv]
           /\ start' = [start EXCEPT ![s] = 0]
           /\ end' = [end EXCEPT ![s] = rv]
           /\ \A i \in 0..(rv - 1) : buffer'[s][i] = rxctr[s] + 1 + i
           /\ \A t \in Side \ {s} : buffer'[t] = buffer[t]
    BY <1>2, ReadStep
  <2>2. sent' = sent
    BY <1>2 DEF Read
  <2> SUFFICES ASSUME NEW t \in Side
               PROVE  /\ start'[t] <= end'[t]
                      /\ rxctr'[t] = Len(sent'[Other(t)]) + (end'[t] - start'[t])
                      /\ \A i \in start'[t]..(end'[t] - 1) :
                           buffer'[t][i] = Len(sent'[Other(t)]) + 1 + (i - start'[t])
    BY DEF BufferHoldsTheGap, Unsent
  <2>3. CASE t = s
    <3>1. start'[s] = 0 /\ end'[s] = rv /\ rxctr'[s] = rxctr[s] + rv
          /\ rxctr[s] \in Nat
      BY <2>1 DEF PumpIInv, PumpTypeOK
    <3>2. start'[s] <= end'[s] /\ rxctr'[s] = Len(sent'[Other(s)]) + (end'[s] - start'[s])
      BY <2>1, <2>2, <3>1
    <3>3. ASSUME NEW i \in start'[s]..(end'[s] - 1)
          PROVE  buffer'[s][i] = Len(sent'[Other(s)]) + 1 + (i - start'[s])
      <4>1. i \in 0..(rv - 1) /\ i - start'[s] = i
        BY <3>1, <3>3
      <4>2. QED
        BY <2>1, <2>2, <4>1
    <3>4. QED
      BY <2>3, <3>2, <3>3
  <2>4. CASE t # s
    <3>1. start'[t] = start[t] /\ end'[t] = end[t] /\ rxctr'[t] = rxctr[t]
          /\ buffer'[t] = buffer[t]
      BY <2>1, <2>4 DEF PumpIInv, PumpTypeOK
    <3>2. QED
      BY <2>2, <3>1 DEF PumpIInv, BufferHoldsTheGap, Unsent
  <2>5. QED
    BY <2>3, <2>4
<1>3. ASSUME NEW s \in Side, Write(s), ~UNCHANGED <<sent, start, room, idle>>
      PROVE BufferHoldsTheGap'
  <2> DEFINE o == Other(s)
  <2>1. PICK rv \in 1..Unsent(o) :
           /\ sent' = [sent EXCEPT ![s] = @ \o [i \in 1..rv |-> Len(@) + i]]
           /\ start' = [start EXCEPT ![o] = @ + rv]
    BY <1>3, WriteStep
  <2>2. UNCHANGED <<buffer, end, rxctr>>
    BY <1>3 DEF Write
  <2>3. o \in Side /\ Other(o) = s /\ o # s
    BY Sides
  <2> SUFFICES ASSUME NEW t \in Side
               PROVE  /\ start'[t] <= end[t]
                      /\ rxctr[t] = Len(sent'[Other(t)]) + (end[t] - start'[t])
                      /\ \A i \in start'[t]..(end[t] - 1) :
                           buffer[t][i] = Len(sent'[Other(t)]) + 1 + (i - start'[t])
    BY <2>2 DEF BufferHoldsTheGap, Unsent
  <2>4. CASE t = o
    <3>1. start[o] \in Nat /\ end[o] \in Nat /\ rv \in Nat /\ rv <= end[o] - start[o]
          /\ rxctr[o] \in Nat /\ sent[s] \in Seq(Nat)
      BY <2>1, <2>3 DEF PumpIInv, PumpTypeOK, Unsent
    <3>2. start'[o] = start[o] + rv
      BY <2>1, <2>3 DEF PumpIInv, PumpTypeOK
    <3>3. Len(sent'[s]) = Len(sent[s]) + rv
      <4>1. sent'[s] = sent[s] \o [i \in 1..rv |-> Len(sent[s]) + i]
        BY <2>1 DEF PumpIInv, PumpTypeOK
      <4>2. QED
        BY <4>1, <3>1, Grows
    <3>4. /\ rxctr[o] = Len(sent[s]) + (end[o] - start[o])
          /\ \A i \in start[o]..(end[o] - 1) :
               buffer[o][i] = Len(sent[s]) + 1 + (i - start[o])
      BY <2>3 DEF PumpIInv, BufferHoldsTheGap, Unsent
    <3>5. Len(sent[s]) \in Nat
      BY <3>1
    <3>6. \A i \in start'[o]..(end[o] - 1) :
             buffer[o][i] = Len(sent'[s]) + 1 + (i - start'[o])
      <4> SUFFICES ASSUME NEW i \in (start[o] + rv)..(end[o] - 1)
                   PROVE  buffer[o][i] = Len(sent[s]) + rv + 1 + (i - (start[o] + rv))
        BY <3>2, <3>3
      <4>1. i \in start[o]..(end[o] - 1)
        BY <3>1
      <4>2. buffer[o][i] = Len(sent[s]) + 1 + (i - start[o])
        BY <4>1, <3>4
      <4>3. i \in Int /\ Len(sent[s]) \in Int /\ start[o] \in Int /\ rv \in Int
        BY <3>1, <3>5
      <4> DEFINE a == Len(sent[s])  b == start[o]
      <4> HIDE DEF a, b
      <4>4. a + 1 + (i - b) = a + rv + 1 + (i - (b + rv))
        <5>1. a \in Int /\ b \in Int /\ i \in Int /\ rv \in Int
          BY <4>3 DEF a, b
        <5>2. QED
          BY <5>1
      <4>5. QED
        BY <4>2, <4>4 DEF a, b
    <3>7. start'[o] <= end[o] /\ rxctr[o] = Len(sent'[s]) + (end[o] - start'[o])
      <4>1. start'[o] <= end[o]
        BY <3>1, <3>2
      <4> DEFINE a == Len(sent[s])  b == start[o]  e == end[o]
      <4>2. a \in Int /\ b \in Int /\ e \in Int /\ rv \in Int
        BY <3>1, <3>5
      <4>3. rxctr[o] = a + (e - b)
        BY <3>4
      <4>4. Len(sent'[s]) + (end[o] - start'[o]) = (a + rv) + (e - (b + rv))
        BY <3>2, <3>3
      <4> HIDE DEF a, b, e
      <4>5. a + (e - b) = (a + rv) + (e - (b + rv))
        BY <4>2
      <4>6. QED
        BY <4>1, <4>3, <4>4, <4>5
    <3>8. QED
      BY <2>3, <2>4, <3>6, <3>7
  <2>5. CASE t # o
    <3>0. t = s /\ Other(t) = o
      BY <2>5 DEF Side, Other
    <3>1. start'[t] = start[t] /\ sent'[Other(t)] = sent[Other(t)]
      BY <2>1, <2>3, <3>0 DEF PumpIInv, PumpTypeOK
    <3>2. QED
      BY <3>1 DEF PumpIInv, BufferHoldsTheGap, Unsent
  <2>6. QED
    BY <2>4, <2>5
<1>4. ASSUME NEW s \in Side, Recount(s) PROVE BufferHoldsTheGap'
  <2> SUFFICES ASSUME NEW t \in Side
               PROVE  /\ start'[t] <= end'[t]
                      /\ rxctr'[t] = Len(sent'[Other(t)]) + (end'[t] - start'[t])
                      /\ \A i \in start'[t]..(end'[t] - 1) :
                           buffer'[t][i] = Len(sent'[Other(t)]) + 1 + (i - start'[t])
    BY DEF BufferHoldsTheGap, Unsent
  <2>1. CASE t = s
    <3>1. start'[t] = end'[t] /\ start'[t] \in Nat /\ rxctr'[t] = 0
          /\ sent'[Other(t)] = << >>
      BY <1>4, <2>1, RecountStep, Zenon
    <3>2. Len(sent'[Other(t)]) = 0
      BY <3>1
    <3>3. QED
      BY <3>1, <3>2
  <2>2. CASE t # s
    <3>1. start'[t] = start[t] /\ end'[t] = end[t] /\ rxctr'[t] = rxctr[t]
          /\ buffer'[t] = buffer[t] /\ sent'[Other(t)] = sent[Other(t)]
      <4>1. t \in Side \ {s}
        BY <2>2
      <4>2. QED
        BY <1>4, <4>1, RecountStep
    <3>2. QED
      BY <3>1 DEF PumpIInv, BufferHoldsTheGap, Unsent
  <2>3. QED
    BY <2>1, <2>2
<1>5. QED
  BY <1>1, <1>2, <1>3, <1>4 DEF PumpNext, Pump, Environment, Select, SelectTimeout, Read,
     Write, Error, Yield, Arrive, Drain, Fail, Knock, pumpVars, pump

LEMMA ReadsIntoEmptyStep == PumpIInv /\ PumpTypeOK' /\ [PumpNext]_pumpVars => ReadsIntoEmpty'
<1> SUFFICES ASSUME PumpIInv, [PumpNext]_pumpVars, PumpTypeOK' PROVE ReadsIntoEmpty'
  OBVIOUS
<1>1. CASE Select
  BY <1>1, Sides DEF Select, Armed, ReadsIntoEmpty
<1>2. ASSUME NEW s \in Side, Read(s) PROVE ReadsIntoEmpty'
  <2> SUFFICES ASSUME NEW t \in Side, <<"read", t>> \in ready'
               PROVE  start'[t] = end'[t]
    BY DEF ReadsIntoEmpty
  <2>1. t # s /\ <<"read", t>> \in ready
    BY <1>2 DEF Read, Turn
  <2>2. start'[t] = start[t] /\ end'[t] = end[t]
    BY <1>2, <2>1 DEF Read, PumpIInv, PumpTypeOK
  <2>3. QED
    BY <2>1, <2>2 DEF PumpIInv, ReadsIntoEmpty
<1>3. ASSUME NEW s \in Side, Write(s) PROVE ReadsIntoEmpty'
  <2> SUFFICES ASSUME NEW t \in Side, <<"read", t>> \in ready'
               PROVE  start'[t] = end'[t]
    BY DEF ReadsIntoEmpty
  <2>1. <<"read", t>> \in ready /\ start[t] = end[t] /\ end' = end
    BY <1>3 DEF Write, Turn, PumpIInv, ReadsIntoEmpty
  <2>2. CASE UNCHANGED start
    BY <2>1, <2>2
  <2>3. CASE t # Other(s)
    BY <1>3, <2>1, <2>3, Sides DEF Write, PumpIInv, PumpTypeOK
  <2>4. CASE ~UNCHANGED start /\ t = Other(s)
    <3>1. Unsent(t) = 0
      BY <2>1 DEF Unsent, PumpIInv, PumpTypeOK
    <3>2. PICK rv \in 1..Unsent(t) : TRUE
      BY <1>3, <2>4 DEF Write
    <3>3. QED
      BY <3>1, <3>2
  <2>5. QED
    BY <2>2, <2>3, <2>4
<1>4. CASE UNCHANGED <<start, end>> /\ ready' \subseteq ready
  BY <1>4 DEF PumpIInv, ReadsIntoEmpty
<1>5. QED
  BY <1>1, <1>2, <1>3, <1>4 DEF PumpNext, Pump, Environment, SelectTimeout,
     Error, Yield, Arrive, Drain, Fail, Recount, Knock, Turn, pumpVars, pump

(* The two positions of a buffer always delimit exactly the bytes that     *)
(* were read and are still owed to the other side, in order.               *)
THEOREM BufferCorrect == PumpSpec => []BufferHoldsTheGap
<1>1. PumpInit => BufferHoldsTheGap /\ ReadsIntoEmpty
  BY InitPumpIInv
<1>2. PumpTypeOK /\ PumpTypeOK' /\ BufferHoldsTheGap /\ ReadsIntoEmpty /\ [PumpNext]_pumpVars
        => (BufferHoldsTheGap /\ ReadsIntoEmpty)'
  BY GapStep, ReadsIntoEmptyStep DEF PumpIInv
<1>3. QED
  BY <1>1, <1>2, PumpTypeCorrect, PTL DEF PumpSpec

(* The strengthened invariant, for the theorems that follow.               *)
LEMMA PumpInvariant == PumpSpec => []PumpIInv
<1>1. PumpInit => BufferHoldsTheGap /\ ReadsIntoEmpty
  BY InitPumpIInv
<1>2. PumpTypeOK /\ PumpTypeOK' /\ BufferHoldsTheGap /\ ReadsIntoEmpty /\ [PumpNext]_pumpVars
        => (BufferHoldsTheGap /\ ReadsIntoEmpty)'
  BY GapStep, ReadsIntoEmptyStep DEF PumpIInv
<1>3. PumpIInv <=> PumpTypeOK /\ BufferHoldsTheGap /\ ReadsIntoEmpty
  BY DEF PumpIInv
<1>4. QED
  BY <1>1, <1>2, <1>3, PumpTypeCorrect, PTL DEF PumpSpec

(* Every step of the pump is a step, or a stutter, of a bounded lossless   *)
(* FIFO pipe in each direction.                                            *)
THEOREM PumpRefinesPipe == PumpSpec => PumpsLikeAPipe
<1> DEFINE given(q) == [d \in Side |-> q[Other(d)]]
<1>1. PumpInit => Pipe!PipeInit
  BY Sides DEF PumpInit, Pipe!PipeInit
<1>2. PumpIInv /\ PumpTypeOK' /\ [PumpNext]_pumpVars => [Pipe!PipeNext]_Pipe!pipeVars
  <2> SUFFICES ASSUME PumpIInv, PumpTypeOK', [PumpNext]_pumpVars
               PROVE  Pipe!PipeNext \/ UNCHANGED <<rxctr, given(sent)>>
    BY DEF Pipe!pipeVars
  <2> USE Sizes
  <2>1. CASE UNCHANGED <<rxctr, sent>>
    BY <2>1
  <2>2. ASSUME NEW s \in Side, Read(s), ~UNCHANGED <<buffer, start, end, rxctr, idle>>
        PROVE Pipe!PipeNext
    <3>1. PICK rv \in 1..BufferSize :
             /\ rxctr[s] = Len(sent[Other(s)])
             /\ rxctr' = [rxctr EXCEPT ![s] = @ + rv]
      BY <2>2, ReadStep
    <3>2. Pipe!InTransit(s) + rv <= BufferSize
      BY <3>1 DEF Pipe!InTransit, PumpIInv, PumpTypeOK
    <3>3. Pipe!Take(s, rv)
      BY <3>1, <3>2, <2>2 DEF Pipe!Take, Read
    <3>4. QED
      BY <3>3 DEF Pipe!PipeNext
  <2>3. ASSUME NEW s \in Side, Write(s), ~UNCHANGED <<sent, start, room, idle>>
        PROVE Pipe!PipeNext
    <3> DEFINE o == Other(s)
    <3>1. PICK rv \in 1..Unsent(o) :
             sent' = [sent EXCEPT ![s] = @ \o [i \in 1..rv |-> Len(@) + i]]
      BY <2>3, WriteStep
    <3>2. o \in Side /\ Other(o) = s /\ UNCHANGED rxctr
      BY <2>3, Sides DEF Write
    <3>3. rv \in 1..BufferSize
      <4>1. start[o] \in 0..BufferSize /\ end[o] \in 0..BufferSize
        BY <3>2 DEF PumpIInv, PumpTypeOK
      <4>2. QED
        BY <3>1, <4>1 DEF Unsent
    <3>4. rv <= Pipe!InTransit(o)
      <4>1. Pipe!InTransit(o) = rxctr[o] - Len(sent[s])
        BY <3>2 DEF Pipe!InTransit
      <4>2. rxctr[o] = Len(sent[s]) + Unsent(o)
        BY <3>2 DEF PumpIInv, BufferHoldsTheGap
      <4>3. Len(sent[s]) \in Nat /\ Unsent(o) \in Int
        <5>1. sent[s] \in Seq(Nat) /\ start[o] \in Int /\ end[o] \in Int
          BY <3>2 DEF PumpIInv, PumpTypeOK
        <5>2. QED
          BY <5>1 DEF Unsent
      <4>4. QED
        BY <3>1, <4>1, <4>2, <4>3
    <3>5. given(sent)' = [given(sent) EXCEPT ![o] = @ \o [i \in 1..rv |-> Len(@) + i]]
      <4> DEFINE new == [given(sent) EXCEPT ![o] = @ \o [i \in 1..rv |-> Len(@) + i]]
      <4>1. \A d \in Side : given(sent)'[d] = new[d]
        <5> SUFFICES ASSUME NEW d \in Side PROVE given(sent)'[d] = new[d]
          OBVIOUS
        <5>1. CASE d = o
          <6>1. given(sent)[o] = sent[s] /\ given(sent)'[o] = sent'[s]
            BY <3>2
          <6>2. new[o] = sent[s] \o [i \in 1..rv |-> Len(sent[s]) + i]
            BY <6>1, <3>2
          <6>3. sent'[s] = sent[s] \o [i \in 1..rv |-> Len(sent[s]) + i]
            BY <3>1 DEF PumpIInv, PumpTypeOK
          <6>4. QED
            BY <6>1, <6>2, <6>3, <5>1
        <5>2. CASE d # o
          <6>1. Other(d) # s /\ Other(d) \in Side
            BY <3>2, <5>2 DEF Side, Other
          <6>2. QED
            BY <3>1, <5>2, <6>1 DEF PumpIInv, PumpTypeOK
        <5>3. QED
          BY <5>1, <5>2
      <4>2. QED
        BY <4>1
    <3>6. Pipe!Give(o, rv)
      BY <3>2, <3>4, <3>5 DEF Pipe!Give
    <3>7. QED
      BY <3>2, <3>3, <3>6 DEF Pipe!PipeNext
  <2>4. ASSUME NEW s \in Side, Recount(s) PROVE Pipe!PipeNext
    <3>1. Pipe!InTransit(s) = 0
      <4>1. Pipe!InTransit(s) = rxctr[s] - Len(sent[Other(s)])
        BY DEF Pipe!InTransit
      <4>2. rxctr[s] = Len(sent[Other(s)]) /\ rxctr[s] \in Nat
        BY <2>4, RecountStep DEF PumpIInv, PumpTypeOK
      <4>3. QED
        BY <4>1, <4>2
    <3>2. given(sent)' = [given(sent) EXCEPT ![s] = << >>]
      <4>1. ASSUME NEW d \in Side
            PROVE  given(sent)'[d] = IF d = s THEN << >> ELSE given(sent)[d]
        <5>1. sent'[Other(d)] = IF d = s THEN << >> ELSE sent[Other(d)]
          <6>1. CASE d = s
            BY <2>4, <6>1, RecountStep
          <6>2. CASE d # s
            <7>1. d \in Side \ {s}
              BY <6>2
            <7>2. QED
              BY <2>4, <6>2, <7>1, RecountStep
          <6>3. QED
            BY <6>1, <6>2
        <5>2. QED
          BY <5>1
      <4>2. QED
        BY <4>1
    <3>3. Pipe!Renumber(s)
      BY <2>4, <3>1, <3>2 DEF Pipe!Renumber, Recount
    <3>4. QED
      BY <3>3 DEF Pipe!PipeNext
  <2>5. QED
    BY <2>1, <2>2, <2>3, <2>4 DEF PumpNext, Pump, Environment, Select, SelectTimeout, Read,
       Write, Error, Yield, Arrive, Drain, Fail, Knock, pumpVars, pump
<1>3. QED
  BY <1>1, <1>2, PumpInvariant, PumpTypeCorrect, PTL DEF PumpSpec, PumpsLikeAPipe, Pipe!PipeSpec

(* The tick counter never runs behind the time the link has really been    *)
(* idle, and a call that still runs has not reached the limit.             *)
CounterCovers == /\ idle <= tcp_timeout
                 /\ (result = "running" /\ totalTimeout > 0) => tcp_timeout < inactivityLimit

(* No call outlives ClientTimeout seconds in which nothing moved.          *)
THEOREM DeadLinkCut == PumpSpec => []DeadLinkIsCut
<1>1. PumpInit => CounterCovers
  BY LimitIsNatural DEF PumpInit, CounterCovers
<1>2. PumpTypeOK /\ CounterCovers /\ [PumpNext]_pumpVars => CounterCovers'
  <2> SUFFICES ASSUME PumpTypeOK, CounterCovers, [PumpNext]_pumpVars PROVE CounterCovers'
    OBVIOUS
  <2> USE Sizes
  <2>0. /\ inactivityLimit \in Nat /\ (totalTimeout > 0 => inactivityLimit > 0)
        /\ inactivityLimit' = inactivityLimit /\ totalTimeout' = totalTimeout
    <3>1. UNCHANGED settings
      BY DEF PumpNext, Pump, Environment, Select, SelectTimeout, Read, Write, Error,
         Yield, Arrive, Drain, Fail, Recount, Knock, pumpVars, env
    <3>2. QED
      BY <3>1, LimitIsNatural DEF PumpTypeOK, inactivityLimit, totalTimeout
  <2>1. CASE SelectTimeout
    BY <2>0, <2>1 DEF SelectTimeout, Counted, Expired, CounterCovers, PumpTypeOK
  <2>2. CASE UNCHANGED tcp_timeout /\ idle' \in {0, idle} /\ result' = result
    BY <2>0, <2>2 DEF CounterCovers, PumpTypeOK
  <2>3. CASE UNCHANGED <<tcp_timeout, idle>> /\ result' # "running"
    BY <2>3 DEF CounterCovers
  <2>4. QED
    BY <2>1, <2>2, <2>3 DEF PumpNext, Pump, Environment, Select, Read, Write, Error,
       Yield, Arrive, Drain, Fail, Recount, Knock, pumpVars, pump, env
<1>3. PumpTypeOK /\ CounterCovers => DeadLinkIsCut
  BY LimitIsNatural DEF CounterCovers, DeadLinkIsCut, PumpTypeOK
<1>4. QED
  BY <1>1, <1>2, <1>3, PumpTypeCorrect, PTL DEF PumpSpec

(* The counter stays below the inactivity limit, or at 0 without one; a    *)
(* connection that is never to be overridden is not even looked for.       *)
NotLookedFor ==
    settings.ClientOverrideTimeout = Never =>
        <<"suitor", 1>> \notin ready /\ result # "overridden"

CounterBelow == /\ (result = "running" /\ totalTimeout > 0) => tcp_timeout < inactivityLimit
                /\ totalTimeout = 0 => tcp_timeout = 0

(* The setting 0xFFFFFFFF means never, although its field truncates it.    *)
THEOREM NeverOverridden == PumpSpec => []NeverMeansNever
<1>1. PumpInit => CounterBelow /\ NotLookedFor
  BY LimitIsNatural DEF PumpInit, CounterBelow, NotLookedFor
<1>2. ASSUME PumpTypeOK, CounterBelow, result = "running",
             settings.ClientOverrideTimeout = Never
      PROVE  <<"suitor", 1>> \notin Armed
  <2>1. overrideTimeout = FieldSpan - 1
    BY <1>2, DataPumpAssumption DEF overrideTimeout, Stored, Never
  <2>2. totalTimeout \in 0..(FieldSpan - 1)
    <3>1. settings.ClientTimeout \in Nat
      BY <1>2, DataPumpAssumption DEF PumpTypeOK
    <3>2. QED
      BY <3>1, DataPumpAssumption DEF totalTimeout, Stored
  <2>3. totalTimeout * TicksPerSecond <= (FieldSpan - 1) * TicksPerSecond
    BY <2>2, DataPumpAssumption
  <2>4. (FieldSpan - 1) * TicksPerSecond > 0
    BY DataPumpAssumption
  <2>5. tcp_timeout < (FieldSpan - 1) * TicksPerSecond
    <3>1. CASE totalTimeout = 0
      BY <1>2, <2>4, <3>1 DEF CounterBelow
    <3>2. CASE totalTimeout > 0
      <4> DEFINE low == totalTimeout * TicksPerSecond
                 high == (FieldSpan - 1) * TicksPerSecond
      <4>1. tcp_timeout < low
        BY <1>2, <3>2 DEF CounterBelow, inactivityLimit
      <4>2. low \in Int /\ high \in Int /\ low <= high /\ tcp_timeout \in Int
        BY <1>2, <2>2, <2>3, DataPumpAssumption DEF PumpTypeOK
      <4>3. tcp_timeout < high
        <5> HIDE DEF low, high
        <5>1. QED
          BY <4>1, <4>2
      <4>4. QED
        BY <4>3
    <3>3. QED
      BY <2>2, <3>1, <3>2
  <2>6. ~overideExpired
    <3> DEFINE high == (FieldSpan - 1) * TicksPerSecond
    <3>1. high \in Int /\ tcp_timeout \in Int /\ tcp_timeout < high
      BY <1>2, <2>5, DataPumpAssumption DEF PumpTypeOK
    <3>2. ~(tcp_timeout >= high)
      <4> HIDE DEF high
      <4>1. QED
        BY <3>1
    <3>3. QED
      BY <2>1, <3>2, DataPumpAssumption DEF overideExpired
  <2>7. QED
    BY <2>6 DEF Armed
<1>3. PumpTypeOK /\ CounterBelow /\ NotLookedFor /\ [PumpNext]_pumpVars => CounterBelow' /\ NotLookedFor'
  <2> SUFFICES ASSUME PumpTypeOK, CounterBelow, NotLookedFor, [PumpNext]_pumpVars
               PROVE  CounterBelow' /\ NotLookedFor'
    OBVIOUS
  <2> USE Sizes
  <2>0. UNCHANGED settings
    BY DEF PumpNext, Pump, Environment, Select, SelectTimeout, Read, Write, Error,
       Yield, Arrive, Drain, Fail, Recount, Knock, pumpVars, env
  <2>1. /\ inactivityLimit' = inactivityLimit /\ totalTimeout' = totalTimeout
        /\ Never' = Never /\ inactivityLimit \in Nat /\ totalTimeout \in Nat
    BY <2>0, LimitIsNatural DEF inactivityLimit, totalTimeout, Never, PumpTypeOK
  <2>2. CASE Select
    BY <1>2, <2>0, <2>1, <2>2 DEF Select, Selecting, CounterBelow, NotLookedFor
  <2>3. CASE SelectTimeout
    <3>1. CounterBelow'
      BY <2>1, <2>3 DEF SelectTimeout, Selecting, Counted, Expired, CounterBelow, PumpTypeOK
    <3>2. NotLookedFor'
      <4>1. result' \in {"timedout", "running"} /\ ready' = {}
        BY <2>3 DEF SelectTimeout, Selecting
      <4>2. QED
        BY <4>1 DEF NotLookedFor
    <3>3. QED
      BY <3>1, <3>2
  <2>4. CASE Yield
    BY <2>0, <2>1, <2>4 DEF Yield, Turn, CounterBelow, NotLookedFor
  <2>5. ASSUME NEW s \in Side, Read(s) \/ Write(s) \/ Error(s)
        PROVE  CounterBelow' /\ NotLookedFor'
    BY <2>0, <2>1, <2>5 DEF Read, Write, Error, Turn, CounterBelow, NotLookedFor
  <2>6. CASE Environment \/ UNCHANGED pumpVars
    BY <2>0, <2>1, <2>6 DEF Environment, Arrive, Drain, Fail, Recount, Knock, pumpVars,
       pump, CounterBelow, NotLookedFor
  <2>7. QED
    BY <2>2, <2>3, <2>4, <2>5, <2>6 DEF PumpNext, Pump
<1>4. NotLookedFor => NeverMeansNever
  BY DEF NotLookedFor, NeverMeansNever
<1>5. QED
  BY <1>1, <1>3, <1>4, PumpTypeCorrect, PTL DEF PumpSpec

(***************************************************************************)
(* The server and the settings page.                                       *)
(***************************************************************************)
(* Before the first listen(), and between the close and the listen() of a  *)
(* change of port, no socket listens.                                      *)
NothingListens ==
    (~Booted \/ main \in {"start", "relisten"}) => listening = {} /\ backlog = << >>

(* A copy starts at the first field; a submission is at work exactly while *)
(* there is one, and each part of the work on a field belongs to its field.*)
StepsHaveData ==
    /\ main \notin {"load", "default"} => field = 1
    /\ http # 0 => form \in Form
    /\ step = "flagged" => http = 1
    /\ step \in {"close", "open"} => http = 4

(* The settings are on their way from flash as long as the key is open.    *)
Unread == {"settings", "load", "test", "default", "save"}

(* If no submission comes before the port is open, the fields loaded so    *)
(* far are those in flash; once all are loaded, or saved, they stay the    *)
(* same between submissions; and the port runs at the configured rate      *)
(* outside its reopening.                                                  *)
InForceSinceLoad ==
    ~early =>
      /\ ~Booted => http = 0
      /\ main = "load" => \A j \in 1..(field - 1) : NV_Settings[Field[j]] = flash[Field[j]]
      /\ main = "test" => NV_Settings = flash
      /\ (main \notin Unread /\ http = 0 /\ saved) => flash = NV_Settings
      /\ main = "open" => serialRate = Closed
      /\ Booted => /\ step = "open" => serialRate = Closed
                   /\ step \notin {"close", "open"} => serialRate = NV_Settings.DataBaudRate

IInv == OneListener /\ NothingListens /\ StepsHaveData /\ InForceSinceLoad

LEMMA SettingsOfDefaults ==
    Defaults \in Settings /\ Zeroed \in Settings /\ Erased \in Settings
  BY SerialBurnerAssumption
     DEF Settings, Defaults, Zeroed, Erased, Filled, Blank, Word

LEMMA NoListener ==
    /\ None \notin Client /\ None # Failed
    /\ None \notin Port \cup Word /\ Failed \notin Port \cup Word
    /\ Closed \notin BaudRate \cup Word
  BY SerialBurnerAssumption DEF None, Client, Failed, Closed, Word, Blank

LEMMA Pages ==
    /\ Len(Page) = 5 /\ DOMAIN Page = 1..5
    /\ Page[1] = "ServerListenPort" /\ Page[2] = "ClientTimeout"
    /\ Page[3] = "ClientOverrrideTimeout" /\ Page[4] = "BaudRate"
    /\ Page[5] = "FlowControl"
  BY DEF Page

LEMMA Fields ==
    /\ Len(Field) = 6
    /\ Field[1] = "VerifyKey" /\ Field[2] = "ServerListenPort"
    /\ Field[3] = "ClientTimeout" /\ Field[4] = "ClientOverrideTimeout"
    /\ Field[5] = "DataBaudRate" /\ Field[6] = "SerialDataFlowControl"
  BY DEF Field

LEMMA SixFields ==
  ASSUME NEW i \in 1..6
  PROVE  i = 1 \/ i = 2 \/ i = 3 \/ i = 4 \/ i = 5 \/ i = 6
  OBVIOUS

(* Settings that agree in every field are the same.                        *)
LEMMA SameSettings ==
  ASSUME NEW a \in Settings, NEW b \in Settings,
         \A j \in 1..6 : a[Field[j]] = b[Field[j]]
  PROVE  a = b
<1>1. /\ a["VerifyKey"] = b["VerifyKey"]
      /\ a["ServerListenPort"] = b["ServerListenPort"]
      /\ a["ClientTimeout"] = b["ClientTimeout"]
      /\ a["ClientOverrideTimeout"] = b["ClientOverrideTimeout"]
      /\ a["DataBaudRate"] = b["DataBaudRate"]
      /\ a["SerialDataFlowControl"] = b["SerialDataFlowControl"]
  BY Fields
<1>2. QED
  BY <1>1 DEF Settings

(* Copying a field of one settings into others gives settings, in which    *)
(* that field is the source's and the others are what they were.           *)
Copied(a, b, i) == [a EXCEPT ![Field[i]] = b[Field[i]]]

LEMMA CopiedSettings ==
  ASSUME NEW a \in Settings, NEW b \in Settings, NEW i \in 1..6
  PROVE  /\ Copied(a, b, i) \in Settings
         /\ Copied(a, b, i)[Field[i]] = b[Field[i]]
         /\ \A j \in 1..6 \ {i} : Copied(a, b, i)[Field[j]] = a[Field[j]]
<1> DEFINE s == Copied(a, b, i)
<1>0. s = [a EXCEPT ![Field[i]] = b[Field[i]]]
  BY DEF Copied
<1> HIDE DEF s
<1>1. DOMAIN a = {"VerifyKey", "ServerListenPort", "ClientTimeout",
                  "ClientOverrideTimeout", "DataBaudRate", "SerialDataFlowControl"}
  BY DEF Settings
<1>2. \A j \in 1..6 : Field[j] \in DOMAIN a
  BY <1>1, Fields, SixFields
<1>3. \A j \in 1..6 \ {i} : Field[j] # Field[i]
  BY DEF Field
<1>4. /\ s[Field[i]] = b[Field[i]]
      /\ \A j \in 1..6 \ {i} : s[Field[j]] = a[Field[j]]
  BY <1>0, <1>2, <1>3, Zenon
<1>5. s \in Settings
  <2>1. CASE i = 1
    BY <2>1, <1>0, Fields DEF Settings
  <2>2. CASE i = 2
    BY <2>2, <1>0, Fields DEF Settings
  <2>3. CASE i = 3
    BY <2>3, <1>0, Fields DEF Settings
  <2>4. CASE i = 4
    BY <2>4, <1>0, Fields DEF Settings
  <2>5. CASE i = 5
    BY <2>5, <1>0, Fields DEF Settings
  <2>6. CASE i = 6
    BY <2>6, <1>0, Fields DEF Settings
  <2>7. QED
    BY <2>1, <2>2, <2>3, <2>4, <2>5, <2>6, SixFields
<1>6. QED
  BY <1>4, <1>5 DEF s

(* Whichever field of the page is stored, the settings stay settings, and  *)
(* only its field touches the rate.                                        *)
LEMMA StoredSettings ==
  ASSUME NV_Settings \in Settings, form \in Form, NEW i \in 1..5,
         NEW s, s = IF Page[i] \in DOMAIN Target
                      THEN [NV_Settings EXCEPT ![Target[Page[i]]] = form[Page[i]]]
                      ELSE NV_Settings
  PROVE  /\ s \in Settings
         /\ s.DataBaudRate = IF i = 4 THEN form.BaudRate ELSE NV_Settings.DataBaudRate
<1>0. form \in Forms
  BY FormAssumption
<1>1. CASE i = 1
  BY <1>0, <1>1, Pages DEF Target, Settings, Forms
<1>2. CASE i = 2
  BY <1>0, <1>2, Pages DEF Target, Settings, Forms
<1>3. CASE i = 4
  BY <1>0, <1>3, Pages DEF Target, Settings, Forms
<1>4. CASE i \in {3, 5}
  BY <1>4, Pages DEF Target
<1>5. QED
  BY <1>1, <1>2, <1>3, <1>4

LEMMA InitIsGood == Init => IInv
<1> SUFFICES ASSUME Init PROVE IInv
  OBVIOUS
<1> USE DEF Init
<1>1. backlog \in Seq(Client)
  OBVIOUS
<1>2. bChangeServerListenPort \in BOOLEAN /\ saved \in BOOLEAN /\ early \in BOOLEAN
  OBVIOUS
<1>3. /\ http \in 0..(Len(Page) + 1) /\ field \in 1..Len(Field)
      /\ clients \in 0..MaxClients /\ posts \in 0..MaxPosts /\ resets \in 0..MaxResets
  BY Pages, Fields, SerialBurnerAssumption
<1>4. TypeOK
  BY <1>1, <1>2, <1>3, SettingsOfDefaults DEF TypeOK
<1>5. ~Booted
  BY DEF Booted
<1>6. InForceSinceLoad
  BY <1>5 DEF InForceSinceLoad, Unread
<1>7. QED
  BY <1>4, <1>6 DEF IInv, OneListener, NothingListens, StepsHaveData

(* One listening socket: UserMain opens one only where it has closed the   *)
(* last one, and nobody queues where none is.                              *)
LEMMA ListenerStays ==
  ASSUME IInv, [Next]_vars
  PROVE  /\ listening' \subseteq {serverfd'}
         /\ (backlog' # << >>) => (serverfd' \in listening')
         /\ NothingListens'
<1> USE NoListener DEF IInv, OneListener, NothingListens, Booted
<1>1. CASE Start \/ Relisten
  <2>1. listening = {} /\ backlog = << >> /\ main' \in {"check", "halted", "clear"}
    BY <1>1 DEF Start, Relisten, Listen
  <2>2. QED
    BY <1>1, <2>1 DEF Start, Relisten, Listen
<1>2. CASE Accept \/ CloseServer
  BY <1>2 DEF Accept, CloseServer, At
<1>3. CASE \/ Check \/ ClearFlag \/ AcceptNothing \/ DataPumpReturns
  BY <1>3 DEF Check, ClearFlag, AcceptNothing, DataPumpReturns, At, stackVars
<1>4. CASE CheckNVSettings \/ LowerFlag \/ InitializeSerialPorts
  <2>1. ~Booted /\ UNCHANGED <<listening, backlog, serverfd>>
    BY <1>4 DEF CheckNVSettings, GetUserParameters, Copy, TestKey, SaveDefaults, LowerFlag,
       InitializeSerialPorts, At, stackVars
  <2>2. QED
    BY <2>1
<1>5. CASE Web \/ UNCHANGED vars
  BY <1>5 DEF Web, StartPost, processPostVariables, RaiseFlag, Store, Reopen, EndOfPost,
     vars, mainVars, startVars, stackVars
<1>6. CASE Connect \/ Reset
  BY <1>6 DEF Connect, Reset, mainVars, startVars
<1>7. QED
  BY <1>1, <1>2, <1>3, <1>4, <1>5, <1>6 DEF Next, UserMain


(* The start-up copies the settings from flash, field by field, and tests  *)
(* them when they are the ones in flash.                                   *)
LEMMA LoadKeepsForce ==
  ASSUME IInv, Copy(flash, "load", "test")
  PROVE  InForceSinceLoad'
<1> SUFFICES ASSUME ~early' PROVE InForceSinceLoad'
  BY DEF InForceSinceLoad
<1>1. /\ ~early /\ http = 0 /\ main = "load" /\ main' \in {"load", "test"}
      /\ UNCHANGED <<flash, serialRate, saved, http, step>>
  BY DEF Copy, webVars, IInv, InForceSinceLoad, Booted
<1>2. field \in 1..6 /\ NV_Settings \in Settings /\ flash \in Settings
  BY Fields DEF IInv, OneListener, TypeOK
<1>3. NV_Settings' = [NV_Settings EXCEPT ![Field[field]] = flash[Field[field]]]
  BY DEF Copy
<1>4. \A j \in 1..(field - 1) : NV_Settings[Field[j]] = flash[Field[j]]
  BY <1>1 DEF IInv, InForceSinceLoad
<1>5. /\ NV_Settings' \in Settings
      /\ NV_Settings'[Field[field]] = flash[Field[field]]
      /\ \A j \in 1..6 \ {field} : NV_Settings'[Field[j]] = NV_Settings[Field[j]]
  <2>1. NV_Settings' = Copied(NV_Settings, flash, field)
    BY <1>3 DEF Copied
  <2>2. QED
    BY <1>2, <2>1, CopiedSettings
<1>6. \A j \in 1..field : NV_Settings'[Field[j]] = flash[Field[j]]
  <2>1. SUFFICES ASSUME NEW j \in 1..field PROVE NV_Settings'[Field[j]] = flash[Field[j]]
    OBVIOUS
  <2>2. CASE j = field
    BY <2>2, <1>5
  <2>3. CASE j # field
    <3>1. j \in 1..(field - 1) /\ j \in 1..6 \ {field}
      BY <2>1, <2>3, <1>2
    <3>2. QED
      BY <3>1, <1>4, <1>5
  <2>4. QED
    BY <2>2, <2>3
<1>7. ~Booted' /\ main' # "open" /\ main' \in Unread
  BY <1>1 DEF Booted, Unread
<1>8. CASE field < 6
  <2>1. field' = field + 1 /\ main' = "load"
    BY <1>8, <1>1, <1>2, Fields DEF Copy
  <2>2. \A j \in 1..(field' - 1) : NV_Settings'[Field[j]] = flash'[Field[j]]
    BY <2>1, <1>1, <1>2, <1>6
  <2>3. QED
    BY <1>1, <1>7, <2>1, <2>2 DEF InForceSinceLoad
<1>9. CASE field = 6
  <2>1. main' = "test"
    BY <1>9, <1>1, Fields DEF Copy
  <2>2. NV_Settings' = flash
    BY <1>9, <1>2, <1>5, <1>6, SameSettings
  <2>3. QED
    BY <1>1, <1>7, <2>1, <2>2 DEF InForceSinceLoad
<1>10. QED
  BY <1>2, <1>8, <1>9

(* The rest of the start-up saves what it could not load, or says that it  *)
(* did not, and closes the port before it opens it.                        *)
LEMMA StartUpKeepsForce ==
  ASSUME IInv, \/ GetUserParameters \/ TestKey \/ Copy(Defaults, "default", "save")
               \/ SaveDefaults \/ LowerFlag \/ InitializeSerialPorts
  PROVE  InForceSinceLoad'
<1> USE DEF IInv, OneListener, InForceSinceLoad, Booted, Unread
<1>1. CASE GetUserParameters
  <2>1. field = 1
    BY <1>1 DEF GetUserParameters, At, StepsHaveData
  <2>2. QED
    BY <1>1, <2>1 DEF GetUserParameters, At, webVars
<1>2. CASE TestKey
  BY <1>2 DEF TestKey, At, webVars
<1>3. CASE Copy(Defaults, "default", "save")
  <2>1. main' \in {"default", "save"} /\ main = "default" /\ UNCHANGED webVars
    BY <1>3 DEF Copy
  <2>2. QED
    BY <2>1 DEF webVars
<1>4. CASE SaveDefaults
  BY <1>4 DEF SaveDefaults, SaveUserParameters, At, webVars
<1>5. CASE LowerFlag
  BY <1>5 DEF LowerFlag, At, webVars
<1>6. CASE InitializeSerialPorts
  <2>1. CASE At("serial", "open") /\ SerialClose
    BY <1>6, <2>1 DEF InitializeSerialPorts, At, SerialClose, webVars
  <2>2. CASE At("open", "start") /\ OpenSerial
    <3>1. ~early => http = 0 /\ serialRate = Closed
      BY <2>2 DEF At
    <3>2. http = 0 => step \notin {"close", "open"}
      BY DEF StepsHaveData
    <3>3. QED
      BY <1>6, <2>2, <3>1, <3>2 DEF InitializeSerialPorts, At, OpenSerial, webVars
  <2>3. QED
    BY <1>6, <2>1, <2>2 DEF InitializeSerialPorts
<1>7. QED
  BY <1>1, <1>2, <1>3, <1>4, <1>5, <1>6

(* In a submission the port and its configured rate part only between the  *)
(* closing and the opening, where nobody else opens the port.              *)
LEMMA SubmissionKeepsForce ==
  ASSUME IInv, Web
  PROVE  InForceSinceLoad'
<1> USE DEF IInv, OneListener, Unread
<1> SUFFICES ASSUME ~early' PROVE InForceSinceLoad'
  BY DEF InForceSinceLoad
<1>1. ~early /\ Booted /\ UNCHANGED <<main, field>>
  <2>1. CASE StartPost
    BY <2>1 DEF StartPost, mainVars, startVars
  <2>2. CASE processPostVariables \/ EndOfPost
    <3>1. http # 0 /\ UNCHANGED <<main, field, early>>
      BY <2>2, Pages DEF processPostVariables, RaiseFlag, Store, Reopen, EndOfPost, Go,
         Handling, mainVars, startVars, StepsHaveData
    <3>2. QED
      BY <3>1 DEF InForceSinceLoad
  <2>3. QED
    BY <2>1, <2>2 DEF Web
<1>2. /\ main \notin Unread /\ main # "open" /\ main # "load" /\ main # "test"
      /\ Booted' /\ main' = main
  BY <1>1 DEF Booted
<1>3. /\ step = "open" => serialRate = Closed
      /\ step \notin {"close", "open"} => serialRate = NV_Settings.DataBaudRate
  BY <1>1 DEF InForceSinceLoad
<1>4. SUFFICES /\ (http' = 0 /\ saved') => flash' = NV_Settings'
               /\ step' = "open" => serialRate' = Closed
               /\ step' \notin {"close", "open"} => serialRate' = NV_Settings'.DataBaudRate
  BY <1>2 DEF InForceSinceLoad
<1>5. CASE StartPost
  BY <1>5, <1>3 DEF StartPost
<1>6. CASE RaiseFlag
  BY <1>6, <1>3, Pages DEF RaiseFlag, Go, Handling
<1>7. CASE Store
  <2>1. /\ http \in 1..5 /\ form \in Form /\ NV_Settings \in Settings
        /\ UNCHANGED serialRate
        /\ step \in {"flagged", "field"}
    BY <1>7, Pages DEF Store, Go, StepsHaveData, TypeOK
  <2>2. NV_Settings'.DataBaudRate = IF http = 4 THEN form.BaudRate
                                                ELSE NV_Settings.DataBaudRate
    BY <1>7, <2>1, StoredSettings DEF Store
  <2>3. http' \in 1..6 /\ step' \in {"field", "close"}
    BY <1>7, <2>1 DEF Store, Go
  <2>4. step' = "field" => NV_Settings'.DataBaudRate = NV_Settings.DataBaudRate
    <3>1. CASE http # 4
      BY <2>2, <3>1
    <3>2. CASE http = 4
      <4>1. step = "field"
        BY <2>1, <3>2 DEF StepsHaveData
      <4>2. step' = "field" => ~NewRate
        BY <1>7, <4>1 DEF Store, Go
      <4>3. QED
        BY <3>2, <4>2, <2>2, Pages DEF NewRate, Handling
    <3>3. QED
      BY <3>1, <3>2
  <2>5. QED
    BY <1>3, <2>1, <2>3, <2>4
<1>8. CASE Reopen
  <2>1. http = 4 /\ http' # 0 /\ UNCHANGED NV_Settings
    BY <1>8 DEF Reopen, Go, StepsHaveData
  <2>2. QED
    BY <1>8, <2>1, <1>3 DEF Reopen, Go, SerialClose, OpenSerial
<1>9. CASE EndOfPost
  <2>1. http = 6 /\ step \in {"field", "save"} /\ UNCHANGED serialRate
    BY <1>9, Pages DEF EndOfPost, Go
  <2>2. NV_Settings'.DataBaudRate = NV_Settings.DataBaudRate
    BY <1>9 DEF EndOfPost, TypeOK, Settings
  <2>3. (http' = 0 /\ saved') => flash' = NV_Settings'
    <3>1. CASE Go("field", http, "save")
      BY <2>1, <3>1 DEF Go
    <3>2. CASE step = "save" /\ SaveUserParameters(Image) /\ UNCHANGED NV_Settings
      BY <3>2 DEF SaveUserParameters, Image
    <3>3. QED
      BY <1>9, <3>1, <3>2 DEF EndOfPost
  <2>4. step' \in {"field", "save"}
    BY <1>9 DEF EndOfPost, Go
  <2>5. QED
    BY <2>1, <2>2, <2>3, <2>4, <1>3
<1>10. QED
  BY <1>5, <1>6, <1>7, <1>8, <1>9 DEF Web, processPostVariables

LEMMA ForceStays ==
  ASSUME IInv, [Next]_vars
  PROVE  InForceSinceLoad'
<1> USE DEF IInv
<1>1. CASE Copy(flash, "load", "test")
  BY <1>1, LoadKeepsForce
<1>2. CASE \/ GetUserParameters \/ TestKey \/ Copy(Defaults, "default", "save")
           \/ SaveDefaults \/ LowerFlag \/ InitializeSerialPorts
  BY <1>2, StartUpKeepsForce
<1>3. CASE \/ Start \/ Relisten \/ Check \/ CloseServer \/ ClearFlag \/ Accept
           \/ AcceptNothing \/ DataPumpReturns
  <2>1. Booted /\ Booted' /\ UNCHANGED <<NV_Settings, flash, serialRate, saved, webVars>>
        /\ {main, main'} \cap {"load", "test", "open"} = {} /\ main \notin Unread
    BY <1>3 DEF Start, Relisten, Listen, Check, CloseServer, ClearFlag, Accept,
       AcceptNothing, DataPumpReturns, At, Booted, Unread
  <2>2. QED
    BY <2>1 DEF InForceSinceLoad, webVars
<1>4. CASE Web
  BY <1>4, SubmissionKeepsForce
<1>5. CASE Connect \/ UNCHANGED vars
  BY <1>5 DEF Connect, vars, mainVars, startVars, webVars, InForceSinceLoad, Booted, Unread
<1>6. CASE Reset
  BY <1>6 DEF Reset, InForceSinceLoad, Booted, Unread
<1>7. QED
  BY <1>1, <1>2, <1>3, <1>4, <1>5, <1>6 DEF Next, UserMain, CheckNVSettings

(* The steps keep every variable in its type, and the data each next step  *)
(* of the two tasks needs.                                                 *)
LEMMA StartUpTyped ==
  ASSUME IInv, CheckNVSettings \/ LowerFlag \/ InitializeSerialPorts
  PROVE  TypeOK' /\ StepsHaveData'
<1> USE DEF IInv, OneListener
<1>1. CASE GetUserParameters \/ TestKey
  <2>1. /\ main \in {"settings", "test"} /\ main' \in {"load", "lower", "default"}
        /\ saved' \in BOOLEAN /\ field = 1 /\ UNCHANGED field
    BY <1>1 DEF GetUserParameters, TestKey, At, TypeOK, StepsHaveData
  <2>2. bChangeServerListenPort' \in BOOLEAN /\ early' \in BOOLEAN
    BY <1>1 DEF GetUserParameters, TestKey, TypeOK, webVars
  <2>3. QED
    BY <1>1, <2>1, <2>2 DEF GetUserParameters, TestKey, TypeOK, StepsHaveData, webVars,
       stackVars
<1>2. ASSUME NEW source \in Settings, NEW here \in {"load", "default"},
             NEW next \in {"test", "save"}, Copy(source, here, next)
      PROVE  TypeOK' /\ StepsHaveData'
  <2>1. field \in 1..6 /\ NV_Settings \in Settings
    BY Fields DEF TypeOK
  <2>2. NV_Settings' \in Settings
    <3>1. NV_Settings' = Copied(NV_Settings, source, field)
      BY <1>2 DEF Copy, Copied
    <3>2. QED
      BY <2>1, <3>1, CopiedSettings
  <2>3. /\ field' \in 1..6 /\ main' \in {here, next}
        /\ main' \notin {"load", "default"} => field' = 1
    BY <1>2, <2>1, Fields DEF Copy
  <2>4. /\ bChangeServerListenPort' \in BOOLEAN /\ early' \in BOOLEAN
        /\ saved' \in BOOLEAN
    BY <1>2 DEF Copy, TypeOK, webVars
  <2>5. QED
    BY <1>2, <2>2, <2>3, <2>4, Fields DEF Copy, TypeOK, StepsHaveData, webVars, stackVars
<1>3. CASE SaveDefaults
  <2>1. flash' \in Settings /\ saved' \in BOOLEAN
    BY <1>3 DEF SaveDefaults, SaveUserParameters, TypeOK
  <2>2. /\ bChangeServerListenPort' \in BOOLEAN /\ early' \in BOOLEAN
        /\ main' = "lower" /\ field = 1 /\ UNCHANGED field
    BY <1>3 DEF SaveDefaults, At, TypeOK, StepsHaveData, webVars
  <2>3. QED
    BY <1>3, <2>1, <2>2 DEF SaveDefaults, TypeOK, StepsHaveData, webVars, stackVars
<1>4. CASE LowerFlag
  <2>1. /\ bChangeServerListenPort' \in BOOLEAN /\ early' \in BOOLEAN
        /\ saved' \in BOOLEAN
        /\ main' = "serial" /\ field = 1 /\ UNCHANGED field
    BY <1>4 DEF LowerFlag, At, TypeOK, StepsHaveData, webVars
  <2>2. QED
    BY <1>4, <2>1 DEF LowerFlag, TypeOK, StepsHaveData, webVars, stackVars
<1>5. CASE InitializeSerialPorts
  <2>1. serialRate' \in BaudRate \cup Word \cup {Closed}
    BY <1>5 DEF InitializeSerialPorts, SerialClose, OpenSerial, TypeOK, Settings
  <2>2. /\ bChangeServerListenPort' \in BOOLEAN /\ early' \in BOOLEAN
        /\ saved' \in BOOLEAN
        /\ main' \in {"open", "start"} /\ field = 1 /\ UNCHANGED field
    BY <1>5 DEF InitializeSerialPorts, At, TypeOK, StepsHaveData, webVars
  <2>3. QED
    BY <1>5, <2>1, <2>2 DEF InitializeSerialPorts, TypeOK, StepsHaveData, webVars, stackVars
<1>6. QED
  <2>1. flash \in Settings /\ Defaults \in Settings
    BY SettingsOfDefaults DEF TypeOK
  <2>2. QED
    BY <1>1, <1>2, <1>3, <1>4, <1>5, <2>1 DEF CheckNVSettings

LEMMA ServerTyped ==
  ASSUME IInv, \/ Start \/ Relisten \/ Check \/ CloseServer \/ ClearFlag \/ Accept
               \/ AcceptNothing \/ DataPumpReturns
  PROVE  TypeOK' /\ StepsHaveData'
<1> USE DEF IInv, OneListener
<1>1. CASE Start \/ Relisten
  <2>1. main \in {"start", "relisten"} /\ main' \in {"halted", "check", "clear"}
    BY <1>1 DEF Start, Relisten, Listen
  <2>2. NV_Settings.ServerListenPort \in Port \cup Word
    BY DEF TypeOK, Settings
  <2>3. QED
    BY <1>1, <2>1, <2>2 DEF Start, Relisten, Listen, TypeOK, StepsHaveData, webVars
<1>2. CASE Check \/ AcceptNothing
  <2>1. main \in {"check", "accept"} /\ main' \in {"close", "accept", "check"}
    BY <1>2 DEF Check, AcceptNothing, At
  <2>2. QED
    BY <1>2, <2>1 DEF Check, AcceptNothing, At, TypeOK, StepsHaveData, webVars, stackVars
<1>3. CASE CloseServer
  <2>1. backlog' \in Seq(Client)
    <3>1. backlog' = << >>
      BY <1>3 DEF CloseServer
    <3>2. QED
      BY <3>1
  <2>2. main = "close" /\ main' = "relisten"
    BY <1>3 DEF CloseServer, At
  <2>3. QED
    BY <1>3, <2>1, <2>2 DEF CloseServer, At, TypeOK, StepsHaveData, webVars
<1>4. CASE ClearFlag
  <2>1. bChangeServerListenPort' \in BOOLEAN
    BY <1>4 DEF ClearFlag
  <2>2. main = "clear" /\ main' = "accept"
    BY <1>4 DEF ClearFlag, At
  <2>3. QED
    BY <1>4, <2>1, <2>2 DEF ClearFlag, At, TypeOK, StepsHaveData, webVars, stackVars
<1>5. CASE Accept
  <2>1. main = "accept" /\ main' = "pump"
    BY <1>5 DEF Accept, At
  <2>2. Head(backlog) \in Client /\ Tail(backlog) \in Seq(Client)
    BY <1>5 DEF Accept, TypeOK
  <2>3. limits' \in [ClientTimeout : Timeout \cup Word,
                     ClientOverrideTimeout : Override \cup Word]
    <3>1. PICK data \in {flash, Defaults} : limits' = Limits(data)
      BY <1>5 DEF Accept
    <3>2. data \in Settings
      BY SettingsOfDefaults DEF TypeOK
    <3>3. QED
      BY <3>1, <3>2 DEF Limits, Settings
  <2>4. QED
    BY <1>5, <2>1, <2>2, <2>3 DEF Accept, At, TypeOK, StepsHaveData, webVars
<1>6. CASE DataPumpReturns
  <2>1. \/ open' = open \ {clientfd} /\ clientfd' = None
        \/ UNCHANGED <<open, clientfd>>
    BY <1>6 DEF DataPumpReturns
  <2>2. main = "pump" /\ main' = "check"
    BY <1>6 DEF DataPumpReturns, At
  <2>3. open' \subseteq Client /\ clientfd' \in Client \cup {None}
    BY <2>1 DEF TypeOK
  <2>4. QED
    BY <1>6, <2>2, <2>3 DEF DataPumpReturns, At, TypeOK, StepsHaveData, webVars
<1>7. QED
  BY <1>1, <1>2, <1>3, <1>4, <1>5, <1>6

LEMMA WebTyped ==
  ASSUME IInv, Web
  PROVE  TypeOK' /\ StepsHaveData'
<1> USE DEF IInv, OneListener
<1>1. CASE StartPost
  <2>1. /\ early' \in BOOLEAN /\ bChangeServerListenPort' \in BOOLEAN
        /\ saved' \in BOOLEAN
    BY <1>1 DEF StartPost, TypeOK
  <2>2. posts' \in 0..MaxPosts
    BY <1>1, SerialBurnerAssumption DEF StartPost, TypeOK
  <2>3. step \notin {"flagged", "close", "open"}
    BY <1>1 DEF StartPost, StepsHaveData
  <2>4. QED
    BY <1>1, <2>1, <2>2, <2>3, Pages
       DEF StartPost, TypeOK, StepsHaveData, mainVars, startVars, stackVars
<1>2. CASE RaiseFlag
  <2>1. http = 1 /\ UNCHANGED <<http, form>> /\ step' = "flagged"
    BY <1>2, Pages DEF RaiseFlag, Handling, Go
  <2>2. bChangeServerListenPort' \in BOOLEAN /\ saved' \in BOOLEAN /\ early' \in BOOLEAN
    BY <1>2 DEF RaiseFlag, Go, TypeOK
  <2>3. QED
    BY <1>2, <2>1, <2>2, Pages
       DEF RaiseFlag, Go, TypeOK, StepsHaveData, mainVars, startVars, stackVars
<1>3. CASE Store
  <2>1. http \in 1..5 /\ form \in Form /\ NV_Settings \in Settings
    BY <1>3, Pages DEF Store, StepsHaveData, TypeOK
  <2>2. NV_Settings' \in Settings
    BY <1>3, <2>1, StoredSettings DEF Store
  <2>3. /\ http' \in 1..6 /\ form' = form /\ step' \in {"field", "close"}
        /\ step' = "close" => http' = 4
    BY <1>3, <2>1, Pages DEF Store, Go, NewRate, Handling
  <2>4. bChangeServerListenPort' \in BOOLEAN /\ saved' \in BOOLEAN /\ early' \in BOOLEAN
    BY <1>3 DEF Store, Go, TypeOK
  <2>5. UNCHANGED posts
    BY <1>3 DEF Store, Go
  <2>6. QED
    BY <1>3, <2>1, <2>2, <2>3, <2>4, <2>5, Pages
       DEF Store, TypeOK, StepsHaveData, mainVars, startVars, stackVars
<1>4. CASE Reopen
  <2>1. http = 4 /\ http' \in {4, 5} /\ UNCHANGED <<form, posts>>
        /\ step' \in {"open", "field"} /\ (step' = "open" => http' = 4)
    BY <1>4 DEF Reopen, Go, StepsHaveData
  <2>2. serialRate' \in BaudRate \cup Word \cup {Closed}
    BY <1>4 DEF Reopen, SerialClose, OpenSerial, TypeOK, Settings
  <2>3. bChangeServerListenPort' \in BOOLEAN /\ saved' \in BOOLEAN /\ early' \in BOOLEAN
    BY <1>4 DEF Reopen, Go, TypeOK
  <2>4. QED
    BY <1>4, <2>1, <2>2, <2>3, Pages
       DEF Reopen, TypeOK, StepsHaveData, mainVars, startVars, stackVars
<1>5. CASE EndOfPost
  <2>1. http = 6 /\ step \in {"field", "save"} /\ UNCHANGED posts
    BY <1>5, Pages DEF EndOfPost, Go
  <2>2. NV_Settings' \in Settings
    BY <1>5 DEF EndOfPost, TypeOK, Settings
  <2>3. flash' \in Settings /\ saved' \in BOOLEAN
    BY <1>5 DEF EndOfPost, SaveUserParameters, Image, TypeOK
  <2>4. bChangeServerListenPort' \in BOOLEAN /\ early' \in BOOLEAN
    BY <1>5 DEF EndOfPost, Go, TypeOK
  <2>5. \/ http' = 6 /\ form' = form /\ step' = "save"
        \/ http' = 0 /\ form' = NoForm /\ step' = "field"
    BY <1>5, <2>1 DEF EndOfPost, Go
  <2>6. QED
    BY <1>5, <2>1, <2>2, <2>3, <2>4, <2>5, Pages
       DEF EndOfPost, TypeOK, StepsHaveData, mainVars, startVars, stackVars
<1>6. QED
  BY <1>1, <1>2, <1>3, <1>4, <1>5 DEF Web, processPostVariables

LEMMA EnvironmentTyped ==
  ASSUME IInv, Connect \/ Reset \/ UNCHANGED vars
  PROVE  TypeOK' /\ StepsHaveData'
<1> USE DEF IInv, OneListener
<1>1. CASE Connect
  <2>1. clients' \in Client
    BY <1>1, SerialBurnerAssumption DEF Connect, Client, TypeOK
  <2>2. backlog' \in Seq(Client)
    BY <1>1, <2>1 DEF Connect, TypeOK
  <2>3. clients' \in 0..MaxClients
    BY <2>1 DEF Client
  <2>4. bChangeServerListenPort' \in BOOLEAN /\ saved' \in BOOLEAN /\ early' \in BOOLEAN
    BY <1>1 DEF Connect, TypeOK, webVars
  <2>5. QED
    BY <1>1, <2>2, <2>3, <2>4 DEF Connect, TypeOK, StepsHaveData, mainVars, startVars, webVars
<1>2. CASE Reset
  <2>1. backlog' \in Seq(Client)
    <3>1. backlog' = << >>
      BY <1>2 DEF Reset
    <3>2. QED
      BY <3>1
  <2>2. bChangeServerListenPort' \in BOOLEAN /\ early' \in BOOLEAN
    BY <1>2 DEF Reset
  <2>3. saved' \in BOOLEAN
    BY <1>2 DEF Reset, TypeOK
  <2>4. resets' \in 0..MaxResets
    BY <1>2, SerialBurnerAssumption DEF Reset, TypeOK
  <2>5. field' \in 1..Len(Field) /\ http' \in 0..(Len(Page) + 1)
    BY <1>2, Pages, Fields DEF Reset
  <2>6. QED
    BY <1>2, <2>1, <2>2, <2>3, <2>4, <2>5, SettingsOfDefaults
       DEF Reset, TypeOK, StepsHaveData
<1>3. CASE UNCHANGED vars
  BY <1>3 DEF vars, mainVars, startVars, webVars, stackVars, TypeOK, StepsHaveData
<1>4. QED
  BY <1>1, <1>2, <1>3

LEMMA Invariant == Spec => []IInv
<1>1. IInv /\ [Next]_vars => IInv'
  BY StartUpTyped, ServerTyped, WebTyped, EnvironmentTyped, ListenerStays, ForceStays
     DEF IInv, OneListener, Next, UserMain
<1>2. QED
  BY InitIsGood, <1>1, PTL DEF Spec

(* However often the settings page changes the port, and whenever in       *)
(* start-up, session or reset, UserMain never leaves a listening socket    *)
(* behind, and nobody waits on one that it does not accept from.           *)
THEOREM OneListenerAlways == Spec => []OneListener
  BY Invariant, PTL DEF IInv

(* Between submissions the settings in RAM are the ones in flash and the   *)
(* serial port runs at the configured rate, wherever a submission fell in  *)
(* a session, however often power was lost in a load or a save, and        *)
(* whichever fields were then stored.  The statement leaves out what the   *)
(* code cannot keep: a save that failed or settings that could not be read *)
(* (nobody looks at the result), and a power-on in which a submission came *)
(* before UserMain had opened the port.                                    *)
THEOREM SettingsAreInForce == Spec => []SettingsInForce
<1>1. IInv => SettingsInForce
  <2> SUFFICES ASSUME IInv PROVE SettingsInForce
    OBVIOUS
  <2>1. http = 0 => step \notin {"close", "open"}
    BY DEF IInv, StepsHaveData
  <2>2. Booted => main \notin Unread
    BY DEF Booted, Unread
  <2>3. QED
    BY <2>1, <2>2 DEF IInv, InForceSinceLoad, SettingsInForce
<1>2. QED
  BY Invariant, <1>1, PTL
=============================================================================
