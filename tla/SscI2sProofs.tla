---------------------------- MODULE SscI2sProofs ----------------------------
(***************************************************************************)
(* What SscI2s guarantees for every depth, pool and queue, and any number  *)
(* of errors: its types, that semaphores and rings agree, that reclaiming  *)
(* stays behind the channel, and that no buffer is lost.                   *)
(*                                                                         *)
(* IInv is the inductive invariant.  CallsInOrder says what the task's     *)
(* place tells of its locals, Undisturbed how the two directions start as  *)
(* long as there is no error, RoomIsReal that a call that found no room    *)
(* finds the semaphore still right, and BehindTheChannel what an interrupt *)
(* handler's view of the channel is worth when the channel has gone on.    *)
(***************************************************************************)
EXTENDS SscI2s, TLAPS

CallsInOrder ==
    /\ token => pc \in {"decide", "add"}
    /\ tone => pc = "loop"
    /\ (pc \in {"decide", "add"} /\ call = "tx") => token

InCall == pc \in {"decide", "add"}

Undisturbed ==
    errors = 0 =>
        /\ \A d \in Dir : "error" \notin irq[d]
        /\ "tx" \notin state => ring["tx"] = 0
        /\ "rx" \notin state => /\ state = {} /\ ring["rx"] = 0
                                /\ calls = 0 /\ call = "rx" /\ slips = 0
                                /\ pc \in {"get", "room", "decide"}
        /\ pc = "add" => call \in state

RoomIsReal ==
    /\ TxRoomIsReal
    /\ RxRoomIsReal
    /\ (InCall /\ ~token) => Claimed("rx") <= Depth

NothingLost ==
    /\ slips = 0 => extra = 0
    /\ EveryBufferInOnePlace

BehindTheChannel ==
    \A d \in Dir :
        /\ at[d] <= ring[d] /\ next[d] <= ring[d]
        /\ enabled[d] => /\ 1 <= next[d] /\ at[d] <= next[d]
                         /\ d = "rx" => 1 <= at[d]
        /\ (enabled[d] /\ isr = d) => /\ 1 <= final /\ final <= next[d]
                                      /\ d = "rx" => 1 <= seen /\ seen <= at[d]

IInv == /\ TypeOK /\ CallsInOrder /\ Undisturbed
        /\ RoomIsReal /\ NothingLost /\ BehindTheChannel
-----------------------------------------------------------------------------
USE SscI2sAssumption

LEMMA Directions == /\ \A d \in Dir : d = "tx" \/ d = "rx"
                    /\ "tx" \in Dir /\ "rx" \in Dir
  BY DEF Dir

(* FreeBufs() keeps the counts natural, and is exact when no buffer is     *)
(* counted twice.                                                          *)
LEMMA Freed ==
  ASSUME free \in Nat, extra \in Nat, NEW n \in Nat, FreeBufs(n)
  PROVE  /\ free' \in Nat /\ extra' \in Nat
         /\ extra = 0 => free' = free + n /\ extra' = 0
  BY DEF FreeBufs

LEMMA InitIsGood == Init => IInv
<1> SUFFICES ASSUME Init PROVE IInv
  OBVIOUS
<1> USE Directions DEF Init, Both
<1>1. TypeOK
  <2>1. sem \in [Dir -> 0..Depth + 1]
    <3>1. Depth \in 0..(Depth + 1)
      BY SscI2sAssumption
    <3>2. sem = [d \in Dir |-> Depth]
      OBVIOUS
    <3>3. QED
      BY <3>1, <3>2
  <2>2. ring \in [Dir -> 0..Depth] /\ at \in [Dir -> 0..Depth] /\ next \in [Dir -> 0..Depth]
    BY SscI2sAssumption
  <2>3. enabled \in [Dir -> BOOLEAN] /\ irq \in [Dir -> SUBSET {"block", "error"}]
    OBVIOUS
  <2>4. {first, final, seen} \subseteq 0..Depth
        /\ {free, rxBufQ, extra, errors, slips} \subseteq Nat
    BY SscI2sAssumption
  <2>5. calls \in 0..StartUp
    BY DEF StartUp
  <2>6. token \in BOOLEAN /\ tone \in BOOLEAN
    BY Zenon
  <2>7. QED
    BY <2>1, <2>2, <2>3, <2>4, <2>5, <2>6 DEF TypeOK
<1>2. CallsInOrder /\ Undisturbed
  BY DEF CallsInOrder, Undisturbed
<1>3. RoomIsReal
  BY DEF RoomIsReal, TxRoomIsReal, RxRoomIsReal, Claimed, Holding, InCall
<1>4. NothingLost
  BY DEF NothingLost, EveryBufferInOnePlace, InHand
<1>5. BehindTheChannel
  BY DEF BehindTheChannel
<1>6. QED
  BY <1>1, <1>2, <1>3, <1>4, <1>5 DEF IInv

LEMMA CallsStayInOrder ==
  ASSUME IInv, [Next]_vars
  PROVE  CallsInOrder'
<1> USE Directions DEF IInv, TypeOK, CallsInOrder
<1>1. CASE Task
  BY <1>1 DEF Task, At, Return, Room, PendTimeout, NoRoom, Waits, Start, Running, Add,
     Get, Choose, GetToneBuffer, Received
<1>2. ASSUME NEW d \in Dir, Isr(d) \/ Complete(d) \/ Fault(d)
      PROVE  CallsInOrder'
  BY <1>2 DEF Isr, IsrError, IsrBlock, IsrReclaim, IsrReturn, Complete, Fault, locals
<1>3. CASE UNCHANGED vars
  BY <1>3 DEF vars, locals
<1>4. QED
  BY <1>1, <1>2, <1>3 DEF Next

LEMMA StaysUndisturbed ==
  ASSUME IInv, [Next]_vars
  PROVE  Undisturbed'
<1> USE Directions DEF IInv, TypeOK, CallsInOrder, Undisturbed, RoomIsReal, RxRoomIsReal,
        Claimed, Holding, StartUp
<1>1. CASE Room \/ Running \/ NoRoom
  BY <1>1 DEF Room, Running, NoRoom, Waits, At, dmaVars
<1>2. CASE PendTimeout
  <2>1. errors = 0 => "rx" \in state
    <3> SUFFICES ASSUME errors = 0, "rx" \notin state PROVE FALSE
      OBVIOUS
    <3>1. slips = 0 /\ ring["rx"] = 0 /\ sem["rx"] = 0 /\ ~token
      BY <1>2 DEF PendTimeout, At
    <3>2. QED
      BY <3>1, SscI2sAssumption
  <2>2. UNCHANGED <<irq, state, ring, call, errors>> /\ pc' # "add"
    BY <1>2 DEF PendTimeout, Return, At, dmaVars
  <2>3. QED
    BY <2>1, <2>2
<1>3. CASE Start
  BY <1>3 DEF Start, Started, Return, Queued, ConfigFirst, At
<1>4. CASE Add
  BY <1>4 DEF Add, Return, Queued, Lost, At
<1>5. CASE Get \/ Choose \/ GetToneBuffer \/ Received
  BY <1>5 DEF Get, Choose, GetToneBuffer, Received, At, dmaVars
<1>6. ASSUME NEW d \in Dir, Isr(d)
      PROVE  Undisturbed'
  <2>1. CASE IsrError(d)
    BY <2>1 DEF IsrError, locals
  <2>2. CASE IsrReclaim(d)
    BY <2>2 DEF IsrReclaim, Reclaimable, locals
  <2>3. CASE IsrBlock(d) \/ IsrReturn(d)
    BY <2>3 DEF IsrBlock, IsrReturn, dmaVars, locals
  <2>4. QED
    BY <1>6, <2>1, <2>2, <2>3 DEF Isr
<1>7. ASSUME NEW d \in Dir, Complete(d) \/ Fault(d)
      PROVE  Undisturbed'
  BY <1>7 DEF Complete, Fault, locals
<1>8. CASE UNCHANGED vars
  BY <1>8 DEF vars, dmaVars, locals
<1>9. QED
  BY <1>1, <1>2, <1>3, <1>4, <1>5, <1>6, <1>7, <1>8 DEF Next, Task

LEMMA RoomStaysReal ==
  ASSUME IInv, [Next]_vars
  PROVE  RoomIsReal'
<1> USE Directions DEF IInv, TypeOK, CallsInOrder, RoomIsReal, TxRoomIsReal, RxRoomIsReal,
        Claimed, Holding, InCall
<1>1. CASE Room \/ Running \/ NoRoom
  <2>1. CASE Room
    BY <2>1 DEF Room, Pend, At, dmaVars
  <2>2. CASE Running
    BY <2>2 DEF Running, At, dmaVars
  <2>3. CASE NoRoom
    BY <2>3 DEF NoRoom, Waits, At, dmaVars
  <2>4. QED
    BY <1>1, <2>1, <2>2, <2>3
<1>2. CASE PendTimeout
  BY <1>2 DEF PendTimeout, Return, At, dmaVars
<1>3. CASE Start
  BY <1>3 DEF Start, Started, Return, Queued, ConfigFirst, At, Undisturbed
<1>4. CASE Add
  BY <1>4 DEF Add, Return, Queued, Lost, At
<1>5. CASE Get \/ Choose \/ GetToneBuffer \/ Received
  BY <1>5 DEF Get, Choose, GetToneBuffer, Received, At, dmaVars
<1>6. ASSUME NEW d \in Dir, Isr(d)
      PROVE  RoomIsReal'
  <2>1. CASE IsrError(d)
    BY <2>1 DEF IsrError, locals
  <2>2. CASE IsrReclaim(d)
    BY <2>2 DEF IsrReclaim, Reclaimable, locals
  <2>3. CASE IsrBlock(d) \/ IsrReturn(d)
    BY <2>3 DEF IsrBlock, IsrReturn, dmaVars, locals
  <2>4. QED
    BY <1>6, <2>1, <2>2, <2>3 DEF Isr
<1>7. ASSUME NEW d \in Dir, Complete(d) \/ Fault(d)
      PROVE  RoomIsReal'
  BY <1>7 DEF Complete, Fault, locals
<1>8. CASE UNCHANGED vars
  BY <1>8 DEF vars, dmaVars, locals
<1>9. QED
  BY <1>1, <1>2, <1>3, <1>4, <1>5, <1>6, <1>7, <1>8 DEF Next, Task

LEMMA StaysBehindTheChannel ==
  ASSUME IInv, [Next]_vars
  PROVE  BehindTheChannel'
<1> USE Directions DEF IInv, TypeOK, BehindTheChannel
<1>1. CASE Room \/ Running \/ NoRoom \/ PendTimeout
  BY <1>1 DEF Room, Running, NoRoom, PendTimeout, At, dmaVars, isrVars
<1>2. CASE Start
  BY <1>2 DEF Start, ConfigFirst, At, isrVars
<1>3. CASE Add
  BY <1>3 DEF Add, At, isrVars
<1>4. CASE Get \/ Choose \/ GetToneBuffer \/ Received
  BY <1>4 DEF Get, Choose, GetToneBuffer, Received, At, dmaVars, isrVars
<1>5. ASSUME NEW d \in Dir, Isr(d)
      PROVE  BehindTheChannel'
  <2>1. CASE IsrError(d)
    BY <2>1 DEF IsrError, isrVars
  <2>2. CASE IsrBlock(d)
    BY <2>2 DEF IsrBlock, dmaVars
  <2>3. CASE IsrReclaim(d)
    BY <2>3 DEF IsrReclaim, Reclaimable, Back, Seen
  <2>4. CASE IsrReturn(d)
    BY <2>4 DEF IsrReturn, dmaVars
  <2>5. QED
    BY <1>5, <2>1, <2>2, <2>3, <2>4 DEF Isr
<1>6. ASSUME NEW d \in Dir, Complete(d)
      PROVE  BehindTheChannel'
  BY <1>6 DEF Complete, isrVars
<1>7. ASSUME NEW d \in Dir, Fault(d)
      PROVE  BehindTheChannel'
  BY <1>7 DEF Fault, isrVars
<1>8. CASE UNCHANGED vars
  BY <1>8 DEF vars, dmaVars, isrVars
<1>9. QED
  BY <1>1, <1>2, <1>3, <1>4, <1>5, <1>6, <1>7, <1>8 DEF Next, Task

LEMMA NothingGetsLost ==
  ASSUME IInv, [Next]_vars
  PROVE  NothingLost'
<1> USE Directions DEF IInv, TypeOK, CallsInOrder, NothingLost, EveryBufferInOnePlace, InHand
<1>1. CASE Room
  BY <1>1 DEF Room, At, dmaVars, pool
<1>2. CASE Running
  BY <1>2 DEF Running, At, dmaVars, pool
<1>3. CASE NoRoom
  BY <1>3, Freed DEF NoRoom, At, dmaVars
<1>4. CASE PendTimeout
  BY <1>4, Freed DEF PendTimeout, Return, At, dmaVars
<1>5. CASE Start
  BY <1>5 DEF Start, Return, Queued, ConfigFirst, At, Undisturbed
<1>6. CASE Add
  BY <1>6 DEF Add, Return, Queued, Lost, At, RoomIsReal, TxRoomIsReal, RxRoomIsReal,
     Claimed, Holding
<1>7. CASE Get
  BY <1>7 DEF Get, GetTxBuf, At, dmaVars
<1>8. CASE Choose
  BY <1>8, Freed DEF Choose, Discard, At, dmaVars, pool
<1>9. CASE GetToneBuffer
  <2>1. /\ UNCHANGED <<rxBufQ, extra, ring, token, slips, errors>>
        /\ free' = free - 1 /\ pc \in {"tone", "mix"} /\ ~tone /\ ~token
        /\ pc' = IF pc = "tone" THEN "room" ELSE "loop"
    BY <1>9 DEF GetToneBuffer, GetTxBuf, At, dmaVars
  <2>2. tone' <=> pc = "mix"
    BY <1>9, Zenon DEF GetToneBuffer
  <2>3. QED
    BY <2>1, <2>2
<1>10. CASE Received
  BY <1>10, Freed DEF Received, At, dmaVars
<1>11. ASSUME NEW d \in Dir, Isr(d)
       PROVE  NothingLost'
  <2>1. CASE IsrError(d)
    BY <2>1, Freed DEF IsrError, locals, Undisturbed
  <2>2. CASE IsrReclaim(d)
    <3>1. /\ \/ ring'["tx"] = ring["tx"] - 1 /\ ring'["rx"] = ring["rx"]
             \/ ring'["rx"] = ring["rx"] - 1 /\ ring'["tx"] = ring["tx"]
          /\ UNCHANGED <<pc, token, tone, slips, errors>>
      BY <2>2 DEF IsrReclaim, Reclaimable, locals
    <3>2. CASE FreeBufs(1) /\ UNCHANGED rxBufQ
      BY <3>1, <3>2, Freed
    <3>3. CASE rxBufQ' = rxBufQ + 1 /\ UNCHANGED <<free, extra>>
      BY <3>1, <3>3
    <3>4. QED
      BY <2>2, <3>2, <3>3 DEF IsrReclaim, BufDone
  <2>3. CASE IsrBlock(d) \/ IsrReturn(d)
    BY <2>3 DEF IsrBlock, IsrReturn, dmaVars, pool, locals
  <2>4. QED
    BY <1>11, <2>1, <2>2, <2>3 DEF Isr
<1>12. ASSUME NEW d \in Dir, Complete(d) \/ Fault(d)
       PROVE  NothingLost'
  BY <1>12 DEF Complete, Fault, locals, pool
<1>13. CASE UNCHANGED vars
  BY <1>13 DEF vars, dmaVars, locals, pool
<1>14. QED
  BY <1>1, <1>2, <1>3, <1>4, <1>5, <1>6, <1>7, <1>8, <1>9, <1>10, <1>11, <1>12, <1>13
     DEF Next, Task

(* What a driver call leaves when it returns.                              *)
LEMMA Returned ==
  ASSUME TypeOK, Return
  PROVE  /\ calls' \in 0..StartUp /\ token' \in BOOLEAN /\ tone' \in BOOLEAN
         /\ call' \in Dir /\ pc' \in {"fill", "get"}
<1>1. calls' \in 0..StartUp
  BY DEF TypeOK, Return, StartUp
<1>2. token' \in BOOLEAN /\ tone' \in BOOLEAN /\ call' \in Dir
  BY Zenon DEF TypeOK, Return
<1>3. pc' \in {"fill", "get"}
  BY DEF Return
<1>4. QED
  BY <1>1, <1>2, <1>3

(* A semaphore is posted for a descriptor that is given back, and the      *)
(* claims of RoomIsReal bound both.                                        *)
LEMMA TypesStay ==
  ASSUME IInv, [Next]_vars
  PROVE  TypeOK'
<1> USE Directions DEF IInv, TypeOK
<1>1. CASE Room \/ Running
  <2>1. sem' \in [Dir -> 0..Depth + 1]
    BY <1>1 DEF Room, Pend, Running
  <2>2. token' \in BOOLEAN /\ pc' \in {"decide", "add"}
    BY <1>1, Zenon DEF Room, Running
  <2>3. QED
    BY <1>1, <2>1, <2>2 DEF Room, Running, dmaVars, isrVars, pool
<1>2. CASE NoRoom
  BY <1>2, Freed DEF NoRoom, At, dmaVars, isrVars
<1>3. CASE PendTimeout
  <2>1. {free, extra}' \subseteq Nat
    BY <1>3, Freed DEF PendTimeout
  <2>2. QED
    BY <1>3, <2>1, Returned DEF PendTimeout, dmaVars, isrVars
<1>4. CASE Start
  <2>1. state' \subseteq Dir /\ {extra, slips}' \subseteq Nat
    BY <1>4 DEF Start, Started, Queued
  <2>2. /\ ring' \in [Dir -> 0..Depth] /\ enabled' \in [Dir -> BOOLEAN]
        /\ at' \in [Dir -> 0..Depth] /\ next' \in [Dir -> 0..Depth]
    BY <1>4, SscI2sAssumption DEF Start, ConfigFirst
  <2>3. QED
    BY <1>4, <2>1, <2>2, Returned DEF Start, isrVars
<1>5. CASE Add
  <2>1. ring' \in [Dir -> 0..Depth] /\ {extra, slips}' \subseteq Nat
    BY <1>5 DEF Add, Queued, Lost
  <2>2. QED
    BY <1>5, <2>1, Returned DEF Add, isrVars
<1>6. CASE Get
  BY <1>6 DEF Get, GetTxBuf, At, dmaVars, isrVars
<1>7. CASE Choose
  BY <1>7, Freed DEF Choose, Discard, At, dmaVars, isrVars, pool
<1>8. CASE GetToneBuffer
  BY <1>8 DEF GetToneBuffer, GetTxBuf, At, dmaVars, isrVars
<1>9. CASE Received
  <2>1. {free, extra}' \subseteq Nat
    <3>1. PICK n \in {0, 1} : FreeBufs(n)
      BY <1>9 DEF Received
    <3>2. QED
      BY <3>1, Freed
  <2>2. tone' \in BOOLEAN /\ pc' = "room"
    BY <1>9, Zenon DEF Received
  <2>3. rxBufQ' \in Nat
    BY <1>9 DEF Received
  <2>4. QED
    BY <1>9, <2>1, <2>2, <2>3 DEF Received, dmaVars, isrVars
<1>10. ASSUME NEW d \in Dir, Isr(d)
       PROVE  TypeOK'
  <2>1. ASSUME NEW n \in 0..ring[d]
        PROVE  [sem EXCEPT ![d] = @ + n] \in [Dir -> 0..Depth + 1]
    BY <2>1 DEF RoomIsReal, TxRoomIsReal, RxRoomIsReal, Claimed, Holding
  <2>2. CASE IsrError(d)
    <3>1. {free, extra}' \subseteq Nat
      BY <2>2, Freed DEF IsrError
    <3>2. sem' \in [Dir -> 0..Depth + 1]
      <4>1. ring[d] \in 0..ring[d] /\ sem' = [sem EXCEPT ![d] = @ + ring[d]]
        BY <2>2 DEF IsrError
      <4>2. QED
        BY <2>1, <4>1
    <3>3. state' \subseteq Dir
      BY <2>2 DEF IsrError
    <3>4. QED
      BY <2>2, <3>1, <3>2, <3>3 DEF IsrError, isrVars, locals
  <2>3. CASE IsrReclaim(d)
    <3>1. {free, extra, rxBufQ}' \subseteq Nat
      BY <2>3, Freed DEF IsrReclaim, BufDone
    <3>2. sem' \in [Dir -> 0..Depth + 1]
      <4>1. 1 \in 0..ring[d] /\ sem' = [sem EXCEPT ![d] = @ + 1]
        BY <2>3 DEF IsrReclaim, Reclaimable
      <4>2. QED
        BY <2>1, <4>1
    <3>3. /\ ring' \in [Dir -> 0..Depth]
          /\ at' \in [Dir -> 0..Depth] /\ next' \in [Dir -> 0..Depth]
      BY <2>3 DEF IsrReclaim, Reclaimable, Back
    <3>4. {first, final, seen}' \subseteq 0..Depth
      BY <2>3, <3>3 DEF IsrReclaim, Back, Seen
    <3>5. QED
      BY <2>3, <3>1, <3>2, <3>3, <3>4 DEF IsrReclaim, locals
  <2>4. CASE IsrBlock(d) \/ IsrReturn(d)
    BY <2>4 DEF IsrBlock, IsrReturn, dmaVars, locals, pool
  <2>5. QED
    BY <1>10, <2>2, <2>3, <2>4 DEF Isr
<1>11. ASSUME NEW d \in Dir, Complete(d)
       PROVE  TypeOK'
  BY <1>11 DEF Complete, isrVars, locals, pool, BehindTheChannel
<1>12. ASSUME NEW d \in Dir, Fault(d)
       PROVE  TypeOK'
  BY <1>12 DEF Fault, isrVars, locals, pool
<1>13. CASE UNCHANGED vars
  BY <1>13 DEF vars, dmaVars, isrVars, locals, pool
<1>14. QED
  BY <1>1, <1>2, <1>3, <1>4, <1>5, <1>6, <1>7, <1>8, <1>9, <1>10, <1>11, <1>12, <1>13
     DEF Next, Task

LEMMA Inductive == IInv /\ [Next]_vars => IInv'
<1> SUFFICES ASSUME IInv, [Next]_vars PROVE IInv'
  OBVIOUS
<1>1. QED
  BY TypesStay, CallsStayInOrder, StaysUndisturbed, RoomStaysReal, NothingGetsLost,
     StaysBehindTheChannel DEF IInv

LEMMA Invariant == Spec => []IInv
  BY InitIsGood, Inductive, PTL DEF Spec

(* Every variable keeps its type: no semaphore counts below zero or far    *)
(* beyond the depth, and the channel is never taken to be past the ring.   *)
THEOREM TypeCorrect == Spec => []TypeOK
<1>1. IInv => TypeOK
  BY DEF IInv
<1>2. QED
  BY <1>1, Invariant, PTL

(* The semaphores agree with the rings: the transmitter's never promises   *)
(* room that is not there, whatever errors occur, and the receiver's at    *)
(* most one descriptor too many.                                           *)
THEOREM SemaphoresCorrect == Spec => [](TxRoomIsReal /\ RxRoomIsReal)
<1>1. IInv => TxRoomIsReal /\ RxRoomIsReal
  BY DEF IInv, RoomIsReal
<1>2. QED
  BY <1>1, Invariant, PTL

(* What a reception may rely on: the receiver's semaphore promises at most *)
(* one descriptor more than there is.                                      *)
THEOREM ReceiverRoomCorrect == Spec => []RxRoomIsReal
<1>1. TxRoomIsReal /\ RxRoomIsReal => RxRoomIsReal
  OBVIOUS
<1>2. QED
  BY <1>1, SemaphoresCorrect, PTL

(* The receiver's handler never hands over the buffer that is being filled *)
(* and neither handler reclaims the descriptor that is fetched next,       *)
(* however far the channel gets while the handler runs.                    *)
THEOREM ReclaimCorrect == Spec => []ReclaimsBehindTheChannel
<1>1. IInv => ReclaimsBehindTheChannel
  BY Directions DEF IInv, TypeOK, BehindTheChannel, ReclaimsBehindTheChannel
<1>2. QED
  BY <1>1, Invariant, PTL

(* As long as there is no error and no reception queued without room, no   *)
(* buffer of the pool is lost or handed out twice.                         *)
THEOREM PoolCorrect == Spec => []EveryBufferInOnePlace
<1>1. IInv => EveryBufferInOnePlace
  BY DEF IInv, NothingLost
<1>2. QED
  BY <1>1, Invariant, PTL
=============================================================================
