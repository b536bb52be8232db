------------------------------- MODULE SscI2s -------------------------------
(***************************************************************************)
(* The SSC driver of PlatformSpecific/MODM7AE70/SSC_I2S and the task of    *)
(* the example that feeds it.  Per direction the driver keeps a ring of    *)
(* DMA descriptors, a semaphore that counts the free ones and an interrupt *)
(* handler that reclaims the finished ones and hands their buffers back.   *)
(* I2STask takes buffers from one pool, readies one for reception, and     *)
(* transmits a generated or a received one, again and again.               *)
(*                                                                         *)
(* Buffers are counted where they are; which is which never matters.  The  *)
(* DMA channel is the hardware's: it works on one descriptor and has       *)
(* fetched the link to the next when it began.  Desc0Ring::AddXfr() is the *)
(* NNDK's: taken to use the descriptor after the last one, and to give up  *)
(* if that is in use.                                                      *)
(***************************************************************************)
EXTENDS Integers

CONSTANTS Depth,        (* SSC_BUFFER_DEPTH                                *)
          PoolSize,     (* TX_BUF_COUNT                                    *)
          QueueSize,    (* the size of rxBufQ, TX_BUF_COUNT / 2            *)
          MaxErrors,    (* bound: DMA errors                               *)
          MaxTroubles   (* bound: errors and receptions queued without     *)
                        (* room, together                                  *)

ASSUME SscI2sAssumption ==
    /\ Depth \in Nat \ {0} /\ PoolSize \in Nat
    /\ QueueSize \in Nat /\ MaxErrors \in Nat /\ MaxTroubles \in Nat

Dir == {"tx", "rx"}

VARIABLES
    state,       (* the directions that run, as ctxState_t names them      *)
    sem,         (* sem[d]: txSem and rxSem                                *)
    ring,        (* ring[d]: how many descriptors, from queueHead on, are  *)
                 (* flagged XDMA_BD_INUSE; the last one links to itself    *)
    enabled,     (* enabled[d]: the channel is enabled                     *)
    at, next,    (* the descriptor the channel works on and the next one,  *)
                 (* counted from queueHead; at[d] = 0: reclaimed already   *)
    irq,         (* irq[d]: the interrupt status bits of the channel       *)
    isr,         (* the interrupt handler that runs, or "none"             *)
    first, final, seen,   (* its locals first, last, and the descriptor    *)
                 (* that addr lies in, 0 if in none                        *)
    free,        (* the buffers txBufFree[] says are free                  *)
    rxBufQ,      (* the received buffers in the queue                      *)
    pc, calls,   (* where I2STask is; the calls of its start-up it made    *)
    call,        (* the direction of the driver call it is in              *)
    token,       (* this call has pended the semaphore                     *)
    tone,        (* the task holds a tone to be mixed in                   *)
    extra,       (* how many buffers too many are counted: buffers queued  *)
                 (* although they had been handed back                     *)
    slips,       (* how often that has happened                            *)
    errors       (* DMA errors; both count against the bounds              *)

dmaVars == <<ring, enabled, at, next>>
isrVars == <<isr, first, final, seen>>
pool == <<free, rxBufQ, extra>>
locals == <<pc, calls, call, token, tone, slips>>
vars == <<state, sem, dmaVars, irq, isrVars, pool, locals, errors>>

Both(v) == [d \in Dir |-> v]
StartUp == 5

Init ==
    /\ state = {}
    /\ sem = Both(Depth)
    /\ ring = Both(0) /\ enabled = Both(FALSE)
    /\ at = Both(0) /\ next = Both(0)
    /\ irq = Both({})
    /\ isr = "none" /\ first = 0 /\ final = 0 /\ seen = 0
    /\ free = PoolSize /\ rxBufQ = 0 /\ extra = 0
    /\ pc = "get" /\ calls = 0 /\ call = "rx"
    /\ token = FALSE /\ tone = FALSE /\ slips = 0
    /\ errors = 0

Untroubled == slips + errors < MaxTroubles

(* n buffers are marked free in txBufFree[].  Those that are free already, *)
(* because they are counted twice, make no difference.                     *)
FreeBufs(n) ==
    \E twice \in 0..extra :
        /\ twice <= n
        /\ free' = free + n - twice
        /\ extra' = extra - twice

(***************************************************************************)
(* The ring and the DMA channel.                                           *)
(***************************************************************************)
(* ConfigFirstAndEnableCh(): one transfer, which begins. *)
ConfigFirst(d) ==
    /\ ring' = [ring EXCEPT ![d] = 1]
    /\ enabled' = [enabled EXCEPT ![d] = TRUE]
    /\ at' = [at EXCEPT ![d] = 1]
    /\ next' = [next EXCEPT ![d] = 1]

(* The channel is through with a buffer, and raises an interrupt.  The     *)
(* last descriptor is repeated.                                            *)
Complete(d) ==
    /\ enabled[d]
    /\ at' = [at EXCEPT ![d] = next[d]]
    /\ next' = [next EXCEPT ![d] = IF @ = ring[d] THEN @ ELSE @ + 1]
    /\ irq' = [irq EXCEPT ![d] = @ \cup {"block"}]
    /\ UNCHANGED <<state, sem, ring, enabled, isrVars, pool, locals, errors>>

(* The channel fails, and is disabled by the hardware. *)
Fault(d) ==
    /\ enabled[d] /\ errors < MaxErrors /\ Untroubled
    /\ enabled' = [enabled EXCEPT ![d] = FALSE]
    /\ irq' = [irq EXCEPT ![d] = @ \cup {"error"}]
    /\ errors' = errors + 1
    /\ UNCHANGED <<state, sem, ring, at, next, isrVars, pool, locals>>

(***************************************************************************)
(* The interrupt handlers, TxIsr() and RxIsr().  Tasks do not run          *)
(* meanwhile; the DMA channels do.                                         *)
(***************************************************************************)
IsrError(d) ==
    /\ isr = "none" /\ "error" \in irq[d]
    /\ irq' = [irq EXCEPT ![d] = {}]
    /\ state' = IF state = Dir THEN Dir \ {d} ELSE {}
    /\ enabled' = [enabled EXCEPT ![d] = FALSE]
    /\ ring' = [ring EXCEPT ![d] = 0]
    /\ at' = [at EXCEPT ![d] = 0] /\ next' = [next EXCEPT ![d] = 0]
    /\ sem' = [sem EXCEPT ![d] = @ + ring[d]]
    /\ FreeBufs(ring[d])
    /\ UNCHANGED <<isrVars, rxBufQ, locals, errors>>

IsrBlock(d) ==
    /\ isr = "none" /\ irq[d] = {"block"}
    /\ irq' = [irq EXCEPT ![d] = {}]
    /\ isr' = d
    /\ first' = next[d] /\ final' = next[d] /\ seen' = at[d]
    /\ UNCHANGED <<state, sem, dmaVars, pool, locals, errors>>

(* Mutant of Reclaimable: only the address decides. *)
MutantReclaimable(d) == ring[d] > 0 /\ seen # 1

(* The loop condition: the descriptor at queueHead is none of those the    *)
(* channel works on, as far as the handler knows.                          *)
Reclaimable(d) == ring[d] > 1 /\ 1 \notin {first, final, seen}

(* Mutant of BufDone: `valid' is tested the wrong way round.               *)
MutantBufDone(d) == FreeBufs(1) /\ UNCHANGED rxBufQ

(* txBufDone(buf, true), rxBufDone(buf, true): the application's callbacks.*)
BufDone(d) ==
    IF d = "rx" /\ rxBufQ < QueueSize
      THEN rxBufQ' = rxBufQ + 1 /\ UNCHANGED <<free, extra>>
      ELSE FreeBufs(1) /\ UNCHANGED rxBufQ

Back(i) == IF i = 0 THEN 0 ELSE i - 1

(* Mutant of Seen: RxIsr() has the mistake of TxIsr(), too. *)
MutantSeen(d) == 0

(* Where the handler finds the channel when it looks again: TxIsr() reads  *)
(* the destination address, SSC_THR's, which is in no buffer.              *)
Seen(d) == IF d = "tx" THEN 0 ELSE at'[d]

IsrReclaim(d) ==
    /\ isr = d /\ Reclaimable(d)
    /\ BufDone(d)
    /\ ring' = [ring EXCEPT ![d] = @ - 1]
    /\ at' = [at EXCEPT ![d] = Back(@)]
    /\ next' = [next EXCEPT ![d] = Back(@)]
    /\ sem' = [sem EXCEPT ![d] = @ + 1]
    /\ first' = Back(first) /\ final' = next'[d] /\ seen' = Seen(d)
    /\ UNCHANGED <<state, enabled, irq, isr, locals, errors>>

IsrReturn(d) ==
    /\ isr = d /\ ~Reclaimable(d)
    /\ isr' = "none" /\ first' = 0 /\ final' = 0 /\ seen' = 0
    /\ UNCHANGED <<state, sem, dmaVars, irq, pool, locals, errors>>

Isr(d) == IsrError(d) \/ IsrBlock(d) \/ IsrReclaim(d) \/ IsrReturn(d)

(***************************************************************************)
(* The driver calls: TransmitBuffer() and ReadyReceiveBuffer().            *)
(***************************************************************************)
At(here) == isr = "none" /\ pc = here

(* Transmissions wait for room; so do the three receptions of the start-up.*)
Waits == call = "tx" \/ calls < StartUp

(* The call returns; I2STask goes on. *)
Return ==
    /\ calls' = IF calls < StartUp THEN calls + 1 ELSE calls
    /\ pc' = IF calls = StartUp /\ call = "rx" THEN "fill" ELSE "get"
    /\ token' = FALSE
    /\ UNCHANGED <<call, tone>>

(* Mutant of Pend: the semaphore is only looked at. *)
MutantPend(d) == UNCHANGED sem
Pend(d) == sem' = [sem EXCEPT ![d] = @ - 1]

(* A descriptor is free, or becomes free while the call waits. *)
Room ==
    /\ At("room") /\ sem[call] > 0
    /\ Pend(call)
    /\ token' = TRUE /\ pc' = "decide"
    /\ UNCHANGED <<state, dmaVars, irq, isrVars, pool, calls, call, tone, slips, errors>>

(* I2S_CHECK_INTERVAL has passed: the buffer is handed back, the call fails.*)
PendTimeout ==
    /\ At("room") /\ sem[call] = 0 /\ Waits
    /\ FreeBufs(1)
    /\ Return
    /\ UNCHANGED <<state, sem, dmaVars, irq, isrVars, rxBufQ, slips, errors>>

(* No room, and not to wait: the buffer is handed back, and the call of    *)
(* ReadyReceiveBuffer() goes on with it.                                   *)
NoRoom ==
    /\ At("room") /\ sem[call] = 0 /\ ~Waits
    /\ FreeBufs(1)
    /\ pc' = "decide"
    /\ UNCHANGED <<state, sem, dmaVars, irq, isrVars, rxBufQ, calls, call, token, tone,
                   slips, errors>>

(* The buffer becomes the driver's, even if it was handed back before.     *)
Queued ==
    \/ token /\ UNCHANGED <<extra, slips>>
    \/ ~token /\ Untroubled /\ extra' = extra + 1 /\ slips' = slips + 1

(* TransmitBuffer() keeps a running receiver in mind; ReadyReceiveBuffer() *)
(* tests for the wrong state, and forgets a running transmitter.           *)
Started == IF call = "tx" THEN state \cup {"tx"} ELSE {"rx"}

(* The first transfer of its direction, with interrupts off. *)
Start ==
    /\ At("decide") /\ call \notin state
    /\ state' = Started
    /\ ConfigFirst(call)
    /\ Queued
    /\ Return
    /\ UNCHANGED <<sem, irq, isrVars, free, rxBufQ, errors>>

Running ==
    /\ At("decide") /\ call \in state
    /\ pc' = "add"
    /\ UNCHANGED <<state, sem, dmaVars, irq, isrVars, pool, calls, call, token, tone,
                   slips, errors>>

(* The buffer is in no place any more, or in one less than it was. *)
Lost == extra' \in {extra, extra - 1} \cap Nat /\ UNCHANGED slips

(* AddXfr(), if there is a descriptor; what it returns is not looked at.   *)
Add ==
    /\ At("add")
    /\ \/ /\ ring[call] < Depth
          /\ ring' = [ring EXCEPT ![call] = @ + 1] /\ Queued
       \/ /\ ring[call] = Depth
          /\ UNCHANGED ring
          /\ IF token THEN Lost ELSE UNCHANGED <<extra, slips>>
    /\ Return
    /\ UNCHANGED <<state, sem, enabled, at, next, irq, isrVars, free, rxBufQ, errors>>

(***************************************************************************)
(* I2STask.                                                                *)
(***************************************************************************)
(* GetTxBuf(): a free buffer.  (The scan never looks at txLastUsed, so the *)
(* pool may be taken to be empty while one buffer is left in it.)          *)
GetTxBuf == free > 0 /\ free' = free - 1

(* The start-up readies three receptions and transmits two tones; a round  *)
(* of the loop begins with a reception.                                    *)
Get ==
    /\ At("get")
    /\ GetTxBuf
    /\ call' = IF calls \in {3, 4} THEN "tx" ELSE "rx"
    /\ pc' = "room"
    /\ UNCHANGED <<state, sem, dmaVars, irq, isrVars, rxBufQ, extra, calls, token, tone,
                   slips, errors>>

(* Mutant of Choose: the received buffer is dropped, not freed.            *)
MutantDiscard == rxBufQ' = rxBufQ - 1 /\ UNCHANGED <<free, extra>>
Discard == rxBufQ' = rxBufQ - 1 /\ FreeBufs(1)

(* GetFilledBuffer(): two switches choose what is transmitted.  A plain    *)
(* tone discards a received buffer, if there is one.                       *)
Choose ==
    /\ At("fill")
    /\ call' = "tx"
    /\ \/ pc' = "tone" /\ rxBufQ > 0 /\ Discard
       \/ pc' = "tone" /\ rxBufQ = 0 /\ UNCHANGED pool
       \/ pc' \in {"mix", "loop"} /\ UNCHANGED pool
    /\ UNCHANGED <<state, sem, dmaVars, irq, isrVars, calls, token, tone, slips, errors>>

(* GetToneBuffer(): to be transmitted, or to be mixed with a received one. *)
GetToneBuffer ==
    /\ At("tone") \/ At("mix")
    /\ GetTxBuf
    /\ pc' = IF pc = "tone" THEN "room" ELSE "loop"
    /\ tone' = (pc = "mix")
    /\ UNCHANGED <<state, sem, dmaVars, irq, isrVars, rxBufQ, extra, calls, call, token,
                   slips, errors>>

(* rxBufQ.Pend(): wait for a received buffer; the tone's is freed. *)
Received ==
    /\ At("loop") /\ rxBufQ > 0
    /\ rxBufQ' = rxBufQ - 1
    /\ FreeBufs(IF tone THEN 1 ELSE 0) /\ tone' = FALSE
    /\ pc' = "room"
    /\ UNCHANGED <<state, sem, dmaVars, irq, isrVars, calls, call, token, slips, errors>>

Task == \/ Room \/ PendTimeout \/ NoRoom \/ Start \/ Running \/ Add
        \/ Get \/ Choose \/ GetToneBuffer \/ Received

Next == Task \/ \E d \in Dir : Isr(d) \/ Complete(d) \/ Fault(d)

Spec == Init /\ [][Next]_vars

(* The codec's clock keeps both channels going, one interrupt serves both, *)
(* and a handler is through long before the next buffer is: the task gets  *)
(* its turn between two interrupts, and so does the other channel.         *)
FairSpec == /\ Spec /\ SF_vars(Task)
            /\ \A d \in Dir : SF_vars(Isr(d)) /\ WF_vars(Complete(d))
-----------------------------------------------------------------------------
TypeOK ==
    /\ state \subseteq Dir
    /\ sem \in [Dir -> 0..Depth + 1]
    /\ ring \in [Dir -> 0..Depth]
    /\ enabled \in [Dir -> BOOLEAN]
    /\ at \in [Dir -> 0..Depth] /\ next \in [Dir -> 0..Depth]
    /\ irq \in [Dir -> SUBSET {"block", "error"}]
    /\ isr \in Dir \cup {"none"}
    /\ {first, final, seen} \subseteq 0..Depth
    /\ {free, rxBufQ, extra, errors, slips} \subseteq Nat
    /\ pc \in {"get", "room", "decide", "add", "fill", "tone", "mix", "loop"}
    /\ calls \in 0..StartUp /\ call \in Dir
    /\ token \in BOOLEAN /\ tone \in BOOLEAN

(* The semaphore of the transmitter and its ring agree: the descriptors in *)
(* use, the free ones the semaphore counts and the one a call is about to  *)
(* fill are all there are, whatever the handler reclaimed in between; an   *)
(* error may lose some, but never makes room that is not there.            *)
Holding(d) == IF token /\ call = d THEN 1 ELSE 0
Claimed(d) == sem[d] + ring[d] + Holding(d)
TxRoomIsReal ==
    /\ Claimed("tx") <= Depth
    /\ (errors = 0) => Claimed("tx") = Depth

(* A reception that is queued without room makes the receiver's semaphore  *)
(* one too high; it never gets worse than that.                            *)
RxRoomIsReal ==
    /\ Claimed("rx") <= Depth + 1
    /\ (errors = 0 /\ slips = 0) => Claimed("rx") = Depth

(* The receiver never hands over a buffer that is being filled, and what   *)
(* either channel fetches next is always a descriptor in use.              *)
ReclaimsBehindTheChannel ==
    \A d \in Dir : enabled[d] => /\ next[d] \in 1..ring[d]
                                 /\ (d = "rx") => at[d] # 0

(* Every buffer is in one place: the pool, the queue, a ring or the task's *)
(* hands.  None is lost or handed out twice, unless there was an error or  *)
(* a reception queued without room.                                        *)
InHand == (IF pc = "room" \/ token THEN 1 ELSE 0) + (IF tone THEN 1 ELSE 0)
EveryBufferInOnePlace ==
    (errors = 0 /\ slips = 0) =>
        free + rxBufQ + ring["tx"] + ring["rx"] + InHand = PoolSize

(* The audio goes on, whichever way the switches are set: again and again  *)
(* a buffer is really handed to the transmitter, where a call that gave up *)
(* waiting for room hands over none.  The ring is bounded, so that one is  *)
(* also played and reclaimed again and again.  Unless there was an error   *)
(* or a reception queued without room.                                     *)
AudioFlows == <>(errors > 0 \/ slips > 0) \/ []<><<ring'["tx"] > ring["tx"]>>_ring

(* ssc_i2s.h: the callback is for when a transmit buffer is finished.      *)
FinishedMeansFinished == enabled["tx"] => at["tx"] # 0
=============================================================================
