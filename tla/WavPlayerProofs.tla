-------------------------- MODULE WavPlayerProofs ---------------------------
(***************************************************************************)
(* What the WAV player guarantees for every block size, every file and any *)
(* number of plays: whole repetitions, as many as asked for; one post of   *)
(* the semaphore; the caller's buffer given back as it was; ramps that     *)
(* nothing disturbs.  All of it under interrupts between any two           *)
(* statements of a call.                                                   *)
(***************************************************************************)
EXTENDS WavPlayer, TLAPS

Ramping == {"UNMUTE", "PAUSED_UNMUTE"}
Played == {"MUTE", "PAUSED_MUTE", "FINISHED"}
On == {"PLAYING", "UNMUTE", "MUTE"}
Sounds == Ramping \cup Played \cup {"PLAYING", "PAUSED"}
Sounding == m_state \in Sounds

-----------------------------------------------------------------------------
(* The player has a buffer from the first one it is given on, both DACs    *)
(* and the timer before that, and knows where the buffer is from.          *)
BuffersInOrder ==
    /\ IF m_pWav = None
         THEN m_state \in {"NO_DAC", "NOT_LOADED"}
         ELSE /\ m_state \in Sounds \cup {"NOT_PROCESSED", "BUFFER_RESET", "READY"}
              /\ dacs = Channel
    /\ m_pWav = wavBuffer => m_mode = "FILE"
    /\ m_pWav \in Array /\ m_state # "NOT_PROCESSED" => m_mode = "BUFFER"
    /\ \A b \in Array : content[b] # "overwritten"
    /\ BuffersRestored

(* The clock runs only for a sound that is on, interrupts come only from   *)
(* one that has been, and a call in progress is about one.                 *)
ClockInOrder ==
    /\ running => m_state \in On
    /\ irq # {} => m_state \in On \cup {"FINISHED"}
    /\ pc # "idle" => Sounding
    /\ pc = "stopped" => ~running
    /\ pc = "pause" => m_state \in On \cup {"FINISHED"}
    /\ pc \in {"stop", "masked", "stopped"} => "stop" \in ending

(* The channels of a sound have been set up for its length, and a channel  *)
(* with requests enabled has samples to move.                              *)
ChannelsSetUp ==
    /\ \A c \in erq : citer[c] # 0
    /\ Sounding => \A c \in Used : len[c] = size /\ citer[c] # 0

(* Nothing moves during the ramp up; the timer interrupts only in ramps.   *)
RampsInOrder ==
    /\ m_state \in Ramping /\ "leftover" \notin ending => erq = {} /\ irq \cap Channel = {}
    /\ "late" \notin ending =>
          /\ (running /\ txmr = "interrupt") \/ Timer \in irq => m_state \in {"UNMUTE", "MUTE"}
          /\ m_state \in {"PLAYING", "PAUSED"} => txmr = "dma"

BaseInv == BuffersInOrder /\ ClockInOrder /\ ChannelsSetUp /\ RampsInOrder

-----------------------------------------------------------------------------
(* What serving the interrupt of channel c makes of its registers.         *)
RemAfter(c) == IF More(c) THEN transfersRem[c] - 1
               ELSE IF m_playsRem[c] # 0 THEN transfersFor(len[c]) ELSE 0
PlaysAfter(c) == IF ~More(c) /\ m_playsRem[c] # 0 THEN OneLess(m_playsRem[c])
                 ELSE m_playsRem[c]
CountAfter(c) == IF More(c)
                   THEN IF PartIsNext(c) THEN finalTransferSize(len[c]) ELSE citer[c]
                   ELSE IF m_playsRem[c] # 0 THEN transferSize(len[c]) ELSE citer[c]
EnabledAfter(c) == \/ More(c) /\ (PartIsNext(c) \/ c \in erq)
                   \/ ~More(c) /\ m_playsRem[c] # 0
LastAfter(c) == IF More(c) THEN c \in dreq \/ LastIsWhole(c) \/ transfersRem[c] = 1
                ELSE IF m_playsRem[c] # 0 THEN OneBlockLeft(transfersFor(len[c]))
                ELSE c \in dreq \/ transfersRem[c] = 1
MovedAfter(c) == IF ~More(c) /\ m_playsRem[c] # 0 THEN 0 ELSE moved[c]
PlayedAfter(c) == IF ~More(c) /\ Undisturbed THEN Min({played[c] + 1, MaxPlayed})
                  ELSE played[c]

(* Two channels are alike, or one has been served and the other not yet.   *)
Alike(c, d) ==
    /\ transfersRem[c] = transfersRem[d] /\ m_playsRem[c] = m_playsRem[d]
    /\ citer[c] = citer[d] /\ (c \in erq <=> d \in erq) /\ (c \in dreq <=> d \in dreq)
    /\ moved[c] = moved[d] /\ played[c] = played[d]
Follows(c, d) ==
    /\ RemAfter(c) = transfersRem[d] /\ PlaysAfter(c) = m_playsRem[d]
    /\ CountAfter(c) = citer[d] /\ (EnabledAfter(c) <=> d \in erq)
    /\ (LastAfter(c) <=> d \in dreq)
    /\ MovedAfter(c) = moved[d] /\ PlayedAfter(c) = played[d]

(* The channels of a sound go in step: between two samples they are alike, *)
(* and while their interrupts are served the ones to come will follow.     *)
InStep ==
    /\ erq \cup (irq \cap Channel) \subseteq Used
    /\ \A c, d \in Used : IF c \in irq /\ d \notin irq THEN Follows(c, d)
                          ELSE (c \in irq <=> d \in irq) => Alike(c, d)
    /\ pc = "masked" => \A c, d \in Used : c \in irq <=> d \in irq

(* The samples still to be moved in this repetition, the current block's   *)
(* and those of the blocks after it.                                       *)
Later(c) == IF transfersRem[c] = 0 THEN 0
            ELSE (transfersRem[c] - 1) * MaxCount + finalTransferSize(len[c])
Rest(c) == (IF c \in irq THEN 0 ELSE citer[c]) + Later(c)
Live(c) == c \in erq \cup irq \/ m_state \in Ramping

BlocksAddUp ==
    \A c \in Used :
        /\ transfersRem[c] <= transfersFor(len[c])
        /\ c \in irq => citer[c] = transferSize(len[c])
        /\ Undisturbed /\ Live(c) => moved[c] + Rest(c) = len[c]

(* The repetitions still to come are the ones not played yet; a count that *)
(* stands for ever does not come to its end.                               *)
CountsDown(c) ==
    /\ asked = 0 => m_playsRem[c] < 0
    /\ asked > Forever => m_playsRem[c] >= Forever
    /\ asked \in 1..Forever => /\ m_playsRem[c] \in 0..(asked - 1)
                               /\ played[c] + m_playsRem[c] + 1 = asked
PlaysAddUp ==
    Undisturbed /\ "graceful" \notin ending => \A c \in Used : Live(c) => CountsDown(c)

(* The end of a sound: the channel that ends it and those served after it  *)
(* are through with all repetitions.                                       *)
Through(c) ==
    /\ c \notin erq /\ transfersRem[c] = 0 /\ m_playsRem[c] = 0
    /\ Undisturbed /\ "graceful" \notin ending => played[c] = asked
EndInOrder ==
    "late" \notin ending =>
        /\ m_state \in Played /\ ~(m_state = "FINISHED" /\ "stop" \in ending) =>
              /\ \E c \in Used : c \notin irq
              /\ \A c \in Used : c \notin irq => Through(c)
        /\ m_state = "FINISHED" => irq = {}
        /\ Timer \in irq => irq = {Timer}

SoundInv ==
    Sounding /\ "leftover" \notin ending =>
        InStep /\ BlocksAddUp /\ PlaysAddUp /\ EndInOrder

(* A post is the end of a sound.                                           *)
PostsInOrder ==
    /\ m_state = "FINISHED" => posts >= 1
    /\ ending \cap {"late", "leftover"} = {} =>
          posts = IF m_state = "FINISHED" THEN 1 ELSE 0

IInv == BaseInv /\ SoundInv /\ PostsInOrder

-----------------------------------------------------------------------------
(* The lesser of two numbers.                                              *)
LEMMA MinOfTwo ==
    ASSUME NEW a \in Int, NEW b \in Int
    PROVE  Min({a, b}) = IF a <= b THEN a ELSE b
  <1> DEFINE m == IF a <= b THEN a ELSE b
  <1>1. m \in {a, b} /\ \A y \in {a, b} : m <= y
    OBVIOUS
  <1>2. \A x \in {a, b} : (\A y \in {a, b} : x <= y) => x = m
    OBVIOUS
  <1>3. QED
    BY <1>1, <1>2 DEF Min

(* A file of n samples is whole blocks, and a part of one.                 *)
LEMMA Blocks ==
    ASSUME NEW n \in Nat \ {0}
    PROVE  /\ transfersFor(n) \in Nat
           /\ finalTransferSize(n) \in 0..(MaxCount - 1)
           /\ n = transfersFor(n) * MaxCount + finalTransferSize(n)
           /\ transferSize(n) \in 1..MaxCount
           /\ transfersFor(n) = 0 => transferSize(n) = n /\ finalTransferSize(n) = n
           /\ transfersFor(n) > 0 => transferSize(n) = MaxCount
  <1>1. MaxCount \in Nat \ {0}
    BY WavAssumption
  <1>2. /\ n \div MaxCount \in Nat
        /\ n % MaxCount \in 0..(MaxCount - 1)
        /\ n = (n \div MaxCount) * MaxCount + (n % MaxCount)
    BY <1>1, SMTT(30)
  <1>3. Min({n, MaxCount}) = IF n <= MaxCount THEN n ELSE MaxCount
    BY <1>1, MinOfTwo
  <1>4. n \div MaxCount = 0 => n < MaxCount
    BY <1>1, <1>2, SMTT(30)
  <1>5. n \div MaxCount > 0 => n >= MaxCount
    BY <1>1, SMTT(30)
  <1>6. QED
    BY <1>1, <1>2, <1>3, <1>4, <1>5
    DEF transfersFor, finalTransferSize, transferSize

(* The ranges of states that the guards speak of.                          *)
States == {"NO_DAC", "NO_TIMER", "NOT_LOADED", "NOT_PROCESSED", "BUFFER_RESET",
           "PROCESSED", "READY", "PLAYING", "UNMUTE", "MUTE", "PAUSED_UNMUTE",
           "PAUSED_MUTE", "PAUSED", "FINISHED"}
LEMMA Ranges ==
    /\ DOMAIN Rank = States
    /\ \A s \in States :
         /\ Rank["PLAYING"] <= Rank[s] /\ Rank[s] <= Rank["MUTE"] <=> s \in On
         /\ Rank["PLAYING"] <= Rank[s] /\ Rank[s] <= Rank["PAUSED"]
              <=> s \in Sounds \ {"FINISHED"}
         /\ Rank["PAUSED_UNMUTE"] <= Rank[s] /\ Rank[s] <= Rank["PAUSED"]
              <=> s \in {"PAUSED_UNMUTE", "PAUSED_MUTE", "PAUSED"}
         /\ Rank["READY"] <= Rank[s] /\ Rank[s] <= Rank["FINISHED"]
              <=> s \in Sounds \cup {"READY"}
         /\ Rank["PROCESSED"] <= Rank[s] /\ Rank[s] <= Rank["FINISHED"]
              <=> s \in Sounds \cup {"READY", "PROCESSED"}
         /\ Rank[s] > Rank["NOT_LOADED"]
              <=> s \in Sounds \cup {"READY", "PROCESSED", "BUFFER_RESET", "NOT_PROCESSED"}
  BY DEF Rank, States, On, Sounds, Ramping, Played

-----------------------------------------------------------------------------
(* Every variable keeps its type: a channel that moves a sample has one    *)
(* left in its block.                                                      *)
LEMMA TypeStep ==
    BuffersInOrder /\ ChannelsSetUp /\ [Next]_vars => TypeOK'
  <1>. SUFFICES ASSUME TypeOK, BuffersInOrder, ChannelsSetUp, [Next]_vars PROVE TypeOK'
    BY DEF BuffersInOrder, BuffersRestored
  <1>0. DOMAIN Rank = States
    BY Ranges
  <1>. USE WavAssumption, <1>0
  <1>. USE DEF setup, filing, dma, output, history, TypeOK, Channel, Timer, States
  <1>1. ASSUME NEW c \in Channel, SetChannelDAC(c) PROVE TypeOK'
    BY <1>1 DEF SetChannelDAC
  <1>2. CASE SetTimer
    BY <1>2 DEF SetTimer
  <1>3. ASSUME NEW n \in Nat \ {0}, NEW cs \in SUBSET Channel, ConfigDMA(n, cs)
        PROVE  /\ len' \in [Channel -> Nat \ {0}] /\ transfersRem' \in [Channel -> Nat]
               /\ citer' \in [Channel -> 0..MaxCount] /\ dreq' \subseteq Channel
    <2>1. transfersFor(n) \in Nat /\ transferSize(n) \in 0..MaxCount
      BY Blocks
    <2>2. len' \in [Channel -> Nat \ {0}] /\ transfersRem' \in [Channel -> Nat]
      BY <1>3, <2>1 DEF ConfigDMA
    <2>3. citer' \in [Channel -> 0..MaxCount]
      BY <1>3, <2>1 DEF ConfigDMA
    <2>4. QED
      BY <1>3, <2>2, <2>3 DEF ConfigDMA
  <1>4. NoHistory => /\ posts' \in 0..2 /\ asked' = 0 /\ ending' = {}
                     /\ moved' \in [Channel -> Nat] /\ played' \in [Channel -> 0..MaxPlayed]
    BY DEF NoHistory, MaxPlayed
  <1>5. ASSUME NEW b \in Buffer, NEW f \in File,
               NEW cont \in [Buffer -> {"raw", "prepared", "torn", "overwritten"}],
               Open(b, f, cont)
        PROVE  /\ m_state' \in {"READY", "NOT_PROCESSED"}
               /\ m_pWav' \in Buffer
               /\ content' \in [Buffer -> {"raw", "prepared", "torn", "overwritten"}]
               /\ len' \in [Channel -> Nat \ {0}] /\ transfersRem' \in [Channel -> Nat]
               /\ citer' \in [Channel -> 0..MaxCount] /\ dreq' \subseteq Channel
    <2>1. Parsed(f.kind) \in {"raw", "prepared", "torn"}
      BY DEF Parsed, Kinds
    <2>2. Restored(cont) \in [Buffer -> {"raw", "prepared", "torn", "overwritten"}]
      BY DEF Restored
    <2>3. content' \in [Buffer -> {"raw", "prepared", "torn", "overwritten"}]
      BY <1>5, <2>1, <2>2 DEF Open
    <2>4. CASE f.kind = "good"
      <3>1. ConfigDMA(f.size, {c \in dacs : c < f.channels})
        BY <1>5, <2>4 DEF Open
      <3>2. f.size \in Nat \ {0} /\ {c \in dacs : c < f.channels} \in SUBSET Channel
        OBVIOUS
      <3>3. QED
        BY <1>3, <1>5, <2>3, <2>4, <3>1, <3>2 DEF Open
    <2>5. CASE f.kind # "good"
      <3>1. /\ m_state' = "NOT_PROCESSED" /\ m_pWav' = b
            /\ UNCHANGED <<len, transfersRem, citer, dreq>>
        BY <1>5, <2>5 DEF Open
      <3>2. QED
        BY <2>3, <3>1
    <2>6. QED
      BY <2>4, <2>5
  <1>6. ASSUME NEW b \in Array, OpenBuffer(b) PROVE TypeOK'
    <2>1. b \in Buffer /\ image[b] \in File /\ Open(b, image[b], content)
      BY <1>6 DEF OpenBuffer, Buffer
    <2>2. m_mode' \in {"NONE", "BUFFER", "FILE"} /\ UNCHANGED image
      BY <1>6 DEF OpenBuffer
    <2>3. NoHistory /\ UNCHANGED <<setup, m_playsRem, erq, output, pc>>
      BY <2>1 DEF Open
    <2>4. QED
      BY <1>4, <1>5, <2>1, <2>2, <2>3
  <1>7. ASSUME NEW f \in Disk, OpenFile(f) PROVE TypeOK'
    <2> DEFINE cont == [content EXCEPT ![wavBuffer] = "raw"]
    <2>1. /\ wavBuffer \in Buffer /\ f \in File /\ Open(wavBuffer, f, cont)
          /\ cont \in [Buffer -> {"raw", "prepared", "torn", "overwritten"}]
      BY <1>7 DEF OpenFile, Buffer
    <2> HIDE DEF cont
    <2>2. m_mode' \in {"NONE", "BUFFER", "FILE"} /\ image' \in [Buffer -> File]
      BY <1>7 DEF OpenFile
    <2>3. NoHistory /\ UNCHANGED <<setup, m_playsRem, erq, output, pc>>
      BY <2>1 DEF Open
    <2>4. QED
      BY <1>4, <1>5, <2>1, <2>2, <2>3
  <1>8. CASE OpenFileFails
    <2>1. content' \in [Buffer -> {"raw", "prepared", "torn", "overwritten"}]
      BY <1>8 DEF OpenFileFails
    <2>2. QED
      BY <1>8, <2>1 DEF OpenFileFails
  <1>9. CASE ResetBuffer
    <2>1. content' \in [Buffer -> {"raw", "prepared", "torn", "overwritten"}]
      BY <1>9 DEF ResetBuffer
    <2>2. m_state' \in {"BUFFER_RESET", "NOT_PROCESSED"}
      BY <1>9 DEF ResetBuffer
    <2>3. QED
      BY <1>4, <1>9, <2>1, <2>2 DEF ResetBuffer
  <1>10. ASSUME NEW n \in Counts, Loop(n) PROVE TypeOK'
    <2>1. m_pWav \in Buffer
      BY <1>10 DEF Loop, BuffersInOrder
    <2>2. image[m_pWav] \in File
      BY <2>1
    <2>3. size \in Nat \ {0} /\ Used \in SUBSET Channel /\ ConfigDMA(size, Used)
      BY <1>10, <2>2 DEF Loop, Used, size
    <2>4. n - 1 \in {-1} \cup Nat
      OBVIOUS
    <2>5. content' \in [Buffer -> {"raw", "prepared", "torn", "overwritten"}]
      BY <1>10 DEF Loop, Parsed
    <2>6. QED
      BY <1>3, <1>10, <2>3, <2>4, <2>5 DEF Loop, Repeats, MaxPlayed
  <1>11. CASE StopCall
    BY <1>11 DEF StopCall
  <1>12. CASE StopMask
    BY <1>12 DEF StopMask
  <1>13. CASE StopCritical
    BY <1>13 DEF StopCritical
  <1>14. Min({posts + 1, 2}) \in 0..2
    BY MinOfTwo
  <1>15. CASE StopDone
    BY <1>14, <1>15 DEF StopDone, Post, TooLate
  <1>16. CASE StopGraceful
    BY <1>16 DEF StopGraceful
  <1>17. CASE PauseCall
    BY <1>17 DEF PauseCall
  <1>18. CASE PauseDone
    BY <1>18 DEF PauseDone, TooLate, PausedFrom
  <1>19. CASE Resume
    BY <1>19 DEF Resume, ResumedTo
  <1>20. CASE SoftMuteISR
    <2>1. /\ irq' \subseteq Channel \cup {Timer}
          /\ UNCHANGED <<setup, filing, len, transfersRem, m_playsRem, citer, dreq, pc, moved,
                         played, asked, ending>>
      BY <1>20 DEF SoftMuteISR
    <2>2. CASE Unmute
      <3>1. erq' \subseteq Channel
        BY <2>2 DEF Unmute, Used
      <3>2. /\ m_state' \in {"UNMUTE", "PLAYING"} /\ txmr' \in {"interrupt", "dma"}
            /\ dac' \in {0, 1} /\ UNCHANGED <<running, posts>>
        BY <2>2 DEF Unmute
      <3>3. QED
        BY <2>1, <3>1, <3>2
    <2>3. CASE Mute
      <3>1. posts' \in 0..2
        BY <1>14, <2>3 DEF Mute, Post
      <3>2. /\ m_state' \in {"MUTE", "FINISHED"} /\ running' \in BOOLEAN /\ dac' \in {0, 1}
            /\ UNCHANGED <<erq, txmr>>
        BY <2>3 DEF Mute
      <3>3. QED
        BY <2>1, <3>1, <3>2
    <2>4. QED
      BY <1>20, <2>2, <2>3 DEF SoftMuteISR
  <1>21. ASSUME NEW c \in Channel, ISR(c) PROVE TypeOK'
    <2>1. /\ transferSize(len[c]) \in 0..MaxCount /\ transfersFor(len[c]) \in Nat
          /\ finalTransferSize(len[c]) \in 0..MaxCount
      BY Blocks
    <2>2. CountPlay(c) => played' \in [Channel -> 0..MaxPlayed]
      <3>1. played[c] + 1 \in Nat /\ MaxPlayed \in Nat
        BY DEF MaxPlayed
      <3>2. Min({played[c] + 1, MaxPlayed}) \in {played[c] + 1, MaxPlayed}
            /\ Min({played[c] + 1, MaxPlayed}) <= MaxPlayed
        BY <3>1, MinOfTwo
      <3>3. Min({played[c] + 1, MaxPlayed}) \in 0..MaxPlayed
        BY <3>1, <3>2
      <3>4. QED
        BY <3>3 DEF CountPlay
    <2>3. CASE NextBlock(c)
      <3>1. transfersRem[c] - 1 \in Nat
        BY <2>3 DEF NextBlock, More, PartIsNext
      <3>2. transfersRem' \in [Channel -> Nat] /\ citer' \in [Channel -> 0..MaxCount]
        BY <2>1, <2>3, <3>1 DEF NextBlock
      <3>3. erq' \subseteq Channel /\ dreq' \subseteq Channel
        <4>1. erq' = erq \cup {c} \/ erq' = erq
          BY <2>3 DEF NextBlock
        <4>2. dreq' = dreq \cup {c} \/ dreq' = dreq
          BY <2>3 DEF NextBlock
        <4>3. QED
          BY <4>1, <4>2
      <3>4. /\ irq' \subseteq Channel \cup {Timer}
            /\ UNCHANGED <<m_state, setup, filing, len, m_playsRem, running, txmr, dac, pc,
                           posts, moved, played, asked, ending>>
        BY <1>21, <2>3 DEF ISR, NextBlock
      <3>5. QED
        BY <3>2, <3>3, <3>4
    <2>4. CASE NextPlay(c)
      <3>1. transfersRem' \in [Channel -> Nat] /\ citer' \in [Channel -> 0..MaxCount]
        BY <2>1, <2>4 DEF NextPlay
      <3>2. m_playsRem' \in [Channel -> {-1} \cup Nat] /\ moved' \in [Channel -> Nat]
        <4>1. OneLess(m_playsRem[c]) \in {-1} \cup Nat
          BY <2>4 DEF NextPlay, OneLess
        <4>2. QED
          BY <2>4, <4>1 DEF NextPlay
      <3>3. erq' \subseteq Channel /\ dreq' \subseteq Channel
        BY <2>4 DEF NextPlay
      <3>4. played' \in [Channel -> 0..MaxPlayed]
        BY <2>2, <2>4 DEF NextPlay
      <3>5. /\ irq' \subseteq Channel \cup {Timer}
            /\ UNCHANGED <<m_state, setup, filing, len, running, txmr, dac, pc, posts, asked,
                           ending>>
        BY <1>21, <2>4 DEF ISR, NextPlay
      <3>6. QED
        BY <3>1, <3>2, <3>3, <3>4, <3>5
    <2>5. CASE LastPlay(c)
      <3>1. transfersRem' \in [Channel -> Nat]
        BY <2>5 DEF LastPlay
      <3>2. erq' \subseteq Channel /\ dreq' \subseteq Channel
        BY <2>5 DEF LastPlay
      <3>3. played' \in [Channel -> 0..MaxPlayed]
        BY <2>2, <2>5 DEF LastPlay
      <3>4. /\ irq' \subseteq Channel \cup {Timer}
            /\ m_state' = "MUTE" /\ txmr' = "interrupt"
            /\ UNCHANGED <<setup, filing, len, m_playsRem, citer, running, dac, pc, posts,
                           moved, asked, ending>>
        BY <1>21, <2>5 DEF ISR, LastPlay
      <3>5. QED
        BY <3>1, <3>2, <3>3, <3>4
    <2>6. QED
      BY <1>21, <2>3, <2>4, <2>5 DEF ISR
  <1>22. CASE Tick
    <2>1. ASSUME NEW c \in Channel PROVE transferSize(len[c]) \in 0..MaxCount
      BY Blocks
    <2>2. citer' \in [Channel -> 0..MaxCount]
      BY <1>22, <2>1 DEF Tick, ChannelsSetUp
    <2>3. moved' \in [Channel -> Nat]
      BY <1>22 DEF Tick
    <2>4. QED
      BY <1>22, <2>2, <2>3 DEF Tick
  <1>23. CASE UNCHANGED vars
    BY <1>23 DEF vars
  <1>24. QED
    BY <1>1, <1>2, <1>6, <1>7, <1>8, <1>9, <1>10, <1>11, <1>12, <1>13, <1>15, <1>16,
       <1>17, <1>18, <1>19, <1>20, <1>21, <1>22, <1>23
    DEF Next, Task, Continue, Interrupts

-----------------------------------------------------------------------------
(* A buffer is prepared only while the player has it, and reverted when it *)
(* lets go of it: OpenBuffer() and OpenFile() find the one they are given  *)
(* as it was read, or torn.                                                *)
LEMMA BuffersStep ==
    BaseInv /\ [Next]_vars => BuffersInOrder'
  <1>. SUFFICES ASSUME BaseInv, [Next]_vars PROVE BuffersInOrder'
    OBVIOUS
  <1>. DEFINE States4 == {"raw", "prepared", "torn", "overwritten"}
  <1>1. TypeOK /\ BuffersInOrder /\ ClockInOrder
    BY DEF BaseInv, BuffersInOrder, BuffersRestored
  <1>2. TypeOK'
    BY TypeStep DEF BaseInv
  <1>3. m_state \in States /\ m_state' \in States
    BY <1>1, <1>2, Ranges DEF TypeOK
  <1>4. /\ Between("READY", "FINISHED") <=> m_state \in Sounds \cup {"READY"}
        /\ Between("READY", "FINISHED")' <=> m_state' \in Sounds \cup {"READY"}
        /\ Between("PROCESSED", "FINISHED") <=> m_state \in Sounds \cup {"READY", "PROCESSED"}
    BY <1>3, Ranges DEF Between
  <1>5. /\ content \in [Buffer -> States4] /\ content' \in [Buffer -> States4]
        /\ m_pWav \in Buffer \cup {None} /\ None \notin Buffer /\ wavBuffer \notin Array
        /\ Buffer = Array \cup {wavBuffer}
    BY <1>1, <1>2, WavAssumption DEF TypeOK, Buffer, None
  <1>6. ASSUME UNCHANGED <<setup, filing>>,
               m_state' = m_state \/ (Sounding /\ m_state' \in Sounds)
        PROVE  BuffersInOrder'
    BY <1>1, <1>2, <1>3, <1>4, <1>5, <1>6
    DEF BuffersInOrder, BuffersRestored, setup, filing, Sounding, Sounds, Ramping, Played
  <1>7. ASSUME m_pWav = None, m_pWav' = None, m_state' \in {"NO_DAC", "NOT_LOADED"},
               UNCHANGED filing
        PROVE  BuffersInOrder'
    BY <1>1, <1>2, <1>4, <1>5, <1>7
    DEF BuffersInOrder, BuffersRestored, filing, Sounds, Ramping, Played
  <1>8. m_pWav # None /\ m_state \in Sounds \cup {"READY"}
          => \/ m_pWav = wavBuffer /\ m_mode = "FILE"
             \/ m_pWav \in Array /\ m_mode = "BUFFER"
    BY <1>1, <1>5 DEF BuffersInOrder, Sounds, Ramping, Played
  <1>9. \A b \in Array : ~restores \/ b # m_pWav => content[b] \in {"raw", "torn"}
    BY <1>1, <1>4, <1>5, <1>8 DEF BuffersInOrder, BuffersRestored, restores
  <1>10. ASSUME NEW b \in Buffer, NEW f \in File, NEW cont \in [Buffer -> States4],
                Open(b, f, cont), dacs = Channel,
                \A a \in Array : cont[a] = content[a],
                b \in Array => content[b] # "torn", b = wavBuffer => cont[b] = "raw",
                b = wavBuffer => m_mode' = "FILE",
                b \in Array /\ f.kind = "good" => m_mode' = "BUFFER"
         PROVE  BuffersInOrder'
    <2>1. \A a \in Array : Restored(cont)[a] \in {"raw", "torn"}
      BY <1>5, <1>9, <1>10 DEF Restored
    <2>2. Restored(cont)[b] = "raw"
      <3>1. CASE b = wavBuffer
        BY <1>5, <1>10, <3>1 DEF Restored
      <3>2. CASE b \in Array
        BY <1>5, <1>9, <1>10, <3>2 DEF Restored
      <3>3. QED
        BY <1>5, <3>1, <3>2
    <2>3. Restored(cont) \in [Buffer -> States4]
      BY <1>5, <1>10 DEF Restored
    <2>4. content' = [Restored(cont) EXCEPT ![b] = Parsed(f.kind)]
      BY <1>10, <2>2, <2>3 DEF Open
    <2>5. /\ m_pWav' = b /\ UNCHANGED dacs
          /\ m_state' = IF f.kind = "good" THEN "READY" ELSE "NOT_PROCESSED"
      BY <1>10 DEF Open, setup
    <2>6. /\ f.kind = "good" => Parsed(f.kind) = "prepared"
          /\ f.kind # "good" => Parsed(f.kind) \in {"raw", "torn"}
      <3>1. f.kind \in Kinds
        BY WavAssumption
      <3>2. QED
        BY <3>1 DEF Parsed, Kinds
    <2>7. \A a \in Array : content'[a] # "overwritten" /\ (a # b => content'[a] \in {"raw", "torn"})
      BY <2>1, <2>3, <2>4, <2>6, <1>5
    <2>8. content'[b] = Parsed(f.kind)
      BY <2>3, <2>4
    <2>9. QED
      BY <1>2, <1>4, <1>5, <1>10, <2>5, <2>6, <2>7, <2>8
      DEF BuffersInOrder, BuffersRestored, Sounds, Ramping, Played
  <1>11. ASSUME NEW b \in Array, OpenBuffer(b) PROVE BuffersInOrder'
    <2>1. b \in Buffer /\ image[b] \in File
      BY <1>1, <1>5 DEF TypeOK
    <2>2. /\ Open(b, image[b], content) /\ dacs = Channel /\ content[b] # "torn"
          /\ image[b].kind = "good" => m_mode' = "BUFFER"
      BY <1>11 DEF OpenBuffer, SetUp
    <2>3. QED
      BY <1>5, <1>10, <2>1, <2>2
  <1>12. ASSUME NEW f \in Disk, OpenFile(f) PROVE BuffersInOrder'
    <2> DEFINE cont == [content EXCEPT ![wavBuffer] = "raw"]
    <2>1. Open(wavBuffer, f, cont) /\ dacs = Channel
      BY <1>12 DEF OpenFile, SetUp
    <2>2. /\ cont \in [Buffer -> States4] /\ cont[wavBuffer] = "raw"
          /\ \A a \in Array : cont[a] = content[a]
      BY <1>5
    <2> HIDE DEF cont
    <2>3. m_state' \in {"READY", "NOT_PROCESSED"}
      BY <2>1 DEF Open
    <2>4. m_mode' = "FILE"
      BY <1>12, <2>3, Ranges DEF OpenFile, States
    <2>5. wavBuffer \in Buffer /\ f \in File
      BY WavAssumption, <1>5
    <2>6. QED
      BY <1>5, <1>10, <2>1, <2>2, <2>4, <2>5
  <1>13. CASE OpenFileFails
    <2>1. /\ m_pWav = wavBuffer /\ content' = [content EXCEPT ![wavBuffer] = "overwritten"]
          /\ UNCHANGED <<m_state, dacs, m_mode, m_pWav>>
      BY <1>13 DEF OpenFileFails, setup
    <2>2. QED
      BY <1>1, <1>2, <1>4, <1>5, <2>1 DEF BuffersInOrder, BuffersRestored
  <1>14. CASE ResetBuffer
    <2>1. /\ content' = [content EXCEPT ![m_pWav] = "raw"]
          /\ UNCHANGED <<dacs, m_mode, m_pWav>>
      BY <1>14 DEF ResetBuffer, setup
    <2>2. m_state \in Sounds \cup {"READY"}
      BY <1>1, <1>4, <1>14 DEF ResetBuffer, BuffersInOrder, Sounds, Ramping, Played
    <2>3. m_state' = "BUFFER_RESET"
      BY <1>4, <1>14, <2>2 DEF ResetBuffer
    <2>4. m_pWav \in Buffer
      BY <1>1, <1>5, <2>2 DEF BuffersInOrder, Sounds, Ramping, Played
    <2>5. QED
      BY <1>1, <1>2, <1>4, <1>5, <1>8, <2>1, <2>2, <2>3, <2>4
      DEF BuffersInOrder, BuffersRestored, Sounds, Ramping, Played
  <1>15. ASSUME NEW n \in Counts, Loop(n) PROVE BuffersInOrder'
    <2>1. /\ m_state \in {"BUFFER_RESET", "READY", "FINISHED"} /\ m_state' = "UNMUTE"
          /\ content[m_pWav] # "overwritten"
          /\ content' = [content EXCEPT ![m_pWav] =
                            IF m_state = "BUFFER_RESET" THEN "prepared" ELSE @]
          /\ UNCHANGED <<dacs, m_mode, m_pWav>>
      BY <1>15 DEF Loop, setup, Parsed
    <2>2. m_pWav \in Buffer
      BY <1>1, <1>5, <2>1 DEF BuffersInOrder
    <2>3. QED
      BY <1>1, <1>2, <1>4, <1>5, <2>1, <2>2
      DEF BuffersInOrder, BuffersRestored, Sounds, Ramping, Played
  <1>16. ASSUME NEW c \in Channel, SetChannelDAC(c) PROVE BuffersInOrder'
    BY <1>7, <1>16 DEF SetChannelDAC, filing
  <1>17. CASE SetTimer
    BY <1>7, <1>17 DEF SetTimer, filing
  <1>18. CASE StopCall \/ StopMask \/ StopCritical \/ StopGraceful \/ PauseCall \/ Tick
    BY <1>6, <1>18 DEF StopCall, StopMask, StopCritical, StopGraceful, PauseCall, Tick
  <1>19. CASE StopDone \/ PauseDone
    <2>1. Sounding
      BY <1>1, <1>19 DEF StopDone, PauseDone, ClockInOrder
    <2>2. m_state' \in Sounds
      BY <1>3, <1>19, Ranges DEF StopDone, PauseDone, PausedFrom, States, Sounds, Ramping, Played
    <2>3. QED
      BY <1>6, <1>19, <2>1, <2>2 DEF StopDone, PauseDone
  <1>20. CASE Resume
    <2>1. Sounding
      BY <1>3, <1>20, Ranges DEF Resume, Between, Sounding, Sounds, Ramping, Played
    <2>2. m_state' \in Sounds
      BY <1>3, <1>20, Ranges DEF Resume, ResumedTo, States, Sounds, Ramping, Played
    <2>3. QED
      BY <1>6, <1>20, <2>1, <2>2 DEF Resume
  <1>21. CASE SoftMuteISR
    <2>1. m_state' = m_state \/ (Sounding /\ m_state' \in Sounds)
      BY <1>21 DEF SoftMuteISR, Unmute, Mute, Sounding, Sounds, Ramping, Played
    <2>2. QED
      BY <1>6, <1>21, <2>1 DEF SoftMuteISR
  <1>22. ASSUME NEW c \in Channel, ISR(c) PROVE BuffersInOrder'
    <2>1. Sounding
      BY <1>1, <1>22 DEF ISR, ClockInOrder, On, Sounding, Sounds, Ramping, Played
    <2>2. m_state' = m_state \/ m_state' = "MUTE"
      BY <1>22 DEF ISR, NextBlock, NextPlay, LastPlay
    <2>3. QED
      BY <1>6, <1>22, <2>1, <2>2 DEF ISR, Sounds, Played
  <1>23. CASE UNCHANGED vars
    BY <1>6, <1>23 DEF vars
  <1>24. QED
    BY <1>11, <1>12, <1>13, <1>14, <1>15, <1>16, <1>17, <1>18, <1>19, <1>20, <1>21, <1>22,
       <1>23
    DEF Next, Task, Continue, Interrupts

-----------------------------------------------------------------------------
(* What the guards of the task's calls say of the state.                   *)
LEMMA Guards ==
    BaseInv => /\ TypeOK
               /\ m_state \in States
               /\ Busy <=> m_state \in On
               /\ Stoppable <=> m_state \in Sounds \ {"FINISHED"}
               /\ Between("PAUSED_UNMUTE", "PAUSED")
                    <=> m_state \in {"PAUSED_UNMUTE", "PAUSED_MUTE", "PAUSED"}
  BY Ranges DEF BaseInv, BuffersInOrder, BuffersRestored, TypeOK, Busy, Stoppable, Between

(* The clock is stopped before the sound it paces is given up.             *)
LEMMA ClockStep ==
    BaseInv /\ [Next]_vars => ClockInOrder'
  <1>. SUFFICES ASSUME BaseInv, [Next]_vars PROVE ClockInOrder'
    OBVIOUS
  <1>1. /\ ClockInOrder /\ m_state \in States
        /\ m_pWav = None => m_state \in {"NO_DAC", "NOT_LOADED"}
        /\ Busy <=> m_state \in On
        /\ Stoppable <=> m_state \in Sounds \ {"FINISHED"}
        /\ Between("PAUSED_UNMUTE", "PAUSED")
             <=> m_state \in {"PAUSED_UNMUTE", "PAUSED_MUTE", "PAUSED"}
    BY Guards DEF BaseInv, BuffersInOrder
  <1>. USE DEF ClockInOrder, Sounding, Sounds, On, Ramping, Played, output, history
  <1>2. ASSUME ~running, irq = {}, pc = "idle", UNCHANGED output, pc' = pc
        PROVE  ClockInOrder'
    BY <1>2
  <1>3. Calls /\ m_state \notin On => ~running /\ irq = {} /\ pc = "idle"
    BY <1>1 DEF Calls
  <1>4. ASSUME NEW c \in Channel, SetChannelDAC(c) PROVE ClockInOrder'
    BY <1>1, <1>2, <1>3, <1>4 DEF SetChannelDAC
  <1>5. CASE SetTimer
    BY <1>1, <1>2, <1>3, <1>5 DEF SetTimer
  <1>6. ASSUME NEW b \in Array, OpenBuffer(b) PROVE ClockInOrder'
    BY <1>1, <1>2, <1>3, <1>6 DEF OpenBuffer, Open, SetUp
  <1>7. ASSUME NEW f \in Disk, OpenFile(f) PROVE ClockInOrder'
    BY <1>1, <1>2, <1>3, <1>7 DEF OpenFile, Open, SetUp
  <1>8. CASE OpenFileFails
    BY <1>1, <1>2, <1>3, <1>8 DEF OpenFileFails, SetUp
  <1>9. CASE ResetBuffer
    BY <1>1, <1>2, <1>3, <1>9 DEF ResetBuffer, SetUp
  <1>10. ASSUME NEW n \in Counts, Loop(n) PROVE ClockInOrder'
    BY <1>10 DEF Loop, SetUp, Calls
  <1>11. CASE StopCall
    BY <1>1, <1>11 DEF StopCall, SetUp, Calls
  <1>12. CASE StopMask
    BY <1>1, <1>12 DEF StopMask
  <1>13. CASE StopCritical
    BY <1>1, <1>13 DEF StopCritical
  <1>14. CASE StopDone
    BY <1>1, <1>14 DEF StopDone
  <1>15. CASE StopGraceful
    BY <1>1, <1>15 DEF StopGraceful, SetUp, Calls
  <1>16. CASE PauseCall
    BY <1>1, <1>16 DEF PauseCall, SetUp, Calls
  <1>17. CASE PauseDone
    BY <1>1, <1>17 DEF PauseDone
  <1>18. CASE Resume
    <2>1. m_state' \in On
      BY <1>1, <1>18, Ranges DEF Resume, ResumedTo, States
    <2>2. QED
      BY <1>18, <2>1 DEF Resume, SetUp, Calls
  <1>19. CASE SoftMuteISR
    BY <1>1, <1>19 DEF SoftMuteISR, Unmute, Mute
  <1>20. ASSUME NEW c \in Channel, ISR(c) PROVE ClockInOrder'
    <2>1. m_state' = m_state \/ m_state' = "MUTE"
      BY <1>20 DEF ISR, NextBlock, NextPlay, LastPlay
    <2>2. /\ c \in irq /\ irq' = irq \ {c}
          /\ UNCHANGED <<running, pc, ending>>
      BY <1>20 DEF ISR
    <2>3. QED
      BY <1>1, <2>1, <2>2
  <1>21. CASE Tick
    BY <1>1, <1>21 DEF Tick
  <1>22. CASE UNCHANGED vars
    BY <1>1, <1>22 DEF vars
  <1>23. QED
    BY <1>4, <1>5, <1>6, <1>7, <1>8, <1>9, <1>10, <1>11, <1>12, <1>13, <1>14, <1>15, <1>16,
       <1>17, <1>18, <1>19, <1>20, <1>21, <1>22
    DEF Next, Task, Continue, Interrupts

(* A sound starts with its channels set up, and no block is empty.         *)
LEMMA ChannelsStep ==
    BaseInv /\ [Next]_vars => ChannelsSetUp'
  <1>. SUFFICES ASSUME BaseInv, [Next]_vars PROVE ChannelsSetUp'
    OBVIOUS
  <1>1. /\ TypeOK /\ ChannelsSetUp /\ ClockInOrder /\ m_state \in States
        /\ m_pWav = None => ~Sounding
        /\ Between("PAUSED_UNMUTE", "PAUSED") => Sounding
    BY Guards DEF BaseInv, BuffersInOrder, Sounding, Sounds, Ramping, Played
  <1>2. /\ len \in [Channel -> Nat \ {0}] /\ citer \in [Channel -> 0..MaxCount]
        /\ erq \subseteq Channel /\ Used \subseteq Channel
    BY <1>1 DEF TypeOK, Used
  <1>3. \A n \in Nat \ {0} : transferSize(n) \in Nat \ {0} /\ finalTransferSize(n) \in Nat
    BY Blocks, WavAssumption
  <1>. USE DEF ChannelsSetUp
  <1>4. ASSUME UNCHANGED <<setup, filing, dma>>, Sounding' => Sounding
        PROVE  ChannelsSetUp'
    BY <1>1, <1>4 DEF setup, filing, dma, Used, size
  <1>5. ASSUME NEW n \in Nat \ {0}, NEW cs \in SUBSET Channel, ConfigDMA(n, cs),
               UNCHANGED erq
        PROVE  /\ \A c \in erq' : citer'[c] # 0
               /\ \A c \in cs : len'[c] = n /\ citer'[c] # 0
    BY <1>1, <1>2, <1>3, <1>5 DEF ConfigDMA
  <1>6. ASSUME NEW b \in Buffer, NEW f \in File, NEW cont, Open(b, f, cont)
        PROVE  ChannelsSetUp'
    <2>1. ~Sounding' /\ UNCHANGED erq
      BY <1>6 DEF Open, Sounding, Sounds, Ramping, Played
    <2>2. CASE f.kind = "good"
      <3>1. ConfigDMA(f.size, {c \in dacs : c < f.channels})
        BY <1>6, <2>2 DEF Open
      <3>2. f.size \in Nat \ {0} /\ {c \in dacs : c < f.channels} \in SUBSET Channel
        BY <1>1, WavAssumption DEF TypeOK
      <3>3. QED
        BY <1>5, <2>1, <3>1, <3>2
    <2>3. CASE f.kind # "good"
      BY <1>1, <1>6, <2>1, <2>3 DEF Open
    <2>4. QED
      BY <2>2, <2>3
  <1>7. ASSUME NEW c \in Channel, SetChannelDAC(c) PROVE ChannelsSetUp'
    BY <1>1, <1>7 DEF SetChannelDAC, dma, Sounding, Sounds, Ramping, Played
  <1>8. CASE SetTimer
    BY <1>1, <1>8 DEF SetTimer, dma, Sounding, Sounds, Ramping, Played
  <1>9. ASSUME NEW b \in Array, OpenBuffer(b) PROVE ChannelsSetUp'
    <2>1. b \in Buffer /\ image[b] \in File /\ Open(b, image[b], content)
      BY <1>1, <1>9 DEF OpenBuffer, Buffer, TypeOK
    <2>2. QED
      BY <1>6, <2>1
  <1>10. ASSUME NEW f \in Disk, OpenFile(f) PROVE ChannelsSetUp'
    <2>1. /\ wavBuffer \in Buffer /\ f \in File
          /\ Open(wavBuffer, f, [content EXCEPT ![wavBuffer] = "raw"])
      BY <1>10, WavAssumption DEF OpenFile, Buffer
    <2>2. QED
      BY <1>6, <2>1
  <1>11. CASE OpenFileFails
    <2>1. UNCHANGED <<m_state, setup, m_pWav, image, dma>>
      BY <1>11 DEF OpenFileFails
    <2>2. QED
      BY <1>1, <2>1 DEF setup, dma, Sounding, Used, size
  <1>12. CASE ResetBuffer
    BY <1>1, <1>12 DEF ResetBuffer, dma, Sounding, Sounds, Ramping, Played
  <1>13. ASSUME NEW n \in Counts, Loop(n) PROVE ChannelsSetUp'
    <2>1. /\ ConfigDMA(size, Used) /\ m_pWav \in Buffer
          /\ UNCHANGED <<setup, m_pWav, image, erq>>
      BY <1>1, <1>13 DEF Loop, BaseInv, BuffersInOrder, TypeOK
    <2>2. size \in Nat \ {0}
      BY <1>1, <2>1, WavAssumption DEF size, TypeOK
    <2>3. size' = size /\ Used' = Used
      BY <2>1 DEF size, Used, setup
    <2>4. QED
      BY <1>2, <1>5, <2>1, <2>2, <2>3
  <1>14. CASE StopCall \/ StopMask \/ PauseCall
    BY <1>4, <1>14 DEF StopCall, StopMask, PauseCall, Sounding
  <1>15. CASE StopCritical
    <2>1. UNCHANGED <<m_state, setup, m_pWav, image, len, erq, citer>>
      BY <1>15 DEF StopCritical, filing
    <2>2. QED
      BY <1>1, <2>1 DEF setup, Sounding, Used, size
  <1>16. CASE StopGraceful
    <2>1. UNCHANGED <<m_state, setup, m_pWav, image, len, erq, citer>>
      BY <1>16 DEF StopGraceful, filing
    <2>2. QED
      BY <1>1, <2>1 DEF setup, Sounding, Used, size
  <1>17. CASE StopDone \/ PauseDone
    BY <1>1, <1>4, <1>17 DEF StopDone, PauseDone, ClockInOrder
  <1>18. CASE Resume
    BY <1>1, <1>4, <1>18 DEF Resume
  <1>19. CASE SoftMuteISR
    <2>1. /\ UNCHANGED <<setup, m_pWav, image, len, citer>>
          /\ erq' = erq \/ (Sounding /\ erq' = erq \cup Used)
          /\ Sounding
      BY <1>19 DEF SoftMuteISR, Unmute, Mute, filing, Sounding, Sounds, Ramping, Played
    <2>2. QED
      BY <1>1, <2>1 DEF setup, Used, size
  <1>20. ASSUME NEW c \in Channel, ISR(c) PROVE ChannelsSetUp'
    <2>1. Sounding
      BY <1>1, <1>20 DEF ISR, ClockInOrder, On, Sounding, Sounds, Ramping, Played
    <2>2. Used' = Used /\ size' = size /\ len' = len
      BY <1>20 DEF ISR, setup, filing, Used, size
    <2>3. CASE NextBlock(c)
      <3>1. \/ UNCHANGED <<citer, erq>>
            \/ /\ finalTransferSize(len[c]) # 0 /\ erq' = erq \cup {c}
               /\ citer' = [citer EXCEPT ![c] = finalTransferSize(len[c])]
        BY <1>2, <1>3, <2>3 DEF NextBlock, PartIsNext
      <3>2. QED
        BY <1>1, <1>2, <2>1, <2>2, <3>1
    <2>4. CASE NextPlay(c)
      BY <1>1, <1>2, <1>3, <2>1, <2>2, <2>4 DEF NextPlay
    <2>5. CASE LastPlay(c)
      BY <1>1, <1>2, <2>1, <2>2, <2>5 DEF LastPlay
    <2>6. QED
      BY <1>20, <2>3, <2>4, <2>5 DEF ISR
  <1>21. CASE Tick
    <2>1. /\ Used' = Used /\ size' = size /\ len' = len /\ m_state' = m_state
          /\ erq' \subseteq erq
      BY <1>21 DEF Tick, setup, filing, Used, size
    <2>2. \A c \in Channel : citer[c] # 0 => citer'[c] # 0
      <3>1. \A c \in Channel : transferSize(len[c]) # 0
        BY <1>2, <1>3
      <3>2. QED
        BY <1>2, <1>21, <3>1 DEF Tick
    <2>3. QED
      BY <1>1, <1>2, <2>1, <2>2 DEF Sounding
  <1>22. CASE UNCHANGED vars
    BY <1>4, <1>22 DEF vars, Sounding
  <1>23. QED
    BY <1>7, <1>8, <1>9, <1>10, <1>11, <1>12, <1>13, <1>14, <1>15, <1>16, <1>17, <1>18,
       <1>19, <1>20, <1>21, <1>22
    DEF Next, Task, Continue, Interrupts

(* A sound begins with no request enabled, and leaves its ramp up with the *)
(* timer moving samples instead of interrupting.                           *)
LEMMA RampsStep ==
    BaseInv /\ [Next]_vars => RampsInOrder'
  <1>. SUFFICES ASSUME BaseInv, [Next]_vars PROVE RampsInOrder'
    OBVIOUS
  <1>1. /\ RampsInOrder /\ ClockInOrder /\ m_state \in States
        /\ erq \subseteq Channel /\ irq \subseteq Channel \cup {Timer}
        /\ txmr \in {"interrupt", "dma"}
        /\ m_pWav = None => m_state \in {"NO_DAC", "NOT_LOADED"}
        /\ Busy <=> m_state \in On
        /\ Between("PAUSED_UNMUTE", "PAUSED")
             <=> m_state \in {"PAUSED_UNMUTE", "PAUSED_MUTE", "PAUSED"}
    BY Guards DEF BaseInv, BuffersInOrder, TypeOK
  <1>. USE DEF RampsInOrder, Ramping, output, history
  <1>2. ASSUME m_state' \notin Ramping \cup {"PLAYING", "PAUSED"}, ~running, irq = {},
               UNCHANGED output
        PROVE  RampsInOrder'
    BY <1>2
  <1>3. Calls /\ m_state \notin On => ~running /\ irq = {}
    BY <1>1 DEF Calls, ClockInOrder
  <1>4. ASSUME NEW c \in Channel, SetChannelDAC(c) PROVE RampsInOrder'
    BY <1>1, <1>2, <1>3, <1>4 DEF SetChannelDAC, On
  <1>5. CASE SetTimer
    BY <1>1, <1>2, <1>3, <1>5 DEF SetTimer, On
  <1>6. ASSUME NEW b \in Array, OpenBuffer(b) PROVE RampsInOrder'
    BY <1>1, <1>2, <1>3, <1>6 DEF OpenBuffer, Open, SetUp
  <1>7. ASSUME NEW f \in Disk, OpenFile(f) PROVE RampsInOrder'
    BY <1>1, <1>2, <1>3, <1>7 DEF OpenFile, Open, SetUp
  <1>8. CASE OpenFileFails
    BY <1>1, <1>8 DEF OpenFileFails, dma
  <1>9. CASE ResetBuffer
    BY <1>1, <1>2, <1>3, <1>9 DEF ResetBuffer, SetUp
  <1>10. ASSUME NEW n \in Counts, Loop(n) PROVE RampsInOrder'
    BY <1>10 DEF Loop, SetUp, Calls
  <1>11. CASE StopCall \/ StopMask \/ PauseCall
    BY <1>1, <1>11 DEF StopCall, StopMask, PauseCall, dma
  <1>12. CASE StopCritical \/ StopGraceful
    BY <1>1, <1>12 DEF StopCritical, StopGraceful
  <1>13. CASE StopDone
    BY <1>1, <1>13 DEF StopDone, TooLate, ClockInOrder
  <1>14. CASE PauseDone
    <2>1. /\ m_state' = PausedFrom[m_state] /\ irq = {} /\ ~running'
          /\ UNCHANGED <<erq, irq, txmr>> /\ TooLate
          /\ m_state \in On \cup {"FINISHED"}
      BY <1>1, <1>14 DEF PauseDone, dma, ClockInOrder
    <2>2. m_state' = IF m_state = "UNMUTE" THEN "PAUSED_UNMUTE"
                     ELSE IF m_state = "MUTE" THEN "PAUSED_MUTE" ELSE "PAUSED"
      BY <1>1, <2>1, Ranges DEF PausedFrom
    <2>3. QED
      BY <1>1, <2>1, <2>2 DEF TooLate, On
  <1>15. CASE Resume
    <2>1. /\ m_state \in {"PAUSED_UNMUTE", "PAUSED_MUTE", "PAUSED"} /\ irq = {}
          /\ UNCHANGED <<erq, irq, txmr, ending>>
      BY <1>1, <1>15 DEF Resume, SetUp, Calls, dma
    <2>2. m_state' = IF m_state = "PAUSED_UNMUTE" THEN "UNMUTE"
                     ELSE IF m_state = "PAUSED_MUTE" THEN "MUTE" ELSE "PLAYING"
      BY <1>1, <1>15, Ranges DEF Resume, ResumedTo
    <2>3. QED
      BY <1>1, <2>1, <2>2
  <1>16. CASE SoftMuteISR
    BY <1>1, <1>16 DEF SoftMuteISR, Unmute, Mute
  <1>17. ASSUME NEW c \in Channel, ISR(c) PROVE RampsInOrder'
    <2>1. c \in irq /\ irq' = irq \ {c} /\ UNCHANGED <<running, ending>>
      BY <1>17 DEF ISR
    <2>2. \/ UNCHANGED <<m_state, txmr>>
          \/ m_state' = "MUTE" /\ txmr' = "interrupt"
      BY <1>17 DEF ISR, NextBlock, NextPlay, LastPlay
    <2>3. QED
      BY <1>1, <1>17, <2>1, <2>2
  <1>18. CASE Tick
    <2> DEFINE done == {c \in erq : citer[c] = 1}
    <2>1. /\ erq' = erq \ (done \cap dreq)
          /\ irq' = done \cup (IF txmr = "interrupt" THEN {Timer} ELSE {})
          /\ running /\ UNCHANGED <<m_state, running, txmr, ending>>
      BY <1>18 DEF Tick
    <2>2. done \subseteq erq /\ Timer \notin Channel
      BY DEF Timer, Channel
    <2> HIDE DEF done
    <2>3. QED
      BY <1>1, <2>1, <2>2
  <1>19. CASE UNCHANGED vars
    BY <1>1, <1>19 DEF vars, dma
  <1>20. QED
    BY <1>4, <1>5, <1>6, <1>7, <1>8, <1>9, <1>10, <1>11, <1>12, <1>13, <1>14, <1>15, <1>16,
       <1>17, <1>18, <1>19
    DEF Next, Task, Continue, Interrupts

(* The player is constructed without a buffer, a sound or a call.          *)
LEMMA BaseInit ==
    Init => BaseInv
  <1>. SUFFICES ASSUME Init PROVE BaseInv
    OBVIOUS
  <1>. USE DEF Init, Sounding, Sounds, On, Ramping, Played
  <1>1. TypeOK
    <2>1. image \in [Buffer -> File]
      OBVIOUS
    <2>2. DOMAIN Rank = States
      BY Ranges
    <2>3. m_timer \in BOOLEAN /\ running \in BOOLEAN
      OBVIOUS
    <2>4. /\ len \in [Channel -> Nat \ {0}] /\ transfersRem \in [Channel -> Nat]
          /\ m_playsRem \in [Channel -> {-1} \cup Nat] /\ citer \in [Channel -> 0..MaxCount]
          /\ moved \in [Channel -> Nat] /\ played \in [Channel -> 0..MaxPlayed]
      BY WavAssumption DEF MaxPlayed
    <2>5. content \in [Buffer -> {"raw", "prepared", "torn", "overwritten"}]
      OBVIOUS
    <2>6. QED
      BY <2>1, <2>2, <2>3, <2>4, <2>5 DEF TypeOK, States, None
  <1>2. ~Between("READY", "FINISHED")
    BY Ranges DEF Between, States
  <1>3. BuffersInOrder
    BY <1>1, <1>2, WavAssumption DEF BuffersInOrder, BuffersRestored, Buffer, None
  <1>4. ClockInOrder /\ ChannelsSetUp /\ RampsInOrder
    BY DEF ClockInOrder, ChannelsSetUp, RampsInOrder
  <1>5. QED
    BY <1>3, <1>4 DEF BaseInv

(* Buffers, clock, channels and ramps need nothing of a sound's counts.    *)
LEMMA BaseInvariant == Spec => []BaseInv
  <1>1. BaseInv /\ [Next]_vars => BaseInv'
    BY BuffersStep, ClockStep, ChannelsStep, RampsStep DEF BaseInv
  <1>2. QED
    BY BaseInit, <1>1, PTL DEF Spec

(* Whatever the task does with its buffers and whenever a call is cut      *)
(* short, the caller's buffer is what the file was again when the player   *)
(* lets go of it, and is prepared once, never twice (ResetBuffer(),        *)
(* OpenBuffer(), OpenFile(), Loop()).                                      *)
THEOREM BuffersGivenBack == Spec => []BuffersRestored
  <1>1. BaseInv => BuffersRestored
    BY DEF BaseInv, BuffersInOrder
  <1>2. QED
    BY BaseInvariant, <1>1, PTL

(* No sample is moved while the output is led to the first one, and the    *)
(* timer interrupts only where SoftMuteISR() acknowledges it, but for the  *)
(* requests of a stopped sound and a pause that comes too late.            *)
THEOREM NothingDisturbsRamps == Spec => []RampsUndisturbed
  <1>1. BaseInv => RampsUndisturbed
    BY DEF BaseInv, RampsInOrder, RampsUndisturbed, Ramping
  <1>2. QED
    BY BaseInvariant, <1>1, PTL

-----------------------------------------------------------------------------
(* What is known of a sound that no earlier one's requests disturb.        *)
LEMMA SoundFacts ==
    BaseInv /\ SoundInv /\ Sounding /\ "leftover" \notin ending
      => /\ InStep /\ BlocksAddUp /\ PlaysAddUp /\ EndInOrder
         /\ \A c \in Used : len[c] = size /\ citer[c] # 0
  BY DEF SoundInv, BaseInv, ChannelsSetUp

(* The types of the registers and counts, and whom they are kept for.      *)
LEMMA SoundTypes ==
    BaseInv => /\ len \in [Channel -> Nat \ {0}] /\ transfersRem \in [Channel -> Nat]
               /\ m_playsRem \in [Channel -> {-1} \cup Nat]
               /\ citer \in [Channel -> 0..MaxCount]
               /\ moved \in [Channel -> Nat] /\ played \in [Channel -> 0..MaxPlayed]
               /\ asked \in Nat /\ posts \in 0..2
               /\ erq \subseteq Channel /\ dreq \subseteq Channel
               /\ irq \subseteq Channel \cup {Timer} /\ Used \subseteq Channel
               /\ Timer \notin Channel
  <1>1. BaseInv => TypeOK
    BY Guards
  <1>2. TypeOK => Used \subseteq Channel /\ asked \in Nat
    BY WavAssumption DEF TypeOK, Used
  <1>3. Timer \notin Channel
    BY DEF Timer, Channel
  <1>4. QED
    BY <1>1, <1>2, <1>3 DEF TypeOK

(* A step of the task between two interrupts leaves a sound as it was, but *)
(* for the repetitions that StopGraceful() takes from it, unless it gives  *)
(* the sound up.                                                           *)
LEMMA TaskKeepsSound ==
    ASSUME BaseInv, SoundInv, Sounding, irq = {},
           UNCHANGED <<dacs, m_pWav, image, len, transfersRem, erq, citer, dreq, irq,
                       moved, played, asked>>,
           m_playsRem' = m_playsRem \/ (/\ "graceful" \in ending'
                                        /\ m_playsRem' = [c \in Channel |-> 0]),
           ending \subseteq ending',
           m_state' \in Ramping => m_state \in Ramping,
           \/ m_state' \notin Played
           \/ m_state' = "FINISHED" /\ "stop" \in ending'
           \/ "late" \in ending'
           \/ m_state \in {"MUTE", "PAUSED_MUTE"}
    PROVE  SoundInv'
  <1>. SUFFICES ASSUME "leftover" \notin ending'
                PROVE  (InStep /\ BlocksAddUp /\ PlaysAddUp /\ EndInOrder)'
    BY DEF SoundInv
  <1>1. /\ InStep /\ BlocksAddUp /\ PlaysAddUp /\ EndInOrder
        /\ Used \subseteq Channel
    BY SoundFacts, SoundTypes
  <1>2. Used' = Used
    BY DEF Used
  <1>3. \A c \in Channel : m_playsRem'[c] = m_playsRem[c] \/ m_playsRem'[c] = 0
    OBVIOUS
  <1>4. Undisturbed' => Undisturbed
    BY DEF Undisturbed
  <1>5. InStep'
    <2>1. \A c, d \in Used : Alike(c, d)
      BY <1>1 DEF InStep
    <2>2. \A c, d \in Used : Alike(c, d)'
      BY <1>1, <2>1 DEF Alike
    <2>3. QED
      BY <1>1, <1>2, <2>2 DEF InStep
  <1>6. BlocksAddUp'
    <2>1. \A c \in Used : Rest(c)' = Rest(c) /\ (Live(c)' => Live(c))
      BY DEF Rest, Later, Live
    <2>2. QED
      BY <1>1, <1>2, <1>4, <2>1 DEF BlocksAddUp
  <1>7. PlaysAddUp'
    <2>1. \A c \in Used : Live(c)' => Live(c)
      BY DEF Live
    <2>2. CASE "graceful" \notin ending'
      <3>1. m_playsRem' = m_playsRem /\ "graceful" \notin ending
        BY <2>2
      <3>2. \A c \in Used : CountsDown(c)' <=> CountsDown(c)
        BY <3>1 DEF CountsDown
      <3>3. QED
        BY <1>1, <1>2, <1>4, <2>1, <3>1, <3>2 DEF PlaysAddUp
    <2>3. QED
      BY <2>2 DEF PlaysAddUp
  <1>8. EndInOrder'
    <2>1. CASE "late" \in ending'
      BY <2>1 DEF EndInOrder
    <2>2. CASE "late" \notin ending'
      <3>1. \A c \in Used : Through(c) => Through(c)'
        BY <1>1, <1>3, <1>4 DEF Through
      <3>2. "late" \notin ending
        BY <2>2
      <3>3. /\ irq' = {}
            /\ \/ m_state' \notin Played
               \/ m_state' = "FINISHED" /\ "stop" \in ending'
               \/ m_state \in {"MUTE", "PAUSED_MUTE"}
        BY <2>2
      <3>4. m_state \in {"MUTE", "PAUSED_MUTE"}
              => /\ \E c \in Used : c \notin irq
                 /\ \A c \in Used : c \notin irq => Through(c)
        BY <1>1, <3>2 DEF EndInOrder, Played
      <3>5. QED
        BY <1>2, <3>1, <3>3, <3>4 DEF EndInOrder
    <2>3. QED
      BY <2>1, <2>2
  <1>9. QED
    BY <1>5, <1>6, <1>7, <1>8

(* Stop() takes everything from both channels at once: their interrupts    *)
(* are masked.                                                             *)
LEMMA StopKeepsSound ==
    BaseInv /\ SoundInv /\ StopCritical => SoundInv'
  <1>. SUFFICES ASSUME BaseInv, SoundInv, StopCritical, Sounding, "leftover" \notin ending
                PROVE  (InStep /\ BlocksAddUp /\ PlaysAddUp /\ EndInOrder)'
    BY DEF SoundInv, StopCritical, history, Sounding
  <1>1. /\ InStep /\ BlocksAddUp /\ EndInOrder
        /\ Used \subseteq Channel /\ len \in [Channel -> Nat \ {0}]
    BY SoundFacts, SoundTypes
  <1>2. /\ pc = "masked" /\ pc' = "stopped"
        /\ m_playsRem' = [c \in Channel |-> 0] /\ transfersRem' = [c \in Channel |-> 0]
        /\ UNCHANGED <<m_state, dacs, m_pWav, image, len, erq, citer, dreq, irq,
                       moved, played, asked, ending>>
    BY DEF StopCritical, setup, filing, history
  <1>3. Used' = Used
    BY <1>2 DEF Used
  <1>4. "stop" \in ending
    BY <1>2 DEF BaseInv, ClockInOrder
  <1>5. ~Undisturbed /\ ~Undisturbed'
    BY <1>2, <1>4 DEF Undisturbed
  <1>6. InStep'
    <2>1. \A c, d \in Used : c \in irq <=> d \in irq
      BY <1>1, <1>2 DEF InStep
    <2>2. \A c, d \in Used : Alike(c, d)
      BY <1>1, <2>1 DEF InStep
    <2>3. \A c, d \in Used : Alike(c, d)'
      BY <1>1, <1>2, <2>2 DEF Alike
    <2>4. QED
      BY <1>1, <1>2, <1>3, <2>1, <2>3 DEF InStep
  <1>7. BlocksAddUp'
    <2>1. \A c \in Used : transfersFor(len[c]) \in Nat
      BY <1>1, Blocks
    <2>2. QED
      BY <1>1, <1>2, <1>3, <1>5, <2>1 DEF BlocksAddUp
  <1>8. PlaysAddUp'
    BY <1>5 DEF PlaysAddUp
  <1>9. EndInOrder'
    <2>1. \A c \in Used : Through(c) => Through(c)'
      BY <1>1, <1>2, <1>5 DEF Through
    <2>2. QED
      BY <1>1, <1>2, <1>3, <2>1 DEF EndInOrder
  <1>10. QED
    BY <1>6, <1>7, <1>8, <1>9

(* The first block of a repetition, and the blocks after it, are the file; *)
(* and so are, after every whole block, the next one and those after it.   *)
LEMMA BlocksAfter ==
    ASSUME NEW n \in Nat \ {0}
    PROVE  /\ transfersFor(n) = 0 => transferSize(n) = n
           /\ transfersFor(n) > 0
                => transferSize(n) + (transfersFor(n) - 1) * MaxCount + finalTransferSize(n) = n
           /\ \A k \in Nat : (k - 1) * MaxCount + MaxCount = k * MaxCount
  <1>1. MaxCount \in Nat \ {0}
    BY WavAssumption
  <1>2. \A k \in Nat : (k - 1) * MaxCount + MaxCount = k * MaxCount
    BY <1>1, SMTT(30)
  <1> DEFINE k == transfersFor(n)
             r == finalTransferSize(n)
  <1>3. /\ k \in Nat /\ r \in Nat /\ n = k * MaxCount + r
        /\ k = 0 => transferSize(n) = n
        /\ k > 0 => transferSize(n) = MaxCount
    BY <1>1, Blocks
  <1>4. (k - 1) * MaxCount \in Int /\ k * MaxCount \in Int
    BY <1>1, <1>3
  <1>5. (k - 1) * MaxCount + MaxCount = k * MaxCount
    BY <1>2, <1>3
  <1> HIDE DEF k, r
  <1>6. k > 0 => transferSize(n) + (k - 1) * MaxCount + r = n
    BY <1>1, <1>3, <1>4, <1>5
  <1>7. QED
    BY <1>2, <1>3, <1>6 DEF k, r

(* Loop() sets all channels up alike, for whole repetitions.               *)
LEMMA LoopStartsSound ==
    ASSUME BaseInv, SoundInv, NEW n \in Counts, Loop(n)
    PROVE  SoundInv'
  <1>. SUFFICES ASSUME "leftover" \notin ending'
                PROVE  (InStep /\ BlocksAddUp /\ PlaysAddUp /\ EndInOrder)'
    BY DEF SoundInv
  <1>1. /\ len \in [Channel -> Nat \ {0}] /\ transfersRem \in [Channel -> Nat]
        /\ citer \in [Channel -> 0..MaxCount]
        /\ dreq \subseteq Channel /\ Used \subseteq Channel
    BY SoundTypes
  <1>2. /\ ConfigDMA(size, Used)
        /\ m_playsRem' = [c \in Channel |-> n - 1]
        /\ asked' = n /\ erq = {} /\ irq = {} /\ m_state' = "UNMUTE"
        /\ moved' = [c \in Channel |-> 0] /\ played' = [c \in Channel |-> 0]
        /\ UNCHANGED <<dacs, m_pWav, image, erq, irq>>
        /\ pc' = "idle"
    BY DEF Loop, Repeats, setup, SetUp, Calls
  <1>3. Used' = Used
    BY <1>2 DEF Used
  <1>4. size \in Nat \ {0}
    <2>1. m_pWav \in Buffer /\ image \in [Buffer -> File]
      BY Guards DEF Loop, BaseInv, BuffersInOrder, TypeOK
    <2>2. QED
      BY <2>1, WavAssumption DEF size
  <1>5. /\ len' \in [Channel -> Nat \ {0}] /\ transfersRem' \in [Channel -> Nat]
        /\ \A c \in Used : /\ len'[c] = size /\ transfersRem'[c] = transfersFor(size)
                           /\ citer'[c] = transferSize(size)
                           /\ c \in dreq' <=> OneBlockLeft(transfersFor(size))
    <2>1. transfersFor(size) \in Nat
      BY <1>4, Blocks
    <2>2. QED
      BY <1>1, <1>2, <1>4, <2>1 DEF ConfigDMA
  <1>6. InStep'
    <2>1. \A c, d \in Used : Alike(c, d)'
      BY <1>1, <1>2, <1>5 DEF Alike
    <2>2. QED
      BY <1>2, <1>3, <2>1 DEF InStep
  <1>7. BlocksAddUp'
    <2>1. ASSUME NEW c \in Used PROVE (moved[c] + Rest(c))' = len'[c]
      <3>1. Rest(c)' = transferSize(size)
                       + (IF transfersFor(size) = 0 THEN 0
                          ELSE (transfersFor(size) - 1) * MaxCount + finalTransferSize(size))
        BY <1>2, <1>5 DEF Rest, Later
      <3>2. /\ transfersFor(size) \in Nat /\ transferSize(size) \in Nat
            /\ finalTransferSize(size) \in Nat /\ MaxCount \in Nat
        BY <1>4, Blocks, WavAssumption
      <3>3. Rest(c)' = size
        <4>1. (transfersFor(size) - 1) * MaxCount \in Int
          BY <3>2
        <4>2. QED
          BY <1>4, <3>1, <3>2, <4>1, BlocksAfter
      <3>4. QED
        BY <1>1, <1>2, <1>4, <1>5, <3>3
    <2>2. transfersFor(size) <= transfersFor(size)
      BY <1>4, Blocks
    <2>3. QED
      BY <1>1, <1>2, <1>3, <1>5, <2>1, <2>2 DEF BlocksAddUp
  <1>8. PlaysAddUp'
    <2>1. ASSUME NEW c \in Used PROVE CountsDown(c)'
      BY <1>1, <1>2, WavAssumption DEF CountsDown
    <2>2. QED
      BY <1>3, <2>1 DEF PlaysAddUp
  <1>9. EndInOrder'
    BY <1>2 DEF EndInOrder, Played
  <1>10. QED
    BY <1>6, <1>7, <1>8, <1>9

(* A step of a ramp concerns no channel before it is done; the first       *)
(* sample of every channel is then due at the same time.                   *)
LEMMA RampKeepsSound ==
    BaseInv /\ SoundInv /\ SoftMuteISR => SoundInv'
  <1>. SUFFICES ASSUME BaseInv, SoundInv, SoftMuteISR, "leftover" \notin ending
                PROVE  (InStep /\ BlocksAddUp /\ PlaysAddUp /\ EndInOrder)'
    BY DEF SoundInv, SoftMuteISR
  <1>1. m_state \in {"UNMUTE", "MUTE"}
    BY DEF SoftMuteISR, Unmute, Mute
  <1>2. /\ InStep /\ BlocksAddUp /\ PlaysAddUp /\ EndInOrder
        /\ Used \subseteq Channel /\ Timer \notin Channel /\ irq \subseteq Channel \cup {Timer}
    BY <1>1, SoundFacts, SoundTypes DEF Sounding, Sounds, Ramping, Played
  <1>3. /\ Timer \in irq /\ irq' = irq \ {Timer}
        /\ UNCHANGED <<dacs, m_pWav, image, len, transfersRem, m_playsRem, citer, dreq, pc,
                       moved, played, asked, ending>>
    BY DEF SoftMuteISR, setup, filing
  <1>4. Used' = Used /\ (Undisturbed' <=> Undisturbed)
    BY <1>3 DEF Used, Undisturbed
  <1>5. \A c \in Used : c \in irq' <=> c \in irq
    BY <1>2, <1>3
  <1>6. \/ m_state = "UNMUTE" /\ m_state' = "UNMUTE" /\ erq' = erq
        \/ m_state = "UNMUTE" /\ m_state' = "PLAYING" /\ erq' = erq \cup Used
        \/ m_state = "MUTE" /\ m_state' \in {"MUTE", "FINISHED"} /\ erq' = erq
    BY DEF SoftMuteISR, Unmute, Mute
  <1>7. m_state = "UNMUTE" => irq \cap Channel = {}
    BY DEF BaseInv, RampsInOrder, Ramping
  <1>8. InStep'
    <2>1. erq' \cup (irq' \cap Channel) \subseteq Used
      BY <1>2, <1>3, <1>6 DEF InStep
    <2>2. pc' = "masked" => \A c, d \in Used : c \in irq' <=> d \in irq'
      BY <1>2, <1>3, <1>5 DEF InStep
    <2>3. ASSUME NEW c \in Used, NEW d \in Used
          PROVE  (IF c \in irq /\ d \notin irq THEN Follows(c, d)
                  ELSE (c \in irq <=> d \in irq) => Alike(c, d))'
      <3>1. CASE erq' = erq
        <4>1. (Follows(c, d) => Follows(c, d)') /\ (Alike(c, d) => Alike(c, d)')
          BY <1>2, <1>3, <1>4, <3>1
          DEF Follows, Alike, RemAfter, PlaysAfter, CountAfter, EnabledAfter, LastAfter,
              MovedAfter, PlayedAfter, More, PartIsNext, LastIsWhole
        <4>2. QED
          BY <1>2, <1>5, <4>1 DEF InStep
      <3>2. CASE erq' = erq \cup Used /\ m_state = "UNMUTE"
        <4>1. c \notin irq /\ d \notin irq /\ Alike(c, d)
          BY <1>2, <1>7, <3>2 DEF InStep
        <4>2. Alike(c, d)'
          BY <1>3, <3>2, <4>1 DEF Alike
        <4>3. QED
          BY <1>5, <4>1, <4>2
      <3>3. QED
        BY <1>6, <3>1, <3>2
    <2>4. QED
      BY <1>4, <2>1, <2>2, <2>3 DEF InStep
  <1>9. \A c \in Used : Live(c)' => Live(c)
    BY <1>5, <1>6 DEF Live, Ramping
  <1>10. BlocksAddUp'
    <2>1. \A c \in Used : Rest(c)' = Rest(c)
      BY <1>3, <1>5 DEF Rest, Later
    <2>2. QED
      BY <1>2, <1>3, <1>4, <1>5, <1>9, <2>1 DEF BlocksAddUp
  <1>11. PlaysAddUp'
    <2>1. \A c \in Used : CountsDown(c)' <=> CountsDown(c)
      BY <1>3 DEF CountsDown
    <2>2. QED
      BY <1>2, <1>3, <1>4, <1>9, <2>1 DEF PlaysAddUp
  <1>12. EndInOrder'
    <2>1. CASE "late" \in ending
      BY <1>3, <2>1 DEF EndInOrder
    <2>2. CASE "late" \notin ending
      <3>1. irq' = {}
        BY <1>2, <1>3, <2>2 DEF EndInOrder
      <3>2. m_state' \in Played => m_state = "MUTE" /\ erq' = erq
        BY <1>6 DEF Played
      <3>3. m_state = "MUTE" => /\ \E c \in Used : c \notin irq
                                /\ \A c \in Used : c \notin irq => Through(c)
        BY <1>2, <2>2 DEF EndInOrder, Played
      <3>4. \A c \in Used : Through(c) /\ erq' = erq => Through(c)'
        BY <1>3, <1>4 DEF Through
      <3>5. QED
        BY <1>4, <1>5, <3>1, <3>2, <3>3, <3>4 DEF EndInOrder
    <2>3. QED
      BY <2>1, <2>2
  <1>13. QED
    BY <1>8, <1>10, <1>11, <1>12

(* A sample is moved on all channels at once.                              *)
LEMMA TickKeepsSound ==
    BaseInv /\ SoundInv /\ Tick => SoundInv'
  <1>. SUFFICES ASSUME BaseInv, SoundInv, Tick, "leftover" \notin ending
                PROVE  (InStep /\ BlocksAddUp /\ PlaysAddUp /\ EndInOrder)'
    BY DEF SoundInv, Tick
  <1> DEFINE done == {c \in erq : citer[c] = 1}
  <1>1. /\ running /\ irq = {}
        /\ citer' = [c \in Channel |->
                       IF c \notin erq THEN citer[c]
                       ELSE IF c \in done THEN transferSize(len[c]) ELSE citer[c] - 1]
        /\ erq' = erq \ (done \cap dreq)
        /\ irq' = done \cup (IF txmr = "interrupt" THEN {Timer} ELSE {})
        /\ moved' = [c \in Channel |->
                       IF Undisturbed /\ c \in erq THEN moved[c] + 1 ELSE moved[c]]
        /\ UNCHANGED <<m_state, dacs, m_pWav, image, len, transfersRem, m_playsRem, dreq,
                       txmr, pc, played, asked, ending>>
    BY DEF Tick, setup, filing
  <1>2. m_state \in On
    BY <1>1 DEF BaseInv, ClockInOrder
  <1>3. /\ InStep /\ BlocksAddUp /\ PlaysAddUp /\ EndInOrder
        /\ \A c \in Used : len[c] = size /\ citer[c] # 0
    BY <1>2, SoundFacts DEF On, Sounding, Sounds, Ramping, Played
  <1>4. /\ Used \subseteq Channel /\ erq \subseteq Channel /\ Timer \notin Channel
        /\ len \in [Channel -> Nat \ {0}] /\ transfersRem \in [Channel -> Nat]
        /\ citer \in [Channel -> 0..MaxCount] /\ moved \in [Channel -> Nat]
    BY SoundTypes
  <1>5. Used' = Used /\ (Undisturbed' <=> Undisturbed)
    BY <1>1 DEF Used, Undisturbed
  <1>6. done \subseteq erq /\ \A c \in erq : c \in done <=> citer[c] = 1
    OBVIOUS
  <1>7. \A c \in Channel : c \in irq' <=> c \in done
    BY <1>1, <1>4
  <1>8. erq \subseteq Used
    BY <1>3 DEF InStep
  <1> HIDE DEF done
  <1>9. InStep'
    <2>1. ASSUME NEW c \in Used, NEW d \in Used
          PROVE  Alike(c, d)' /\ (c \in irq' <=> d \in irq')
      <3>1. Alike(c, d) /\ len[c] = len[d]
        BY <1>1, <1>3 DEF InStep
      <3>2. c \in done <=> d \in done
        BY <1>6, <3>1 DEF Alike
      <3>3. citer'[c] = citer'[d] /\ moved'[c] = moved'[d]
        BY <1>1, <1>4, <3>1, <3>2 DEF Alike
      <3>4. c \in erq' <=> d \in erq'
        BY <1>1, <3>1, <3>2 DEF Alike
      <3>5. QED
        BY <1>1, <1>4, <1>7, <3>1, <3>2, <3>3, <3>4 DEF Alike
    <2>2. erq' \cup (irq' \cap Channel) \subseteq Used
      BY <1>1, <1>6, <1>7, <1>8
    <2>3. QED
      BY <1>5, <2>1, <2>2 DEF InStep
  <1>10. \A c \in Used : Live(c)' => Live(c)
    BY <1>1, <1>4, <1>6, <1>7 DEF Live
  <1>11. BlocksAddUp'
    <2>1. ASSUME NEW c \in Used
          PROVE  /\ transfersRem'[c] <= transfersFor(len'[c])
                 /\ c \in irq' => citer'[c] = transferSize(len'[c])
      BY <1>1, <1>3, <1>4, <1>6, <1>7 DEF BlocksAddUp
    <2>2. ASSUME NEW c \in Used, Undisturbed, Live(c)'
          PROVE  moved'[c] + Rest(c)' = len'[c]
      <3>1. Live(c) /\ moved[c] + Rest(c) = len[c]
        BY <1>3, <1>10, <2>2 DEF BlocksAddUp
      <3>2. Later(c)' = Later(c) /\ Later(c) \in Int
        <4>1. Later(c)' = Later(c)
          BY <1>1 DEF Later
        <4>2. finalTransferSize(len[c]) \in Nat /\ MaxCount \in Nat
          BY <1>4, Blocks, WavAssumption
        <4>3. (transfersRem[c] - 1) * MaxCount \in Int
          BY <1>4, <4>2
        <4>4. QED
          BY <4>1, <4>2, <4>3 DEF Later
      <3>3. moved[c] + (citer[c] + Later(c)) = len[c]
        BY <1>1, <3>1 DEF Rest
      <3>4. CASE c \in erq
        <4>1. moved'[c] = moved[c] + 1
          BY <1>1, <1>4, <2>2, <3>4
        <4>2. Rest(c)' = citer[c] - 1 + Later(c)
          <5>1. CASE c \in done
            BY <1>4, <1>6, <1>7, <3>2, <5>1 DEF Rest
          <5>2. CASE c \notin done
            BY <1>1, <1>4, <1>7, <3>2, <3>4, <5>2 DEF Rest
          <5>3. QED
            BY <5>1, <5>2
        <4>3. QED
          BY <1>1, <1>4, <3>2, <3>3, <4>1, <4>2
      <3>5. CASE c \notin erq
        BY <1>1, <1>4, <1>6, <1>7, <3>2, <3>3, <3>5 DEF Rest
      <3>6. QED
        BY <3>4, <3>5
    <2>3. QED
      BY <1>5, <2>1, <2>2 DEF BlocksAddUp
  <1>12. PlaysAddUp'
    <2>1. \A c \in Used : CountsDown(c)' <=> CountsDown(c)
      BY <1>1 DEF CountsDown
    <2>2. QED
      BY <1>1, <1>3, <1>5, <1>10, <2>1 DEF PlaysAddUp
  <1>13. EndInOrder'
    <2>1. CASE "late" \in ending
      BY <1>1, <2>1 DEF EndInOrder
    <2>2. CASE "late" \notin ending
      <3>1. CASE m_state = "PLAYING"
        <4>1. txmr = "dma"
          BY <2>2, <3>1 DEF BaseInv, RampsInOrder
        <4>2. Timer \notin irq'
          BY <1>1, <1>4, <1>6, <4>1
        <4>3. QED
          BY <1>1, <3>1, <4>2 DEF EndInOrder, Played
      <3>2. CASE m_state = "UNMUTE"
        <4>1. erq = {}
          BY <3>2 DEF BaseInv, RampsInOrder, Ramping
        <4>2. irq' = {} \/ irq' = {Timer}
          BY <1>1, <1>6, <4>1
        <4>3. QED
          BY <1>1, <3>2, <4>2 DEF EndInOrder, Played
      <3>3. CASE m_state = "MUTE"
        <4>1. /\ \E c \in Used : c \notin irq
              /\ \A c \in Used : Through(c)
          BY <1>1, <1>3, <2>2, <3>3 DEF EndInOrder, Played
        <4>2. erq = {}
          BY <1>8, <4>1 DEF Through
        <4>3. done = {}
          BY <1>6, <4>2
        <4>4. irq' = {} \/ irq' = {Timer}
          BY <1>1, <4>3
        <4>5. \A c \in Used : c \notin irq' /\ Through(c)'
          BY <1>1, <1>4, <1>5, <4>1, <4>2, <4>4 DEF Through
        <4>6. QED
          BY <1>1, <1>5, <3>3, <4>1, <4>4, <4>5 DEF EndInOrder
      <3>4. QED
        BY <1>2, <3>1, <3>2, <3>3 DEF On
    <2>3. QED
      BY <2>1, <2>2
  <1>14. QED
    BY <1>9, <1>11, <1>12, <1>13

(* The interrupt of a channel makes of its registers what is said above,   *)
(* and touches no other channel's.                                         *)
LEMMA Serving ==
    ASSUME BaseInv, NEW c \in Channel, ISR(c)
    PROVE  /\ transfersRem'[c] = RemAfter(c) /\ m_playsRem'[c] = PlaysAfter(c)
           /\ citer'[c] = CountAfter(c)
           /\ c \in erq' <=> EnabledAfter(c)
           /\ c \in dreq' <=> LastAfter(c)
           /\ moved'[c] = MovedAfter(c) /\ played'[c] = PlayedAfter(c)
           /\ \A d \in Channel \ {c} :
                /\ transfersRem'[d] = transfersRem[d] /\ m_playsRem'[d] = m_playsRem[d]
                /\ citer'[d] = citer[d] /\ moved'[d] = moved[d] /\ played'[d] = played[d]
                /\ d \in erq' <=> d \in erq
                /\ d \in dreq' <=> d \in dreq
           /\ More(c) \/ m_playsRem[c] # 0 => m_state' = m_state
           /\ ~(More(c) \/ m_playsRem[c] # 0) => m_state' = "MUTE"
  <1>1. /\ transfersRem \in [Channel -> Nat] /\ m_playsRem \in [Channel -> {-1} \cup Nat]
        /\ citer \in [Channel -> 0..MaxCount]
        /\ moved \in [Channel -> Nat] /\ played \in [Channel -> 0..MaxPlayed]
    BY SoundTypes
  <1>. USE DEF RemAfter, PlaysAfter, CountAfter, EnabledAfter, LastAfter, MovedAfter, PlayedAfter
  <1>2. CASE NextBlock(c)
    <2>1. More(c) /\ transfersRem' = [transfersRem EXCEPT ![c] = @ - 1]
          /\ UNCHANGED <<m_state, m_playsRem, moved, played>>
      BY <1>2 DEF NextBlock
    <2>2. /\ dreq' = IF LastIsWhole(c) \/ transfersRem[c] = 1 THEN dreq \cup {c} ELSE dreq
          /\ PartIsNext(c) => /\ citer' = [citer EXCEPT ![c] = finalTransferSize(len[c])]
                              /\ erq' = erq \cup {c}
          /\ ~PartIsNext(c) => UNCHANGED <<citer, erq>>
      BY <1>2 DEF NextBlock
    <2>3. c \in dreq' <=> LastAfter(c)
      BY <2>1, <2>2
    <2>4. c \in erq' <=> EnabledAfter(c)
      BY <2>1, <2>2
    <2>5. citer'[c] = CountAfter(c) /\ transfersRem'[c] = RemAfter(c)
      BY <1>1, <2>1, <2>2
    <2>6. \A d \in Channel \ {c} :
                /\ transfersRem'[d] = transfersRem[d] /\ citer'[d] = citer[d]
                /\ d \in erq' <=> d \in erq
                /\ d \in dreq' <=> d \in dreq
      BY <1>1, <2>1, <2>2
    <2>7. QED
      BY <2>1, <2>3, <2>4, <2>5, <2>6
  <1>3. ASSUME CountPlay(c)
        PROVE  /\ played'[c] = IF Undisturbed THEN Min({played[c] + 1, MaxPlayed}) ELSE played[c]
               /\ \A d \in Channel \ {c} : played'[d] = played[d]
    BY <1>1, <1>3 DEF CountPlay
  <1>4. CASE NextPlay(c)
    <2>1. ~More(c) /\ m_playsRem[c] # 0 /\ UNCHANGED m_state
      BY <1>4 DEF NextPlay
    <2>2. QED
      BY <1>1, <1>3, <1>4, <2>1 DEF NextPlay
  <1>5. CASE LastPlay(c)
    <2>1. ~More(c) /\ m_playsRem[c] = 0 /\ m_state' = "MUTE"
      BY <1>5 DEF LastPlay
    <2>2. QED
      BY <1>1, <1>3, <1>5, <2>1 DEF LastPlay
  <1>6. QED
    BY <1>2, <1>4, <1>5 DEF ISR

(* Serving one channel: those still to come go the same way, and those     *)
(* that have been served went it before.                                   *)
LEMMA ServingKeepsStep ==
    ASSUME BaseInv, InStep, Sounding, NEW c \in Used, ISR(c)
    PROVE  InStep' /\ c \in irq /\ \A d \in Used : d \in irq \/ Follows(c, d)
  <1>1. /\ c \in irq /\ irq' = irq \ {c} /\ pc # "masked"
        /\ UNCHANGED <<dacs, m_pWav, image, len, pc, ending>>
    BY DEF ISR, setup, filing
  <1>2. Used \subseteq {0, 1} /\ Used \subseteq Channel
    BY SoundTypes DEF Channel
  <1>3. Used' = Used
    BY <1>1 DEF Used
  <1>4. \A d \in Used : len[d] = len[c]
    BY DEF BaseInv, ChannelsSetUp
  <1>5. /\ transfersRem'[c] = RemAfter(c) /\ m_playsRem'[c] = PlaysAfter(c)
        /\ citer'[c] = CountAfter(c)
        /\ c \in erq' <=> EnabledAfter(c)
        /\ c \in dreq' <=> LastAfter(c)
        /\ moved'[c] = MovedAfter(c) /\ played'[c] = PlayedAfter(c)
    BY <1>2, Serving
  <1>6. \A d \in Used \ {c} :
          /\ transfersRem'[d] = transfersRem[d] /\ m_playsRem'[d] = m_playsRem[d]
          /\ citer'[d] = citer[d] /\ moved'[d] = moved[d] /\ played'[d] = played[d]
          /\ d \in erq' <=> d \in erq
          /\ d \in dreq' <=> d \in dreq
    BY <1>2, Serving
  <1>7. \A d \in Used : d \in irq \/ Follows(c, d)
    BY <1>1 DEF InStep
  <1>8. erq' \cup (irq' \cap Channel) \subseteq Used
    <2>1. erq \subseteq Used /\ erq' \subseteq erq \cup {c}
      BY DEF InStep, ISR, NextBlock, NextPlay, LastPlay
    <2>2. QED
      BY <1>1, <2>1 DEF InStep
  <1>9. ASSUME NEW x \in Used, NEW y \in Used
        PROVE  (IF x \in irq /\ y \notin irq THEN Follows(x, y)
                ELSE (x \in irq <=> y \in irq) => Alike(x, y))'
    <2>1. CASE x = y
      BY <2>1 DEF Alike
    <2>2. CASE x = c /\ y # c
      <3>1. CASE y \in irq
        BY <1>1, <2>2, <3>1
      <3>2. CASE y \notin irq
        <4>1. Follows(c, y)
          BY <1>7, <3>2
        <4>2. Alike(x, y)'
          BY <1>5, <1>6, <2>2, <4>1 DEF Alike, Follows
        <4>3. QED
          BY <1>1, <2>2, <3>2, <4>2
      <3>3. QED
        BY <3>1, <3>2
    <2>3. CASE x # c /\ y = c
      <3>1. CASE x \in irq
        <4>1. Alike(x, c) /\ len[x] = len[c]
          BY <1>1, <1>4, <3>1 DEF InStep
        <4>2. Follows(x, c)'
          <5>1. /\ More(x)' <=> More(c)
                /\ PartIsNext(x)' <=> PartIsNext(c)
                /\ LastIsWhole(x)' <=> LastIsWhole(c)
            BY <1>1, <1>6, <2>3, <4>1 DEF More, PartIsNext, LastIsWhole, Alike
          <5>2. RemAfter(x)' = RemAfter(c) /\ PlaysAfter(x)' = PlaysAfter(c)
            BY <1>1, <1>6, <2>3, <4>1, <5>1 DEF RemAfter, PlaysAfter, Alike
          <5>3. CountAfter(x)' = CountAfter(c) /\ MovedAfter(x)' = MovedAfter(c)
            BY <1>1, <1>6, <2>3, <4>1, <5>1 DEF CountAfter, MovedAfter, Alike
          <5>4. EnabledAfter(x)' <=> EnabledAfter(c)
            BY <1>1, <1>6, <2>3, <4>1, <5>1 DEF EnabledAfter, Alike
          <5>5. LastAfter(x)' <=> LastAfter(c)
            BY <1>1, <1>6, <2>3, <4>1, <5>1 DEF LastAfter, Alike
          <5>6. PlayedAfter(x)' = PlayedAfter(c)
            BY <1>1, <1>6, <2>3, <4>1, <5>1 DEF PlayedAfter, Undisturbed, Alike
          <5>7. QED
            BY <1>5, <2>3, <5>2, <5>3, <5>4, <5>5, <5>6 DEF Follows
        <4>3. QED
          BY <1>1, <2>3, <3>1, <4>2
      <3>2. CASE x \notin irq
        <4>1. Follows(c, x)
          BY <1>7, <3>2
        <4>2. Alike(x, y)'
          BY <1>5, <1>6, <2>3, <4>1 DEF Alike, Follows
        <4>3. QED
          BY <1>1, <2>3, <3>2, <4>2
      <3>3. QED
        BY <3>1, <3>2
    <2>4. QED
      BY <1>2, <2>1, <2>2, <2>3
  <1>10. InStep'
    BY <1>1, <1>3, <1>8, <1>9 DEF InStep
  <1>11. QED
    BY <1>1, <1>7, <1>10

(* What a channel has moved and what is left to move stay the file when    *)
(* its next block, or its next repetition, is set up.                      *)
LEMMA ServingKeepsBlocks ==
    ASSUME BaseInv, BlocksAddUp, Sounding, NEW c \in Used, ISR(c),
           irq \cap Channel # {} => m_state \notin Ramping
    PROVE  /\ BlocksAddUp'
           /\ ~More(c) /\ Undisturbed => moved[c] = len[c]
  <1>1. /\ c \in irq /\ irq' = irq \ {c}
        /\ UNCHANGED <<dacs, m_pWav, image, len, ending>>
    BY DEF ISR, setup, filing
  <1>2. /\ Used \subseteq Channel /\ len \in [Channel -> Nat \ {0}]
        /\ transfersRem \in [Channel -> Nat] /\ moved \in [Channel -> Nat]
        /\ m_playsRem \in [Channel -> {-1} \cup Nat]
    BY SoundTypes
  <1>3. Used' = Used /\ (Undisturbed' <=> Undisturbed)
    BY <1>1 DEF Used, Undisturbed
  <1>4. m_state \notin Ramping /\ m_state' \notin Ramping
    BY <1>1, <1>2 DEF ISR, NextBlock, NextPlay, LastPlay, Ramping
  <1> DEFINE k == transfersRem[c]
             n == len[c]
             r == finalTransferSize(len[c])
  <1>5. /\ k \in Nat /\ n \in Nat \ {0} /\ r \in Nat /\ MaxCount \in Nat \ {0}
        /\ transfersFor(n) \in Nat /\ transferSize(n) \in Nat
        /\ transfersFor(n) > 0 => transferSize(n) = MaxCount
    BY <1>2, Blocks, WavAssumption
  <1>6. /\ k <= transfersFor(n) /\ citer[c] = transferSize(n)
        /\ Undisturbed => moved[c] + Rest(c) = n
    BY <1>1 DEF BlocksAddUp, Live
  <1>7. Undisturbed => moved[c] + Later(c) = n
    <2>1. Later(c) \in Int
      <3>1. (k - 1) * MaxCount \in Int
        BY <1>5
      <3>2. QED
        BY <1>5, <3>1 DEF Later
    <2>2. Rest(c) = Later(c)
      BY <1>1, <2>1 DEF Rest
    <2>3. QED
      BY <1>6, <2>2
  <1>8. ~More(c) /\ Undisturbed => moved[c] = n
    <2>1. ~More(c) => Later(c) = 0
      <3>1. k = 1 => (k - 1) * MaxCount = 0
        BY <1>5
      <3>2. ~More(c) => k = 0 \/ (k = 1 /\ r = 0)
        BY <1>5 DEF More, PartIsNext
      <3>3. QED
        BY <1>5, <3>1, <3>2 DEF Later
    <2>2. QED
      BY <1>2, <1>7, <2>1
  <1>9. /\ transfersRem'[c] = RemAfter(c)
        /\ citer'[c] = CountAfter(c)
        /\ c \in erq' <=> EnabledAfter(c)
        /\ moved'[c] = MovedAfter(c)
    BY <1>2, Serving
  <1>10. ASSUME NEW d \in Used, d # c
         PROVE  /\ transfersRem'[d] <= transfersFor(len'[d])
                /\ d \in irq' => citer'[d] = transferSize(len'[d])
                /\ (Undisturbed /\ Live(d))' => moved'[d] + Rest(d)' = len'[d]
    <2>1. /\ transfersRem'[d] = transfersRem[d] /\ citer'[d] = citer[d]
          /\ moved'[d] = moved[d] /\ (d \in erq' <=> d \in erq) /\ (d \in irq' <=> d \in irq)
      BY <1>1, <1>2, <1>10, Serving
    <2>2. Rest(d)' = Rest(d) /\ (Live(d)' <=> Live(d))
      BY <1>1, <1>4, <2>1 DEF Rest, Later, Live
    <2>3. QED
      BY <1>1, <1>3, <2>1, <2>2 DEF BlocksAddUp
  <1>11. transfersRem'[c] <= transfersFor(len'[c])
    BY <1>1, <1>5, <1>6, <1>9 DEF RemAfter
  <1>12. ASSUME Undisturbed, Live(c)' PROVE moved'[c] + Rest(c)' = len'[c]
    <2>1. Rest(c)' = citer'[c] + Later(c)'
      BY <1>1 DEF Rest
    <2>2. c \in erq'
      BY <1>1, <1>4, <1>12 DEF Live
    <2>3. More(c) \/ m_playsRem[c] # 0
      BY <1>9, <2>2 DEF EnabledAfter
    <2>4. CASE More(c)
      <3>1. /\ transfersRem'[c] = k - 1 /\ moved'[c] = moved[c]
            /\ citer'[c] = IF PartIsNext(c) THEN r ELSE citer[c]
        BY <1>9, <2>4 DEF RemAfter, MovedAfter, CountAfter
      <3>2. k = 1 => PartIsNext(c)
        BY <1>5, <2>4 DEF More
      <3>3. k >= 1 /\ (PartIsNext(c) => k = 1)
        BY <1>5, <2>4 DEF More, PartIsNext
      <3>4. moved[c] + ((k - 1) * MaxCount + r) = n
        BY <1>5, <1>7, <1>12, <3>3 DEF Later
      <3>5. CASE k = 1
        <4>1. (k - 1) * MaxCount = 0
          BY <1>5, <3>5
        <4>2. Later(c)' = 0 /\ citer'[c] = r
          BY <1>5, <3>1, <3>2, <3>5 DEF Later
        <4>3. QED
          BY <1>1, <1>2, <1>5, <2>1, <3>1, <3>4, <4>1, <4>2
      <3>6. CASE k > 1
        <4>1. citer'[c] = MaxCount
          BY <1>5, <1>6, <3>1, <3>3, <3>6
        <4>2. Later(c)' = ((k - 1) - 1) * MaxCount + r
          BY <1>1, <1>5, <3>1, <3>6 DEF Later
        <4>3. ((k - 1) - 1) * MaxCount + MaxCount = (k - 1) * MaxCount
          BY <1>5, <3>6, BlocksAfter
        <4>4. ((k - 1) - 1) * MaxCount \in Int /\ (k - 1) * MaxCount \in Int
          BY <1>5
        <4>5. QED
          BY <1>1, <1>2, <1>5, <2>1, <3>1, <3>4, <4>1, <4>2, <4>3, <4>4
      <3>7. QED
        BY <1>5, <3>3, <3>5, <3>6
    <2>5. CASE ~More(c)
      <3>1. /\ transfersRem'[c] = transfersFor(n) /\ moved'[c] = 0
            /\ citer'[c] = transferSize(n)
        BY <1>9, <2>3, <2>5 DEF RemAfter, MovedAfter, CountAfter
      <3>2. Later(c)' = IF transfersFor(n) = 0 THEN 0
                        ELSE (transfersFor(n) - 1) * MaxCount + r
        BY <1>1, <3>1 DEF Later
      <3>3. (transfersFor(n) - 1) * MaxCount \in Int
        BY <1>5
      <3>4. citer'[c] + Later(c)' = n
        <4>1. /\ transfersFor(n) = 0 => transferSize(n) = n
              /\ transfersFor(n) > 0 => transferSize(n) + (transfersFor(n) - 1) * MaxCount + r = n
          BY <1>5, BlocksAfter
        <4>2. QED
          BY <1>5, <3>1, <3>2, <3>3, <4>1
      <3>5. QED
        BY <1>1, <1>5, <2>1, <3>1, <3>4
    <2>6. QED
      BY <2>4, <2>5
  <1>13. BlocksAddUp'
    BY <1>1, <1>3, <1>10, <1>11, <1>12 DEF BlocksAddUp
  <1>14. QED
    BY <1>8, <1>13

(* A repetition that is through is counted, and ends the sound if it is    *)
(* the last: on every channel of the file.                                 *)
LEMMA ServingKeepsPlays ==
    ASSUME BaseInv, PlaysAddUp, Sounding, NEW c \in Used, ISR(c),
           irq \cap Channel # {} => m_state \notin Ramping
    PROVE  /\ PlaysAddUp'
           /\ ~More(c) /\ m_playsRem[c] = 0 /\ Undisturbed /\ "graceful" \notin ending
                => played'[c] = asked
  <1>1. /\ c \in irq /\ irq' = irq \ {c}
        /\ UNCHANGED <<dacs, m_pWav, image, asked, ending>>
    BY DEF ISR, setup, filing
  <1>2. /\ Used \subseteq Channel /\ played \in [Channel -> 0..MaxPlayed] /\ asked \in Nat
        /\ m_playsRem \in [Channel -> {-1} \cup Nat] /\ Forever \in Nat \ {0}
    BY SoundTypes, WavAssumption
  <1>3. Used' = Used /\ (Undisturbed' <=> Undisturbed)
    BY <1>1 DEF Used, Undisturbed
  <1>4. m_state \notin Ramping /\ m_state' \notin Ramping
    BY <1>1, <1>2 DEF ISR, NextBlock, NextPlay, LastPlay, Ramping
  <1>5. Undisturbed /\ "graceful" \notin ending => CountsDown(c)
    BY <1>1 DEF PlaysAddUp, Live
  <1>6. /\ m_playsRem'[c] = PlaysAfter(c) /\ played'[c] = PlayedAfter(c)
        /\ c \in erq' <=> EnabledAfter(c)
    BY <1>2, Serving
  <1>7. ~More(c) /\ Undisturbed
          => played'[c] = IF played[c] + 1 <= MaxPlayed THEN played[c] + 1 ELSE MaxPlayed
    BY <1>2, <1>6, MinOfTwo DEF PlayedAfter, MaxPlayed
  <1>8. ASSUME NEW d \in Used, d # c, Undisturbed, "graceful" \notin ending, Live(d)'
        PROVE  CountsDown(d)'
    <2>1. /\ m_playsRem'[d] = m_playsRem[d] /\ played'[d] = played[d]
          /\ (d \in erq' <=> d \in erq) /\ (d \in irq' <=> d \in irq)
      BY <1>1, <1>2, <1>8, Serving
    <2>2. Live(d)
      BY <1>4, <1>8, <2>1 DEF Live
    <2>3. CountsDown(d)
      BY <1>8, <2>2 DEF PlaysAddUp
    <2>4. QED
      BY <1>1, <2>1, <2>3 DEF CountsDown
  <1>9. ASSUME Undisturbed, "graceful" \notin ending, Live(c)' PROVE CountsDown(c)'
    <2>1. CountsDown(c) /\ (More(c) \/ m_playsRem[c] # 0)
      BY <1>1, <1>4, <1>5, <1>6, <1>9 DEF Live, EnabledAfter
    <2>2. CASE More(c)
      BY <1>1, <1>6, <2>1, <2>2 DEF PlaysAfter, PlayedAfter, CountsDown
    <2>3. CASE ~More(c)
      <3>1. m_playsRem'[c] = OneLess(m_playsRem[c]) /\ m_playsRem[c] # 0
        BY <1>6, <2>1, <2>3 DEF PlaysAfter
      <3>2. QED
        BY <1>1, <1>2, <1>7, <1>9, <2>1, <2>3, <3>1 DEF CountsDown, OneLess, MaxPlayed
    <2>4. QED
      BY <2>2, <2>3
  <1>10. PlaysAddUp'
    BY <1>1, <1>3, <1>8, <1>9 DEF PlaysAddUp
  <1>11. ASSUME ~More(c), m_playsRem[c] = 0, Undisturbed, "graceful" \notin ending
         PROVE  played'[c] = asked
    BY <1>2, <1>5, <1>7, <1>11 DEF CountsDown, MaxPlayed
  <1>12. QED
    BY <1>10, <1>11

(* The channel that ends a sound finds those served before it through, and *)
(* those served after it are.                                              *)
LEMMA ServingKeepsSound ==
    ASSUME BaseInv, SoundInv, NEW c \in Channel, ISR(c)
    PROVE  SoundInv'
  <1>. SUFFICES ASSUME "leftover" \notin ending
                PROVE  (InStep /\ BlocksAddUp /\ PlaysAddUp /\ EndInOrder)'
    BY DEF SoundInv, ISR
  <1>1. c \in irq /\ irq' = irq \ {c} /\ UNCHANGED <<dacs, m_pWav, image, asked, ending>>
    BY DEF ISR, setup, filing
  <1>2. Sounding
    BY <1>1 DEF BaseInv, ClockInOrder, On, Sounding, Sounds, Ramping, Played
  <1>3. InStep /\ BlocksAddUp /\ PlaysAddUp /\ EndInOrder
    BY <1>2, SoundFacts
  <1>4. c \in Used /\ irq \cap Channel # {} /\ Used \subseteq Channel
    BY <1>1, <1>3, SoundTypes DEF InStep
  <1>5. m_state \notin Ramping
    BY <1>4 DEF BaseInv, RampsInOrder
  <1>6. /\ InStep' /\ BlocksAddUp' /\ PlaysAddUp'
        /\ \A d \in Used : d \in irq \/ Follows(c, d)
        /\ ~More(c) /\ m_playsRem[c] = 0 /\ Undisturbed /\ "graceful" \notin ending
             => played'[c] = asked
    BY <1>2, <1>3, <1>4, <1>5, ServingKeepsStep, ServingKeepsBlocks, ServingKeepsPlays
  <1>7. Used' = Used /\ (Undisturbed' <=> Undisturbed)
    BY <1>1 DEF Used, Undisturbed
  <1>8. /\ transfersRem'[c] = RemAfter(c) /\ m_playsRem'[c] = PlaysAfter(c)
        /\ c \in erq' <=> EnabledAfter(c)
        /\ played'[c] = PlayedAfter(c)
        /\ More(c) \/ m_playsRem[c] # 0 => m_state' = m_state
        /\ ~(More(c) \/ m_playsRem[c] # 0) => m_state' = "MUTE"
    BY Serving
  <1>9. \A d \in Used \ {c} :
          /\ transfersRem'[d] = transfersRem[d] /\ m_playsRem'[d] = m_playsRem[d]
          /\ played'[d] = played[d] /\ (d \in erq' <=> d \in erq)
    BY <1>4, Serving
  <1>10. CASE "late" \in ending
    BY <1>1, <1>6, <1>10 DEF EndInOrder
  <1>11. CASE "late" \notin ending
    <2>1. m_state # "FINISHED" /\ Timer \notin irq
      <3>1. Timer \notin Channel
        BY SoundTypes
      <3>2. QED
        BY <1>1, <1>3, <1>11, <3>1 DEF EndInOrder
    <2>2. CASE More(c) \/ m_playsRem[c] # 0
      <3>1. m_state' = m_state
        BY <1>8, <2>2
      <3>2. m_state \notin Played
        <4>1. SUFFICES ASSUME m_state \in Played PROVE FALSE
          OBVIOUS
        <4>2. PICK d \in Used : d \notin irq /\ Through(d)
          BY <1>3, <1>11, <2>1, <4>1 DEF EndInOrder
        <4>3. Follows(c, d)
          BY <1>6, <4>2
        <4>4. RemAfter(c) = 0 /\ PlaysAfter(c) = 0 /\ ~EnabledAfter(c)
          BY <4>2, <4>3 DEF Follows, Through
        <4>5. ~(~More(c) /\ m_playsRem[c] # 0)
          BY <4>4 DEF EnabledAfter
        <4>6. More(c) /\ transfersRem[c] - 1 = 0 /\ ~PartIsNext(c)
          BY <2>2, <4>4, <4>5 DEF RemAfter, EnabledAfter
        <4>7. transfersRem[c] \in Nat
          BY SoundTypes
        <4>8. QED
          BY <4>6, <4>7 DEF More
      <3>3. EndInOrder'
        BY <1>1, <2>1, <3>1, <3>2 DEF EndInOrder, Played
      <3>4. QED
        BY <1>6, <3>3
    <2>3. CASE ~More(c) /\ m_playsRem[c] = 0
      <3>1. m_state' = "MUTE"
        BY <1>8, <2>3
      <3>2. RemAfter(c) = 0 /\ PlaysAfter(c) = 0 /\ ~EnabledAfter(c)
        BY <2>3 DEF RemAfter, PlaysAfter, EnabledAfter
      <3>3. Through(c)'
        BY <1>1, <1>6, <1>7, <1>8, <2>3, <3>2 DEF Through
      <3>4. ASSUME NEW d \in Used, d # c, d \notin irq PROVE Through(d)'
        <4>1. Follows(c, d)
          BY <1>6, <3>4
        <4>2. played[d] = played'[c]
          BY <1>8, <4>1 DEF Follows
        <4>3. QED
          BY <1>1, <1>6, <1>7, <1>9, <2>3, <3>2, <3>4, <4>1, <4>2 DEF Through, Follows
      <3>5. EndInOrder'
        <4>1. c \notin irq' /\ \A d \in Used : d \notin irq' => Through(d)'
          BY <1>1, <3>3, <3>4
        <4>2. QED
          BY <1>1, <1>4, <1>7, <2>1, <3>1, <4>1 DEF EndInOrder
      <3>6. QED
        BY <1>6, <3>5
    <2>4. QED
      BY <2>2, <2>3
  <1>12. QED
    BY <1>10, <1>11

(* No step of the task, the handlers or the clock disturbs a sound.        *)
LEMMA SoundStep ==
    BaseInv /\ SoundInv /\ [Next]_vars => SoundInv'
  <1>. SUFFICES ASSUME BaseInv, SoundInv, [Next]_vars PROVE SoundInv'
    OBVIOUS
  <1>1. /\ m_state \in States
        /\ m_pWav = None => ~Sounding
        /\ Stoppable <=> m_state \in Sounds \ {"FINISHED"}
        /\ Busy <=> m_state \in On
        /\ Between("PAUSED_UNMUTE", "PAUSED")
             <=> m_state \in {"PAUSED_UNMUTE", "PAUSED_MUTE", "PAUSED"}
        /\ pc # "idle" => Sounding
        /\ pc \in {"stop", "masked", "stopped"} => "stop" \in ending
        /\ pc = "pause" => m_state \in On \cup {"FINISHED"}
    BY Guards DEF BaseInv, BuffersInOrder, ClockInOrder, Sounding, Sounds, Ramping, Played
  <1>2. ASSUME ~Sounding' PROVE SoundInv'
    BY <1>2 DEF SoundInv
  <1>3. ASSUME UNCHANGED <<m_state, dacs, m_pWav, image, dma, irq, pc, moved, played, asked,
                           ending>>
        PROVE  SoundInv'
    <2>1. Used' = Used /\ (Undisturbed' <=> Undisturbed) /\ (Sounding' <=> Sounding)
      BY <1>3 DEF Used, Undisturbed, Sounding
    <2>2. SUFFICES ASSUME Sounding, "leftover" \notin ending
                   PROVE  (InStep /\ BlocksAddUp /\ PlaysAddUp /\ EndInOrder)'
      BY <1>3, <2>1 DEF SoundInv
    <2>3. InStep /\ BlocksAddUp /\ PlaysAddUp /\ EndInOrder
      BY <2>2, SoundFacts
    <2>4. InStep'
      <3>1. \A x, y : (Follows(x, y)' <=> Follows(x, y)) /\ (Alike(x, y)' <=> Alike(x, y))
        BY <1>3, <2>1 DEF dma, Follows, Alike, RemAfter, PlaysAfter, CountAfter, EnabledAfter,
          LastAfter, MovedAfter, PlayedAfter, More, PartIsNext, LastIsWhole
      <3>2. QED
        BY <1>3, <2>1, <2>3, <3>1 DEF InStep, dma
    <2>5. BlocksAddUp' /\ PlaysAddUp'
      <3>1. \A x : Rest(x)' = Rest(x) /\ (Live(x)' <=> Live(x)) /\ (CountsDown(x)' <=> CountsDown(x))
        BY <1>3 DEF dma, Rest, Later, Live, CountsDown
      <3>2. QED
        BY <1>3, <2>1, <2>3, <3>1 DEF BlocksAddUp, PlaysAddUp, dma
    <2>6. EndInOrder'
      <3>1. \A x : Through(x)' <=> Through(x)
        BY <1>3, <2>1 DEF Through, dma
      <3>2. QED
        BY <1>3, <2>1, <2>3, <3>1 DEF EndInOrder
    <2>7. QED
      BY <2>4, <2>5, <2>6
  <1>4. ASSUME NEW c \in Channel, SetChannelDAC(c) PROVE SoundInv'
    BY <1>2, <1>4 DEF SetChannelDAC, Sounding, Sounds, Ramping, Played
  <1>5. CASE SetTimer
    BY <1>2, <1>5 DEF SetTimer, Sounding, Sounds, Ramping, Played
  <1>6. ASSUME NEW b \in Array, OpenBuffer(b) PROVE SoundInv'
    BY <1>2, <1>6 DEF OpenBuffer, Open, Sounding, Sounds, Ramping, Played
  <1>7. ASSUME NEW f \in Disk, OpenFile(f) PROVE SoundInv'
    BY <1>2, <1>7 DEF OpenFile, Open, Sounding, Sounds, Ramping, Played
  <1>8. CASE OpenFileFails
    BY <1>3, <1>8 DEF OpenFileFails, setup, output, history
  <1>9. CASE ResetBuffer
    BY <1>2, <1>9 DEF ResetBuffer, Sounding, Sounds, Ramping, Played
  <1>10. ASSUME NEW n \in Counts, Loop(n) PROVE SoundInv'
    BY <1>10, LoopStartsSound
  <1>. USE DEF setup, filing, dma, output, history
  <1>11. CASE StopCall
    <2>1. m_state \in Sounds \ {"FINISHED"} /\ irq = {} /\ UNCHANGED m_state
      BY <1>1, <1>11 DEF StopCall, SetUp, Calls
    <2>2. m_state \notin Played \/ m_state \in {"MUTE", "PAUSED_MUTE"}
      BY <2>1 DEF Played
    <2>3. QED
      BY <1>11, <2>1, <2>2, TaskKeepsSound DEF StopCall, Sounding
  <1>12. CASE StopMask
    <2>1. Sounding /\ irq = {} /\ "stop" \in ending /\ UNCHANGED m_state
      BY <1>1, <1>12 DEF StopMask
    <2>2. \/ m_state \notin Played \/ m_state \in {"MUTE", "PAUSED_MUTE"}
          \/ m_state = "FINISHED"
      BY DEF Played
    <2>3. QED
      BY <1>12, <2>1, <2>2, TaskKeepsSound DEF StopMask
  <1>13. CASE StopCritical
    BY <1>13, StopKeepsSound
  <1>14. CASE StopDone
    <2>1. Sounding /\ irq = {} /\ "stop" \in ending' /\ m_state' = "FINISHED" /\ ending \subseteq ending'
      BY <1>1, <1>14 DEF StopDone, TooLate
    <2>2. QED
      BY <1>14, <2>1, TaskKeepsSound DEF StopDone, Ramping
  <1>15. CASE StopGraceful
    <2>1. m_state \in Sounds \ {"FINISHED"} /\ irq = {} /\ UNCHANGED m_state
      BY <1>1, <1>15 DEF StopGraceful, SetUp, Calls
    <2>2. m_state \notin Played \/ m_state \in {"MUTE", "PAUSED_MUTE"}
      BY <2>1 DEF Played
    <2>3. QED
      BY <1>15, <2>1, <2>2, TaskKeepsSound DEF StopGraceful, Sounding
  <1>16. CASE PauseCall
    <2>1. m_state \in On /\ irq = {} /\ UNCHANGED m_state
      BY <1>1, <1>16 DEF PauseCall, SetUp, Calls
    <2>2. Sounding /\ (m_state \notin Played \/ m_state \in {"MUTE", "PAUSED_MUTE"})
      BY <2>1 DEF Played, On, Sounding, Sounds, Ramping
    <2>3. QED
      BY <1>16, <2>1, <2>2, TaskKeepsSound DEF PauseCall
  <1>17. CASE PauseDone
    <2>1. m_state \in On \cup {"FINISHED"} /\ Sounding /\ irq = {}
      BY <1>1, <1>17 DEF PauseDone
    <2>2. m_state' = IF m_state = "UNMUTE" THEN "PAUSED_UNMUTE"
                     ELSE IF m_state = "MUTE" THEN "PAUSED_MUTE" ELSE "PAUSED"
      BY <1>1, <1>17, Ranges DEF PauseDone, PausedFrom
    <2>3. m_state' \notin Played \/ m_state \in {"MUTE", "PAUSED_MUTE"}
      BY <2>2 DEF Played
    <2>4. m_state' \in Ramping => m_state \in Ramping
      BY <2>2 DEF Ramping
    <2>5. QED
      BY <1>17, <2>1, <2>3, <2>4, TaskKeepsSound DEF PauseDone, TooLate
  <1>18. CASE Resume
    <2>1. m_state \in {"PAUSED_UNMUTE", "PAUSED_MUTE", "PAUSED"} /\ irq = {}
      BY <1>1, <1>18 DEF Resume, SetUp, Calls
    <2>2. m_state' = IF m_state = "PAUSED_UNMUTE" THEN "UNMUTE"
                     ELSE IF m_state = "PAUSED_MUTE" THEN "MUTE" ELSE "PLAYING"
      BY <1>1, <1>18, Ranges DEF Resume, ResumedTo
    <2>3. /\ m_state' \notin Played \/ m_state \in {"MUTE", "PAUSED_MUTE"}
          /\ m_state' \in Ramping => m_state \in Ramping
          /\ Sounding
      BY <2>1, <2>2 DEF Played, Ramping, Sounding, Sounds
    <2>4. QED
      BY <1>18, <2>1, <2>3, TaskKeepsSound DEF Resume
  <1>19. CASE SoftMuteISR
    BY <1>19, RampKeepsSound
  <1>20. ASSUME NEW c \in Channel, ISR(c) PROVE SoundInv'
    BY <1>20, ServingKeepsSound
  <1>21. CASE Tick
    BY <1>21, TickKeepsSound
  <1>22. CASE UNCHANGED vars
    BY <1>3, <1>22 DEF vars
  <1>23. QED
    BY <1>4, <1>5, <1>6, <1>7, <1>8, <1>9, <1>10, <1>11, <1>12, <1>13, <1>14, <1>15, <1>16,
       <1>17, <1>18, <1>19, <1>20, <1>21, <1>22
    DEF Next, Task, Continue, Interrupts

(* The semaphore is posted where a sound comes to its end, and the one     *)
(* that has come to it does not come to it again.                          *)
LEMMA PostsStep ==
    BaseInv /\ SoundInv /\ PostsInOrder /\ [Next]_vars => PostsInOrder'
  <1>. SUFFICES ASSUME BaseInv, SoundInv, PostsInOrder, [Next]_vars PROVE PostsInOrder'
    OBVIOUS
  <1>1. /\ m_state \in States /\ posts \in 0..2
        /\ m_pWav = None => m_state \in {"NO_DAC", "NOT_LOADED"}
        /\ Busy <=> m_state \in On
        /\ Between("PAUSED_UNMUTE", "PAUSED")
             <=> m_state \in {"PAUSED_UNMUTE", "PAUSED_MUTE", "PAUSED"}
        /\ pc = "pause" => m_state \in On \cup {"FINISHED"}
    BY Guards, SoundTypes DEF BaseInv, BuffersInOrder, ClockInOrder
  <1>2. Post => posts' = IF posts < 2 THEN posts + 1 ELSE 2
    BY <1>1, MinOfTwo DEF Post
  <1>. USE DEF PostsInOrder, history
  <1>3. ASSUME m_state' = m_state \/ (m_state # "FINISHED" /\ m_state' # "FINISHED"),
               UNCHANGED posts, ending \subseteq ending'
        PROVE  PostsInOrder'
    BY <1>3
  <1>4. ASSUME m_state' # "FINISHED", posts' = 0 PROVE PostsInOrder'
    BY <1>4
  <1>5. ASSUME NEW c \in Channel, SetChannelDAC(c) PROVE PostsInOrder'
    BY <1>1, <1>3, <1>5 DEF SetChannelDAC
  <1>6. CASE SetTimer
    BY <1>1, <1>3, <1>6 DEF SetTimer
  <1>7. ASSUME NEW b \in Array, OpenBuffer(b) PROVE PostsInOrder'
    BY <1>4, <1>7 DEF OpenBuffer, Open, NoHistory
  <1>8. ASSUME NEW f \in Disk, OpenFile(f) PROVE PostsInOrder'
    BY <1>4, <1>8 DEF OpenFile, Open, NoHistory
  <1>9. CASE ResetBuffer
    BY <1>4, <1>9 DEF ResetBuffer, NoHistory
  <1>10. ASSUME NEW n \in Counts, Loop(n) PROVE PostsInOrder'
    BY <1>4, <1>10 DEF Loop
  <1>11. CASE OpenFileFails \/ StopMask \/ StopCritical \/ PauseCall
    BY <1>3, <1>11 DEF OpenFileFails, StopMask, StopCritical, PauseCall
  <1>12. CASE StopCall \/ StopGraceful
    BY <1>3, <1>12 DEF StopCall, StopGraceful
  <1>13. CASE StopDone
    BY <1>1, <1>2, <1>13 DEF StopDone, TooLate
  <1>14. CASE PauseDone
    <2>1. m_state' = IF m_state = "UNMUTE" THEN "PAUSED_UNMUTE"
                     ELSE IF m_state = "MUTE" THEN "PAUSED_MUTE" ELSE "PAUSED"
      BY <1>1, <1>14, Ranges DEF PauseDone, PausedFrom
    <2>2. QED
      BY <1>14, <2>1 DEF PauseDone, TooLate
  <1>15. CASE Resume
    <2>1. m_state' = IF m_state = "PAUSED_UNMUTE" THEN "UNMUTE"
                     ELSE IF m_state = "PAUSED_MUTE" THEN "MUTE" ELSE "PLAYING"
      BY <1>1, <1>15, Ranges DEF Resume, ResumedTo
    <2>2. QED
      BY <1>1, <1>3, <1>15, <2>1 DEF Resume
  <1>16. CASE SoftMuteISR
    BY <1>1, <1>2, <1>16 DEF SoftMuteISR, Unmute, Mute
  <1>17. ASSUME NEW c \in Channel, ISR(c) PROVE PostsInOrder'
    <2>1. /\ m_state' = m_state \/ m_state' = "MUTE"
          /\ c \in irq /\ UNCHANGED <<posts, ending>>
      BY <1>17 DEF ISR, NextBlock, NextPlay, LastPlay
    <2>2. m_state = "FINISHED" => ending \cap {"late", "leftover"} # {}
      BY <2>1, SoundFacts DEF EndInOrder, Sounding, Sounds, Played
    <2>3. QED
      BY <2>1, <2>2
  <1>18. CASE Tick
    BY <1>3, <1>18 DEF Tick
  <1>19. CASE UNCHANGED vars
    BY <1>3, <1>19 DEF vars
  <1>20. QED
    BY <1>5, <1>6, <1>7, <1>8, <1>9, <1>10, <1>11, <1>12, <1>13, <1>14, <1>15, <1>16, <1>17,
       <1>18, <1>19
    DEF Next, Task, Continue, Interrupts

(* The three parts together are inductive.                                 *)
LEMMA Invariant == Spec => []IInv
  <1>1. Init => IInv
    <2>1. ASSUME Init PROVE SoundInv /\ PostsInOrder
      BY <2>1 DEF Init, SoundInv, PostsInOrder, Sounding, Sounds, Ramping, Played
    <2>2. QED
      BY <2>1, BaseInit DEF IInv
  <1>2. IInv /\ [Next]_vars => IInv'
    BY BuffersStep, ClockStep, ChannelsStep, RampsStep, SoundStep, PostsStep DEF IInv, BaseInv
  <1>3. QED
    BY <1>1, <1>2, PTL DEF Spec

-----------------------------------------------------------------------------
(* A sound that comes to its end by itself has been played as often as     *)
(* Loop() was asked to, on every channel of the file, and no request is    *)
(* left enabled, though the first channel that is done ends it: whatever   *)
(* the interrupts preempt.                                                 *)
THEOREM SoundsEndInOrder == Spec => []EndsAfterAllPlays
  <1>1. IInv => EndsAfterAllPlays
    <2>1. SUFFICES ASSUME IInv, EndedByItself
                   PROVE  erq = {} /\ \A c \in Used : played[c] = asked
      BY DEF EndsAfterAllPlays
    <2>2. /\ m_state \in Played /\ irq \cap Channel = {} /\ Undisturbed
          /\ ending \cap {"leftover", "stop", "graceful", "late"} = {}
      BY <2>1 DEF EndedByItself, Played, Undisturbed
    <2>3. InStep /\ EndInOrder /\ Used \subseteq Channel
      BY <2>1, <2>2, SoundFacts, SoundTypes DEF IInv, Sounding, Sounds
    <2>4. \A c \in Used : Through(c)
      BY <2>2, <2>3 DEF EndInOrder
    <2>5. QED
      BY <2>2, <2>3, <2>4 DEF Through, InStep
  <1>2. QED
    BY Invariant, <1>1, PTL

(* The semaphore given to Loop() is posted when the sound is finished, by  *)
(* the ramp to zero or by Stop(), and once only, unless the sound finishes *)
(* while a call is already past its test.                                  *)
THEOREM SemaphorePostedOnce == Spec => []PostedOnce
  <1>1. IInv => PostedOnce
    BY Guards DEF IInv, PostsInOrder, PostedOnce, On
  <1>2. QED
    BY Invariant, <1>1, PTL

(* A repetition is counted only when every sample of the file has been     *)
(* moved in it, for every length of file and size of block.                *)
THEOREM RepetitionsAreWhole == Spec => WholeRepetitions
  <1> DEFINE Whole == \A c \in Channel : played'[c] = played[c] + 1 => moved[c] = len[c]
  <1>1. ASSUME IInv, [Next]_vars PROVE [Whole]_vars
    <2>1. /\ BaseInv /\ SoundInv
          /\ played \in [Channel -> 0..MaxPlayed] /\ MaxPlayed \in Nat
      BY <1>1, SoundTypes, WavAssumption DEF IInv, MaxPlayed
    <2>2. UNCHANGED played => Whole
      BY <2>1
    <2>3. played' = [c \in Channel |-> 0] => Whole
      BY <2>1
    <2>. USE DEF history
    <2>4. ASSUME NEW c \in Channel, SetChannelDAC(c) PROVE Whole
      BY <2>2, <2>4 DEF SetChannelDAC
    <2>5. CASE SetTimer
      BY <2>2, <2>5 DEF SetTimer
    <2>6. ASSUME NEW b \in Array, OpenBuffer(b) PROVE Whole
      BY <2>3, <2>6 DEF OpenBuffer, Open, NoHistory
    <2>7. ASSUME NEW f \in Disk, OpenFile(f) PROVE Whole
      BY <2>3, <2>7 DEF OpenFile, Open, NoHistory
    <2>8. CASE OpenFileFails
      BY <2>2, <2>8 DEF OpenFileFails
    <2>9. CASE ResetBuffer
      BY <2>3, <2>9 DEF ResetBuffer, NoHistory
    <2>10. ASSUME NEW n \in Counts, Loop(n) PROVE Whole
      BY <2>3, <2>10 DEF Loop
    <2>11. CASE StopCall \/ StopGraceful \/ PauseCall \/ Resume
      BY <2>2, <2>11 DEF StopCall, StopGraceful, PauseCall, Resume
    <2>12. CASE Continue
      BY <2>2, <2>12 DEF Continue, StopMask, StopCritical, StopDone, PauseDone
    <2>13. CASE SoftMuteISR
      BY <2>2, <2>13 DEF SoftMuteISR
    <2>14. ASSUME NEW c \in Channel, ISR(c) PROVE Whole
      <3>1. \A d \in Channel \ {c} : played'[d] = played[d]
        BY <2>1, <2>14, Serving
      <3>2. ASSUME played'[c] = played[c] + 1 PROVE moved[c] = len[c]
        <4>1. played'[c] = PlayedAfter(c)
          BY <2>1, <2>14, Serving
        <4>2. ~More(c) /\ Undisturbed
          BY <2>1, <3>2, <4>1 DEF PlayedAfter
        <4>3. Sounding /\ "leftover" \notin ending /\ c \in irq
          BY <2>1, <2>14, <4>2
          DEF ISR, BaseInv, ClockInOrder, On, Sounding, Sounds, Ramping, Played, Undisturbed
        <4>4. InStep /\ BlocksAddUp
          BY <2>1, <4>3, SoundFacts
        <4>5. c \in Used
          BY <4>3, <4>4 DEF InStep
        <4>6. irq \cap Channel # {} => m_state \notin Ramping
          BY <2>1, <4>3 DEF BaseInv, RampsInOrder
        <4>7. QED
          BY <2>1, <2>14, <4>2, <4>3, <4>4, <4>5, <4>6, ServingKeepsBlocks
      <3>3. QED
        BY <2>1, <3>1, <3>2
    <2>15. CASE Tick
      BY <2>2, <2>15 DEF Tick
    <2>16. QED
      BY <1>1, <2>4, <2>5, <2>6, <2>7, <2>8, <2>9, <2>10, <2>11, <2>12, <2>13, <2>14, <2>15
      DEF Next, Task, Interrupts
  <1>2. QED
    BY Invariant, <1>1, PTL DEF Spec, WholeRepetitions
=============================================================================
