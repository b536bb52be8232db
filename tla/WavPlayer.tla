----------------------------- MODULE WavPlayer ------------------------------
(***************************************************************************)
(* The WAV player of the MOD5441x: one task calls its operations; a timer  *)
(* paces two DACs, each fed by a DMA channel; the timer's interrupt moves  *)
(* the output to the first sample (UNMUTE) and back to zero (MUTE), the    *)
(* DMA's interrupt strings the blocks of a file and its repetitions        *)
(* together.  Interrupts preempt the task between any two of its           *)
(* statements, and are served before the next sample is due.               *)
(***************************************************************************)
EXTENDS Integers, FiniteSets, FiniteSetsExt

CONSTANTS MaxCount,    (* TCD_CITER_MAX_COUNT, samples in one DMA block     *)
          Forever,     (* 0xFFFF, the count the interrupt never decreases   *)
          Array,       (* the buffers that OpenBuffer() is called with      *)
          wavBuffer,   (* the buffer files are read into                    *)
          File,        (* WAV files: [kind, size, channels]                 *)
          Disk,        (* those that are on the disk                        *)
          Counts       (* the playCounts that Loop() is called with         *)

Channel == {0, 1}
Kinds == {"good", "bad", "torn"}

ASSUME WavAssumption ==
    /\ MaxCount \in Nat \ {0} /\ Forever \in Nat \ {0}
    /\ wavBuffer \notin Array /\ "none" \notin Array \cup {wavBuffer}
    /\ File \subseteq [kind : Kinds, size : Nat \ {0}, channels : {1, 2}]
    /\ Disk \subseteq File /\ Disk # {}
    /\ Counts \subseteq Nat

Buffer == Array \cup {wavBuffer}
None == "none"

VARIABLES
    m_state, m_mode,
    dacs,          (* the channels with a DAC                               *)
    m_timer,       (* SetTimer() has been called                            *)
    m_pWav,        (* the buffer in use, or None                            *)
    image,         (* the file in each buffer                               *)
    content,       (* raw, prepared for the DAC, torn or overwritten        *)
    len,           (* per channel: the samples ConfigDMA() has set it up for*)
    transfersRem, m_playsRem,           (* per channel                      *)
    erq, citer, dreq,                   (* per channel: the DMA's registers *)
    running,       (* the timer's clock is on                               *)
    txmr,          (* "interrupt" or "dma": what a timer event causes       *)
    dac,           (* the output: 0, or 1 for any other level               *)
    irq,           (* the pending interrupts                                *)
    pc,            (* where the task is within Stop() or Pause()            *)
    posts,         (* history: posts of the last Loop()'s semaphore         *)
    moved,         (* history: samples moved in this repetition             *)
    played,        (* history: repetitions finished                         *)
    asked,         (* history: the playCount of the last Loop()             *)
    ending         (* history: what has interfered with this sound          *)

filing == <<m_mode, m_pWav, image, content>>
dma == <<len, transfersRem, m_playsRem, erq, citer, dreq>>
output == <<running, txmr, dac, irq>>
history == <<posts, moved, played, asked, ending>>
setup == <<dacs, m_timer>>
vars == <<m_state, setup, filing, dma, output, pc, history>>

(* The states in the order the guards compare them. *)
Rank == [NO_DAC |-> 0, NO_TIMER |-> 1, NOT_LOADED |-> 2, NOT_PROCESSED |-> 3,
         BUFFER_RESET |-> 4, PROCESSED |-> 5, READY |-> 6, PLAYING |-> 7,
         UNMUTE |-> 8, MUTE |-> 9, PAUSED_UNMUTE |-> 10, PAUSED_MUTE |-> 11,
         PAUSED |-> 12, FINISHED |-> 13]
Between(lo, hi) == Rank[lo] <= Rank[m_state] /\ Rank[m_state] <= Rank[hi]

size == image[m_pWav].size
Used == {c \in dacs : c < image[m_pWav].channels}

(* The constructor: no DAC, no timer, no file. *)
Init ==
    /\ m_state = "NO_DAC" /\ m_mode = "NONE"
    /\ dacs = {} /\ m_timer = FALSE
    /\ m_pWav = None
    /\ image \in {f \in [Buffer -> File] : f[wavBuffer] = CHOOSE g \in Disk : TRUE}
    /\ content = [b \in Buffer |-> "raw"]
    /\ len = [c \in Channel |-> 1]
    /\ transfersRem = [c \in Channel |-> 0]
    /\ m_playsRem = [c \in Channel |-> 0]
    /\ erq = {} /\ dreq = {}
    /\ citer = [c \in Channel |-> 0]
    /\ running = FALSE /\ txmr = "interrupt" /\ dac = 0 /\ irq = {}
    /\ pc = "idle"
    /\ posts = 0 /\ asked = 0 /\ ending = {}
    /\ moved = [c \in Channel |-> 0] /\ played = [c \in Channel |-> 0]

(* The task runs when no interrupt is pending. *)
Calls == pc = "idle" /\ irq = {}

(***************************************************************************)
(* Setting up.  m_timer is unsigned: "m_timer < 0" is never true, and the  *)
(* state NO_TIMER is never entered.                                        *)
(***************************************************************************)
SetChannelDAC(c) ==
    /\ Calls /\ m_pWav = None
    /\ dacs' = dacs \cup {c}
    /\ m_state' = "NOT_LOADED"
    /\ UNCHANGED <<m_timer, filing, dma, output, pc, history>>

SetTimer ==
    /\ Calls /\ m_pWav = None
    /\ m_timer' = TRUE
    /\ m_state' = IF dacs # {} THEN "NOT_LOADED" ELSE "NO_DAC"
    /\ UNCHANGED <<dacs, filing, dma, output, pc, history>>

(***************************************************************************)
(* Opening a file.                                                         *)
(***************************************************************************)
Busy == Between("PLAYING", "MUTE")
SetUp == Calls /\ dacs = Channel /\ m_timer

(* ConfigDMA() for a file of n samples in channels cs. *)
transfersFor(n) == n \div MaxCount
finalTransferSize(n) == n % MaxCount
transferSize(n) == Min({n, MaxCount})
OneBlockLeft(rem) == rem <= 1

ConfigDMA(n, cs) ==
    /\ len' = [c \in Channel |-> IF c \in cs THEN n ELSE len[c]]
    /\ transfersRem' = [c \in Channel |->
           IF c \in cs THEN transfersFor(n) ELSE transfersRem[c]]
    /\ citer' = [c \in Channel |-> IF c \in cs THEN transferSize(n) ELSE citer[c]]
    /\ dreq' = (dreq \ cs) \cup {c \in cs : OneBlockLeft(transfersFor(n))}

(* Mutant of restores: the buffer is only reverted while it is playing.    *)
MutantRestores == Between("PLAYING", "FINISHED") /\ m_mode = "BUFFER"
restores == Between("PROCESSED", "FINISHED") /\ m_mode = "BUFFER"

(* What is in the buffers once the one in use has been reset. *)
Restored(cont) == IF restores THEN [cont EXCEPT ![m_pWav] = "raw"] ELSE cont

(* What is left of a file that ParseHeader() and PrepareData() have seen:  *)
(* an error puts the header back, but not if a chunk is missing.           *)
Parsed(kind) == CASE kind = "good" -> "prepared"
                  [] kind = "bad"  -> "raw"
                  [] kind = "torn" -> "torn"

(* The histories are those of the last sound, until another file, or the   *)
(* same one again, is made ready.                                          *)
NoHistory ==
    /\ posts' = 0 /\ asked' = 0 /\ ending' = {}
    /\ moved' = [c \in Channel |-> 0] /\ played' = [c \in Channel |-> 0]

(* OpenBuffer(b) with file f in b, the buffers being in the state cont:    *)
(* what is prepared a second time is destroyed.                            *)
(* Until ConfigDMA() the lengths of the sound before are kept.             *)
Open(b, f, cont) ==
    /\ m_pWav' = b
    /\ NoHistory
    /\ content' = [Restored(cont) EXCEPT ![b] =
                        IF @ = "raw" THEN Parsed(f.kind) ELSE "torn"]
    /\ IF f.kind = "good"
         THEN /\ m_state' = "READY"
              /\ ConfigDMA(f.size, {c \in dacs : c < f.channels})
         ELSE /\ m_state' = "NOT_PROCESSED"
              /\ UNCHANGED <<len, transfersRem, citer, dreq>>
    /\ UNCHANGED <<setup, m_playsRem, erq, output, pc>>

(* A torn header is not parsed again: the search for its chunks runs past  *)
(* the end of the buffer.                                                  *)
OpenBuffer(b) ==
    /\ SetUp /\ ~Busy
    /\ content[b] # "torn"
    /\ Open(b, image[b], content)
    /\ m_mode' = IF image[b].kind = "good" THEN "BUFFER" ELSE m_mode
    /\ UNCHANGED image

OpenFile(f) ==
    /\ SetUp /\ ~Busy
    /\ image' = [image EXCEPT ![wavBuffer] = f]
    /\ Open(wavBuffer, f, [content EXCEPT ![wavBuffer] = "raw"])
    /\ m_mode' = IF Rank[m_state'] > Rank["NOT_LOADED"] THEN "FILE" ELSE m_mode

(* The read comes up short: the buffer has been written over, the state is *)
(* what it was.  That matters if the buffer is in use.                     *)
OpenFileFails ==
    /\ SetUp /\ ~Busy
    /\ m_pWav = wavBuffer
    /\ content' = [content EXCEPT ![wavBuffer] = "overwritten"]
    /\ UNCHANGED <<m_state, setup, m_mode, m_pWav, image, dma, output, pc,
                   history>>

ResetBuffer ==
    /\ SetUp /\ ~Busy
    /\ Between("PROCESSED", "FINISHED")
    /\ content[m_pWav] # "overwritten"
    /\ content' = [content EXCEPT ![m_pWav] = "raw"]
    /\ m_state' = IF Between("READY", "FINISHED") THEN "BUFFER_RESET"
                                                  ELSE "NOT_PROCESSED"
    /\ NoHistory
    /\ UNCHANGED <<setup, m_mode, m_pWav, image, dma, output, pc>>

(***************************************************************************)
(* Playing.                                                                *)
(***************************************************************************)
(* Mutant of Repeats: the first play is not counted. *)
MutantRepeats(playCount) == playCount
Repeats(playCount) == playCount - 1

(* Loop(playCount, wavFinishedSem); Play() is Loop(1).  In another state   *)
(* the semaphore given is posted at once, and nothing else changes.  What  *)
(* is in the buffer is not looked at: the model stops at an overwritten    *)
(* one, whose sound is anything.  A request that Stop() left enabled is    *)
(* still there.                                                            *)
Loop(playCount) ==
    /\ SetUp
    /\ m_state \in {"BUFFER_RESET", "READY", "FINISHED"}
    /\ content[m_pWav] # "overwritten"
    /\ content' = [content EXCEPT ![m_pWav] =
                        IF m_state = "BUFFER_RESET" THEN Parsed("good") ELSE @]
    /\ ConfigDMA(size, Used)
    /\ m_playsRem' = [c \in Channel |-> Repeats(playCount)]
    /\ running' = TRUE /\ txmr' = "interrupt"
    /\ m_state' = "UNMUTE"
    /\ posts' = 0 /\ asked' = playCount
    /\ moved' = [c \in Channel |-> 0] /\ played' = [c \in Channel |-> 0]
    /\ ending' = IF erq # {} THEN {"leftover"} ELSE {}
    /\ UNCHANGED <<setup, m_mode, m_pWav, image, erq, dac, irq, pc>>

Post == posts' = Min({posts + 1, 2})

(* The sound has finished by itself since the call tested the state. *)
TooLate == ending' = ending \cup (IF m_state = "FINISHED" THEN {"late"} ELSE {})

Stoppable == Between("PLAYING", "PAUSED")

(* Stop(): the state is tested before the critical section is entered, and *)
(* set after it is left.                                                   *)
StopCall ==
    /\ SetUp /\ Stoppable
    /\ pc' = "stop"
    /\ ending' = ending \cup {"stop"}
    /\ UNCHANGED <<m_state, setup, filing, dma, output, posts, moved, played,
                   asked>>

StopMask ==
    /\ pc = "stop" /\ irq = {}
    /\ pc' = "masked"
    /\ UNCHANGED <<m_state, setup, filing, dma, output, history>>

StopCritical ==
    /\ pc = "masked"
    /\ running' = FALSE
    /\ m_playsRem' = [c \in Channel |-> 0]
    /\ transfersRem' = [c \in Channel |-> 0]
    /\ pc' = "stopped"
    /\ UNCHANGED <<m_state, setup, filing, len, erq, citer, dreq, txmr, dac, irq,
                   history>>

StopDone ==
    /\ pc = "stopped" /\ irq = {}
    /\ m_state' = "FINISHED"
    /\ Post
    /\ pc' = "idle"
    /\ TooLate
    /\ UNCHANGED <<setup, filing, dma, output, moved, played, asked>>

StopGraceful ==
    /\ SetUp /\ Stoppable
    /\ m_playsRem' = [c \in Channel |-> 0]
    /\ ending' = ending \cup {"graceful"}
    /\ UNCHANGED <<m_state, setup, filing, len, transfersRem, erq, citer, dreq,
                   output, pc, posts, moved, played, asked>>

(* Pause(): the interrupts may change the state between the test and the   *)
(* switch, until the timer is stopped.                                     *)
PauseCall ==
    /\ SetUp /\ Busy
    /\ pc' = "pause"
    /\ UNCHANGED <<m_state, setup, filing, dma, output, history>>

PausedFrom == [s \in DOMAIN Rank |->
    CASE s = "UNMUTE" -> "PAUSED_UNMUTE" [] s = "MUTE" -> "PAUSED_MUTE"
      [] OTHER -> "PAUSED"]

PauseDone ==
    /\ pc = "pause" /\ irq = {}
    /\ running' = FALSE
    /\ m_state' = PausedFrom[m_state]
    /\ pc' = "idle"
    /\ TooLate
    /\ UNCHANGED <<setup, filing, dma, txmr, dac, irq, posts, moved, played, asked>>

(* Mutant of ResumedTo: a sound paused while it was muted plays on. *)
MutantResumedTo == [s \in DOMAIN Rank |->
    IF s = "PAUSED_UNMUTE" THEN "UNMUTE" ELSE "PLAYING"]
ResumedTo == [s \in DOMAIN Rank |->
    CASE s = "PAUSED_UNMUTE" -> "UNMUTE" [] s = "PAUSED_MUTE" -> "MUTE"
      [] OTHER -> "PLAYING"]

Resume ==
    /\ SetUp /\ Between("PAUSED_UNMUTE", "PAUSED")
    /\ m_state' = ResumedTo[m_state]
    /\ running' = TRUE
    /\ UNCHANGED <<setup, filing, dma, txmr, dac, irq, pc, history>>

(* The histories of a sound are kept until something interferes with it.   *)
Undisturbed == ending \cap {"leftover", "stop"} = {}

(***************************************************************************)
(* The interrupts.                                                         *)
(***************************************************************************)
Timer == 2

(* The ramp to the first sample takes a step, or is done. *)
Unmute ==
    /\ m_state = "UNMUTE"
    /\ IF dac = 0
         THEN dac' = 1 /\ UNCHANGED <<m_state, erq, txmr>>
         ELSE /\ erq' = erq \cup Used
              /\ txmr' = "dma"
              /\ m_state' = "PLAYING"
              /\ UNCHANGED dac
    /\ UNCHANGED <<running, posts>>

(* Mutant of Mute: the sound is reported finished before the ramp is done. *)
MutantMute ==
    /\ m_state = "MUTE"
    /\ Post
    /\ IF dac # 0
         THEN dac' = 0 /\ UNCHANGED <<m_state, running>>
         ELSE running' = FALSE /\ m_state' = "FINISHED" /\ UNCHANGED dac
    /\ UNCHANGED <<erq, txmr>>

(* The ramp to zero. *)
Mute ==
    /\ m_state = "MUTE"
    /\ IF dac # 0
         THEN dac' = 0 /\ UNCHANGED <<m_state, running, posts>>
         ELSE /\ running' = FALSE
              /\ m_state' = "FINISHED"
              /\ Post
              /\ UNCHANGED dac
    /\ UNCHANGED <<erq, txmr>>

(* In any other state the timer's interrupt is not acknowledged: it comes  *)
(* again at once, for ever.                                                *)
SoftMuteISR ==
    /\ pc # "masked" /\ Timer \in irq
    /\ Unmute \/ Mute
    /\ irq' = irq \ {Timer}
    /\ UNCHANGED <<setup, filing, len, transfersRem, m_playsRem, citer, dreq, pc,
                   moved, played, asked, ending>>

(* Mutant of PartIsNext: the samples after the last whole block are        *)
(* forgotten.                                                              *)
LastIsWhole(c) == transfersRem[c] = 2 /\ finalTransferSize(len[c]) = 0
MutantPartIsNext(c) == FALSE
PartIsNext(c) == transfersRem[c] = 1 /\ finalTransferSize(len[c]) > 0

(* More is to be transferred after this block.                             *)
More(c) == transfersRem[c] > 1 \/ PartIsNext(c)

NextBlock(c) ==
    /\ More(c)
    /\ transfersRem' = [transfersRem EXCEPT ![c] = @ - 1]
    /\ dreq' = IF LastIsWhole(c) \/ transfersRem[c] = 1 THEN dreq \cup {c} ELSE dreq
    /\ IF PartIsNext(c)
         THEN /\ citer' = [citer EXCEPT ![c] = finalTransferSize(len[c])]
              /\ erq' = erq \cup {c}
         ELSE UNCHANGED <<citer, erq>>
    /\ UNCHANGED <<m_state, m_playsRem, txmr, moved, played>>

(* An int that counts down from -1 does not come to 0.  Mutant: the count  *)
(* is never decreased.                                                     *)
MutantOneLess(plays) == plays
OneLess(plays) == IF plays = Forever \/ plays < 0 THEN plays ELSE plays - 1

MaxPlayed == Forever + 1
CountPlay(c) ==
    played' = IF Undisturbed THEN [played EXCEPT ![c] = Min({@ + 1, MaxPlayed})]
                             ELSE played

NextPlay(c) ==
    /\ ~More(c) /\ m_playsRem[c] # 0
    /\ transfersRem' = [transfersRem EXCEPT ![c] = transfersFor(len[c])]
    /\ citer' = [citer EXCEPT ![c] = transferSize(len[c])]
    /\ dreq' = IF OneBlockLeft(transfersFor(len[c])) THEN dreq \cup {c}
                                                     ELSE dreq \ {c}
    /\ erq' = erq \cup {c}
    /\ m_playsRem' = [m_playsRem EXCEPT ![c] = OneLess(@)]
    /\ moved' = [moved EXCEPT ![c] = 0]
    /\ CountPlay(c)
    /\ UNCHANGED <<m_state, txmr>>

(* "finished" is true from the constructor on, and never reset: the first  *)
(* channel that is done ends the sound.                                    *)
LastPlay(c) ==
    /\ ~More(c) /\ m_playsRem[c] = 0
    /\ transfersRem' = [transfersRem EXCEPT ![c] = 0]
    /\ dreq' = IF transfersRem[c] = 1 THEN dreq \cup {c} ELSE dreq
    /\ erq' = erq \ {c}
    /\ m_state' = "MUTE" /\ txmr' = "interrupt"
    /\ CountPlay(c)
    /\ UNCHANGED <<m_playsRem, citer, moved>>

(* ISR(dacNum), after RunISR() has picked the channel. *)
ISR(c) ==
    /\ pc # "masked" /\ c \in irq
    /\ irq' = irq \ {c}
    /\ NextBlock(c) \/ NextPlay(c) \/ LastPlay(c)
    /\ UNCHANGED <<setup, filing, len, running, dac, pc, posts, asked, ending>>

(* The period of a sample: each enabled channel moves one to its DAC; the  *)
(* last of a block raises the DMA's interrupt, and switches the channel    *)
(* off if it is to (DREQ).  Interrupts are served within a period.         *)
Tick ==
    /\ running /\ irq = {}
    /\ LET done == {c \in erq : citer[c] = 1} IN
         /\ citer' = [c \in Channel |->
                IF c \notin erq THEN citer[c]
                ELSE IF c \in done THEN transferSize(len[c]) ELSE citer[c] - 1]
         /\ erq' = erq \ (done \cap dreq)
         /\ irq' = done \cup (IF txmr = "interrupt" THEN {Timer} ELSE {})
    /\ moved' = [c \in Channel |->
           IF Undisturbed /\ c \in erq THEN moved[c] + 1 ELSE moved[c]]
    /\ dac' \in IF erq # {} THEN {0, 1} ELSE {dac}
    /\ UNCHANGED <<m_state, setup, filing, len, transfersRem, m_playsRem, dreq,
                   running, txmr, pc, posts, played, asked, ending>>
-----------------------------------------------------------------------------
Task == \/ \E c \in Channel : SetChannelDAC(c)
        \/ SetTimer
        \/ \E b \in Array : OpenBuffer(b)
        \/ \E f \in Disk : OpenFile(f)
        \/ OpenFileFails \/ ResetBuffer
        \/ \E n \in Counts : Loop(n)
        \/ StopCall \/ StopGraceful \/ PauseCall \/ Resume

Continue == StopMask \/ StopCritical \/ StopDone \/ PauseDone

Interrupts == SoftMuteISR \/ \E c \in Channel : ISR(c)

Next == Task \/ Continue \/ Interrupts \/ Tick

Spec == Init /\ [][Next]_vars

(* The clock runs, its interrupts are served and leave the task time to go *)
(* on with a call it has begun; the program need not make another one.     *)
FairSpec == Spec /\ WF_vars(Tick) /\ WF_vars(Interrupts) /\ SF_vars(Continue)
-----------------------------------------------------------------------------
TypeOK ==
    /\ m_state \in DOMAIN Rank /\ m_mode \in {"NONE", "BUFFER", "FILE"}
    /\ dacs \subseteq Channel /\ m_timer \in BOOLEAN
    /\ m_pWav \in Buffer \cup {None}
    /\ image \in [Buffer -> File]
    /\ content \in [Buffer -> {"raw", "prepared", "torn", "overwritten"}]
    /\ len \in [Channel -> Nat \ {0}]
    /\ transfersRem \in [Channel -> Nat]
    /\ m_playsRem \in [Channel -> {-1} \cup Nat]
    /\ erq \subseteq Channel /\ dreq \subseteq Channel
    /\ citer \in [Channel -> 0..MaxCount]
    /\ running \in BOOLEAN /\ txmr \in {"interrupt", "dma"} /\ dac \in {0, 1}
    /\ irq \subseteq Channel \cup {Timer}
    /\ pc \in {"idle", "stop", "masked", "stopped", "pause"}
    /\ posts \in 0..2 /\ asked \in Counts \cup {0}
    /\ moved \in [Channel -> Nat] /\ played \in [Channel -> 0..MaxPlayed]
    /\ ending \subseteq {"leftover", "stop", "stopInMute", "graceful",
                        "late"}

(* Every repetition is whole: the blocks of up to MaxCount samples, with   *)
(* or without a shorter last one, add up to the file.  Requests that a     *)
(* Stop() left enabled are the exception, as is Stop() itself.             *)
WholeRepetitions ==
    [][\A c \in Channel :
         played'[c] = played[c] + 1 => moved[c] = len[c]]_vars

(* A sound that comes to its end by itself has been played as often as it  *)
(* was asked for, on every channel of the file.                            *)
EndedByItself ==
    /\ m_state \in {"MUTE", "PAUSED_MUTE", "FINISHED"}
    /\ pc = "idle" /\ irq \cap Channel = {}
    /\ ending \cap {"leftover", "stop", "graceful", "late"} = {}
EndsAfterAllPlays ==
    EndedByItself
      => /\ erq = {}
         /\ \A c \in Used : played[c] = asked

(* The semaphore of a sound is posted when it is finished, and only once,  *)
(* unless it finishes while Stop() or Pause() is already past its test, or *)
(* a channel that an earlier Stop() left enabled ends it a second time.    *)
PostedOnce ==
    /\ m_state = "FINISHED" => posts >= 1
    /\ Busy /\ pc = "idle" => posts = 0 \/ ending \cap {"late", "leftover"} # {}
    /\ posts > 1 => ending \cap {"late", "leftover"} # {}

(* A buffer is what the file was again as soon as the player has let go of *)
(* it, and is prepared exactly once while the player has it: unless a      *)
(* chunk is missing, or OpenFile() failed after it had read into it.       *)
BuffersRestored ==
    /\ TypeOK
    /\ \A b \in Array \ {m_pWav} : content[b] \in {"raw", "torn"}
    /\ Between("READY", "FINISHED") =>
          \/ content[m_pWav] = "prepared"
          \/ content[m_pWav] = "overwritten" /\ m_mode = "FILE"
    /\ m_state \in {"NOT_PROCESSED", "BUFFER_RESET"} =>
          content[m_pWav] # "prepared"

(* While the output is led to the first sample no sample is moved to it,   *)
(* unless an earlier sound was stopped, or given up while it was paused:   *)
(* its requests are still enabled.  And the timer never interrupts in a    *)
(* state that does not acknowledge it: the interrupt would return for      *)
(* ever, and the task never run again.  It can, if the sound finishes      *)
(* while Pause() is past its test: Resume() then starts the timer for a    *)
(* sound that is over.                                                     *)
RampsUndisturbed ==
    /\ m_state = "UNMUTE" /\ "leftover" \notin ending => erq = {}
    /\ Timer \in irq => m_state \in {"UNMUTE", "MUTE"} \/ "late" \in ending

(* A sound that was asked for a number of times ends, unless it is paused, *)
(* or the number is so large that the count comes down to the one that the *)
(* interrupt takes for "for ever"; and so does every sound after Stop() or *)
(* StopGraceful().                                                         *)
Endless == /\ asked = 0 \/ asked > Forever
           /\ ending \cap {"stop", "graceful"} = {}
EveryPlayEnds ==
    Busy /\ ~Endless /\ "leftover" \notin ending
      ~> \/ m_state \in {"FINISHED", "PAUSED", "PAUSED_MUTE", "PAUSED_UNMUTE"}
         \/ "late" \in ending
=============================================================================
