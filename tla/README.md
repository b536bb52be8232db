# TLA+ models of the NetBurner examples

NetBurnerExamples is a collection of about a hundred programs for NetBurner's network modules:
small servers and clients, bridges between a serial port and the network, web pages, and drivers
for particular boards. They run on the NNDK, NetBurner's RTOS, TCP/IP stack and class library,
which is not part of the repository. Most examples are one call of a library function in a loop.
This project is about those that have behaviour of their own: state that two tasks, an interrupt
handler, a remote peer or a reset can disturb.

Each program is modelled from its source. What belongs to the NNDK or to the hardware (`select()`,
the queue of a listening socket, a DMA channel, the system clock) is modelled from how the program
uses it, and kept apart in the modules under the heading "The environment" or "The ring and the
DMA channel".

## 1. Inventory

### Modelled

| component | state | operations | what makes it hard |
|---|---|---|---|
| **SerialBurner, data pump** (`serial/SerialBurner/src/datapump.cpp`) | two buffers with a start and an end index, one tick counter for two timeouts | one call of `DataPump()`: set up the fd sets, `select()`, read, write, error, override, timeout | partial reads and writes in any order of readiness; a counter shared by two timeouts; values that go through a 16-bit field |
| **SerialBurner, server and settings page** (`main.cpp`, `webfuncs.cpp`, `nvsettings.h`, `html/index.html`) | settings in RAM and in flash, the flag `bChangeServerListenPort`, the listening socket, the connection, the serial port | `UserMain`: load the settings field by field or save the defaults, open the serial port, listen, relisten, accept, pump, close; the web server's task: one POST, field by field, and the save at its end | two tasks share all of it without a lock, from before the settings are loaded; the device may lose power between any two steps; `listen()` and every save may fail |
| **TcpToSerial** (`serial/TcpToSerial`) | the connection, the tick counter | accept, one `select()` pass, inactivity timeout, override | an error and an override found in the same pass |
| **DualTcpToSerial** (`serial/DualTcpToSerial`) | per task: the listening socket (closed while a client is served), the connection, the tick of the last activity | `SerialToEthernetFunction()`, which both tasks run with their own port and descriptors | unsigned arithmetic on a clock that wraps; a socket that is reopened while a client is served |
| **SSC/I2S driver and its task** (`PlatformSpecific/MODM7AE70/SSC_I2S`) | per direction a ring of DMA descriptors, a semaphore, an interrupt handler; a pool of buffers and a queue | `TransmitBuffer()`, `ReadyReceiveBuffer()`, `TxIsr()`, `RxIsr()`, the callbacks, `I2STask` | task, two handlers and two DMA channels, the channels going on while the handlers look at them; DMA errors in the middle of a call |
| **WavPlayer** (`PlatformSpecific/MOD5441x/WavPlayer`) | the player's state, the buffer in use and whether it has been converted, per DAC channel the blocks and repetitions left, the registers of timer and DMA | `OpenBuffer()`, `OpenFile()`, `ResetBuffer()`, `Loop()`, `Pause()`, `Resume()`, `Stop()`, `StopGraceful()`, the timer's and the DMA's interrupt handlers | calls that test the state before their critical section; registers one sound leaves to the next; block and repetition counts at their boundaries |
| **TcpMultiSocketServer** (`TCP/TcpMultiSocketServer`) | a table of descriptors, the listening socket, the sets of `select()` | one pass of the loop: accept or turn away, listen again, every slot in turn | the numbers of closed descriptors stand for new connections in the same pass |
| **DIPSwitches** (`WebSockets/DIPSwitches`) | the one websocket, a flag and a semaphore; the buffer a message is assembled in, with a count of braces; the last switch states | the web server's upgrade, `InputTask`, `UserMain` | three tasks, two priorities and no lock; messages in pieces; a connection lost in the middle of one |
| **SimpleUDPToSerial** (`udp/SimpleUDPToSerial`) | the settings in RAM and flash, a flag per kind of change, the port listened on, the destination | `UserMain`, `UdpReader`, the web server's POST | settings stored and copied field by field by different tasks; a restart and a power cycle at any time |

How they interact:

- SerialBurner's `UserMain` calls `DataPump()` for every connection it accepts. The call returns a
  descriptor after an error on it and 0 otherwise, and that number is all `UserMain` learns.
- SerialBurner's web server runs in a task of its own, started before the settings are loaded. It
  shares with `UserMain` the record `NV_Settings`, the flag, the serial port and the flash, and both
  call `InitializeSerialPorts()`, which closes the port and opens it again in two steps.
  `DataPump()` reads its timeouts from the flash, not from the record.
- DualTcpToSerial starts two tasks over the same function. They share the stack and the console,
  and nothing in the model: one instance of it is one task.
- WavPlayer's handlers run between any two statements of the task's calls; handler and task share the
  player's state and the registers, and the end of a sound posts the semaphore of its `Loop()`.
- TcpMultiSocketServer is a single task; what it interacts with is the stack, which gives it the
  smallest free descriptor numbers again.
- DIPSwitches' web server stores the upgraded connection in `ws_fd` and posts `SockReadySem` for `InputTask`,
  which reads the page's messages and closes the connection; `UserMain` polls `ws_fd` and reports the switches
  to it. `InputTask` has the higher priority, so `UserMain` runs only while it waits.
- SimpleUDPToSerial's web server stores the settings and raises a flag for each; `UdpReader` takes a new local
  port over, and `UserMain` restarts the device for a new destination. `UdpReader` has a lower priority than
  `UserMain` and runs while that one waits in `select()`.
- In SSC_I2S the task calls the driver, the driver starts and extends the DMA rings, the hardware
  raises interrupts, and the handlers call back into the application, which puts a transmitted buffer
  back into the pool and a received one into the queue the task reads.

What correctness means for each:

- *data pump*: what is read on one side comes out on the other, in order, nothing lost or doubled
  while the call lasts; a dead link is cut; a caller in the queue gets its turn when the settings
  say so and the link pauses, and never when they say never.
- *server and page*: one listening socket, on the configured port; one connection at a time; settings
  that survive a reset; a serial port at the configured rate; a change of port that takes effect.
  (The ReadMe also promises that the link is closed when a session ends. The code does not do it, section 7.)
- *TcpToSerial, DualTcpToSerial*: one client at a time, in the order they connected, cut or replaced
  only after it was idle for the time configured; and not much later, provided that what counts the
  time, a `select()` that times out, is given the chance to.
- *SSC/I2S*: semaphores and rings agree; a buffer is handed over only when the channel is through
  with it; no buffer is lost or in two places; the audio goes on.
- *WavPlayer*: a sound is played in whole repetitions and as often as asked, its semaphore posted once; the
  caller's buffer is given back as it was; the output is led to the first sample before any is played; no
  interrupt is raised in a state that does not acknowledge it.
- *TcpMultiSocketServer*: the table is the set of open connections; nobody is turned away while there is room,
  nobody closed without a reason of its own, no slot lost.
- *DIPSwitches*: one websocket, none forgotten; whole messages, each obeyed once; a page that shows the switches.
- *SimpleUDPToSerial*: one port listened on; no packet to half a destination, no half a submission in flash, once the
  start-up is over; in the end the device works as its page says.

### Not modelled

`PROJECT.json` lists every part of the repository with a reason. In short:

- *Planned next*: `WebSockets/Console`, `Echo` and `Connect` (the websocket of DIPSwitches again, the console
  between several ports), and the handshake of `TCP/TcpStressTest`.
- *Later*: `RTOS/OSFifo` and `OSMultiTaskUserInput`, the update from a file in `EFFS/Fat/AppUpdate`,
  the certificate store of `SSL/HttpsUploadCert`, the key page of `SSH/SshServerUserKey`, `dhcpd`,
  `ppp`; as pure algorithms `Web/TicTacToe` and the LZW coder of `Web/GifCanvas`.
- *Left out*: examples that are a sequence of library calls (DNS, NTP, mail, FTP, WiFi, SSL clients,
  most of UDP and WebClient), register programming and hardware tests, declarations for the
  configuration system, language demonstrations, generated images, and CppUTest, which is vendored.

## 2. Modules

| module | what it is |
|---|---|
| `BytePipe` | abstract: a bounded, lossless, ordered pipe of bytes in each direction |
| `DataPump` | one call of `DataPump()`, with both descriptors and the listening socket; implements `BytePipe` |
| `SerialBurner` | `UserMain`, the web server's task, clients and power cycles |
| `SerialBurnerProofs` | theorems about `DataPump` and `SerialBurner` |
| `OneClient` | abstract: clients queue, and are served one at a time in their order |
| `TcpToSerial` | the task of TcpToSerial; implements `OneClient` |
| `TcpToSerialProofs` | theorems about `TcpToSerial` |
| `DualTcpToSerial` | one of the two tasks of DualTcpToSerial; implements `OneClient` |
| `DualTcpToSerialProofs` | theorems about `DualTcpToSerial` |
| `SscI2s` | driver, interrupt handlers, DMA channels and `I2STask` |
| `SscI2sProofs` | theorems about `SscI2s` |
| `WavPlayer` | the player's calls and its two interrupt handlers |
| `WavPlayerProofs` | theorems about `WavPlayer` |
| `ManyClients` | abstract: clients queue, and are served in their order as long as there is room |
| `TcpMultiSocketServer` | the task of TcpMultiSocketServer and the stack's descriptors; implements `ManyClients` |
| `TcpMultiSocketServerProofs` | theorems about `TcpMultiSocketServer` |
| `DipSwitches` | the three tasks of DIPSwitches, browsers and another visitor |
| `DipSwitchesProofs` | theorems about `DipSwitches` |
| `SimpleUDPToSerial` | the three tasks of SimpleUDPToSerial, submissions, restarts and power cycles |
| `SimpleUDPToSerialProofs` | theorems about `SimpleUDPToSerial` |
| `MC...` | the instances TLC checks |

Names are the source's where it has one. Definitions whose name begins with `Mutant` are not part of a
model: each is what a definition would be after a plausible slip, and some property must catch it.

### DataPump

`buffer`, `start`, `end` are the arrays of the code, indexed by the side that was read; `tcp_timeout` is
its counter. `rxctr[s]` counts the bytes read from side s (the code keeps the same count for its LEDs)
and `sent[s]` is what was written to it. A byte is its number in the stream, which is enough to tell
lost, doubled and reordered ones apart. One pass of the loop is several steps: `Select` keeps what `select()`
found in `ready`, and then the handlers take turns in the order of the code (`Place`), with the
environment free to act in between: `Read`, `Write`, `Error`, `Yield`. A `select()` that finds
nothing is `SelectTimeout`, and the only step that advances the counter. `Armed` is the top of the loop: per direction it watches the reading
descriptor or the writing one. The environment lets bytes arrive, drains the send queues, lets a
descriptor fail and lets a client knock. `result` is the return value, the two cases of 0 kept apart.

### SerialBurner

`main` is where `UserMain` is, `http` and `step` where the POST is. `UserMain` is split wherever something
another task can see is read or written, from `StartHttp()` on: `CheckNVSettings` asks for the settings in flash, and may get
none (`GetUserParameters`); copies them field by field (`Copy`); tests the key it has copied (`TestKey`); copies the
defaults field by field if it is wrong; and saves them, or fails to (`SaveDefaults`). Then come `LowerFlag` and the two calls of
`InitializeSerialPorts`, `SerialClose` and `OpenSerial`, either of which the other task may get between. In the loop there are
`Check` (the test of the flag), `CloseServer`, `Relisten`, `ClearFlag`, `Accept` or `AcceptNothing` (the timeout of one second,
and the error of a socket that was never opened). `DataPumpReturns` is a whole session; the ways it may end (`Ending`)
are those of `DataPump`, which is where the two modules meet. In the POST every field is a step, in
the order of `index.html`; a new listen port is two, since a line is printed between raising the flag
(`RaiseFlag`) and storing the port (`Store`), and a new baud rate is three, with the port closed and opened (`Reopen`).
`EndOfPost` makes the key right and saves, or fails to. `Target` says which name
reaches which setting, the mistakes of the code included (section 7). `Reset` is a loss of power:
the flash stays, everything else starts again.

### TcpToSerial and DualTcpToSerial

Data passes straight through a local buffer, so it is a flag for each side, waiting or not. In `TcpToSerial`
nothing bounds how often it is raised; `DualTcpToSerial` is only checked for safety, and the clock ends its run anyway, so
that a small bound does (`MaxBatches`). Both run a pass like `DataPump`: `select()`, then the handlers in the order of the code. In `TcpToSerial`
time is the counter the code keeps. In `DualTcpToSerial` it is the clock of the system: `TimeTick`
is a variable modulo `WordSpan` (2^32 in the code), it advances while the task is blocked, and `Idle` is
the code's comparison, sum and all. `quiet` is the true idle time, kept by the model to compare with.

### SscI2s

Which buffer is which never matters, so buffers are counted where they are: `free`, `rxBufQ`, the two
rings, the task's hands. Positions in a ring are counted from `queueHead`, so that reclaiming a descriptor
moves every position down by one. The channel works on descriptor `at` and has already fetched `next`;
the last descriptor links to itself, so a channel that has caught up repeats it. A handler takes its
three views of the channel in `IsrBlock` and again after each descriptor it has reclaimed; the
channel moves on in between (`Complete` is never blocked by a handler). Tasks do not run during a handler.
A driver call is split where a handler can come in between: the wait on the semaphore (`Room`,
`PendTimeout`, `NoRoom`), the test of `state` (`Running`, or `Start` with interrupts off), `Add`.
The round of `I2STask` chooses freely between the settings of the two switches.
`extra` counts how many buffers are counted twice, after a reception was queued whose buffer had
been handed back; `slips` counts how often that happened.

### WavPlayer

`m_state` is the player's. A buffer's `content` is what the code does to it in place: raw samples, samples prepared for
the DAC, a header torn between two byte orders, or what a failed read left. Per channel `len` is the number of
samples `ConfigDMA()` set it up for, `transfersRem` and `m_playsRem` are the code's counts, `citer` and `erq` the
registers that drive it. A `Tick` is a sample; it moves one on every channel with requests enabled, or raises the
timer's interrupt, depending on `txmr`. `ISR` is the DMA's handler, `SoftMuteISR` the timer's. Calls that test the
state and act on it later are split at the test (`pc`): `StopCall`, `StopMask`, `StopCritical`, `StopDone`,
`PauseCall`, `PauseDone`. `ending` keeps what interfered with a sound, since the properties hold with exceptions:
`late`, a Stop or a Pause that was past its test when the sound ended; `leftover`, requests an earlier Stop left enabled.

### TcpMultiSocketServer

`fdArray` is the table, `slot` where the pass is, `readFds` and `errorFds` the sets as `select()` left them. `socket`
says who each descriptor stands for at the moment, so that a stale number is one that stands for somebody else.
`Accept` takes the lowest free number (`Place`) or gets an error, `ProcessSlot` is one round of the inner loop with its close, `Listen` the
reopening after an error of the listening socket, which may fail, as the first `listen()` may. Clients send, quit, close or reset, and may
withdraw before they are accepted. What a client has sent and nobody has read is data, a 'Q' in front, or a 'Q' behind
data (`late`); `Rest` says what a read leaves of it: of the last one either nothing, and the 'Q' is lost, since only
the first byte is looked at, or the 'Q', if the data ended with the buffer.

### DipSwitches

`http`, `input` and `user` are where the three tasks are. The web server's upgrade is split between its test of
`ws_fd`, the store and the post; `InputTask` between `Pend`, `select()`, the read, the parse, the close and the
assignment after it; `UserMain` between looking at the switches, building the report and writing it. Characters are
of the five classes that the parser tells apart, and a character carries the number of its message, which is
enough to see whether what is parsed is one whole message. The `Visitor` is a page request: a connection that is no
websocket but uses the same numbers. `cut`, `missed` and `moved` are the three races behind the exceptions of
section 7.

### SimpleUDPToSerial

A submission is a record of three values, stored field by field (`Store`), each before its flag is raised (`Raise`),
and saved at the end (`EndPost`). `UserMain` takes the settings over while the page is already served: it reads the key
(`ReadKey`), tests it in RAM, where a submission's end may have set it by then (`TestKey`), loads the fields one by one from
flash or from the defaults (`LoadField`), saves the defaults, and copies port and address to where they are used.
It copies these two again, separately, when the flag is up. `Forward` is a return of `select()` and what it found:
serial data, or a byte on the debug port, which is watched and never read (`debugInput`).
`ForceReboot` and `PowerCycle` keep the flash.

## 3. Plan

1. *(done)* the data pump with `BytePipe`, its proofs; the server and page around it.
2. *(done)* the two other bridges, with the abstract `OneClient` they share, and the proofs about both.
3. *(done)* the SSC driver under its task, its proofs.
4. *(done)* `WavPlayer`; `TcpMultiSocketServer` with the abstract `ManyClients`; `DipSwitches`;
   `SimpleUDPToSerial`.
5. *(done)* the proofs about `SerialBurner`, `TcpMultiSocketServer`, `SimpleUDPToSerial` and `WavPlayer`,
   and of `ReplaceableInTime` of `DualTcpToSerial`.
6. *(done)* the proofs about `DipSwitches`.
7. `Console`, `TcpStressTest`; the algorithms: LZW code growth, TicTacToe.

## 4. Runs

All runs are exhaustive. The type invariants of `DataPump` and `SscI2s` are proved and have no run; in the other modules it
is the first conjunct of the first invariant the run checks. Deadlock is reported only for the SSC (`ssc`, `ssc_early`), where the
channels never stop. The others say `CHECK_DEADLOCK FALSE`: the call of the pump returns, `UserMain`
ends if its first `listen()` fails, and otherwise the bounded environment runs out of clients and
clock while the task rightly blocks. That nobody is stuck before that is what the liveness
properties are for.

| run | states | result |
|---|---|---|
| `pump` | 565,692 | all hold |
| `pump_idle` | | `TimedOutMeansIdle` violated |
| `burner` | 828,957 | all hold |
| `burner_flag` | | `FlagTellsOfChange` violated |
| `tcp_safety` | 1,284 | all hold |
| `dual_safety` | 576,827 | all hold |
| `ssc` | 922,962 | all hold |
| `ssc_early` | | `FinishedMeansFinished` violated |
| `wav` | 763,311 | all hold |
| `multi` | 236,025 | all hold |
| `dip` | 572,460 | all hold |
| `udp` | 881,672 | all hold |

**`pump`.** A buffer of two bytes, three bytes from the network (more than a buffer) and one from the
serial port; send queues of one byte, so that writes are partial. A second is two ticks and `select()`
waits three: an inactivity timeout of three seconds is reached exactly, by the second pass, and an
override timeout of one is passed by the first. Inactivity
timeouts 0 and 3; override timeouts 0, 1 and 7, where 7 is "never" (all ones in a word of 8
values, truncated by a field of 4). Longer streams only repeat the refill of an empty buffer, which
three bytes already do. Safety: `BufferHoldsTheGap`, `DeadLinkIsCut`, `NeverMeansNever`, and
the refinement `PumpsLikeAPipe`. Liveness: `EveryByteForwarded`, `SuitorServed`. The latter has two clauses: once the
override timeout has been counted, a caller ends the call whatever else goes on; before that, only if `select()` times out
again and again (`LinkPauses`), since nothing else counts time. The bytes of the run are bounded, so that its traffic does
end; the hypothesis says what of that the code needs, and the first clause does not rest on it.

**`pump_idle`.** The comment of the code says the call returns 0 when nothing has happened for the
inactivity timeout. The counter is advanced by every `select()` that finds nothing and never set back
when bytes move: one byte every few seconds, and the link is cut all the same.

**`burner`.** Two ports, two baud rates, one client, two submissions of the page, one power cycle: enough
for a submission to overlap the start-up, a relisten, another's save and a reset. One submission changes the port and the
rate, the other goes back to the defaults (`Form`); they may come in any order, and either twice. Saves fail,
the flash may be unreadable, `listen()` fails. `OneListener`; `SettingsInForce`: flash, RAM and serial
port agree between submissions, unless the last save or load failed (`saved`), or a submission came before the
serial port was open (`early`); and `ChangeTakesEffect`.

**`burner_flag`.** The flag goes up before the port is stored. `UserMain` may see it, close, listen again on
the *old* port and lower the flag, all while the web task prints; the new port is then stored and
nobody looks again. One submission and no client suffice.

**`tcp_safety`.** Four clients: one served, three in the queue. Seconds of two ticks, timeout 3 seconds,
override 2: both fall inside one connection, at different passes. Data may arrive on both sides for ever.
`ServesOneClient` (refinement of `OneClient`), `CutOnlyWhenQuiet`, `OverridesOnlyQuiet`, and `EveryClientServed`:
once the override timeout has been counted, a waiting client ends the connection or its client sends again;
and if every client falls silent in the end (`ClientsFallSilent`) and `select()` times out again and again while
one is served (`LinkPauses`), every queued client is served. Without either hypothesis the second clause fails.

**`dual_safety`.** A clock of 32 values that starts at 20 and runs for 21 ticks, so that it wraps half way: idle timeout
3, `select()` 2, which is about three full rounds of becoming idle on each side. `listen()` may fail.
`BumpedOnlyWhenIdle` and `ReplaceableInTime` bracket the override from both sides, also for a client that queued
on the reopened socket before the connection became active again. `ReplaceableInTime` says nothing once `listen()` has failed in a
session: the code never repeats it (section 7). The run ends within one turn of the clock
(`LastTick`), after which idle times of more than a turn would look like short ones; `ServesOneClient` as before. Two
predicates say exactly when the code's unsigned sum and comparison go wrong at the wrap: `LimitWrappedFirst`
(the connection counts as idle at once) and `ClockWrappedFirst` (it does not for the rest of a turn of the clock);
without either exception the run fails.

**`ssc`.** The code's ring of three; a pool of 9 and a queue of 1. In the code they are 16 and 8: what matters is
that the pool exceeds the queue by 8, which is what two full rings and the task's hands (a buffer and
a tone) hold; a longer queue only repeats the states of a full and an empty one. One DMA error, and
errors and slips together at most two. `TxRoomIsReal`, `RxRoomIsReal`, `ReclaimsBehindTheChannel`,
`EveryBufferInOnePlace`, `AudioFlows`, and no deadlock. `AudioFlows` looks at the ring of the transmitter, not at the
calls: again and again a buffer enters it, and since it is bounded one is also played and leaves it; it says so of runs
without errors and slips. With more errors there is one: after both
directions have failed, the task may wait in `rxBufQ.Pend()` for a buffer only it could ready.

**`ssc_early`.** The first time, `TxIsr()` takes the channel's source address to see which buffer is
being read; after a descriptor was reclaimed it takes the destination address, which is the transmit
register. The test is then never true: once it has reclaimed one descriptor, the handler reclaims the next one too, the one being read,
if only another is queued behind that. Its buffer is reported as finished while it is still being transmitted. `RxIsr()` has it right,
which is half of `ReclaimsBehindTheChannel`.

**`wav`.** Blocks of two samples, so that sounds of one to five samples are less than a block, whole blocks, and whole
blocks with a shorter one after them; a stereo and a mono file, one that is not a WAV file, one whose chunk is missing;
1, 2, "for ever" and more repetitions than the count can hold (`Forever` stands for 0xFFFF). Every call in every state,
every interrupt between any two steps of a call. `WholeRepetitions` and `EndsAfterAllPlays` are about the
counts, `PostedOnce`, `RampsUndisturbed` and `BuffersRestored` about the calls,
`EveryPlayEnds` is the liveness. Their exceptions are the divergences of section 7.

**`multi`.** A table of two and three clients, so that one is turned away or served in a freed slot; four
descriptors, just enough for all, so that every number is used again within a pass; one error, of the listening socket or of
`accept()`; a 'Q' in front of or behind data. `TableIsTheConnections`, `ServesManyClients` (refinement of `ManyClients`), `EveryClientDealtWith`.

**`dip`.** Two browsers, one after the other or at once, and a visitor, on two descriptors; two messages, one with an
escaped quote in a string, each arriving in two pieces; a buffer of six, which the longer message fills exactly and
the rest of a message with another overflows; one change of the switches. `OneWebSocket`, `MessagesWhole`,
`EveryMessageObeyed`, `PageShowsSwitches`, `ReportsReachPages`, `LostIsReleased`.

**`udp`.** Two submissions that differ from the defaults and from each other in every field, one power cycle, any number of
restarts, saves that fail: enough for a submission to overlap the start-up, a restart, the reader's change of port and
another submission's save; a byte on the debug port at any time. `ListensOnOnePort`; `SubmissionsStayWhole`, which makes no
statement once a submission came into a start-up (`early`); `WorksAsSet`, whose promise about the local port holds
as long as nothing comes in on the debug port.

Each property of a passing run is also shown to fail for a mutant of some definition (`PROJECT.json`,
"mutants"): a dropped guard, a missing reset, the wrong descriptor, seconds for ticks.

## 5. Fairness

- *A task that can go on does*: `WF_vars(Pump)`, `WF_vars(UserMain)`, `WF_vars(Task)`. The RTOS schedules
  by priority, and none of these tasks shares the processor with one of higher priority that never blocks. `select()` and
  `accept()` with a timeout return by themselves, which makes their timeouts part of the task.
- *Peers owe nothing*: no fairness for arriving data, clients, errors, submissions or resets. A client may
  be silent for ever.
- *What the peers may grant* is never part of a specification's fairness: it is a definition of its own and a hypothesis of
  the property that needs it. `PeersDrain` (of `EveryByteForwarded`): no program can write to a peer that reads nothing.
  `LinkPauses` (of `SuitorServed` and `EveryClientServed`): the timeouts of the two bridges count the `select()`s that
  time out (`datapump.cpp:195`, TcpToSerial `main.cpp:158`) and no others. `ClientsFallSilent` (of
  `EveryClientServed`): who goes on sending keeps the server.
- *SSC*: `WF_vars(Complete(d))`, since the codec's clock drives both channels as long as they are enabled, and
  `SF_vars(Task)` and `SF_vars(Isr(d))`, since both are disabled again and again (the task by handlers, a
  handler by the other one) without ever being locked out: one interrupt line serves both channels,
  and a handler takes microseconds where a buffer takes milliseconds.
- *WavPlayer*: `WF_vars(Tick)` and `WF_vars(Interrupts)`, the clock and the interrupt controller; `SF_vars(Continue)`, since a
  call that has begun is preempted by interrupts again and again but goes on in between. No call need be made.
- *DipSwitches*: `WF_vars(HttpTask)`, `WF_vars(InputTask)`, and `SF_vars(UserTask)`, since `UserMain` has the lower
  priority and gets on in every pause of `InputTask`, never if there is none. What a browser sent arrives.
- *TcpMultiSocketServer*: the task.
- *SimpleUDPToSerial*: `WF_vars(Main)` and `WF_vars(PostCallBack)`, a POST that has begun. `UdpReader` is created with a
  priority below that of `UserMain` (`main.cpp:154`) and runs while that one waits in `select()`. The set of
  this `select()` has the debug port in it (`main.cpp:180`), which nobody reads (`main.cpp:185`): from the first byte there until
  the next restart `select()` returns at once. The fairness is therefore `WF_vars(UdpReader /\ ~debugInput)`.

## 6. Proofs

Everything in the modules `...Proofs` is checked by TLAPS for all values of the constants, from the named assumption
of the module it is about (`DataPumpAssumption` and so on) and nothing else, except for one theorem about `DipSwitches`, whose
hypothesis is part of its statement: sizes, bounds
and timeouts are naturals, some not zero; a word is at least as wide as a field; the idle timeout of DualTcpToSerial
fits a word, is not zero, and the model ends within one turn of its clock; a listen port, a file or a submission is of
its type; "none" is the name of no buffer. Every inductive invariant was an invariant of a TLC run, on the instance of section 4,
before it was proved.

**DataPump.** `PumpTypeCorrect`: the indices never leave the buffers. `BufferCorrect`: the buffers hold exactly
the bytes in transit. This is not inductive: that a read may overwrite the buffer because all of it has
been written is decided in `Armed`, a `select()` and several handlers before the read. `PumpIInv` therefore
adds `ReadsIntoEmpty`: as long as a read is in `ready`, its buffer is empty, and stays so because a write
to the other side can only be armed for a buffer that is not. `PumpRefinesPipe`: every read is a `Take`
of at most `Depth` bytes, every write a `Give` of the oldest ones, all else stutters. `DeadLinkCut`
rests on "the counter is never less than the true idle time": since it is never set back, it may be more.
`NeverOverridden` proves a promise the code keeps for a reason it does not state: 0xFFFFFFFF does
not survive its `uint16_t`, so the comparison with it is useless; but the truncated override timeout is
the largest value of the field, so the inactivity timeout, from a field of the same width, is never longer
and ends the call first, and without an inactivity timeout no time is counted.

**SscI2s.** `SemaphoresCorrect`: without errors and slips, semaphore, ring and the call in progress add up to
the depth; with errors never to more, with slips to one more at most. `ReclaimCorrect`: the next descriptor of
an enabled channel is in use, and `RxIsr()` never hands over the one being filled. `PoolCorrect`: every
buffer is in exactly one place. One inductive invariant serves all:

- `CallsInOrder` ties the task's place to its locals: it holds a token of the semaphore only inside
  a call, a transmission always does;
- `Undisturbed`: without errors a direction that is not in `state` has an empty ring, and the first call of
  all is a reception. It is needed because `ReadyReceiveBuffer()` sets `state` to RX whatever it was: that
  forgets a running transmitter, and only the order of the start-up keeps it from mattering;
- `RoomIsReal` adds to the two properties what a reception that found no room may still rely on;
- `NothingLost`: without slips no buffer is counted twice;
- `BehindTheChannel`: a handler's view of the channel may be old, but the channel only moves
  forward, so what was behind it stays behind it.

**TcpToSerial.** `TimeoutCorrect`, `OverrideCorrect` and `ImplementsOneClient`. The inductive invariant says that
while a client is served, the counter is no more than the time this client has been quiet and, if it is not zero,
below the limit (`CounterIsOwn`); that a pass which ended by the timeout has nothing left that could
touch the idle time (`TimedOutIsOver`); and that what is open is what is served (`ServedIsOpen`), which is not
obvious where an error and an override share a pass: the second close finds nothing to close. The counter may pass
the limit by one `select()`, and no more (`CounterIsBounded`).

**DualTcpToSerial.** `BumpCorrect` and `ImplementsOneClient`. The argument about the clock is `QuietCovers`: the
ticks since `timeout_value`, reckoned modulo the word, are never more than the true idle time, or the client is
past the idle timeout anyway. It survives the wrap of the clock because a tick adds one to both, or takes the word's
account back to where it is smaller (`Wrapped` is the arithmetic of it). `Idle` compares a sum with a clock, either of
which may have wrapped; `IdleIsQuiet` goes through the cases, and the one in which only the sum has is the exception
in the property. `ReplaceCorrect` is the other direction: a client that is idle for longer than the limit and one
`select()` can be replaced, provided that no `listen()` of the session has failed. `NoWholeTurn`: within the run the clock makes
no whole turn, so the word's account is
exact, and `QuietIsIdle` has the single exception that the clock wrapped before the limit; `LooksWhenIdle`: from
the pass that found the limit exceeded on, the task has called `listen()`, and if that went well `select()` watches the
socket. What follows a failed one is not covered by a theorem and not repaired by the code (section 7).

**SerialBurner.** `OneListenerAlways` and `SettingsAreInForce`, for any ports and any number of clients,
submissions and power cycles, with saves, loads and `listen()` that fail. What makes them inductive: `NothingListens` (before the
first `listen()`, and between a close and the next one, there is no socket and nobody queues), `StepsHaveData` (a copy starts at
the first field, a submission has a form, and the steps that reopen the port belong to the field of the rate), and
`InForceSinceLoad`, which takes the property back into the start-up: until a submission comes, the fields copied so far are
those in flash; from the last one on, or from the save of the defaults, RAM and flash stay equal between
submissions if that went well; and the port runs at the configured rate except while a task has it closed. This is
needed since the fields come one at a time and each of them can be the last before a loss of power (`LoadKeepsForce`,
`StartUpKeepsForce`, `SubmissionKeepsForce`: one lemma for each part of the program that can disturb it).
Neither theorem says anything of a power-on in which a submission came before the port was open: the
two tasks then write the same fields at once, and the settings may well be mixed (section 7).

**TcpMultiSocketServer.** `TableCorrect` and `ImplementsManyClients`, for a table of any size. A pass handles the sets of
`select()` long after it returned; numbers closed in between may stand for new connections. `SetsAreOpen`: until
`accept()` is done no number in the sets is free, so the new connection's is in none; `SetsAreTrue`: of the slots still
to be looked at, the sets are true of the connection they hold now. `NewAreNew` says that a client in the queue has done
nothing yet. That a client is turned away only when `maxConnections` are served is a bijection between the
occupied slots and the connections (`FullTable`). `AcceptCases` and `ReadKeeps` are what the errors of `accept()` and the 'Q' behind data come down to: nothing
has changed, or less is left to be read, and never of a slot that is not in the sets. A client that withdraws from the queue leaves it by `RemoveAt`, and `Removed` says what of a
sequence's order that keeps.

**SimpleUDPToSerial.** `OnePort` and `WholeSubmissions`. The second is about a device on which no submission has met a start-up:
the start-up copies port and address one after the other (`main.cpp:148-150`), and a submission in between does get mixed with
the settings before it, which the theorem exempts (`early`). `ReaderComesLast`: the reader does not run during the start-up.
`LoadedFields`: what has been loaded of the settings is the flash's, if it has any, or the defaults'.
`StoredFields`: at each step of a submission, the fields before it are its own and nobody has touched them since;
`WholeInRam` and `WholeDestination`: the settings are whole whenever no submission is at work, and so are the two
halves of the destination, copied in two steps, as soon as a packet may use them, since any step that copies them again
leads to a restart; `KeptWhole` is the flash.

**WavPlayer.** `BuffersGivenBack`, `NothingDisturbsRamps`, `SoundsEndInOrder`, `SemaphorePostedOnce` and `RepetitionsAreWhole`, for every
block size, file length and number of plays, and with interrupts between any two statements. The invariant has three parts:

- `BaseInv` needs no counts: where a buffer is from decides how it is reverted (`BuffersInOrder`), the clock runs only
  for a sound that is on (`ClockInOrder`), no enabled channel has an empty block (`ChannelsSetUp`), and the timer
  interrupts only in the ramps (`RampsInOrder`). It gives the first two theorems.
- `SoundInv`, for a sound that no earlier one's requests disturb. The code lets the first channel that is done end the sound
  for all; that this cuts nothing off is `InStep`: the channels are alike between two samples, and while their
  interrupts are served, serving a pending one (`RemAfter`, `CountAfter` and so on say what that does) would make it what the served ones are. So the
  channels behind the one that ends the sound end it too (`EndInOrder`), and no interrupt is left for a finished sound.
  `BlocksAddUp`: samples moved, the rest of the block and the blocks after it are the file. `PlaysAddUp`: repetitions
  played, the present one and those left are what was asked for, and a count for "for ever" does not come to zero.
- `PostsInOrder`: the sound has been posted if and only if it is finished, which `EndInOrder` keeps from happening twice.

**DipSwitches.** `OneWebSocketAlways`, `ReportsAtPages` and `ParsesWhole`, for any number of descriptors, browsers, messages
and changes of the switches, any size of the buffer and any pieces a message arrives in.

- `OneWebSocketAlways`. `Sockets` says what descriptors are: no two stand for the same peer, and a websocket is an open
  one. `Stored` is the argument: what the web server is about to store is the only websocket there is, since there was none
  when it tested `ws_fd`; what `InputTask` has closed but not yet forgotten is no websocket any more, although its number
  may already stand for somebody else. The type invariant, which the property includes, needs two more: a character moves
  the count of braces by one at most (`Counted`), and each post is that of another browser, which never asks again (`Posts`,
  by counting those that are through with the web server).
- `ReportsAtPages`: unless `InputTask` has closed the websocket under it, the argument of `SendJSONReport()` is still the
  websocket (`Report`), although the report is built and written in two pauses of `InputTask`.
- `ParsesWhole` has the hypothesis `Objects`: each text is one object, that is, the braces match at its last character
  and at none before, by the counts of `ConsumeSocket()`. The page sends nothing else (`script.js:66` and following), and TLC
  confirms it of the texts of the run (`TextsAreObjects`). The theorem then needs no induction over the text, because
  the invariant carries the counts along: InputTask is at a place `a` of a message (`AtPlace`), what it has read is the
  message up to there (`Begin`), and what the browser has sent and nobody has read is a walk through the texts that goes on
  from `a` (`Stream`), whichever part of it has arrived. Reading takes the first step of the walk, sending adds a whole
  message behind it, a loss cuts it off, and a parse makes the end of one message as good as the beginning (`StreamNext`,
  `StreamAppend`, `StreamPrefix`, `StreamRestart`). A message longer than the buffer is never parsed, so the theorem needs
  no bound on the length.

TLC checked these invariants on the instance of `dip`, with `Stream` as a recursive search instead of a choice of a walk, before
they were proved.

**Only model-checked.** Liveness (`EveryByteForwarded`, `SuitorServed`,
`ChangeTakesEffect`, `EveryClientServed`, `AudioFlows`, `EveryPlayEnds`, `EveryClientDealtWith`,
`EveryMessageObeyed`, `PageShowsSwitches`, `LostIsReleased`, `WorksAsSet`), which is out of the prover's reach. Every
invariant, action property and refinement that a passing run checks is also a theorem.

## 7. Other divergences seen

Read in the code while modelling, without a run of their own:

- SerialBurner counts no time at all when the inactivity timeout is 0, so an override timeout then never
  passes (`datapump.cpp:195`). `SuitorServed` has the exception.
- Nor does it count any while traffic goes on: `tcp_timeout` advances only when `select()` times out
  (`datapump.cpp:195-197`). On a link that carries a byte within every `select()` a caller waits for ever, whatever the override
  timeout is. In TcpToSerial it is the same (`main.cpp:158-161`), also with traffic from the serial port alone: a client that has
  gone silent then holds the server. `SuitorServed` and `EveryClientServed` have the hypothesis `LinkPauses`.
- What was read in the pass that ends a call with an error is dropped (`datapump.cpp:181`).
- `index.html` calls a field `ClientOverrrideTimeout`, with three r, which the handler does not know; the
  handler of `ClientOverrideTimeout` would store it into `ClientTimeout`. The override timeout can thus not
  be set from the page. `FlowControl` is not the name the handler expects, either.
- A submission that arrives before `CheckNVSettings()` works on a record of zeroes, and saves it under a valid
  key: what the page does not store, the override timeout, stays 0. One that arrives while the settings are
  loaded is mixed with them field by field, and its rate may be overtaken by the other task's `OpenSerial()`, which finds
  the port open and leaves it as it is. `SettingsInForce` exempts such a power-on (`early`).
- SerialBurner does not look at whether a save went well (`main.cpp:170` and the end of the POST), and goes on with what is in RAM,
  zeroes after a power-on, if the flash cannot be read (`main.cpp:155-159`). `SettingsInForce` exempts both until the next save
  (`saved`).
- A `listen()` that fails on a change of port leaves SerialBurner without a listening socket until the
  port is changed again.
- In TcpToSerial data from the serial port does not count as activity, but keeps `select()` from timing out: a client
  that only receives is cut, once what it receives has pauses of one `select()` that add up to the timeout.
- SerialBurner's `UserMain` closes the connection only if `DataPump()` returned its descriptor (`main.cpp:253`). After
  a timeout, an override or an error of the serial port it accepts the next client over it: two connections are open,
  the first for ever, where the ReadMe (`ReadMe.txt:15-19`) says the link is closed. The model leaks them in the same way (`open`); no
  property is stated, since what could be said of it is only the test in that line.
- In TcpToSerial, when the connection fails in the pass in which the override is due, the error handler closes it and
  sets `fdnet` to 0, and the override handler writes its message to descriptor 0 and closes that.
- In DualTcpToSerial `timeout_value + idle_timeout` overflows in the last ticks before `TimeTick` does, is then
  less than it, and a connection accepted a moment ago counts as idle. One whose sum falls just short of the wrap is
  not idle for the rest of a turn of the clock once that has wrapped. (The exceptions of `dual_safety`.)
- In DualTcpToSerial the error of a failed `listen()` is kept in `fdListen` (`main.cpp:154-156`), which is then not 0, so that the call is
  not repeated in this session: a half-open client stays until its own connection fails, against the comment of
  `main.cpp:61-66`. `ReplaceableInTime` has the exception.
- `ReadyReceiveBuffer()` of SSC_I2S, told not to wait, hands the buffer back when there is no room but does not return;
  if a handler frees a descriptor before `AddXfr()`, the buffer is queued for reception while the pool has it. Such a
  slip is counted in `slips`, and the properties of `ssc` say what it may do.
- After a receive error in SSC_I2S the next `TransmitBuffer()` finds its direction not in `state` and
  starts the running channel over, losing the descriptors in its ring (`ssc_i2s.cpp:539`).
- After a slip the receiver's semaphore is one too high; `AddXfr()` on a full ring then loses a buffer, as
  its result is not looked at.
- WavPlayer: `Stop()` or `Pause()` of a sound that finishes after their test posts the semaphore a second time, or stops
  a sound that is over: `Resume()` then starts the timer in a state in which `SoftMuteISR()` does not acknowledge it (the
  `timer.ter = 0x3` after `default: break;` is never reached), and its interrupt returns for ever.
- WavPlayer: `Stop()` leaves the DMA requests enabled. The next sound is played into its own ramp, and a channel that the
  next sound does not use may end it early or twice.
- WavPlayer: `Loop()` with more than 65535 plays never ends, the count coming down to the 0xFFFF that stands for "for ever".
  `OpenFile()` that fails after its read has overwritten a buffer that is still ready to be played. A file without the
  chunks looked for is left with its header's byte order changed. A sound that is paused while another buffer is opened
  is given up without a post. `m_timer < 0` is never true of a `uint32_t`, so `Loop()` without a timer is not refused.
- TcpMultiSocketServer: one `read()` takes all that a client has sent (`main.cpp:139`), and only its first byte is compared with 'Q'
  (`main.cpp:143`): a 'Q' that arrives behind other data, which the greeting invites to send, is swallowed and the client
  keeps its slot. `EveryClientDealtWith` promises an end to those only whose 'Q' is read first.
- TcpMultiSocketServer: `accept()` waits without a timeout for a client that may have withdrawn (`EveryClientDealtWith` has the
  exception); the terminator of a read that fills the buffer goes one past its end.
- DIPSwitches: what a message cut off by a close has left in buffer and counts stays for the next connection; its
  messages are not parsed, and once the buffer is full `InputTask` spins and `UserMain` never runs again. An old number
  in the sets of `select()`, which are cleared only once, wakes it for nothing. A report may be written to a page
  request whose connection has taken the number of the websocket. The first report is missed if `UserMain` lowers
  `bFirstRun` between the two assignments of `MyDoWSUpgrade()`.
- DIPSwitches: `ConsumeSocket()` counts braces inside strings too, and the terminator of a full buffer goes one past
  its end.
- SimpleUDPToSerial: a change of local port between the reader's copy and its reset of the flag is not seen; it is the
  restart for the destination, which every submission causes, that makes up for it. That restart may overtake the save,
  and then the submission is lost. A submission that arrives before `UserMain` has taken the settings over is lost or
  mixed with them: the fields are loaded one by one (`webif.cpp:62-84`) and copied one by one (`main.cpp:148-150`). Packets may then go to
  the port of one submission at the address of another, until the restart that the submission brings
  (`SubmissionsStayWhole` has the exception `early`).
- SimpleUDPToSerial: a byte on the debug port, which `select()` watches and nobody reads, makes `UserMain` spin, and `UdpReader`,
  of lower priority, does not run until the next restart (`WorksAsSet` has the exception `debugInput`).

## 8. What the models leave out

- *Shutdown and set-up*: `SSCCtx_t::Shutdown()`, which no program here calls, the early returns for a driver that
  was never initialised, registers, the codec, the content of the buffers. This is why SSC_I2S counts as
  partly modelled.
- *The NNDK*: what `select()` does with a descriptor another task closes under it (the web task reopens the serial
  port during a session) or with a negative one (DualTcpToSerial after a failed `listen()`); how much
  a blocking `write()` takes. The models assume nothing is reported for such a descriptor.
- *The console*: messages share the serial port with the data; the bytes on it are not modelled
  except in `DataPump`, where the messages are left out.
- *Data*: TcpToSerial and DualTcpToSerial ignore what `write()` returns, so a partial write drops the rest of what
  was read; the contents are not followed.
- *Steps of the NNDK*: one call of `SaveUserParameters()` is a step, and a failing one leaves the flash as it was; so is
  the copy of one string or number.
- *Errors of TcpMultiSocketServer*: those of the listening socket and of `accept()` share one bound (`MaxFaults`).
- *Which buffer is free*: the scan of `GetTxBuf()` never looks at the slot it last used, so the last free buffer may not be
  found; the model's pool is the optimistic one.
- *WavPlayer*: the samples' values beyond "zero or not", 8-, 24- and 32-bit files (for which the code's DMA set-up differs), a
  board with one DAC, destruction and the menu. Interrupts are served within one sample, and the first sample of a
  sound is not at level zero.
- *DIPSwitches*: the JSON library, the LEDs, the analogue page (`SimpleAD.cpp`).
- *SimpleUDPToSerial*: datagrams and serial data themselves; a packet is its destination.
