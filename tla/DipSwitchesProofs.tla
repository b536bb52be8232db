------------------------- MODULE DipSwitchesProofs --------------------------
(***************************************************************************)
(* What DipSwitches guarantees for any number of descriptors, browsers,    *)
(* flips and messages, whatever pieces they arrive in: one websocket, and  *)
(* reports that reach a page; and, if each message is one object, that     *)
(* what is parsed is one message.                                          *)
(***************************************************************************)
EXTENDS DipSwitches, FiniteSetTheorems, SequenceTheorems, TLAPS

Tally == [openCount : Int, inString : BOOLEAN, strEscape : BOOLEAN]

(* TypeOK with unbounded counters: their bounds follow from Posts, Counted.*)
Types ==
    /\ ws_fd \in Fd \cup {Closed} /\ bFirstRun \in BOOLEAN
    /\ SockReadySem \in Nat
    /\ http \in {"idle", "store", "post"} /\ rv \in Fd \cup {Closed}
    /\ input \in {"loop", "pend", "select", "read", "parse", "close", "forget"}
    /\ read_fds \subseteq Fd /\ error_fds \subseteq Fd
    /\ IncomingBuffer \in Seq(Chars) /\ Len(IncomingBuffer) <= INCOMING_BUF_SIZE
    /\ token \in Tally
    /\ user \in {"poll", "fill", "write"}
    /\ previousStates \in {0, 1} /\ currentStates \in {0, 1}
    /\ report_fd \in Fd \cup {Closed}
    /\ socket \in [Fd -> Browser \cup {Nobody, Visitor}]
    /\ websocket \subseteq Browser /\ lost \subseteq Browser
    /\ arriving \in [Browser -> Seq(Chars)] /\ received \in [Browser -> Seq(Chars)]
    /\ switches \in {0, 1} /\ shown \in [Browser -> {Blank, 0, 1}]
    /\ cut \in BOOLEAN /\ missed \in BOOLEAN /\ moved \in BOOLEAN
    /\ browsers \in 0..MaxBrowsers /\ sends \in 0..Len(Texts) /\ flips \in 0..MaxFlips

(* A descriptor stands for one peer; a websocket is open, and of a browser *)
(* that has connected; only a websocket has something to be read.          *)
Sockets ==
    /\ \A f, g \in Fd : socket[f] = socket[g] /\ socket[f] # Nobody => f = g
    /\ \A f \in Fd : socket[f] \in Browser => socket[f] <= browsers
    /\ \A b \in websocket : \E f \in Fd : socket[f] = b
    /\ \A b \in Browser \ websocket : received[b] = << >> /\ arriving[b] = << >>

(* The steps between a test of ws_fd and what it is done for: a socket     *)
(* about to be stored is the only websocket; InputTask closes what ws_fd   *)
(* still names, and has closed it before it forgets the number.            *)
Stored ==
    /\ http = "store" => /\ rv \in Fd /\ ws_fd = Closed
                         /\ socket[rv] \in websocket
    /\ input \in {"select", "read", "parse", "close", "forget"} => ws_fd # Closed
    /\ input = "forget" => Here \notin websocket
    /\ ws_fd # Closed /\ input # "forget" => Here \in websocket
    /\ \A f \in Fd : socket[f] \in websocket =>
          f = ws_fd \/ (http = "store" /\ f = rv /\ ws_fd = Closed)

(* A character changes the count of braces by at most one.                 *)
Counted ==
    /\ token.openCount \in -Len(IncomingBuffer)..Len(IncomingBuffer)
    /\ input = "parse" => token.openCount = 0

(* Every post is that of another browser, which never asks again.          *)
Settled == {b \in 1..browsers : \A f \in Fd : socket[f] = b => b \in websocket}
Posts == SockReadySem + (IF http = "idle" THEN 0 ELSE 1) <= Cardinality(Settled)

(* A report that is about to be written is for the websocket.              *)
Report == user = "write" /\ report_fd # Closed /\ ~moved =>
              report_fd = ws_fd /\ input # "forget"

IInv == Types /\ Sockets /\ Stored /\ Counted /\ Posts /\ Report

LEMMA Sizes ==
  /\ INCOMING_BUF_SIZE \in Nat \ {0} /\ Texts \in Seq(Seq(Char))
  /\ MaxFd \in Nat \ {0} /\ MaxBrowsers \in Nat
  /\ Piece \in Nat \ {0} /\ MaxFlips \in Nat
  BY DipSwitchesAssumption

LEMMA Names ==
  /\ Nobody \notin Browser /\ Visitor \notin Browser /\ Visitor # Nobody
  /\ Closed \notin Fd /\ ~(Closed > 0) /\ Closed < 0
  /\ \A f \in Fd : f > 0 /\ ~(f < 0)
  BY Sizes DEF Nobody, Browser, Visitor, Closed, Fd

LEMMA Texting ==
  ASSUME NEW n \in Message
  PROVE  /\ Texts[n] \in Seq(Char)
         /\ Whole(n) \in Seq(Chars) /\ Len(Whole(n)) = Len(Texts[n])
         /\ \A i \in 1..Len(Texts[n]) : Whole(n)[i] = <<n, Texts[n][i]>>
<1>1. Texts[n] \in Seq(Char)
  BY Sizes DEF Message
<1>2. \A i \in 1..Len(Texts[n]) : <<n, Texts[n][i]>> \in Chars
  BY <1>1 DEF Chars
<1>3. QED
  BY <1>1, <1>2 DEF Whole

(* ConsumeSocket() moves the count by one at most. *)
LEMMA Consumes ==
  ASSUME NEW t \in Tally, NEW char
  PROVE  /\ ConsumeSocket(t, char) \in Tally
         /\ ConsumeSocket(t, char).openCount \in (t.openCount - 1)..(t.openCount + 1)
<1>1. Depth(char[2], t) \in {-1, 0, 1}
  BY DEF Depth
<1>2. t.openCount \in Int /\ t.inString \in BOOLEAN /\ t.strEscape \in BOOLEAN
  BY DEF Tally
<1>3. ConsumeSocket(t, char).openCount = t.openCount + Depth(char[2], t)
  BY DEF ConsumeSocket
<1>4. ConsumeSocket(t, char) \in Tally
  <2> DEFINE str == IF char[2] = "quote" /\ ~t.strEscape THEN ~t.inString ELSE t.inString
             esc == IF char[2] # "escape" THEN FALSE
                    ELSE IF t.inString THEN ~t.strEscape ELSE t.strEscape
  <2>1. str \in BOOLEAN /\ esc \in BOOLEAN
    BY <1>2
  <2>2. t.openCount + Depth(char[2], t) \in Int
    BY <1>1, <1>2
  <2>3. ConsumeSocket(t, char) = [openCount |-> t.openCount + Depth(char[2], t),
                                  inString |-> str, strEscape |-> esc]
    BY DEF ConsumeSocket
  <2> HIDE DEF str, esc
  <2>4. QED
    BY <2>1, <2>2, <2>3 DEF Tally
<1>5. QED
  BY <1>1, <1>2, <1>3, <1>4

(* The first of the message arrives, and the rest stays on its way. *)
LEMMA Sending ==
  ASSUME Types, NEW b \in Browser, SetLED(b)
  PROVE  \E first, rest \in Seq(Chars) :
           /\ first \o rest = arriving[b] \o Whole(sends') /\ sends' \in Message
           /\ received' = [received EXCEPT ![b] = @ \o first]
           /\ arriving' = [arriving EXCEPT ![b] = rest]
<1> DEFINE data == arriving[b] \o Whole(sends')
           n == IF Piece < Len(data) THEN Piece ELSE Len(data)
<1>1. sends' \in Message
  BY Sizes DEF SetLED, Types, Message
<1>2. data \in Seq(Chars)
  BY <1>1, Texting, ConcatProperties DEF Types
<1> HIDE DEF data
<1>3. n \in 0..Len(data)
  BY <1>2, Sizes
<1>4. SubSeq(data, 1, n) \in Seq(Chars) /\ SubSeq(data, n + 1, Len(data)) \in Seq(Chars)
  <2>1. \A i \in 1..n : data[i] \in Chars
    BY <1>2, <1>3
  <2>2. \A i \in (n + 1)..Len(data) : data[i] \in Chars
    BY <1>2, <1>3
  <2>3. 1 \in Int /\ n \in Int /\ n + 1 \in Int /\ Len(data) \in Int
    BY <1>2, <1>3
  <2> HIDE DEF n
  <2>4. SubSeq(data, 1, n) \in Seq(Chars)
    BY <2>1, <2>3, SubSeqProperties
  <2>5. SubSeq(data, n + 1, Len(data)) \in Seq(Chars)
    BY <2>2, <2>3, SubSeqProperties
  <2>6. QED
    BY <2>4, <2>5
<1>5. SubSeq(data, 1, n) \o SubSeq(data, n + 1, Len(data)) = data
  <2>1. 1 \in 1..(Len(data) + 1) /\ n \in (1 - 1)..Len(data) /\ Len(data) \in n..Len(data)
    BY <1>2, <1>3
  <2> HIDE DEF n
  <2>2. SubSeq(data, 1, n) \o SubSeq(data, n + 1, Len(data)) = SubSeq(data, 1, Len(data))
    BY <1>2, <2>1, ConcatAdjacentSubSeq
  <2>3. QED
    BY <1>2, <2>2, SubSeqFull
<1>6. QED
  BY <1>1, <1>4, <1>5 DEF SetLED, data

LEMMA HangupTyped ==
  ASSUME Types, NEW f \in Fd \cup {Closed}, Hangup(f)
  PROVE  /\ socket' \in [Fd -> Browser \cup {Nobody, Visitor}]
         /\ websocket' \subseteq Browser /\ lost' \subseteq Browser
         /\ arriving' \in [Browser -> Seq(Chars)] /\ received' \in [Browser -> Seq(Chars)]
         /\ shown' \in [Browser -> {Blank, 0, 1}]
<1>1. /\ socket' \in [Fd -> Browser \cup {Nobody, Visitor}]
      /\ websocket' \subseteq Browser /\ lost' \subseteq Browser
  BY DEF Types, Hangup
<1>2. arriving' \in [Browser -> Seq(Chars)] /\ received' \in [Browser -> Seq(Chars)]
  <2>1. << >> \in Seq(Chars)
    OBVIOUS
  <2>2. QED
    BY <2>1 DEF Types, Hangup
<1>3. shown' \in [Browser -> {Blank, 0, 1}]
  BY DEF Types, Hangup
<1>4. QED
  BY <1>1, <1>2, <1>3

LEMMA TypesStep == Types /\ [Next]_vars => Types'
<1> SUFFICES ASSUME Types, [Next]_vars PROVE Types'
  OBVIOUS
<1> USE Sizes, Names
<1>1. ASSUME NEW f \in Fd, Upgrade(f) PROVE Types'
  <2>1. CASE Hangup(f) /\ UNCHANGED <<httpVars, bFirstRun>>
    BY <1>1, <2>1, HangupTyped DEF Upgrade, Types, httpVars, inputVars, bufferVars,
       userVars, historyVars, boundVars
  <2>2. CASE ~(Hangup(f) /\ UNCHANGED <<httpVars, bFirstRun>>)
    <3>1. socket[f] \in Browser
      BY <1>1, <2>2 DEF Upgrade, Asking, Types
    <3>2. http' = "store" /\ rv' = f /\ websocket' = websocket \cup {socket[f]}
          /\ shown' = [shown EXCEPT ![socket[f]] = Blank] /\ bFirstRun' = TRUE
          /\ UNCHANGED <<socket, arriving, received, lost>>
      BY <1>1, <2>2 DEF Upgrade, FirstRun
    <3>3. UNCHANGED <<ws_fd, SockReadySem, inputVars, userVars, switches, historyVars,
                      boundVars>>
      BY <1>1 DEF Upgrade
    <3>4. shown' \in [Browser -> {Blank, 0, 1}]
      BY <3>2 DEF Types
    <3>5. QED
      BY <3>1, <3>2, <3>3, <3>4 DEF Types, inputVars, bufferVars, userVars,
         historyVars, boundVars
  <2>3. QED
    BY <2>1, <2>2
<1>2. CASE Store
  BY <1>2 DEF Store, Types, inputVars, bufferVars, userVars, netVars, historyVars,
     boundVars
<1>3. CASE Post
  BY <1>3 DEF Post, Posted, Types, inputVars, bufferVars, userVars, netVars,
     historyVars, boundVars
<1>4. CASE Loop
  <2>1. read_fds' \subseteq Fd /\ error_fds' \subseteq Fd /\ input' \in {"select", "pend"}
    BY <1>4 DEF Loop, Watched, Types
  <2>2. QED
    BY <1>4, <2>1 DEF Loop, Types, sharedVars, httpVars, bufferVars, userVars, netVars,
       historyVars, boundVars
<1>5. CASE Pend
  BY <1>5 DEF Pend, Types, httpVars, bufferVars, userVars, netVars, historyVars,
     boundVars
<1>6. CASE Select
  BY <1>6 DEF Select, Parse, Types, sharedVars, httpVars, bufferVars, userVars,
     netVars, historyVars, boundVars
<1>7. CASE Close
  BY <1>7, HangupTyped DEF Close, Types, sharedVars, httpVars, bufferVars, userVars,
     boundVars
<1>8. CASE Forget
  BY <1>8 DEF Forget, Forgotten, Types, httpVars, bufferVars, userVars, netVars,
     historyVars, boundVars
<1>9. CASE Read
  <2>1. CASE More
    <3>1. Here \in Browser /\ received[Here] \in Seq(Chars) /\ received[Here] # << >>
      BY <2>1 DEF More, Types
    <3>2. Head(received[Here]) \in Chars /\ Tail(received[Here]) \in Seq(Chars)
      BY <3>1
    <3>3. IncomingBuffer' \in Seq(Chars) /\ Len(IncomingBuffer') <= INCOMING_BUF_SIZE
      <4>1. IncomingBuffer' = Append(IncomingBuffer, Head(received[Here]))
        BY <1>9, <2>1 DEF Read
      <4>2. IncomingBuffer \in Seq(Chars) /\ Len(IncomingBuffer) < INCOMING_BUF_SIZE
        BY <2>1 DEF More, Types
      <4>3. QED
        BY <4>1, <4>2, <3>2
    <3>4. token' \in Tally
      BY <1>9, <2>1, Consumes DEF Read, Types
    <3>5. received' \in [Browser -> Seq(Chars)]
      <4>1. received' = [received EXCEPT ![Here] = Tail(received[Here])]
        BY <1>9, <2>1 DEF Read
      <4>2. received \in [Browser -> Seq(Chars)]
        BY DEF Types
      <4>3. QED
        BY <3>1, <3>2, <4>1, <4>2
    <3>6. input' \in {"parse", "read"}
      BY <1>9, <2>1 DEF Read
    <3>7. QED
      BY <1>9, <3>3, <3>4, <3>5, <3>6 DEF Read, Types, sharedVars, httpVars, userVars,
         historyVars, boundVars
  <2>2. CASE ~More
    BY <1>9, <2>2 DEF Read, Parse, Types, sharedVars, httpVars, bufferVars, userVars,
       historyVars, boundVars
  <2>3. QED
    BY <2>1, <2>2
<1>10. CASE ParseInput
  <2>1. IncomingBuffer' \in Seq(Chars) /\ Len(IncomingBuffer') = 0
    BY <1>10 DEF ParseInput
  <2>2. QED
    BY <1>10, <2>1 DEF ParseInput, Types, sharedVars, httpVars, userVars, netVars,
       historyVars, boundVars
<1>11. CASE UserTask
  <2>1. CASE DoSwitches
    BY <2>1 DEF DoSwitches, Types, sharedVars, httpVars, inputVars, bufferVars, netVars,
       historyVars, boundVars
  <2>2. CASE Fill
    <3>1. /\ bFirstRun' \in BOOLEAN /\ previousStates' \in {0, 1} /\ missed' \in BOOLEAN
          /\ report_fd' \in Fd \cup {Closed} /\ user' \in {"poll", "fill", "write"}
      BY <2>2 DEF Fill, Types
    <3>2. UNCHANGED <<ws_fd, SockReadySem, httpVars, inputVars, currentStates, netVars,
                      switches, cut, moved, boundVars>>
      BY <2>2 DEF Fill
    <3>3. QED
      BY <3>1, <3>2 DEF Types, httpVars, inputVars, bufferVars, netVars, boundVars
  <2>3. CASE SendJSONReport
    <3>1. shown' \in [Browser -> {Blank, 0, 1}] /\ missed' \in BOOLEAN
      BY <2>3 DEF SendJSONReport, Types
    <3>2. /\ moved' = FALSE /\ report_fd' = Closed /\ user' = "poll"
          /\ UNCHANGED <<sharedVars, httpVars, inputVars, previousStates, currentStates,
                socket, websocket, arriving, received, lost, switches, cut, boundVars>>
      BY <2>3 DEF SendJSONReport
    <3>3. moved' \in BOOLEAN /\ report_fd' \in Fd \cup {Closed}
          /\ user' \in {"poll", "fill", "write"}
      BY <3>2
    <3>4. UNCHANGED <<sharedVars, httpVars, inputVars, previousStates, currentStates,
                socket, websocket, arriving, received, lost, switches, cut, boundVars>>
      BY <3>2
    <3>5. QED
      BY <3>1, <3>3, <3>4 DEF Types, sharedVars, httpVars, inputVars, bufferVars,
         boundVars
  <2>4. QED
    BY <1>11, <2>1, <2>2, <2>3 DEF UserTask
<1>12. CASE Connect
  <2>1. browsers' \in Browser /\ browsers' \in 0..MaxBrowsers
    BY <1>12 DEF Connect, Types, Browser
  <2>2. socket' \in [Fd -> Browser \cup {Nobody, Visitor}]
    BY <1>12, <2>1 DEF Connect, NewSocket, Types
  <2>3. QED
    BY <1>12, <2>1, <2>2 DEF Connect, Types, sharedVars, httpVars, inputVars,
       bufferVars, userVars, historyVars
<1>13. CASE Visit
  BY <1>13 DEF Visit, NewSocket, Types, sharedVars, httpVars, inputVars, bufferVars,
     userVars, historyVars, boundVars
<1>14. CASE Flip
  BY <1>14 DEF Flip, Types, sharedVars, httpVars, inputVars, bufferVars, userVars,
     netVars, historyVars
<1>15. ASSUME NEW b \in Browser, SetLED(b) PROVE Types'
  <2>1. PICK first, rest \in Seq(Chars) :
           /\ first \o rest = arriving[b] \o Whole(sends') /\ sends' \in Message
           /\ received' = [received EXCEPT ![b] = @ \o first]
           /\ arriving' = [arriving EXCEPT ![b] = rest]
    BY <1>15, Sending
  <2>2. received[b] \o first \in Seq(Chars)
    BY ConcatProperties DEF Types
  <2>3. received' \in [Browser -> Seq(Chars)] /\ arriving' \in [Browser -> Seq(Chars)]
    BY <2>1, <2>2 DEF Types
  <2>4. sends' \in 0..Len(Texts)
    BY <2>1 DEF Message
  <2>5. UNCHANGED <<sharedVars, httpVars, inputVars, userVars, socket, websocket, lost,
                    shown, switches, historyVars, browsers, flips>>
    BY <1>15 DEF SetLED
  <2>6. QED
    BY <2>3, <2>4, <2>5 DEF Types, sharedVars, httpVars, inputVars, bufferVars, userVars,
       historyVars
<1>16. ASSUME NEW b \in Browser, Arrive(b) PROVE Types'
  <2>1. received[b] \o arriving[b] \in Seq(Chars)
    BY ConcatProperties DEF Types
  <2>2. received' \in [Browser -> Seq(Chars)] /\ arriving' \in [Browser -> Seq(Chars)]
    BY <1>16, <2>1 DEF Arrive, Types
  <2>3. QED
    BY <1>16, <2>2 DEF Arrive, Types, sharedVars, httpVars, inputVars,
       bufferVars, userVars, historyVars, boundVars
<1>17. ASSUME NEW b \in Browser, Lose(b) PROVE Types'
  BY <1>17 DEF Lose, Types, sharedVars, httpVars, inputVars, bufferVars, userVars,
     historyVars, boundVars
<1>18. CASE UNCHANGED vars
  BY <1>18 DEF vars, Types, sharedVars, httpVars, inputVars, bufferVars, userVars,
     netVars, boundVars
<1>19. QED
  BY <1>1, <1>2, <1>3, <1>4, <1>5, <1>6, <1>7, <1>8, <1>9, <1>10, <1>11, <1>12, <1>13,
     <1>14, <1>15, <1>16, <1>17, <1>18 DEF Next, HttpTask, InputTask

LEMMA HangupSockets ==
  ASSUME Types, Sockets, NEW f \in Fd, Hangup(f), browsers' = browsers
  PROVE  Sockets'
<1>1. /\ socket'[f] = Nobody
      /\ \A g \in Fd \ {f} : socket'[g] = socket[g]
  BY DEF Hangup, Types
<1>2. \A g, h \in Fd : socket'[g] = socket'[h] /\ socket'[g] # Nobody => g = h
  BY <1>1 DEF Sockets
<1>3. \A g \in Fd : socket'[g] \in Browser => socket'[g] <= browsers'
  BY <1>1, Names DEF Sockets
<1>4. ASSUME NEW b \in websocket' PROVE \E g \in Fd : socket'[g] = b
  <2>1. b \in websocket /\ b # socket[f]
    BY <1>4 DEF Hangup
  <2>2. PICK g \in Fd : socket[g] = b
    BY <2>1 DEF Sockets
  <2>3. QED
    BY <1>1, <2>1, <2>2
<1>5. ASSUME NEW b \in Browser \ websocket'
      PROVE  received'[b] = << >> /\ arriving'[b] = << >>
  <2>1. CASE b = socket[f]
    BY <2>1 DEF Hangup, Types
  <2>2. CASE b # socket[f]
    BY <1>5, <2>2 DEF Hangup, Sockets, Types
  <2>3. QED
    BY <2>1, <2>2
<1>6. QED
  BY <1>2, <1>3, <1>4, <1>5 DEF Sockets

(* A new connection takes a free descriptor, for somebody who has none. *)
LEMMA NewSocketFree ==
  ASSUME Types, Sockets, NEW who, NewSocket(who), who # Nobody,
         \A g \in Fd : socket[g] # who
  PROVE  \E f \in Fd :
           /\ socket[f] = Nobody /\ socket'[f] = who
           /\ \A g \in Fd \ {f} : socket'[g] = socket[g]
           /\ \A g, h \in Fd : socket'[g] = socket'[h] /\ socket'[g] # Nobody => g = h
           /\ \A b \in websocket : \E g \in Fd : socket'[g] = b
<1>1. PICK f \in Fd : socket[f] = Nobody /\ socket' = [socket EXCEPT ![f] = who]
  BY DEF NewSocket
<1>2. socket'[f] = who /\ \A g \in Fd \ {f} : socket'[g] = socket[g]
  BY <1>1 DEF Types
<1>3. \A g, h \in Fd : socket'[g] = socket'[h] /\ socket'[g] # Nobody => g = h
  BY <1>2 DEF Sockets
<1>4. ASSUME NEW b \in websocket PROVE \E g \in Fd : socket'[g] = b
  <2>1. PICK g \in Fd : socket[g] = b
    BY <1>4 DEF Sockets
  <2>2. b # Nobody
    BY <1>4, Names DEF Types
  <2>3. QED
    BY <1>1, <1>2, <2>1, <2>2
<1>5. QED
  BY <1>1, <1>2, <1>3, <1>4

(* No browser has the number of the next one yet. *)
LEMMA NextBrowser ==
  ASSUME Types, Sockets, Connect
  PROVE  /\ browsers' = browsers + 1 /\ browsers' \in Browser
         /\ browsers' # Nobody /\ browsers' \notin websocket
         /\ \A g \in Fd : socket[g] # browsers'
<1>1. browsers' = browsers + 1 /\ browsers' \in Browser /\ browsers' # Nobody
  BY Sizes DEF Connect, Types, Browser, Nobody
<1>2. ASSUME NEW g \in Fd PROVE socket[g] # browsers'
  BY <1>1 DEF Sockets, Browser, Types
<1>3. QED
  BY <1>1, <1>2 DEF Sockets

LEMMA SocketsStep ==
  ASSUME Types, Sockets, Stored, [Next]_vars
  PROVE  Sockets'
<1> USE Names
<1>1. CASE UNCHANGED <<socket, websocket, browsers, received, arriving>>
  BY <1>1 DEF Sockets
<1>2. ASSUME NEW f \in Fd, Upgrade(f) PROVE Sockets'
  <2>1. CASE Hangup(f) /\ UNCHANGED <<httpVars, bFirstRun>>
    BY <1>2, <2>1, HangupSockets DEF Upgrade, boundVars
  <2>2. CASE ~(Hangup(f) /\ UNCHANGED <<httpVars, bFirstRun>>)
    <3>1. websocket' = websocket \cup {socket[f]}
          /\ UNCHANGED <<socket, arriving, received, browsers>>
      BY <1>2, <2>2 DEF Upgrade, boundVars
    <3>2. QED
      BY <3>1 DEF Sockets
  <2>3. QED
    BY <2>1, <2>2
<1>3. CASE Close
  <2>1. ws_fd \in Fd
    BY <1>3 DEF Close, Stored, Types
  <2>2. QED
    BY <1>3, <2>1, HangupSockets DEF Close, boundVars
<1>4. CASE Read
  <2>1. CASE More
    <3>1. Here \in websocket /\ received' = [received EXCEPT ![Here] = Tail(@)]
          /\ UNCHANGED <<socket, websocket, arriving, browsers>>
      BY <1>4, <2>1 DEF Read, More, boundVars
    <3>2. \A b \in Browser \ websocket : received'[b] = received[b]
      BY <3>1 DEF Types
    <3>3. QED
      BY <3>1, <3>2 DEF Sockets
  <2>2. CASE ~More
    BY <1>4, <2>2, <1>1 DEF Read, boundVars
  <2>3. QED
    BY <2>1, <2>2
<1>5. CASE Connect
  <2>1. /\ browsers' = browsers + 1 /\ browsers' # Nobody
        /\ \A g \in Fd : socket[g] # browsers'
    BY <1>5, NextBrowser
  <2>2. NewSocket(browsers') /\ UNCHANGED <<websocket, arriving, received>>
    BY <1>5 DEF Connect
  <2> DEFINE who == browsers'
  <2> HIDE DEF who
  <2>3. PICK f \in Fd :
           /\ socket[f] = Nobody /\ socket'[f] = who
           /\ \A g \in Fd \ {f} : socket'[g] = socket[g]
           /\ \A g, h \in Fd : socket'[g] = socket'[h] /\ socket'[g] # Nobody => g = h
           /\ \A b \in websocket : \E g \in Fd : socket'[g] = b
    <3>1. NewSocket(who) /\ who # Nobody /\ \A g \in Fd : socket[g] # who
      BY <2>1, <2>2 DEF who
    <3>2. QED
      BY <3>1, NewSocketFree
  <2>4. ASSUME NEW g \in Fd, socket'[g] \in Browser PROVE socket'[g] <= browsers'
    <3>1. CASE g = f
      BY <2>1, <2>3, <3>1 DEF who, Types
    <3>2. CASE g # f
      BY <2>1, <2>3, <2>4, <3>2 DEF Types, Sockets, Browser
    <3>3. QED
      BY <3>1, <3>2
  <2>5. QED
    BY <2>2, <2>3, <2>4 DEF Sockets
<1>6. CASE Visit
  <2>1. NewSocket(Visitor) /\ Visitor # Nobody /\ \A g \in Fd : socket[g] # Visitor
    BY <1>6 DEF Visit
  <2>2. UNCHANGED <<websocket, arriving, received, browsers>>
    BY <1>6 DEF Visit, boundVars
  <2>3. PICK f \in Fd :
           /\ socket[f] = Nobody /\ socket'[f] = Visitor
           /\ \A g \in Fd \ {f} : socket'[g] = socket[g]
           /\ \A g, h \in Fd : socket'[g] = socket'[h] /\ socket'[g] # Nobody => g = h
           /\ \A b \in websocket : \E g \in Fd : socket'[g] = b
    BY <2>1, NewSocketFree
  <2>4. QED
    BY <2>2, <2>3 DEF Sockets
<1>7. ASSUME NEW b \in Browser, SetLED(b) PROVE Sockets'
  <2>1. b \in websocket /\ UNCHANGED <<socket, websocket, browsers>>
    BY <1>7 DEF SetLED
  <2>2. \A c \in Browser \ {b} : received'[c] = received[c] /\ arriving'[c] = arriving[c]
    BY <1>7, Sending DEF Types
  <2>3. QED
    BY <2>1, <2>2 DEF Sockets
<1>8. ASSUME NEW b \in Browser, Arrive(b) \/ Lose(b) PROVE Sockets'
  <2>1. UNCHANGED <<socket, websocket, browsers>>
    BY <1>8 DEF Arrive, Lose, boundVars
  <2>2. ASSUME NEW c \in Browser \ websocket
        PROVE  received'[c] = << >> /\ arriving'[c] = << >>
    BY <1>8, <2>2 DEF Arrive, Lose, Sockets, Types
  <2>3. QED
    BY <2>1, <2>2 DEF Sockets
<1>9. CASE \/ Store \/ Post \/ Loop \/ Pend \/ Select \/ Forget \/ ParseInput \/ UserTask
           \/ Flip \/ UNCHANGED vars
  BY <1>1, <1>9 DEF Store, Post, Loop, Pend, Select, Forget, ParseInput, UserTask,
     DoSwitches, Fill, SendJSONReport, Flip, vars, netVars, boundVars
<1>10. QED
  BY <1>2, <1>3, <1>4, <1>5, <1>6, <1>7, <1>8, <1>9 DEF Next, HttpTask, InputTask

(* A hangup of something that is no websocket leaves the others alone. *)
LEMMA HangupOfRequest ==
  ASSUME Types, Sockets, NEW f \in Fd, Hangup(f), socket[f] \notin websocket
  PROVE  /\ websocket' = websocket
         /\ \A g \in Fd : socket[g] \in websocket => g # f /\ socket'[g] = socket[g]
         /\ \A g \in Fd : socket'[g] \in websocket => socket'[g] = socket[g]
<1>1. websocket' = websocket
  BY DEF Hangup
<1>2. socket'[f] = Nobody /\ \A g \in Fd \ {f} : socket'[g] = socket[g]
  BY DEF Hangup, Types
<1>3. QED
  BY <1>1, <1>2, Names DEF Types

LEMMA StoredStep ==
  ASSUME Types, Sockets, Stored, [Next]_vars
  PROVE  Stored'
<1> USE Names
<1>1. CASE UNCHANGED <<ws_fd, http, rv, socket, websocket>> /\ input' # "forget"
           /\ (input' \in {"select", "read", "parse", "close"} => ws_fd # Closed)
           /\ input # "forget"
  BY <1>1 DEF Stored, Here
<1>2. CASE UNCHANGED <<ws_fd, http, rv, socket, websocket, input>>
  BY <1>2 DEF Stored, Here
<1>3. ASSUME NEW f \in Fd, Upgrade(f) PROVE Stored'
  <2>0. UNCHANGED <<ws_fd, input>>
    BY <1>3 DEF Upgrade, inputVars
  <2>1. CASE Hangup(f) /\ UNCHANGED <<httpVars, bFirstRun>>
    <3>1. /\ websocket' = websocket /\ UNCHANGED <<http, rv>> /\ http = "idle"
          /\ \A g \in Fd : socket[g] \in websocket => socket'[g] = socket[g]
          /\ \A g \in Fd : socket'[g] \in websocket => socket'[g] = socket[g]
      BY <1>3, <2>1, HangupOfRequest DEF Upgrade, Asking, httpVars
    <3>2. ws_fd # Closed => ws_fd \in Fd
      BY DEF Types
    <3>3. QED
      BY <2>0, <3>1, <3>2 DEF Stored, Here
  <2>2. CASE ~(Hangup(f) /\ UNCHANGED <<httpVars, bFirstRun>>)
    <3>1. /\ http = "idle" /\ ws_fd = Closed /\ http' = "store" /\ rv' = f
          /\ websocket' = websocket \cup {socket[f]} /\ UNCHANGED socket
          /\ socket[f] # Nobody
      BY <1>3, <2>2 DEF Upgrade, Vacant, Types, Asking
    <3>2. \A g \in Fd : socket[g] \notin websocket
      BY <3>1 DEF Stored
    <3>3. \A g \in Fd : socket'[g] \in websocket' => g = f
      BY <3>1, <3>2 DEF Sockets
    <3>4. QED
      BY <2>0, <3>1, <3>3 DEF Stored
  <2>3. QED
    BY <2>1, <2>2
<1>4. CASE Store
  <2>1. /\ rv \in Fd /\ ws_fd = Closed /\ socket[rv] \in websocket
        /\ ws_fd' = rv /\ http' = "post" /\ UNCHANGED <<socket, websocket, input>>
        /\ http = "store"
    BY <1>4 DEF Store, Stored, inputVars, netVars
  <2>2. QED
    BY <2>1 DEF Stored, Here
<1>5. CASE Post
  <2>1. http # "store" /\ http' # "store" /\ UNCHANGED <<ws_fd, socket, websocket, input>>
    BY <1>5 DEF Post, inputVars, netVars
  <2>2. QED
    BY <2>1 DEF Stored, Here
<1>6. CASE Loop \/ Pend \/ Select \/ Read \/ ParseInput
  <2>1. UNCHANGED <<ws_fd, http, rv, socket, websocket>>
    BY <1>6 DEF Loop, Pend, Select, Read, ParseInput, sharedVars, httpVars, netVars
  <2>2. input # "forget" /\ input' # "forget"
    BY <1>6 DEF Loop, Pend, Select, Read, Parse, ParseInput
  <2>3. input' \in {"select", "read", "parse", "close"} => ws_fd # Closed
    BY <1>6 DEF Loop, Pend, Select, Read, ParseInput, Stored
  <2>4. QED
    BY <1>1, <2>1, <2>2, <2>3
<1>7. CASE Close
  <2>1. /\ ws_fd \in Fd /\ Here \in websocket /\ http # "store"
        /\ \A g \in Fd : socket[g] \in websocket => g = ws_fd
    BY <1>7 DEF Close, Stored, Types
  <2>2. /\ socket'[ws_fd] = Nobody /\ \A g \in Fd \ {ws_fd} : socket'[g] = socket[g]
        /\ websocket' = websocket \ {Here}
    BY <1>7, <2>1 DEF Close, Hangup, Here, Types
  <2>3. UNCHANGED <<ws_fd, http>> /\ input' = "forget"
    BY <1>7 DEF Close, sharedVars, httpVars
  <2>4. \A g \in Fd : socket'[g] \notin websocket'
    BY <2>1, <2>2 DEF Types
  <2>5. QED
    BY <2>1, <2>3, <2>4 DEF Stored, Here
<1>8. CASE Forget
  <2>1. /\ ws_fd # Closed /\ http # "store" /\ Here \notin websocket
        /\ ws_fd' = Closed /\ input' = "loop" /\ UNCHANGED <<http, socket, websocket>>
    BY <1>8 DEF Forget, Forgotten, Stored, httpVars, netVars
  <2>2. \A g \in Fd : socket[g] \notin websocket
    BY <2>1 DEF Stored, Here
  <2>3. QED
    BY <2>1, <2>2 DEF Stored
<1>9. CASE Connect \/ Visit
  <2> DEFINE who == IF Connect THEN browsers' ELSE Visitor
  <2>1. NewSocket(who) /\ who # Nobody /\ who \notin websocket
        /\ \A g \in Fd : socket[g] # who
    BY <1>9, NextBrowser DEF Connect, Visit, Types
  <2> HIDE DEF who
  <2>2. PICK f \in Fd : /\ socket[f] = Nobody /\ socket'[f] = who
                        /\ \A g \in Fd \ {f} : socket'[g] = socket[g]
    BY <2>1, NewSocketFree
  <2>3. UNCHANGED <<ws_fd, http, rv, input, websocket>>
    BY <1>9 DEF Connect, Visit, sharedVars, httpVars, inputVars
  <2>4. \A g \in Fd : socket'[g] \in websocket <=> socket[g] \in websocket
    BY <2>1, <2>2 DEF Types
  <2>5. ws_fd # Closed => ws_fd \in Fd
    BY DEF Types
  <2>6. QED
    BY <2>3, <2>4, <2>5 DEF Stored, Here
<1>10. CASE UserTask \/ Flip \/ (\E b \in Browser : SetLED(b) \/ Arrive(b) \/ Lose(b))
            \/ UNCHANGED vars
  <2>1. UNCHANGED <<ws_fd, http, rv, socket, websocket, input>>
    BY <1>10 DEF UserTask, DoSwitches, Fill, SendJSONReport, Flip, SetLED, Arrive, Lose,
       vars, sharedVars, httpVars, inputVars, netVars
  <2>2. QED
    BY <1>2, <2>1
<1>11. QED
  BY <1>3, <1>4, <1>5, <1>6, <1>7, <1>8, <1>9, <1>10 DEF Next, HttpTask, InputTask

LEMMA CountedStep ==
  ASSUME Types, Counted, [Next]_vars
  PROVE  Counted'
<1>1. CASE Read
  <2>1. CASE More
    <3>1. /\ IncomingBuffer' = Append(IncomingBuffer, Head(received[Here]))
          /\ token' = ConsumeSocket(token, Head(received[Here]))
          /\ input' = IF token'.openCount = 0 THEN "parse" ELSE "read"
      BY <1>1, <2>1 DEF Read
    <3>2. Len(IncomingBuffer) \in Nat /\ Len(IncomingBuffer') = Len(IncomingBuffer) + 1
      BY <3>1 DEF Types
    <3>3. token'.openCount \in (token.openCount - 1)..(token.openCount + 1)
      BY <3>1, Consumes DEF Types
    <3>4. QED
      BY <3>1, <3>2, <3>3 DEF Counted
  <2>2. CASE ~More
    BY <1>1, <2>2 DEF Read, Parse, Counted, bufferVars
  <2>3. QED
    BY <2>1, <2>2
<1>2. CASE ParseInput
  <2>1. token.openCount = 0 /\ UNCHANGED token /\ Len(IncomingBuffer') = 0
    BY <1>2 DEF ParseInput, Counted
  <2>2. QED
    BY <2>1 DEF Counted
<1>3. CASE Select \/ Loop \/ Pend \/ Close \/ Forget
  BY <1>3 DEF Select, Loop, Pend, Close, Forget, Parse, Counted, bufferVars
<1>4. CASE HttpTask \/ UserTask \/ Connect \/ Visit \/ Flip
           \/ (\E b \in Browser : SetLED(b) \/ Arrive(b) \/ Lose(b)) \/ UNCHANGED vars
  <2>1. UNCHANGED <<input, IncomingBuffer, token>>
    BY <1>4 DEF HttpTask, Upgrade, Store, Post, UserTask, DoSwitches, Fill, SendJSONReport,
       Connect, Visit, Flip, SetLED, Arrive, Lose, vars, inputVars, bufferVars
  <2>2. QED
    BY <2>1 DEF Counted
<1>5. QED
  BY <1>1, <1>2, <1>3, <1>4 DEF Next, InputTask

LEMMA SettledStays ==
  ASSUME Types, Sockets, Stored, [Next]_vars
  PROVE  Settled \subseteq Settled'
<1> USE Names
<1> SUFFICES ASSUME NEW b \in 1..browsers, \A f \in Fd : socket[f] = b => b \in websocket
             PROVE  /\ b \in 1..browsers'
                    /\ \A f \in Fd : socket'[f] = b => b \in websocket'
  BY DEF Settled
<1>0. b \in Browser /\ b # Visitor /\ b # Nobody
  BY Sizes DEF Types, Browser, Visitor, Nobody
<1>1. ASSUME NEW f \in Fd, Hangup(f), browsers' = browsers
      PROVE  /\ b \in 1..browsers'
             /\ \A g \in Fd : socket'[g] = b => b \in websocket'
  <2>1. /\ socket'[f] = Nobody /\ \A g \in Fd \ {f} : socket'[g] = socket[g]
        /\ websocket' = websocket \ {socket[f]}
    BY <1>1 DEF Hangup, Types
  <2>2. QED
    BY <1>0, <1>1, <2>1 DEF Sockets
<1>2. ASSUME NEW f \in Fd, Upgrade(f)
      PROVE  /\ b \in 1..browsers'
             /\ \A g \in Fd : socket'[g] = b => b \in websocket'
  <2>1. CASE Hangup(f)
    BY <1>1, <1>2, <2>1 DEF Upgrade, boundVars
  <2>2. CASE ~Hangup(f)
    BY <1>2, <2>2 DEF Upgrade, boundVars
  <2>3. QED
    BY <2>1, <2>2
<1>3. CASE Close
  <2>1. ws_fd \in Fd
    BY <1>3 DEF Close, Stored, Types
  <2>2. QED
    BY <1>1, <1>3, <2>1 DEF Close, boundVars
<1>4. CASE Connect \/ Visit
  <2> DEFINE who == IF Connect THEN browsers' ELSE Visitor
  <2>1. NewSocket(who) /\ who # Nobody /\ \A g \in Fd : socket[g] # who
    BY <1>4, NextBrowser DEF Connect, Visit
  <2>2. who # b /\ b \in 1..browsers' /\ websocket' = websocket
    BY <1>0, <1>4, NextBrowser DEF Connect, Visit, Types, boundVars
  <2> HIDE DEF who
  <2>3. PICK f \in Fd : /\ socket[f] = Nobody /\ socket'[f] = who
                        /\ \A g \in Fd \ {f} : socket'[g] = socket[g]
    BY <2>1, NewSocketFree
  <2>4. QED
    BY <2>2, <2>3
<1>5. CASE \/ Store \/ Post \/ UserTask \/ Flip
           \/ Loop \/ Pend \/ Select \/ Forget \/ Read \/ ParseInput
           \/ (\E c \in Browser : SetLED(c) \/ Arrive(c) \/ Lose(c)) \/ UNCHANGED vars
  <2>1. UNCHANGED <<browsers, socket, websocket>>
    BY <1>5 DEF Store, Post, UserTask, DoSwitches, Fill, SendJSONReport, Flip, Loop, Pend,
       Select, Forget, Read, ParseInput, SetLED, Arrive, Lose, vars, netVars, boundVars
  <2>2. QED
    BY <2>1
<1>6. QED
  BY <1>2, <1>3, <1>4, <1>5 DEF Next, HttpTask, InputTask

LEMMA SettledCounts ==
  ASSUME Types, Types', NEW S, S \subseteq Settled'
  PROVE  /\ IsFiniteSet(S) /\ Cardinality(S) \in Nat
         /\ Cardinality(Settled') \in Nat
         /\ Cardinality(S) <= Cardinality(Settled')
         /\ Cardinality(Settled') <= browsers'
<1>1. IsFiniteSet(1..browsers') /\ Cardinality(1..browsers') = browsers'
  <2>1. browsers' \in Nat
    BY Sizes DEF Types
  <2>2. QED
    BY <2>1, FS_Interval
<1>2. Settled' \subseteq 1..browsers'
  BY DEF Settled
<1>3. IsFiniteSet(Settled') /\ Cardinality(Settled') <= browsers'
  <2>1. Settled' \in SUBSET (1..browsers')
    BY <1>2
  <2>2. IsFiniteSet(Settled') /\ Cardinality(Settled') <= Cardinality(1..browsers')
    BY <1>1, <2>1, FS_Subset
  <2>3. QED
    BY <1>1, <2>2
<1>4. QED
  BY <1>3, FS_Subset, FS_CardinalityType

LEMMA PostsStep ==
  ASSUME Types, Types', Sockets, Stored, Posts, [Next]_vars
  PROVE  Posts'
<1>1. Settled \subseteq Settled'
  BY SettledStays
<1>2. /\ IsFiniteSet(Settled) /\ Cardinality(Settled) \in Nat
      /\ Cardinality(Settled') \in Nat /\ Cardinality(Settled) <= Cardinality(Settled')
  BY <1>1, SettledCounts
<1>3. SockReadySem \in Nat /\ http \in {"idle", "store", "post"}
  BY DEF Types
<1>4. ASSUME NEW f \in Fd, Upgrade(f) PROVE Posts'
  <2>1. CASE UNCHANGED http
    BY <1>2, <1>3, <1>4, <2>1 DEF Upgrade, Posts
  <2>2. CASE ~UNCHANGED http
    <3>1. /\ http = "idle" /\ http' = "store" /\ UNCHANGED <<SockReadySem, socket, browsers>>
          /\ websocket' = websocket \cup {socket[f]} /\ socket[f] \notin websocket
          /\ socket[f] \in Browser
      BY <1>4, <2>2, Names DEF Upgrade, Asking, Types, httpVars, boundVars
    <3>2. socket[f] \notin Settled
      BY <3>1 DEF Settled
    <3>3. socket[f] \in Settled'
      BY <3>1, Sizes DEF Settled, Sockets, Browser, Types
    <3>4. Cardinality(Settled \cup {socket[f]}) = Cardinality(Settled) + 1
      BY <1>2, <3>2, FS_AddElement
    <3>5. Cardinality(Settled \cup {socket[f]}) <= Cardinality(Settled')
      BY <1>1, <3>3, SettledCounts
    <3>6. QED
      BY <1>2, <1>3, <3>1, <3>4, <3>5 DEF Posts
  <2>3. QED
    BY <2>1, <2>2
<1>5. CASE Store
  BY <1>2, <1>3, <1>5 DEF Store, Posts
<1>6. CASE Post
  BY <1>2, <1>3, <1>6 DEF Post, Posted, Posts
<1>7. CASE Pend
  BY <1>2, <1>3, <1>7 DEF Pend, Posts, httpVars
<1>8. CASE UNCHANGED <<SockReadySem, http>>
  BY <1>2, <1>3, <1>8 DEF Posts
<1>9. CASE \/ Loop \/ Select \/ Close \/ Forget \/ Read \/ ParseInput \/ UserTask
           \/ Connect \/ Visit \/ Flip
           \/ (\E b \in Browser : SetLED(b) \/ Arrive(b) \/ Lose(b)) \/ UNCHANGED vars
  BY <1>8, <1>9 DEF Loop, Select, Close, Forget, Read, ParseInput, UserTask, DoSwitches,
     Fill, SendJSONReport, Connect, Visit, Flip, SetLED, Arrive, Lose, vars, sharedVars,
     httpVars
<1>10. QED
  BY <1>4, <1>5, <1>6, <1>7, <1>9 DEF Next, HttpTask, InputTask

LEMMA ReportStep ==
  ASSUME Types, Stored, Report, [Next]_vars
  PROVE  Report'
<1>1. CASE Store
  BY <1>1 DEF Store, Stored, Report, inputVars, userVars, historyVars
<1>2. CASE Close
  BY <1>2 DEF Close, Report, sharedVars, userVars
<1>3. CASE Forget
  BY <1>3 DEF Forget, Report, userVars, historyVars
<1>4. CASE UserTask
  BY <1>4 DEF UserTask, DoSwitches, Fill, SendJSONReport, InputWaits, Report, inputVars,
     sharedVars, historyVars
<1>5. CASE Loop \/ Pend \/ Select \/ Read \/ ParseInput
  BY <1>5 DEF Loop, Pend, Select, Read, Parse, ParseInput, Report, sharedVars, userVars,
     historyVars
<1>6. CASE Post \/ Connect \/ Visit \/ Flip \/ (\E f \in Fd : Upgrade(f))
           \/ (\E b \in Browser : SetLED(b) \/ Arrive(b) \/ Lose(b)) \/ UNCHANGED vars
  <2>1. UNCHANGED <<ws_fd, input, user, report_fd, moved>>
    BY <1>6 DEF Post, Connect, Visit, Flip, Upgrade, SetLED, Arrive, Lose, vars,
       sharedVars, inputVars, userVars, historyVars
  <2>2. QED
    BY <2>1 DEF Report
<1>7. QED
  BY <1>1, <1>2, <1>3, <1>4, <1>5, <1>6 DEF Next, HttpTask, InputTask

LEMMA InitIInv == Init => IInv
<1> SUFFICES ASSUME Init PROVE IInv
  OBVIOUS
<1> USE Sizes, Names
<1>1. Types
  <2>1. << >> \in Seq(Chars) /\ Len(<< >>) = 0
    OBVIOUS
  <2>2. token \in Tally
    BY DEF Init, Outside, Tally
  <2>3. sends \in 0..Len(Texts) /\ browsers \in 0..MaxBrowsers /\ flips \in 0..MaxFlips
    BY DEF Init
  <2>4. /\ IncomingBuffer \in Seq(Chars) /\ Len(IncomingBuffer) <= INCOMING_BUF_SIZE
        /\ arriving \in [Browser -> Seq(Chars)] /\ received \in [Browser -> Seq(Chars)]
    BY <2>1 DEF Init
  <2>5. /\ socket \in [Fd -> Browser \cup {Nobody, Visitor}]
        /\ shown \in [Browser -> {Blank, 0, 1}]
    BY DEF Init
  <2>6. QED
    BY <2>2, <2>3, <2>4, <2>5 DEF Init, Types
<1>2. Sockets /\ Stored /\ Report
  BY DEF Init, Sockets, Stored, Report, Here
<1>3. Counted
  BY DEF Init, Counted, Outside
<1>4. Posts
  <2>1. Settled = {}
    BY DEF Init, Settled
  <2>2. QED
    BY <2>1, FS_EmptySet DEF Init, Posts
<1>5. QED
  BY <1>1, <1>2, <1>3, <1>4 DEF IInv

LEMMA Invariant == Spec => []IInv
<1>1. IInv /\ [Next]_vars => IInv'
  BY TypesStep, SocketsStep, StoredStep, CountedStep, PostsStep, ReportStep DEF IInv
<1>2. QED
  BY InitIInv, <1>1, PTL DEF Spec

(* One websocket at a time, and ws_fd never names another connection: the  *)
(* test for a second one in MyDoWSUpgrade() and the store, and the close   *)
(* and the reset in InputTask, are steps apart.  As each browser posts     *)
(* once, the semaphore stays in its range.                                 *)
THEOREM OneWebSocketAlways == Spec => []OneWebSocket
<1>1. IInv => OneWebSocket
  <2> SUFFICES ASSUME IInv PROVE OneWebSocket
    OBVIOUS
  <2>1. SockReadySem \in 0..MaxBrowsers
    <3>1. IsFiniteSet(1..browsers) /\ Cardinality(1..browsers) = browsers
          /\ browsers \in 0..MaxBrowsers
      <4>1. browsers \in 0..MaxBrowsers /\ browsers \in Nat
        BY Sizes DEF IInv, Types
      <4>2. QED
        BY <4>1, FS_Interval
    <3>2. Settled \subseteq 1..browsers
      BY DEF Settled
    <3>3. Cardinality(Settled) <= browsers /\ Cardinality(Settled) \in Nat
      BY <3>1, <3>2, FS_Subset, FS_CardinalityType
    <3>4. SockReadySem \in Nat /\ SockReadySem <= Cardinality(Settled)
      BY <3>3 DEF IInv, Types, Posts
    <3>5. QED
      BY <3>1, <3>3, <3>4, Sizes
  <2>2. token \in [openCount : -INCOMING_BUF_SIZE..INCOMING_BUF_SIZE,
                   inString : BOOLEAN, strEscape : BOOLEAN]
    <3>1. token.openCount \in -INCOMING_BUF_SIZE..INCOMING_BUF_SIZE
      BY Sizes DEF IInv, Types, Counted
    <3>2. QED
      BY <3>1 DEF IInv, Types, Tally
  <2>3. TypeOK
    BY <2>1, <2>2 DEF IInv, Types, TypeOK
  <2>4. QED
    BY <2>3 DEF IInv, Stored, OneWebSocket
<1>2. QED
  BY Invariant, <1>1, PTL

(* SendJSONReport() writes to the page: as long as InputTask has not       *)
(* closed the websocket under it, its argument is a websocket.             *)
THEOREM ReportsAtPages == Spec => ReportsReachPages
<1>1. IInv /\ [Next]_vars => [\A b \in Browser :
         shown'[b] \notin {shown[b], Blank} => b \in websocket \/ moved]_vars
  <2> SUFFICES ASSUME IInv, [Next]_vars, NEW b \in Browser,
                      shown'[b] \notin {shown[b], Blank}, ~moved
               PROVE  b \in websocket
    BY DEF vars
  <2>1. CASE SendJSONReport
    <3>1. /\ user = "write" /\ report_fd # Closed /\ socket[report_fd] = b
      BY <2>1, Names DEF SendJSONReport, IInv, Types
    <3>2. QED
      BY <3>1 DEF IInv, Report, Stored, Here
  <2>2. ASSUME NEW f, Hangup(f) PROVE FALSE
    BY <2>2 DEF Hangup, IInv, Types
  <2>3. ASSUME NEW f \in Fd, Upgrade(f) PROVE FALSE
    BY <2>2, <2>3 DEF Upgrade, IInv, Types
  <2>4. CASE Close
    BY <2>2, <2>4 DEF Close
  <2>5. CASE shown' = shown
    BY <2>5
  <2>6. QED
    BY <2>1, <2>3, <2>4, <2>5 DEF Next, HttpTask, InputTask, UserTask, Store, Post,
       DoSwitches, Fill, Loop, Pend, Select, Forget, Read, ParseInput, Connect, Visit,
       Flip, SetLED, Arrive, Lose, vars, netVars
<1>2. QED
  BY Invariant, <1>1, PTL DEF Spec, ReportsReachPages

(***************************************************************************)
(* Messages.  What a browser has sent and InputTask has not read is a walk *)
(* through the texts: a place <<n, i>> is the i-th character of the n-th   *)
(* message, and Start is before the first one.                             *)
(***************************************************************************)
Start == <<0, 0>>
Spot == {a \in Message \X Nat : a[2] \in 1..Len(Texts[a[1]])}
CharOf(a) == <<a[1], Texts[a[1]][a[2]]>>
Ends(a) == a = Start \/ a[2] = Len(Texts[a[1]])
After(a, b) == IF Ends(a) THEN b[2] = 1 ELSE b = <<a[1], a[2] + 1>>

(* Walk p says where the characters of s come from: one after the other    *)
(* from place a on, up to the end of a message if it is whole.             *)
Walk(s, a, whole, p) ==
    /\ \A k \in 1..Len(s) : /\ s[k] = CharOf(p[k])
                            /\ After(IF k = 1 THEN a ELSE p[k - 1], p[k])
    /\ whole => Ends(IF Len(s) = 0 THEN a ELSE p[Len(s)])
Stream(s, a, whole) == \E p \in [1..Len(s) -> Spot] : Walk(s, a, whole, p)

LEMMA StreamEmpty ==
  ASSUME NEW a, NEW whole \in BOOLEAN, whole => Ends(a)
  PROVE  Stream(<< >>, a, whole)
<1>1. Len(<< >>) = 0 /\ 1..0 = {}
  OBVIOUS
<1>2. \E p : p \in [1..Len(<< >>) -> Spot]
  <2>1. [k \in 1..Len(<< >>) |-> CHOOSE b \in Spot : TRUE] \in [1..Len(<< >>) -> Spot]
    BY <1>1
  <2>2. QED
    BY <2>1
<1>3. QED
  BY <1>1, <1>2 DEF Stream, Walk

LEMMA HeadOfConcat ==
  ASSUME NEW s \in Seq(Chars), NEW t \in Seq(Chars), s # << >>
  PROVE  /\ s \o t \in Seq(Chars) /\ s \o t # << >>
         /\ Head(s \o t) = Head(s) /\ Tail(s \o t) = Tail(s) \o t
<1>1. /\ s \o t \in Seq(Chars) /\ Len(s \o t) = Len(s) + Len(t)
      /\ \A k \in 1..(Len(s) + Len(t)) :
           (s \o t)[k] = IF k <= Len(s) THEN s[k] ELSE t[k - Len(s)]
  BY ConcatProperties
<1>2. Len(s) \in Nat \ {0} /\ Len(t) \in Nat
  BY EmptySeq
<1>3. s \o t # << >> /\ Head(s \o t) = Head(s)
  BY <1>1, <1>2
<1>4. Tail(s) \in Seq(Chars) /\ Len(Tail(s)) = Len(s) - 1
      /\ \A k \in 1..(Len(s) - 1) : Tail(s)[k] = s[k + 1]
  BY HeadTailProperties
<1>5. Tail(s \o t) \in Seq(Chars) /\ Len(Tail(s \o t)) = Len(s) + Len(t) - 1
      /\ \A k \in 1..(Len(s) + Len(t) - 1) : Tail(s \o t)[k] = (s \o t)[k + 1]
  BY <1>1, <1>3, HeadTailProperties
<1>6. Tail(s) \o t \in Seq(Chars) /\ Len(Tail(s) \o t) = Len(s) + Len(t) - 1
      /\ \A k \in 1..(Len(s) + Len(t) - 1) :
           (Tail(s) \o t)[k] = IF k <= Len(s) - 1 THEN s[k + 1] ELSE t[k - (Len(s) - 1)]
  <2>1. /\ Tail(s) \o t \in Seq(Chars) /\ Len(Tail(s) \o t) = Len(Tail(s)) + Len(t)
        /\ \A k \in 1..(Len(Tail(s)) + Len(t)) : (Tail(s) \o t)[k] =
                IF k <= Len(Tail(s)) THEN Tail(s)[k] ELSE t[k - Len(Tail(s))]
    BY <1>4, ConcatProperties
  <2>2. QED
    BY <1>2, <1>4, <2>1
<1>7. ASSUME NEW k \in 1..(Len(s) + Len(t) - 1)
      PROVE  Tail(s \o t)[k] = (Tail(s) \o t)[k]
  <2>1. k + 1 \in 1..(Len(s) + Len(t)) /\ (k + 1) - Len(s) = k - (Len(s) - 1)
        /\ (k + 1 <= Len(s) <=> k <= Len(s) - 1)
    BY <1>2
  <2>2. QED
    BY <1>1, <1>5, <1>6, <2>1
<1>8. Tail(s \o t) = Tail(s) \o t
  BY <1>5, <1>6, <1>7, SeqEqual
<1>9. QED
  BY <1>1, <1>3, <1>8

(* The next character is that of the next place. *)
LEMMA StreamNext ==
  ASSUME NEW s \in Seq(Chars), NEW a, NEW whole \in BOOLEAN, s # << >>,
         Stream(s, a, whole)
  PROVE  \E b \in Spot : Head(s) = CharOf(b) /\ After(a, b) /\ Stream(Tail(s), b, whole)
<1>1. PICK p \in [1..Len(s) -> Spot] : Walk(s, a, whole, p)
  BY DEF Stream
<1>2. /\ Len(s) \in Nat /\ Len(s) > 0 /\ 1 \in 1..Len(s)
      /\ Head(s) = s[1] /\ Len(Tail(s)) = Len(s) - 1
      /\ \A k \in 1..(Len(s) - 1) : Tail(s)[k] = s[k + 1]
  BY HeadTailProperties
<1>3. p[1] \in Spot /\ Head(s) = CharOf(p[1]) /\ After(a, p[1])
  BY <1>1, <1>2 DEF Walk
<1> DEFINE q == [k \in 1..(Len(s) - 1) |-> p[k + 1]]
<1>4. q \in [1..Len(Tail(s)) -> Spot]
  BY <1>2
<1>5. ASSUME NEW k \in 1..Len(Tail(s))
      PROVE  Tail(s)[k] = CharOf(q[k]) /\ After(IF k = 1 THEN p[1] ELSE q[k - 1], q[k])
  <2>1. k + 1 \in 1..Len(s) /\ k + 1 # 1 /\ (k + 1) - 1 = k /\ q[k] = p[k + 1]
    BY <1>2
  <2>2. s[k + 1] = CharOf(p[k + 1]) /\ After(p[k], p[k + 1])
    BY <1>1, <2>1 DEF Walk
  <2>3. (IF k = 1 THEN p[1] ELSE q[k - 1]) = p[k]
    BY <1>2
  <2>4. QED
    BY <1>2, <2>1, <2>2, <2>3
<1>6. whole => Ends(IF Len(Tail(s)) = 0 THEN p[1] ELSE q[Len(Tail(s))])
  <2>1. (IF Len(Tail(s)) = 0 THEN p[1] ELSE q[Len(Tail(s))]) = p[Len(s)]
    BY <1>2
  <2>2. QED
    BY <1>1, <1>2, <2>1 DEF Walk
<1>7. Stream(Tail(s), p[1], whole)
  BY <1>4, <1>5, <1>6 DEF Stream, Walk
<1>8. QED
  BY <1>3, <1>7

(* What is cut off at the end leaves a stream, which may end anywhere. *)
LEMMA StreamPrefix ==
  ASSUME NEW s \in Seq(Chars), NEW t \in Seq(Chars), NEW a, NEW whole \in BOOLEAN,
         Stream(s \o t, a, whole)
  PROVE  Stream(s, a, FALSE)
<1>1. PICK p \in [1..Len(s \o t) -> Spot] : Walk(s \o t, a, whole, p)
  BY DEF Stream
<1>2. /\ Len(s) \in Nat /\ Len(t) \in Nat /\ Len(s \o t) = Len(s) + Len(t)
      /\ \A k \in 1..Len(s) : (s \o t)[k] = s[k]
  BY ConcatProperties
<1> DEFINE q == [k \in 1..Len(s) |-> p[k]]
<1>3. q \in [1..Len(s) -> Spot]
  BY <1>2
<1>4. ASSUME NEW k \in 1..Len(s)
      PROVE  s[k] = CharOf(q[k]) /\ After(IF k = 1 THEN a ELSE q[k - 1], q[k])
  <2>1. k \in 1..Len(s \o t) /\ q[k] = p[k] /\ (k # 1 => q[k - 1] = p[k - 1])
    BY <1>2
  <2>2. QED
    BY <1>1, <1>2, <2>1 DEF Walk
<1>5. QED
  BY <1>3, <1>4 DEF Stream, Walk

(* A whole message behind whole messages. *)
LEMMA StreamAppend ==
  ASSUME NEW s \in Seq(Chars), NEW n \in Message, NEW a, Texts[n] # << >>,
         Stream(s, a, TRUE)
  PROVE  Stream(s \o Whole(n), a, TRUE)
<1> DEFINE m == Len(s)  l == Len(Texts[n])  t == Whole(n)
<1>1. PICK p \in [1..m -> Spot] : Walk(s, a, TRUE, p)
  BY DEF Stream
<1>2. /\ m \in Nat /\ l \in Nat /\ l > 0 /\ t \in Seq(Chars) /\ Len(t) = l
      /\ \A i \in 1..l : t[i] = <<n, Texts[n][i]>>
  BY Texting
<1>3. /\ Len(s \o t) = m + l
      /\ \A k \in 1..(m + l) : (s \o t)[k] = IF k <= m THEN s[k] ELSE t[k - m]
  <2> HIDE DEF t
  <2>1. /\ Len(s \o t) = Len(s) + Len(t)
        /\ \A k \in 1..(Len(s) + Len(t)) :
             (s \o t)[k] = IF k <= Len(s) THEN s[k] ELSE t[k - Len(s)]
    BY <1>2, ConcatProperties
  <2>2. QED
    BY <1>2, <2>1
<1> HIDE DEF m, l, t
<1> DEFINE q == [k \in 1..(m + l) |-> IF k <= m THEN p[k] ELSE <<n, k - m>>]
<1>4. q \in [1..(m + l) -> Spot]
  <2>1. ASSUME NEW k \in 1..(m + l), ~(k <= m) PROVE <<n, k - m>> \in Spot
    <3>1. k - m \in 1..l /\ k - m \in Nat
      BY <1>2, <2>1
    <3>2. QED
      BY <3>1 DEF Spot, l
  <2>2. \A k \in 1..(m + l) : k <= m => k \in 1..m
    BY <1>2
  <2>3. QED
    BY <2>1, <2>2
<1> HIDE DEF q
<1>5. ASSUME NEW k \in 1..(m + l)
      PROVE  (s \o t)[k] = CharOf(q[k]) /\ After(IF k = 1 THEN a ELSE q[k - 1], q[k])
  <2>1. CASE k <= m
    <3>1. k \in 1..m /\ q[k] = p[k] /\ (k # 1 => q[k - 1] = p[k - 1])
      BY <1>2, <2>1 DEF q
    <3>2. QED
      BY <1>1, <1>3, <2>1, <3>1 DEF Walk, m
  <2>2. CASE k = m + 1
    <3>1. q[k] = <<n, 1>> /\ (s \o t)[k] = <<n, Texts[n][1]>>
      BY <1>2, <1>3, <2>2 DEF q
    <3>2. Ends(IF m = 0 THEN a ELSE p[m])
      BY <1>1 DEF Walk, m
    <3>3. (IF k = 1 THEN a ELSE q[k - 1]) = IF m = 0 THEN a ELSE p[m]
      <4>1. CASE m = 0
        BY <2>2, <4>1
      <4>2. CASE m # 0
        <5>1. m \in 1..(m + l) /\ m <= m /\ k # 1 /\ k - 1 = m
          BY <1>2, <2>2, <4>2
        <5>2. q[m] = p[m]
          BY <5>1 DEF q
        <5>3. QED
          BY <4>2, <5>1, <5>2
      <4>3. QED
        BY <4>1, <4>2
    <3>4. After(IF k = 1 THEN a ELSE q[k - 1], q[k])
      BY <3>1, <3>2, <3>3 DEF After
    <3>5. QED
      BY <3>1, <3>4 DEF CharOf
  <2>3. CASE k > m + 1
    <3>1. /\ q[k] = <<n, k - m>> /\ q[k - 1] = <<n, k - 1 - m>> /\ k # 1
          /\ (s \o t)[k] = <<n, Texts[n][k - m]>>
          /\ k - 1 - m + 1 = k - m /\ k - 1 - m \in 1..(l - 1)
      <4>1. k \in 1..(m + l) /\ k - 1 \in 1..(m + l) /\ ~(k <= m) /\ ~(k - 1 <= m)
        BY <1>2, <2>3
      <4>2. q[k] = <<n, k - m>> /\ q[k - 1] = <<n, k - 1 - m>>
        BY <4>1 DEF q
      <4>3. (s \o t)[k] = <<n, Texts[n][k - m]>>
        BY <1>2, <1>3, <4>1
      <4>4. k # 1 /\ k - 1 - m + 1 = k - m /\ k - 1 - m \in 1..(l - 1)
        BY <1>2, <4>1
      <4>5. QED
        BY <4>2, <4>3, <4>4
    <3>2. ~Ends(q[k - 1])
      <4>1. k - 1 - m # 0 /\ k - 1 - m # l
        BY <1>2, <3>1
      <4>2. Ends(<<n, k - 1 - m>>) => k - 1 - m = 0 \/ k - 1 - m = l
        BY DEF Ends, Start, l
      <4>3. QED
        BY <3>1, <4>1, <4>2
    <3>3. After(q[k - 1], q[k])
      BY <3>1, <3>2 DEF After
    <3>4. CharOf(q[k]) = <<n, Texts[n][k - m]>>
      BY <3>1 DEF CharOf
    <3>5. QED
      BY <3>1, <3>3, <3>4
  <2>4. QED
    <3>1. k \in Int /\ m \in Int
      BY <1>2
    <3>2. k <= m \/ k = m + 1 \/ k > m + 1
      BY <3>1
    <3>3. QED
      BY <3>2, <2>1, <2>2, <2>3
<1>6. Ends(IF m + l = 0 THEN a ELSE q[m + l])
  <2>1. m + l \in 1..(m + l) /\ ~(m + l <= m) /\ (m + l) - m = l /\ m + l # 0
    BY <1>2
  <2>2. q[m + l] = <<n, l>>
    BY <2>1 DEF q
  <2>3. Ends(<<n, l>>)
    BY DEF Ends, l
  <2>4. QED
    BY <2>1, <2>2, <2>3
<1>7. QED
  <2>1. Stream(s \o t, a, TRUE)
    BY <1>3, <1>4, <1>5, <1>6 DEF Stream, Walk
  <2>2. QED
    BY <2>1 DEF t

(* Where a message has ended, it does not matter which. *)
LEMMA StreamRestart ==
  ASSUME NEW s \in Seq(Chars), NEW a, NEW b, NEW whole \in BOOLEAN, Ends(a), Ends(b),
         Stream(s, a, whole)
  PROVE  Stream(s, b, whole)
<1>1. PICK p \in [1..Len(s) -> Spot] : Walk(s, a, whole, p)
  BY DEF Stream
<1>2. Walk(s, b, whole, p)
  <2>1. ASSUME NEW k \in 1..Len(s)
        PROVE  s[k] = CharOf(p[k]) /\ After(IF k = 1 THEN b ELSE p[k - 1], p[k])
    <3>1. s[k] = CharOf(p[k]) /\ After(IF k = 1 THEN a ELSE p[k - 1], p[k])
      BY <1>1 DEF Walk
    <3>2. CASE k = 1
      BY <3>1, <3>2 DEF After
    <3>3. CASE k # 1
      BY <3>1, <3>3
    <3>4. QED
      BY <3>2, <3>3
  <2>2. whole => Ends(IF Len(s) = 0 THEN b ELSE p[Len(s)])
    BY <1>1 DEF Walk
  <2>3. QED
    BY <2>1, <2>2 DEF Walk
<1>3. QED
  BY <1>2 DEF Stream

(* What the buffer and the counts are when InputTask has read up to place  *)
(* a of a message and not parsed it.                                       *)
Begin(a) == [i \in 1..a[2] |-> <<a[1], Texts[a[1]][i]>>]
CountsIn(n) == CHOOSE counts : CountsOf(n, counts)
TokenAfter(a) == IF a = Start THEN Outside ELSE CountsIn(a[1])[a[2]]
Objects == \A n \in Message : IsObject(n)

(* The browser whose messages InputTask is reading. *)
Current == IF ws_fd # Closed /\ input # "forget" THEN Here ELSE Nobody

(* InputTask has read up to a, which is the end of a message only while it *)
(* is parsed; it parses at the beginning only if select() has woken it for *)
(* another descriptor, and reads only if there is something; and what each *)
(* websocket has in store goes on from there.                              *)
AtPlace(a) ==
    /\ IncomingBuffer = Begin(a) /\ token = TokenAfter(a)
    /\ input = "parse" => Ends(a)
    /\ input # "parse" /\ Ends(a) => a = Start
    /\ input = "parse" /\ a = Start => ws_fd \notin read_fds
    /\ input = "read" /\ a = Start => received[Here] # << >>
    /\ Current = Nobody => a = Start
    /\ \A b \in websocket : Stream(received[b] \o arriving[b],
                                   IF b = Current THEN a ELSE Start, b \notin lost)
Place == Spot \cup {Start}
MessageInv == ~cut => \E a \in Place : AtPlace(a)

LEMMA Counts ==
  ASSUME Objects, NEW n \in Message
  PROVE  CountsOf(n, CountsIn(n)) /\ Texts[n] # << >>
<1>1. Texts[n] # << >> /\ \E counts : CountsOf(n, counts)
  BY DEF Objects, IsObject
<1>2. QED
  BY <1>1 DEF CountsIn

LEMMA Places ==
  ASSUME NEW a \in Spot
  PROVE  /\ a[1] \in Message /\ a[2] \in 1..Len(Texts[a[1]]) /\ a = <<a[1], a[2]>>
         /\ a # Start /\ a[2] \in Nat \ {0} /\ Len(Texts[a[1]]) \in Nat
<1>1. a \in Message \X Nat /\ a[2] \in 1..Len(Texts[a[1]])
  BY DEF Spot
<1>2. a[1] \in Message /\ a = <<a[1], a[2]>>
  BY <1>1
<1>3. a # Start
  BY <1>1 DEF Start
<1>4. Len(Texts[a[1]]) \in Nat
  BY <1>2, Texting
<1>5. QED
  BY <1>1, <1>2, <1>3, <1>4

(* At the end of a message, and only there, the braces match. *)
LEMMA BracesMatch ==
  ASSUME Objects, NEW a \in Place
  PROVE  /\ TokenAfter(a).openCount = 0 <=> Ends(a)
         /\ Ends(a) => TokenAfter(a) = Outside
<1>1. CASE a = Start
  BY <1>1 DEF TokenAfter, Ends, Outside
<1>2. CASE a # Start
  <2>1. a \in Spot
    BY <1>2 DEF Place
  <2>2. CountsOf(a[1], CountsIn(a[1])) /\ TokenAfter(a) = CountsIn(a[1])[a[2]]
    BY <1>2, <2>1, Counts, Places DEF TokenAfter
  <2>3. CASE a[2] = Len(Texts[a[1]])
    BY <2>2, <2>3 DEF CountsOf, Ends, Outside
  <2>4. CASE a[2] # Len(Texts[a[1]])
    <3>1. a[2] < Len(Texts[a[1]]) /\ a[2] \in 1..Len(Texts[a[1]])
      BY <2>1, <2>4, Places
    <3>2. TokenAfter(a).openCount # 0
      BY <2>2, <3>1 DEF CountsOf
    <3>3. QED
      BY <1>2, <2>4, <3>2 DEF Ends
  <2>5. QED
    BY <2>3, <2>4
<1>3. QED
  BY <1>1, <1>2

(* Reading one character takes InputTask to the next place. *)
LEMMA NextPlace ==
  ASSUME Objects, NEW a \in Place, NEW b \in Spot, After(a, b), Ends(a) => a = Start
  PROVE  /\ Begin(b) = Append(Begin(a), CharOf(b))
         /\ TokenAfter(b) = ConsumeSocket(TokenAfter(a), CharOf(b))
<1>1. /\ b[1] \in Message /\ b[2] \in 1..Len(Texts[b[1]]) /\ b # Start
      /\ b = <<b[1], b[2]>> /\ b[2] \in Nat
  BY Places
<1>2. /\ CountsIn(b[1])[0] = Outside
      /\ CountsIn(b[1])[b[2]] = ConsumeSocket(CountsIn(b[1])[b[2] - 1], Whole(b[1])[b[2]])
      /\ Whole(b[1])[b[2]] = CharOf(b)
  BY <1>1, Counts, Texting DEF CountsOf, CharOf
<1>3. CASE a = Start
  <2>1. b[2] = 1 /\ a[2] = 0
    BY <1>3 DEF After, Ends, Start
  <2>2. Begin(a) = << >>
    BY <2>1 DEF Begin
  <2>3. Begin(b) = <<CharOf(b)>>
    BY <2>1 DEF Begin, CharOf
  <2>4. Begin(b) = Append(Begin(a), CharOf(b))
    BY <2>2, <2>3
  <2>5. TokenAfter(b) = ConsumeSocket(TokenAfter(a), CharOf(b))
    BY <1>1, <1>2, <1>3, <2>1 DEF TokenAfter
  <2>6. QED
    BY <2>4, <2>5
<1>4. CASE a # Start
  <2>1. a \in Spot /\ ~Ends(a)
    BY <1>4 DEF Place
  <2>2. b = <<a[1], a[2] + 1>> /\ a[2] \in Nat
    BY <2>1, Places DEF After
  <2>3. b[1] = a[1] /\ b[2] = a[2] + 1 /\ b[2] - 1 = a[2]
    BY <2>2
  <2>4. Begin(b) = Append(Begin(a), CharOf(b))
    <3> DEFINE n == a[1]  m == a[2]
    <3>1. CharOf(b) = <<n, Texts[n][m + 1]>>
      BY <2>3 DEF CharOf
    <3>2. Begin(b) = [i \in 1..(m + 1) |-> <<n, Texts[n][i]>>]
          /\ Begin(a) = [i \in 1..m |-> <<n, Texts[n][i]>>]
      BY <2>3 DEF Begin
    <3> HIDE DEF n, m
    <3>3. Append([i \in 1..m |-> <<n, Texts[n][i]>>], <<n, Texts[n][m + 1]>>)
            = [i \in 1..(m + 1) |-> <<n, Texts[n][i]>>]
      <4>1. m \in Nat
        BY <2>2 DEF m
      <4>2. QED
        BY <4>1
    <3>4. QED
      BY <3>1, <3>2, <3>3
  <2>5. TokenAfter(b) = ConsumeSocket(TokenAfter(a), CharOf(b))
    BY <1>1, <1>2, <1>4, <2>3 DEF TokenAfter
  <2>6. QED
    BY <2>4, <2>5
<1>5. QED
  BY <1>3, <1>4

LEMMA BeginStart == Begin(Start) = << >> /\ TokenAfter(Start) = Outside /\ Ends(Start)
<1>1. Start[2] = 0
  BY DEF Start
<1>2. QED
  BY <1>1 DEF Begin, TokenAfter, Ends

(* A beginning that is the end is the whole message. *)
LEMMA BeginWhole ==
  ASSUME NEW a \in Place, Ends(a)
  PROVE  \/ a = Start /\ Begin(a) = << >>
         \/ a[1] \in Message /\ Begin(a) = Whole(a[1])
<1>1. CASE a = Start
  BY <1>1, BeginStart
<1>2. CASE a # Start
  BY <1>2, Places DEF Place, Ends, Begin, Whole
<1>3. QED
  BY <1>1, <1>2

LEMMA CurrentIs ==
  ASSUME Types, Stored
  PROVE  \/ Current = Nobody /\ (ws_fd = Closed \/ input = "forget")
         \/ /\ ws_fd \in Fd /\ ws_fd # Closed /\ input # "forget"
            /\ Current = Here /\ Here \in websocket /\ Current # Nobody
  BY Names DEF Types, Stored, Current

(* The steps of the environment and the web server, and those of UserMain  *)
(* and InputTask that move no character.                                   *)
LEMMA PlaceStays ==
  ASSUME Types, Stored, NEW a \in Place, AtPlace(a),
         UNCHANGED <<IncomingBuffer, token, websocket>>,
         \/ UNCHANGED <<input, read_fds, ws_fd>>
         \/ {input, input'} \cap {"parse", "read"} = {},
         Current' = Current,
         input = "read" /\ received[Here] # << >> => received'[Here'] # << >>,
         \A b \in websocket :
             Stream(received'[b] \o arriving'[b],
                    IF b = Current THEN a ELSE Start, b \notin lost')
  PROVE  AtPlace(a)'
<1>1. IncomingBuffer' = Begin(a)' /\ token' = TokenAfter(a)'
  BY DEF AtPlace, Begin, TokenAfter, CountsIn
<1>2. \A b \in websocket' :
             Stream(received'[b] \o arriving'[b],
                    IF b = Current' THEN a ELSE Start, b \notin lost')
  OBVIOUS
<1>3. Current' = Nobody => a = Start
  BY DEF AtPlace
<1>4. CASE UNCHANGED <<input, read_fds, ws_fd>>
  BY <1>1, <1>2, <1>3, <1>4 DEF AtPlace
<1>5. CASE {input, input'} \cap {"parse", "read"} = {}
  <2>1. input \notin {"parse", "read"} /\ input' \notin {"parse", "read"}
    BY <1>5
  <2>2. Ends(a) => a = Start
    BY <2>1 DEF AtPlace
  <2>3. QED
    BY <1>1, <1>2, <1>3, <2>1, <2>2 DEF AtPlace
<1>6. QED
  BY <1>4, <1>5

(* Select: it reads only if there is something, and parses without reading *)
(* only at the beginning, when another descriptor woke it.                 *)
LEMMA PlaceSelect ==
  ASSUME Objects, Types, Stored, NEW a \in Place, AtPlace(a), Select
  PROVE  AtPlace(a)'
<1>1. /\ input = "select" /\ (Ends(a) => a = Start)
      /\ UNCHANGED <<ws_fd, IncomingBuffer, token, socket, websocket, arriving, received, lost>>
  BY DEF Select, AtPlace, sharedVars, bufferVars, netVars
<1>2. ws_fd \in Fd /\ ws_fd # Closed /\ Here \in websocket
  BY <1>1 DEF Stored, Types
<1>3. input' \in {"close", "read", "parse", "loop"}
  BY DEF Select, Parse
<1>4. Current' = Current /\ Here' = Here
  BY <1>1, <1>2, <1>3 DEF Current, Here
<1>5. input' = "read" => received[Here] # << >>
  <2>1. input' = "read" => ws_fd \in read_fds'
    BY DEF Select, Parse
  <2>2. ws_fd \in read_fds' => Readable(ws_fd)
    BY DEF Select
  <2>3. QED
    BY <1>2, <2>1, <2>2 DEF Readable, Here
<1>6. input' = "parse" => ws_fd \notin read_fds' /\ token.openCount = 0
  BY DEF Select, Parse
<1>7. token.openCount = 0 <=> Ends(a)
  BY BracesMatch DEF AtPlace
<1>8. QED
  BY <1>1, <1>4, <1>5, <1>6, <1>7 DEF AtPlace, Begin, TokenAfter, CountsIn

(* ParseInput: the message is done with, and the next one begins.          *)
LEMMA PlaceParse ==
  ASSUME Objects, Types, Stored, NEW a \in Place, AtPlace(a), ParseInput
  PROVE  AtPlace(Start)'
<1>1. /\ input = "parse" /\ Ends(a) /\ input' = "loop" /\ IncomingBuffer' = << >>
      /\ UNCHANGED <<ws_fd, token, socket, websocket, arriving, received, lost>>
  BY DEF ParseInput, AtPlace, sharedVars, netVars
<1>2. Current' = Current /\ Here' = Here
  BY <1>1 DEF Current, Here
<1>3. token' = Outside
  BY <1>1, BracesMatch DEF AtPlace
<1>4. Begin(Start) = << >> /\ TokenAfter(Start) = Outside
  BY BeginStart
<1>5. ASSUME NEW b \in websocket
      PROVE  Stream(received[b] \o arriving[b], Start, b \notin lost)
  <2>1. Stream(received[b] \o arriving[b], IF b = Current THEN a ELSE Start, b \notin lost)
    BY DEF AtPlace
  <2>2. received[b] \o arriving[b] \in Seq(Chars) /\ Ends(Start)
    BY ConcatProperties DEF Types, Ends
  <2>3. QED
    BY <1>1, <2>1, <2>2, StreamRestart
<1>6. \A b \in websocket' : Stream(received'[b] \o arriving'[b],
                                   IF b = Current' THEN Start ELSE Start, b \notin lost')
  BY <1>1, <1>5
<1>7. QED
  BY <1>1, <1>3, <1>4, <1>6 DEF AtPlace, Begin, TokenAfter

(* Close: what is cut is counted in cut, and nothing else is under way.    *)
LEMMA PlaceClose ==
  ASSUME Types, Sockets, Stored, NEW a \in Place, AtPlace(a), Close, ~cut'
  PROVE  AtPlace(a)'
<1>1. ws_fd \in Fd /\ Here \in websocket /\ input = "close" /\ input' = "forget"
      /\ UNCHANGED <<ws_fd, IncomingBuffer, token>> /\ IncomingBuffer = << >>
  BY DEF Close, Stored, Types, sharedVars, bufferVars
<1>2. a = Start
  <2>1. Ends(a) => a = Start
    BY <1>1 DEF AtPlace
  <2>2. ASSUME a # Start PROVE FALSE
    <3>1. a[2] \in Nat \ {0}
      BY <2>2, Places DEF Place
    <3>2. Len(Begin(a)) = a[2]
      BY <3>1 DEF Begin
    <3>3. QED
      BY <1>1, <3>1, <3>2 DEF AtPlace
  <2>3. QED
    BY <2>2
<1>3. /\ websocket' = websocket \ {Here}
      /\ \A b \in websocket' : /\ received'[b] = received[b] /\ arriving'[b] = arriving[b]
                               /\ b \notin lost' <=> b \notin lost
  BY DEF Close, Hangup, Here, Types
<1>4. ASSUME NEW b \in websocket'
      PROVE  Stream(received'[b] \o arriving'[b], Start, b \notin lost')
  <2>1. b \in websocket
    BY <1>3
  <2>2. Stream(received[b] \o arriving[b], Start, b \notin lost)
    BY <1>2, <2>1 DEF AtPlace
  <2>3. (b \notin lost') = (b \notin lost)
    BY <1>3
  <2>4. QED
    BY <1>3, <2>2, <2>3
<1>5. IncomingBuffer' = Begin(a)' /\ token' = TokenAfter(a)'
  BY <1>1 DEF AtPlace, Begin, TokenAfter, CountsIn
<1>6. QED
  BY <1>1, <1>2, <1>4, <1>5 DEF AtPlace

(* Read: one character further, or the loop once more. *)
LEMMA PlaceRead ==
  ASSUME Objects, Types, Stored, NEW a \in Place, AtPlace(a), Read
  PROVE  \E b \in Place : AtPlace(b)'
<1>1. /\ input = "read" /\ (Ends(a) => a = Start) /\ ws_fd \in Fd /\ ws_fd # Closed
      /\ Here \in websocket /\ Current = Here
      /\ UNCHANGED <<ws_fd, socket, websocket, arriving, lost>>
  BY DEF Read, AtPlace, Stored, Types, Current, sharedVars
<1>2. Current' = Current /\ Here' = Here
  <2>1. input' # "forget"
    BY DEF Read, Parse
  <2>2. QED
    BY <1>1, <2>1 DEF Current, Here
<1>3. CASE More
  <2>1. /\ received[Here] # << >> /\ received[Here] \in Seq(Chars) /\ Here \in Browser
        /\ arriving[Here] \in Seq(Chars)
    BY <1>1, <1>3 DEF More, Types
  <2> DEFINE s == received[Here] \o arriving[Here]
  <2>2. s \in Seq(Chars) /\ s # << >> /\ Head(s) = Head(received[Here])
        /\ Tail(s) = Tail(received[Here]) \o arriving[Here]
    BY <2>1, HeadOfConcat
  <2>3. Stream(s, a, Here \notin lost)
    BY <1>1 DEF AtPlace
  <2> HIDE DEF s
  <2>4. PICK b \in Spot : /\ Head(s) = CharOf(b) /\ After(a, b)
                          /\ Stream(Tail(s), b, Here \notin lost)
    BY <2>2, <2>3, StreamNext
  <2>5. /\ IncomingBuffer' = Append(IncomingBuffer, CharOf(b))
        /\ token' = ConsumeSocket(token, CharOf(b))
        /\ received' = [received EXCEPT ![Here] = Tail(@)]
        /\ input' = IF token'.openCount = 0 THEN "parse" ELSE "read"
    BY <1>3, <2>2, <2>4 DEF Read
  <2>6. b \in Place /\ b # Start
    BY Places DEF Place
  <2>7. IncomingBuffer' = Begin(b) /\ token' = TokenAfter(b)
    BY <1>1, <2>4, <2>5, NextPlace DEF AtPlace
  <2>8. input' = (IF Ends(b) THEN "parse" ELSE "read")
    BY <2>5, <2>6, <2>7, BracesMatch
  <2>9. ASSUME NEW c \in websocket
        PROVE  Stream(received'[c] \o arriving[c], IF c = Current THEN b ELSE Start,
                      c \notin lost)
    <3>1. CASE c = Here
      <4>1. received'[c] = Tail(received[Here])
        BY <2>1, <2>5, <3>1 DEF Types
      <4>2. QED
        BY <1>1, <2>2, <2>4, <3>1, <4>1
    <3>2. CASE c # Here
      <4>1. received'[c] = received[c]
        BY <2>5, <3>2 DEF Types
      <4>2. QED
        BY <1>1, <3>2, <4>1 DEF AtPlace
    <3>3. QED
      BY <3>1, <3>2
  <2>10. \A c \in websocket' :
            Stream(received'[c] \o arriving'[c], IF c = Current' THEN b ELSE Start,
                   c \notin lost')
    BY <1>1, <1>2, <2>9
  <2>11. Current # Nobody
    BY <1>1, Names DEF Types
  <2>12. AtPlace(b)'
    BY <1>2, <2>6, <2>7, <2>8, <2>10, <2>11 DEF AtPlace, Begin, TokenAfter, CountsIn
  <2>13. QED
    BY <2>6, <2>12
<1>4. CASE ~More
  <2>1. UNCHANGED <<IncomingBuffer, token, received>> /\ input' = Parse(token.openCount)
    BY <1>4 DEF Read, bufferVars
  <2>2. a # Start
    <3>1. SUFFICES ASSUME a = Start PROVE FALSE
      OBVIOUS
    <3>2. received[Here] # << >>
      BY <1>1, <3>1 DEF AtPlace
    <3>3. Len(IncomingBuffer) = 0
      <4>1. IncomingBuffer = << >>
        BY <3>1, BeginStart DEF AtPlace
      <4>2. QED
        BY <4>1
    <3>4. QED
      BY <1>1, <1>4, <3>2, <3>3, Sizes DEF More
  <2>3. ~Ends(a) /\ token.openCount # 0
    BY <1>1, <2>2, BracesMatch DEF AtPlace
  <2>4. input' = "loop"
    BY <2>1, <2>3 DEF Parse
  <2>5. AtPlace(a)'
    BY <1>1, <1>2, <2>1, <2>2, <2>3, <2>4, PlaceStays DEF AtPlace, Begin, TokenAfter, CountsIn
  <2>6. QED
    BY <2>5
<1>5. QED
  BY <1>3, <1>4

(* A new websocket has nothing in store, and a failed upgrade is none.     *)
LEMMA PlaceUpgrade ==
  ASSUME Types, Sockets, Stored, NEW a \in Place, AtPlace(a), NEW f \in Fd, Upgrade(f)
  PROVE  AtPlace(a)'
<1>0. UNCHANGED <<ws_fd, input, read_fds, IncomingBuffer, token>>
  BY DEF Upgrade, inputVars, bufferVars
<1>1. CASE Hangup(f)
  <2>1. /\ websocket' = websocket /\ socket[f] \notin websocket
        /\ \A g \in Fd : socket[g] \in websocket => socket'[g] = socket[g]
    BY <1>1, HangupOfRequest DEF Upgrade, Asking
  <2>2. \A b \in websocket : /\ received'[b] = received[b] /\ arriving'[b] = arriving[b]
                             /\ b \notin lost' <=> b \notin lost
    BY <1>1, <2>1 DEF Hangup, Types
  <2>3. Current' = Current /\ (ws_fd # Closed /\ input # "forget" => Here' = Here)
    BY <1>0, <2>1, CurrentIs DEF Current, Here
  <2>4. ASSUME NEW b \in websocket
        PROVE  Stream(received'[b] \o arriving'[b], IF b = Current THEN a ELSE Start,
                      b \notin lost')
    <3>1. (b \notin lost') = (b \notin lost)
      BY <2>2
    <3>2. QED
      BY <2>2, <3>1 DEF AtPlace
  <2>5. input = "read" /\ received[Here] # << >> => received'[Here'] # << >>
    BY <2>2, <2>3 DEF Stored
  <2>6. QED
    BY <1>0, <2>1, <2>3, <2>4, <2>5, PlaceStays
<1>2. CASE ~Hangup(f)
  <2>1. /\ ws_fd = Closed /\ websocket' = websocket \cup {socket[f]}
        /\ socket[f] \in Browser \ websocket
        /\ UNCHANGED <<socket, arriving, received, lost>>
    BY <1>2, Names DEF Upgrade, Vacant, Types, Asking
  <2>2. Current = Nobody /\ Current' = Nobody /\ a = Start /\ input \notin {"parse", "read"}
    BY <1>0, <2>1 DEF Current, AtPlace, Stored
  <2>3. ASSUME NEW b \in websocket'
        PROVE  Stream(received'[b] \o arriving'[b], Start, b \notin lost')
    <3>1. CASE b \in websocket
      BY <2>1, <2>2, <3>1 DEF AtPlace
    <3>2. CASE b \notin websocket
      <4>1. received'[b] \o arriving'[b] = << >>
        <5>1. received'[b] = << >> /\ arriving'[b] = << >>
          BY <2>1, <3>2 DEF Sockets
        <5>2. << >> \o << >> = << >>
          OBVIOUS
        <5>3. QED
          BY <5>1, <5>2
      <4>2. QED
        BY <4>1, StreamEmpty DEF Ends
    <3>3. QED
      BY <3>1, <3>2
  <2>4. IncomingBuffer' = Begin(a)' /\ token' = TokenAfter(a)'
    BY <1>0 DEF AtPlace, Begin, TokenAfter, CountsIn
  <2>5. QED
    BY <1>0, <2>2, <2>3, <2>4 DEF AtPlace
<1>3. QED
  BY <1>1, <1>2

(* The steps that move neither a character nor a connection.               *)
LEMMA PlaceIdle ==
  ASSUME Types, Stored, NEW a \in Place, AtPlace(a),
         \/ Store \/ Post \/ Loop \/ Pend \/ Forget \/ UserTask \/ Flip \/ UNCHANGED vars
  PROVE  AtPlace(a)'
<1>1. UNCHANGED <<IncomingBuffer, token, socket, websocket, arriving, received, lost>>
  BY DEF Store, Post, Loop, Pend, Forget, UserTask, DoSwitches, Fill, SendJSONReport,
     Flip, vars, inputVars, bufferVars, netVars
<1>2. CASE Store
  <2>1. /\ ws_fd = Closed /\ input \notin {"parse", "read", "forget"}
        /\ UNCHANGED input
    BY <1>2 DEF Store, Stored, inputVars
  <2>2. a = Start
    BY <2>1 DEF AtPlace, Current
  <2>3. ASSUME NEW b \in websocket'
        PROVE  Stream(received'[b] \o arriving'[b], Start, b \notin lost')
    BY <1>1, <2>2, <2>3 DEF AtPlace
  <2>4. IncomingBuffer' = Begin(a)' /\ token' = TokenAfter(a)'
    BY <1>1 DEF AtPlace, Begin, TokenAfter, CountsIn
  <2>5. QED
    BY <2>1, <2>2, <2>3, <2>4 DEF AtPlace
<1>3. ASSUME \/ UNCHANGED <<input, read_fds, ws_fd>>
             \/ {input, input'} \cap {"parse", "read"} = {},
             Current' = Current, input = "read" => Here' = Here
      PROVE  AtPlace(a)'
  <2>1. ASSUME NEW b \in websocket
        PROVE  Stream(received'[b] \o arriving'[b], IF b = Current THEN a ELSE Start,
                      b \notin lost')
    BY <1>1, <2>1 DEF AtPlace
  <2>2. input = "read" /\ received[Here] # << >> => received'[Here'] # << >>
    BY <1>1, <1>3
  <2>3. QED
    BY <1>1, <1>3, <2>1, <2>2, PlaceStays
<1>4. CASE Loop \/ Pend
  <2>1. {input, input'} \cap {"parse", "read"} = {} /\ input # "forget"
        /\ input' # "forget" /\ UNCHANGED ws_fd
    BY <1>4 DEF Loop, Pend, sharedVars
  <2>2. Current' = Current /\ Here' = Here
    BY <1>1, <2>1 DEF Current, Here
  <2>3. QED
    BY <1>3, <2>1, <2>2
<1>5. CASE Forget
  <2>1. {input, input'} \cap {"parse", "read"} = {} /\ input = "forget" /\ ws_fd' = Closed
    BY <1>5 DEF Forget, Forgotten
  <2>2. Current' = Current
    BY <2>1 DEF Current
  <2>3. QED
    BY <1>3, <2>1, <2>2
<1>6. CASE Post \/ UserTask \/ Flip \/ UNCHANGED vars
  <2>1. UNCHANGED <<input, read_fds, ws_fd>>
    BY <1>6 DEF Post, UserTask, DoSwitches, Fill, SendJSONReport, Flip, vars, sharedVars,
       inputVars
  <2>2. Current' = Current /\ Here' = Here
    BY <1>1, <2>1 DEF Current, Here
  <2>3. QED
    BY <1>3, <2>1, <2>2
<1>7. QED
  BY <1>2, <1>4, <1>5, <1>6

(* A new connection is no websocket yet.                                   *)
LEMMA PlaceConnect ==
  ASSUME Types, Sockets, Stored, NEW a \in Place, AtPlace(a), Connect \/ Visit
  PROVE  AtPlace(a)'
<1> DEFINE who == IF Connect THEN browsers' ELSE Visitor
<1>1. NewSocket(who) /\ who # Nobody /\ \A g \in Fd : socket[g] # who
  BY NextBrowser, Names DEF Connect, Visit
<1> HIDE DEF who
<1>2. PICK f \in Fd : /\ socket[f] = Nobody /\ socket'[f] = who
                      /\ \A g \in Fd \ {f} : socket'[g] = socket[g]
  BY <1>1, NewSocketFree
<1>3. UNCHANGED <<ws_fd, input, read_fds, IncomingBuffer, token, websocket, arriving,
                  received, lost>>
  BY DEF Connect, Visit, sharedVars, inputVars, bufferVars
<1>4. Current' = Current /\ (ws_fd # Closed /\ input # "forget" => Here' = Here)
  <2>1. CASE ws_fd \in Fd /\ ws_fd # Closed /\ input # "forget" /\ Here \in websocket
    <3>1. ws_fd # f
      BY <1>2, <2>1, Names DEF Here, Types
    <3>2. QED
      BY <1>2, <1>3, <2>1, <3>1 DEF Current, Here
  <2>2. CASE ws_fd = Closed \/ input = "forget"
    BY <1>3, <2>2 DEF Current
  <2>3. QED
    BY <2>1, <2>2, CurrentIs
<1>5. ASSUME NEW b \in websocket
      PROVE  Stream(received'[b] \o arriving'[b], IF b = Current THEN a ELSE Start,
                    b \notin lost')
  BY <1>3, <1>5 DEF AtPlace
<1>6. input = "read" /\ received[Here] # << >> => received'[Here'] # << >>
  BY <1>3, <1>4 DEF Stored
<1>7. QED
  BY <1>3, <1>4, <1>5, <1>6, PlaceStays

(* Three pieces, one behind the other, as operators that the provers do    *)
(* not look into.                                                          *)
Joined(x, y) == x \o y
LEMMA JoinedAssociative ==
  \A x, y, z \in Seq(Chars) : Joined(Joined(x, y), z) = Joined(x, Joined(y, z))
<1>1. \A C : \A x, y, z \in Seq(C) : (x \o y) \o z = x \o (y \o z)
  BY ConcatAssociative
<1>2. \A x, y, z \in Seq(Chars) : (x \o y) \o z = x \o (y \o z)
  BY <1>1
<1>3. QED
  BY <1>2 DEF Joined

LEMMA Regroup ==
  ASSUME NEW s \in Seq(Chars), NEW t \in Seq(Chars), NEW u \in Seq(Chars),
         NEW first \in Seq(Chars), NEW rest \in Seq(Chars),
         Joined(first, rest) = Joined(t, u)
  PROVE  Joined(Joined(s, first), rest) = Joined(Joined(s, t), u)
  BY JoinedAssociative

(* What is sent goes on where the last message ended; what arrives keeps   *)
(* its order; and what is lost was the last.                               *)
LEMMA PlaceSend ==
  ASSUME Objects, Types, Stored, NEW a \in Place, AtPlace(a), NEW b \in Browser,
         SetLED(b) \/ Arrive(b) \/ Lose(b)
  PROVE  AtPlace(a)'
<1> DEFINE from(c) == IF c = Current THEN a ELSE Start
<1>1. UNCHANGED <<ws_fd, input, read_fds, IncomingBuffer, token, socket, websocket>>
  BY DEF SetLED, Arrive, Lose, sharedVars, inputVars, bufferVars
<1>2. Current' = Current /\ Here' = Here
  BY <1>1 DEF Current, Here
<1>3. /\ received[b] \in Seq(Chars) /\ arriving[b] \in Seq(Chars)
      /\ received[b] \o arriving[b] \in Seq(Chars)
      /\ (b \notin lost) \in BOOLEAN
  BY ConcatProperties DEF Types
<1>4. ASSUME \A c \in Browser \ {b} : /\ received'[c] = received[c]
                                      /\ arriving'[c] = arriving[c]
                                      /\ c \notin lost' <=> c \notin lost,
             received[b] # << >> => received'[b] # << >>,
             b \in websocket => Stream(received'[b] \o arriving'[b], from(b), b \notin lost')
      PROVE  AtPlace(a)'
  <2>1. ASSUME NEW c \in websocket
        PROVE  Stream(received'[c] \o arriving'[c], from(c), c \notin lost')
    <3>1. CASE c = b
      BY <1>4, <2>1, <3>1
    <3>2. CASE c # b
      <4>1. c \in Browser
        BY <2>1 DEF Types
      <4>2. (c \notin lost') = (c \notin lost)
        BY <1>4, <3>2, <4>1
      <4>3. Stream(received[c] \o arriving[c], from(c), c \notin lost)
        BY <2>1 DEF AtPlace
      <4>4. QED
        BY <1>4, <3>2, <4>1, <4>2, <4>3
    <3>3. QED
      BY <3>1, <3>2
  <2>2. input = "read" /\ received[Here] # << >> => received'[Here'] # << >>
    <3>1. input = "read" => Here \in Browser
      BY DEF Stored, Types
    <3>2. QED
      BY <1>2, <1>4, <3>1
  <2>3. QED
    BY <1>1, <1>2, <2>1, <2>2, PlaceStays
<1>5. CASE SetLED(b)
  <2>1. b \in websocket /\ b \notin lost /\ UNCHANGED lost
    BY <1>5 DEF SetLED
  <2>2. PICK first, rest \in Seq(Chars) :
           /\ first \o rest = arriving[b] \o Whole(sends') /\ sends' \in Message
           /\ received' = [received EXCEPT ![b] = @ \o first]
           /\ arriving' = [arriving EXCEPT ![b] = rest]
    BY <1>5, Sending
  <2>3. received'[b] = received[b] \o first /\ arriving'[b] = rest
    BY <2>2 DEF Types
  <2>4. (received[b] \o first) \o rest = (received[b] \o arriving[b]) \o Whole(sends')
    <3>1. Whole(sends') \in Seq(Chars)
      BY <2>2, Texting
    <3> DEFINE new == Whole(sends')
    <3>2. new \in Seq(Chars) /\ Joined(first, rest) = Joined(arriving[b], new)
      BY <2>2, <3>1 DEF Joined
    <3> HIDE DEF new
    <3>3. Joined(Joined(received[b], first), rest) = Joined(Joined(received[b], arriving[b]), new)
      BY <1>3, <3>2, Regroup
    <3>4. QED
      BY <3>3 DEF Joined, new
  <2>5. Stream((received[b] \o arriving[b]) \o Whole(sends'), from(b), TRUE)
    <3>1. Stream(received[b] \o arriving[b], from(b), TRUE)
      <4>1. (b \notin lost) = TRUE
        BY <2>1
      <4>2. Stream(received[b] \o arriving[b], from(b), b \notin lost)
        BY <2>1 DEF AtPlace
      <4>3. QED
        BY <4>1, <4>2
    <3>2. Texts[sends'] # << >>
      BY <2>2, Counts
    <3> DEFINE n == sends'
    <3>3. n \in Message
      BY <2>2
    <3> HIDE DEF n
    <3>4. Texts[n] # << >>
      BY <3>2 DEF n
    <3>5. Stream((received[b] \o arriving[b]) \o Whole(n), from(b), TRUE)
      BY <1>3, <3>1, <3>3, <3>4, StreamAppend
    <3>6. QED
      BY <3>5 DEF n
  <2>6. Stream(received'[b] \o arriving'[b], from(b), b \notin lost')
    <3>1. (b \notin lost') = TRUE
      BY <2>1
    <3>2. QED
      BY <2>3, <2>4, <2>5, <3>1
  <2>7. received[b] # << >> => received'[b] # << >>
    BY <1>3, <2>3, HeadOfConcat
  <2>8. \A c \in Browser \ {b} : received'[c] = received[c] /\ arriving'[c] = arriving[c]
    BY <2>2 DEF Types
  <2>9. QED
    BY <1>4, <2>1, <2>6, <2>7, <2>8
<1>6. CASE Arrive(b)
  <2>1. received'[b] = received[b] \o arriving[b] /\ arriving'[b] = << >> /\ UNCHANGED lost
    BY <1>6 DEF Arrive, Types
  <2>2. \A c \in Browser \ {b} : received'[c] = received[c] /\ arriving'[c] = arriving[c]
    BY <1>6 DEF Arrive, Types
  <2>3. received'[b] \o arriving'[b] = received[b] \o arriving[b]
    BY <1>3, <2>1, ConcatEmptySeq
  <2>4. b \in websocket => Stream(received[b] \o arriving[b], from(b), b \notin lost)
    BY DEF AtPlace
  <2>5. received[b] # << >> => received'[b] # << >>
    BY <1>3, <2>1, HeadOfConcat
  <2>6. QED
    BY <1>4, <2>1, <2>2, <2>3, <2>4, <2>5
<1>7. CASE Lose(b)
  <2>1. received' = received /\ arriving'[b] = << >> /\ lost' = lost \cup {b}
        /\ \A c \in Browser \ {b} : arriving'[c] = arriving[c]
    BY <1>7 DEF Lose, Types
  <2>2. b \in websocket => Stream(received[b], from(b), FALSE)
    <3>1. b \in websocket => Stream(received[b] \o arriving[b], from(b), b \notin lost)
      BY DEF AtPlace
    <3>2. QED
      BY <1>3, <3>1, StreamPrefix
  <2>3. received'[b] \o arriving'[b] = received[b]
    BY <1>3, <2>1, ConcatEmptySeq
  <2>4. (b \notin lost') = FALSE
    BY <2>1
  <2>5. QED
    BY <1>4, <2>1, <2>2, <2>3, <2>4
<1>8. QED
  BY <1>5, <1>6, <1>7

LEMMA MessageStep ==
  ASSUME Objects, IInv, MessageInv, [Next]_vars
  PROVE  MessageInv'
<1> USE DEF IInv
<1> SUFFICES ASSUME ~cut' PROVE \E a \in Place : AtPlace(a)'
  BY DEF MessageInv, Place, Spot, Message, Start
<1>1. ~cut
  BY DEF Types, Next, HttpTask, Store, Post, Upgrade, InputTask, Loop, Pend, Select, Close,
     Forget, Read, ParseInput, UserTask, DoSwitches, Fill, SendJSONReport, Connect, Visit,
     Flip, SetLED, Arrive, Lose, vars, historyVars
<1>2. PICK a \in Place : AtPlace(a)
  BY <1>1 DEF MessageInv
<1>3. CASE Read
  BY <1>2, <1>3, PlaceRead
<1>4. CASE ParseInput
  <2>1. Start \in Place
    BY DEF Place
  <2>2. QED
    BY <1>2, <1>4, <2>1, PlaceParse
<1>5. CASE Select
  BY <1>2, <1>5, PlaceSelect
<1>6. CASE Close
  BY <1>2, <1>6, PlaceClose
<1>7. ASSUME NEW f \in Fd, Upgrade(f) PROVE AtPlace(a)'
  BY <1>2, <1>7, PlaceUpgrade
<1>8. CASE Connect \/ Visit
  BY <1>2, <1>8, PlaceConnect
<1>9. ASSUME NEW b \in Browser, SetLED(b) \/ Arrive(b) \/ Lose(b) PROVE AtPlace(a)'
  BY <1>2, <1>9, PlaceSend
<1>10. CASE \/ Store \/ Post \/ Loop \/ Pend \/ Forget \/ UserTask \/ Flip \/ UNCHANGED vars
  BY <1>2, <1>10, PlaceIdle
<1>11. QED
  BY <1>3, <1>4, <1>5, <1>6, <1>7, <1>8, <1>9, <1>10 DEF Next, HttpTask, InputTask

(* InputTask hands ParseInput() one message, whole, if each text is one    *)
(* object: whatever pieces the messages come in, whenever connections      *)
(* follow each other, and whatever length, unless a connection was closed  *)
(* within a message.                                                       *)
THEOREM ParsesWhole == Objects => (Spec => []MessagesWhole)
<1> SUFFICES ASSUME Objects PROVE Spec => []MessagesWhole
  OBVIOUS
<1>1. Init => MessageInv
  <2> SUFFICES ASSUME Init PROVE \E a \in Place : AtPlace(a)
    BY DEF MessageInv
  <2>1. Start \in Place /\ Current = Nobody
    BY DEF Place, Init, Current
  <2>2. AtPlace(Start)
    BY <2>1, BeginStart DEF Init, AtPlace
  <2>3. QED
    BY <2>1, <2>2
<1>2. IInv /\ MessageInv /\ [Next]_vars => MessageInv'
  BY MessageStep
<1>3. MessageInv => MessagesWhole
  <2> SUFFICES ASSUME MessageInv, input = "parse", ~cut
               PROVE  \/ IncomingBuffer = << >> /\ ws_fd \notin read_fds
                      \/ \E n \in Message : IncomingBuffer = Whole(n)
    BY DEF MessagesWhole
  <2>1. PICK a \in Place : AtPlace(a)
    BY DEF MessageInv
  <2>2. IncomingBuffer = Begin(a) /\ Ends(a) /\ (a = Start => ws_fd \notin read_fds)
    BY <2>1 DEF AtPlace
  <2>3. QED
    BY <2>2, BeginWhole
<1>4. QED
  BY Invariant, <1>1, <1>2, <1>3, PTL DEF Spec
=============================================================================
