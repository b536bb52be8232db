---------------------------- MODULE DipSwitches -----------------------------
(***************************************************************************)
(* The three tasks of WebSockets/DIPSwitches around one websocket, ws_fd:  *)
(* the web server's task stores it, InputTask reads the page's messages    *)
(* from it and closes it, UserMain polls the switches and reports them to  *)
(* it.  Nothing but the variables themselves joins them.  InputTask has    *)
(* the higher priority (MAIN_PRIO - 1), so UserMain runs only while        *)
(* InputTask waits; the web server's task runs at any moment.              *)
(***************************************************************************)
EXTENDS Integers, Sequences

CONSTANTS INCOMING_BUF_SIZE,
          Texts,            (* the messages the pages send, in order: each *)
                            (* of characters "{", "}", "quote", "escape"   *)
                            (* and "x" for the others                      *)
          MaxFd,            (* descriptors of the TCP stack                *)
          MaxBrowsers,      (* bound: browsers that connect                *)
          Piece,            (* bound: so many characters of what is sent   *)
                            (* arrive first, the rest later                *)
          MaxFlips          (* bound: changes of the switches              *)

Char == {"{", "}", "quote", "escape", "x"}
ASSUME DipSwitchesAssumption ==
    /\ INCOMING_BUF_SIZE \in Nat \ {0} /\ Texts \in Seq(Seq(Char))
    /\ MaxFd \in Nat \ {0} /\ MaxBrowsers \in Nat
    /\ Piece \in Nat \ {0} /\ MaxFlips \in Nat

Fd == 1..MaxFd
Browser == 1..MaxBrowsers
Message == 1..Len(Texts)
Nobody == 0
Visitor == MaxBrowsers + 1   (* whoever asks the web server for a page      *)
Closed == -1                 (* ws_fd < 0                                  *)
Blank == -1                  (* a page that no report has reached          *)

VARIABLES
    ws_fd, bFirstRun, SockReadySem,      (* shared by the tasks            *)
    http, rv,                            (* the web server: step, socket   *)
    input, read_fds, error_fds,          (* InputTask: step, select() sets *)
    IncomingBuffer, token,               (* what is read, and the counts on it *)
    user, previousStates, currentStates, (* UserMain: step, DoSwitches()   *)
    report_fd,                           (* the argument of SendJSONReport *)
    socket,      (* who each descriptor stands for                         *)
    websocket,   (* the browsers whose connection was upgraded             *)
    arriving, received,  (* what a browser sent: on its way, and to be read *)
    lost,        (* the browsers whose connection has failed               *)
    shown,       (* what each page shows                                   *)
    switches,    (* the DIP switches                                       *)
    cut,         (* history: a connection was closed within a message      *)
    missed,      (* history: a report was made for a websocket that was    *)
                 (* not stored yet                                         *)
    moved,       (* history: the websocket was closed under a report       *)
    browsers, sends, flips   (* counted against the bounds                 *)

sharedVars == <<ws_fd, bFirstRun, SockReadySem>>
httpVars == <<http, rv>>
bufferVars == <<IncomingBuffer, token>>
inputVars == <<input, read_fds, error_fds, bufferVars>>
userVars == <<user, previousStates, currentStates, report_fd>>
netVars == <<socket, websocket, arriving, received, lost, shown>>
historyVars == <<cut, missed, moved>>
boundVars == <<browsers, sends, flips>>
vars == <<sharedVars, httpVars, inputVars, userVars, netVars, switches,
          cut, missed, moved, boundVars>>

(* The counts while no message is open. *)
Outside == [openCount |-> 0, inString |-> FALSE, strEscape |-> FALSE]

Init ==
    /\ ws_fd = Closed /\ bFirstRun = TRUE /\ SockReadySem = 0
    /\ http = "idle" /\ rv = Closed
    /\ input = "loop" /\ read_fds = {} /\ error_fds = {}
    /\ IncomingBuffer = << >>
    /\ token = Outside
    /\ user = "poll" /\ previousStates = 0 /\ currentStates = 0
    /\ report_fd = Closed
    /\ socket = [f \in Fd |-> Nobody] /\ websocket = {}
    /\ arriving = [b \in Browser |-> << >>]
    /\ received = [b \in Browser |-> << >>]
    /\ lost = {}
    /\ switches = 0
    /\ shown = [b \in Browser |-> Blank]
    /\ cut = FALSE /\ missed = FALSE /\ moved = FALSE
    /\ browsers = 0 /\ sends = 0 /\ flips = 0

(***************************************************************************)
(* The web server's task: MyDoWSUpgrade().                                 *)
(***************************************************************************)
Asking(f) == socket[f] # Nobody /\ socket[f] \notin websocket
Hangup(f) ==
    LET b == socket[f] IN
      /\ socket' = [socket EXCEPT ![f] = Nobody]
      /\ websocket' = websocket \ {b} /\ lost' = lost \ {b}
      /\ arriving' = [arriving EXCEPT ![b] = << >>]
      /\ received' = [received EXCEPT ![b] = << >>]
      /\ shown' = [shown EXCEPT ![b] = Blank]

(* Mutant of FirstRun: the flag is raised at start only. *)
MutantFirstRun == UNCHANGED bFirstRun
FirstRun == bFirstRun' = TRUE

(* Mutant of Vacant: a second websocket takes the place of the first. *)
MutantVacant == TRUE
Vacant == ws_fd < 0

(* A second websocket is refused, and WSUpgrade() fails if the browser is  *)
(* gone; the server then closes the connection.                            *)
Upgrade(f) ==
    /\ http = "idle" /\ Asking(f)
    /\ IF Vacant /\ socket[f] \notin lost \cup {Visitor}
         THEN /\ http' = "store" /\ rv' = f
              /\ websocket' = websocket \cup {socket[f]}
              /\ shown' = [shown EXCEPT ![socket[f]] = Blank]
              /\ FirstRun
              /\ UNCHANGED <<socket, arriving, received, lost>>
         ELSE Hangup(f) /\ UNCHANGED <<httpVars, bFirstRun>>
    /\ UNCHANGED <<ws_fd, SockReadySem, inputVars, userVars, switches, historyVars,
                   boundVars>>

Store ==
    /\ http = "store"
    /\ ws_fd' = rv
    /\ http' = "post" /\ rv' = Closed
    /\ UNCHANGED <<bFirstRun, SockReadySem, inputVars, userVars, netVars,
                   switches, historyVars, boundVars>>

(* Mutant of Posted: nobody is woken. *)
MutantPosted == SockReadySem
Posted == SockReadySem + 1
Post ==
    /\ http = "post"
    /\ SockReadySem' = Posted
    /\ http' = "idle"
    /\ UNCHANGED <<ws_fd, bFirstRun, rv, inputVars, userVars, netVars, switches,
                   historyVars, boundVars>>

HttpTask == Store \/ Post \/ \E f \in Fd : Upgrade(f)

(***************************************************************************)
(* InputTask.                                                              *)
(***************************************************************************)
Readable(f) == IF socket[f] \in websocket THEN received[socket[f]] # << >>
               ELSE socket[f] # Nobody
Failing(f) == socket[f] \in lost
Ready == (\E f \in read_fds : Readable(f)) \/ (\E f \in error_fds : Failing(f))

(* Mutant of Parse: what has been read is parsed, whole or not. *)
MutantParse(count) == "parse"
Parse(count) == IF count = 0 THEN "parse" ELSE "loop"

(* Mutant of Watched: the websocket's errors are not watched. *)
MutantWatched == read_fds' = read_fds \cup {ws_fd} /\ UNCHANGED error_fds
Watched == /\ read_fds' = read_fds \cup {ws_fd}
           /\ error_fds' = error_fds \cup {ws_fd}

(* The sets keep what the last select() left in them: FD_ZERO() is called  *)
(* only once, so the number of an earlier websocket may still be there.    *)
Loop ==
    /\ input = "loop"
    /\ IF ws_fd > 0
         THEN Watched /\ input' = "select"
         ELSE input' = "pend" /\ UNCHANGED <<read_fds, error_fds>>
    /\ UNCHANGED <<sharedVars, httpVars, bufferVars, userVars, netVars, switches,
                   historyVars, boundVars>>

Pend ==
    /\ input = "pend" /\ SockReadySem > 0
    /\ SockReadySem' = SockReadySem - 1
    /\ input' = "loop"
    /\ UNCHANGED <<ws_fd, bFirstRun, httpVars, read_fds, error_fds, bufferVars,
                   userVars, netVars, switches, historyVars, boundVars>>

(* select() without a timeout: a descriptor that was closed is never ready. *)
Select ==
    /\ input = "select" /\ Ready
    /\ read_fds' = {f \in read_fds : Readable(f)}
    /\ error_fds' = {f \in error_fds : Failing(f)}
    /\ input' = IF ws_fd \in error_fds' THEN "close"
                ELSE IF ws_fd \in read_fds' THEN "read" ELSE Parse(token.openCount)
    /\ UNCHANGED <<sharedVars, httpVars, bufferVars, userVars, netVars, switches,
                   historyVars, boundVars>>

Close ==
    /\ input = "close"
    /\ Hangup(ws_fd)
    /\ input' = "forget"
    /\ cut' = (cut \/ IncomingBuffer # << >>)
    /\ moved' = (moved \/ (user = "write" /\ report_fd = ws_fd))
    /\ UNCHANGED <<sharedVars, httpVars, read_fds, error_fds, bufferVars, userVars,
                   switches, missed, boundVars>>

(* Mutant of Forgotten: the number of the closed websocket is kept. *)
MutantForgotten == ws_fd
Forgotten == Closed
Forget ==
    /\ input = "forget"
    /\ ws_fd' = Forgotten
    /\ input' = "loop"
    /\ UNCHANGED <<bFirstRun, SockReadySem, httpVars, read_fds, error_fds, bufferVars,
                   userVars, netVars, switches, historyVars, boundVars>>

(* ConsumeSocket(): braces count, unless they are escaped in a string.     *)
Depth(c, t) == IF t.strEscape THEN 0
               ELSE CASE c = "{" -> 1 [] c = "}" -> -1 [] OTHER -> 0
ConsumeSocket(t, char) ==
    LET c == char[2] IN
      [openCount |-> t.openCount + Depth(c, t),
       inString  |-> IF c = "quote" /\ ~t.strEscape THEN ~t.inString ELSE t.inString,
       strEscape |-> IF c # "escape" THEN FALSE
                     ELSE IF t.inString THEN ~t.strEscape ELSE t.strEscape]

Here == socket[ws_fd]

More == /\ Here \in websocket /\ received[Here] # << >>
        /\ Len(IncomingBuffer) < INCOMING_BUF_SIZE

(* One character after the other, up to the one at which the braces match; *)
(* a full buffer is not emptied before they do.                            *)
Read ==
    /\ input = "read"
    /\ IF More
         THEN /\ IncomingBuffer' = Append(IncomingBuffer, Head(received[Here]))
              /\ received' = [received EXCEPT ![Here] = Tail(@)]
              /\ token' = ConsumeSocket(token, Head(received[Here]))
              /\ input' = IF token'.openCount = 0 THEN "parse" ELSE "read"
         ELSE /\ input' = Parse(token.openCount)
              /\ UNCHANGED <<bufferVars, received>>
    /\ UNCHANGED <<sharedVars, httpVars, read_fds, error_fds, userVars, socket,
                   websocket, arriving, lost, switches, shown, historyVars, boundVars>>

ParseInput ==
    /\ input = "parse"
    /\ IncomingBuffer' = << >>
    /\ input' = "loop"
    /\ UNCHANGED <<sharedVars, httpVars, read_fds, error_fds, token, userVars,
                   netVars, switches, historyVars, boundVars>>

InputTask == Loop \/ Pend \/ Select \/ Close \/ Forget \/ Read \/ ParseInput

(***************************************************************************)
(* UserMain, while InputTask waits for the semaphore, for select() or for  *)
(* the delay before a message is parsed.                                   *)
(***************************************************************************)
InputWaits == \/ input = "pend" /\ SockReadySem = 0
              \/ input = "select" /\ ~Ready
              \/ input = "parse"

DoSwitches ==
    /\ user = "poll" /\ ws_fd > 0
    /\ currentStates' = switches
    /\ user' = IF previousStates # switches \/ bFirstRun THEN "fill" ELSE "poll"
    /\ UNCHANGED <<sharedVars, httpVars, inputVars, previousStates, report_fd,
                   netVars, switches, historyVars, boundVars>>

(* The rest of DoSwitches(), up to the argument of SendJSONReport().       *)
Fill ==
    /\ user = "fill"
    /\ bFirstRun' = FALSE
    /\ previousStates' = currentStates
    /\ report_fd' = ws_fd
    /\ missed' = (missed \/ (ws_fd < 0 /\ http = "store"))
    /\ user' = "write"
    /\ UNCHANGED <<ws_fd, SockReadySem, httpVars, inputVars, currentStates, netVars,
                   switches, cut, moved, boundVars>>

SendJSONReport ==
    /\ user = "write"
    /\ IF report_fd > 0 /\ socket[report_fd] # Nobody
         THEN /\ shown' = [shown EXCEPT ![socket[report_fd]] = currentStates]
              /\ missed' = (missed /\ report_fd # ws_fd)
         ELSE UNCHANGED <<shown, missed>>
    /\ moved' = FALSE
    /\ report_fd' = Closed
    /\ user' = "poll"
    /\ UNCHANGED <<sharedVars, httpVars, inputVars, previousStates, currentStates,
                   socket, websocket, arriving, received, lost, switches, cut,
                   boundVars>>

UserTask == InputWaits /\ (DoSwitches \/ Fill \/ SendJSONReport)

(***************************************************************************)
(* The browsers, their connections and the switches.                       *)
(***************************************************************************)
(* The n-th message, each character with the message it belongs to. *)
Whole(n) == [i \in 1..Len(Texts[n]) |-> <<n, Texts[n][i]>>]

Connected == {socket[f] : f \in Fd} \cap Browser

NewSocket(who) ==
    \E f \in Fd : /\ socket[f] = Nobody
                  /\ socket' = [socket EXCEPT ![f] = who]

Connect ==
    /\ browsers < MaxBrowsers
    /\ browsers' = browsers + 1
    /\ NewSocket(browsers')
    /\ UNCHANGED <<sharedVars, httpVars, inputVars, userVars, websocket, arriving,
                   received, lost, switches, shown, historyVars, sends, flips>>

Visit ==
    /\ Visitor \notin {socket[f] : f \in Fd}
    /\ NewSocket(Visitor)
    /\ UNCHANGED <<sharedVars, httpVars, inputVars, userVars, websocket, arriving,
                   received, lost, switches, shown, historyVars, boundVars>>

(* The first Piece characters arrive, the rest later. *)
SetLED(b) ==
    /\ b \in Connected \cap websocket /\ b \notin lost /\ sends < Len(Texts)
    /\ sends' = sends + 1
    /\ LET data == arriving[b] \o Whole(sends')
           first == IF Piece < Len(data) THEN Piece ELSE Len(data)
       IN /\ received' = [received EXCEPT ![b] = @ \o SubSeq(data, 1, first)]
          /\ arriving' = [arriving EXCEPT ![b] = SubSeq(data, first + 1, Len(data))]
    /\ UNCHANGED <<sharedVars, httpVars, inputVars, userVars, socket, websocket, lost,
                   shown, switches, historyVars, browsers, flips>>

Arrive(b) ==
    /\ arriving[b] # << >>
    /\ received' = [received EXCEPT ![b] = @ \o arriving[b]]
    /\ arriving' = [arriving EXCEPT ![b] = << >>]
    /\ UNCHANGED <<sharedVars, httpVars, inputVars, userVars, socket, websocket, lost,
                   shown, switches, historyVars, boundVars>>

(* What has not arrived by then never does. *)
Lose(b) ==
    /\ b \in Connected \ lost
    /\ lost' = lost \cup {b}
    /\ arriving' = [arriving EXCEPT ![b] = << >>]
    /\ UNCHANGED <<sharedVars, httpVars, inputVars, userVars, socket, websocket,
                   received, switches, shown, historyVars, boundVars>>

Flip ==
    /\ flips < MaxFlips
    /\ flips' = flips + 1
    /\ switches' = 1 - switches
    /\ UNCHANGED <<sharedVars, httpVars, inputVars, userVars, netVars, historyVars,
                   browsers, sends>>

Next == \/ HttpTask \/ InputTask \/ UserTask
        \/ Connect \/ Visit \/ Flip
        \/ \E b \in Browser : SetLED(b) \/ Arrive(b) \/ Lose(b)

Spec == Init /\ [][Next]_vars

(* The tasks are scheduled: UserMain in every pause of InputTask, which is *)
(* why it gets on although the pauses end; and what was sent arrives.      *)
(* Browsers and switches owe nothing.                                      *)
FairSpec == /\ Spec
            /\ WF_vars(HttpTask) /\ WF_vars(InputTask) /\ SF_vars(UserTask)
            /\ WF_vars(\E b \in Browser : Arrive(b))
-----------------------------------------------------------------------------
Chars == Message \X Char

TypeOK ==
    /\ ws_fd \in Fd \cup {Closed} /\ bFirstRun \in BOOLEAN
    /\ SockReadySem \in 0..MaxBrowsers
    /\ http \in {"idle", "store", "post"} /\ rv \in Fd \cup {Closed}
    /\ input \in {"loop", "pend", "select", "read", "parse", "close", "forget"}
    /\ read_fds \subseteq Fd /\ error_fds \subseteq Fd
    /\ IncomingBuffer \in Seq(Chars) /\ Len(IncomingBuffer) <= INCOMING_BUF_SIZE
    /\ token \in [openCount : -INCOMING_BUF_SIZE..INCOMING_BUF_SIZE,
                   inString : BOOLEAN, strEscape : BOOLEAN]
    /\ user \in {"poll", "fill", "write"}
    /\ previousStates \in {0, 1} /\ currentStates \in {0, 1}
    /\ report_fd \in Fd \cup {Closed}
    /\ socket \in [Fd -> Browser \cup {Nobody, Visitor}]
    /\ websocket \subseteq Browser /\ lost \subseteq Browser
    /\ arriving \in [Browser -> Seq(Chars)] /\ received \in [Browser -> Seq(Chars)]
    /\ switches \in {0, 1} /\ shown \in [Browser -> {Blank, 0, 1}]
    /\ cut \in BOOLEAN /\ missed \in BOOLEAN /\ moved \in BOOLEAN
    /\ browsers \in 0..MaxBrowsers /\ sends \in 0..Len(Texts) /\ flips \in 0..MaxFlips

(* The upgraded connections that are open are ws_fd, and no other but the  *)
(* one that the web server is about to store: although the test for a      *)
(* second websocket and the store are steps apart, and the close and the   *)
(* reset of ws_fd are too, none is forgotten and ws_fd never names another *)
(* connection.                                                             *)
OneWebSocket ==
    /\ TypeOK
    /\ \A f \in Fd : socket[f] \in websocket =>
          f = ws_fd \/ (http = "store" /\ f = rv /\ ws_fd = Closed)
    /\ ws_fd # Closed /\ input # "forget" => Here \in websocket

(* What is parsed is one message, whole: unless a connection was closed    *)
(* within a message, whose beginning then stays in the buffer; or select() *)
(* returned for a descriptor of an earlier websocket, and nothing was read.*)
MessagesWhole == input = "parse" /\ ~cut =>
    \/ IncomingBuffer = << >> /\ ws_fd \notin read_fds
    \/ \E n \in Message : IncomingBuffer = Whole(n)

(* The texts for which that is so: the n-th is one object if the braces    *)
(* match at its last character and at none before.  counts[i] is the token *)
(* after i characters.                                                     *)
CountsOf(n, counts) ==
    /\ counts[0] = Outside /\ counts[Len(Texts[n])] = Outside
    /\ \A i \in 1..Len(Texts[n]) :
          /\ counts[i] = ConsumeSocket(counts[i - 1], Whole(n)[i])
          /\ i < Len(Texts[n]) => counts[i].openCount # 0
IsObject(n) == Texts[n] # << >> /\ \E counts : CountsOf(n, counts)

(* Every message is parsed, whatever pieces it arrives in: again and again *)
(* nothing of a live page is left unread or unparsed, unless a connection  *)
(* was closed within a message.                                            *)
EveryMessageObeyed == []<>(
    \/ cut
    \/ IncomingBuffer = << >> /\ \A b \in Connected \ lost :
          arriving[b] = << >> /\ received[b] = << >>)

(* Once the switches rest, the page shows them, on whatever connection: a  *)
(* new page does not wait for a change.  Except when the report was made   *)
(* between the two assignments of MyDoWSUpgrade(), or InputTask spins on   *)
(* the rest of a message.                                                  *)
PageShowsSwitches == <>[](
    \/ ws_fd = Closed \/ Here \notin Connected \ lost \/ cut \/ missed
    \/ shown[Here] = switches)

(* A report goes to a page, never into a connection that the web server    *)
(* serves: unless InputTask closed the websocket while it was made, and    *)
(* the number stands for another connection by the time it is written.     *)
ReportsReachPages == [][\A b \in Browser :
    shown'[b] \notin {shown[b], Blank} => b \in websocket \/ moved]_vars

(* A browser that is lost does not hold the only websocket forever. *)
LostIsReleased == []<>(lost \cap websocket = {})
=============================================================================
