---------------------------- MODULE SerialBurner ----------------------------
(***************************************************************************)
(* The two tasks of serial/SerialBurner around the data pump: UserMain,    *)
(* which listens, accepts and pumps, and the web server's task, which runs *)
(* the POST of the settings page.  They share the settings in RAM, the     *)
(* flag bChangeServerListenPort, the serial port and the settings in       *)
(* flash.  One call of DataPump() is a session here: it ends in one of the *)
(* ways module DataPump allows.  The device may lose power at any time.    *)
(***************************************************************************)
EXTENDS Integers, Sequences

CONSTANTS Port, DefPort,          (* ports; DEF_SERVER_LISTEN_PORT         *)
          Timeout, DefTimeout,    (* seconds; DEF_INACTIVITY_TIMEOUT       *)
          Override, DefOverride,  (* seconds; DEF_OVERRIDE_TIMEOUT         *)
          BaudRate, DefBaudRate,  (* rates; DEF_DATA_BAUDRATE              *)
          Form,                   (* bound: what is submitted, see Forms   *)
          MaxClients,             (* bound: clients that connect           *)
          MaxPosts,               (* bound: submissions of the page        *)
          MaxResets               (* bound: power cycles                   *)

ASSUME SerialBurnerAssumption ==
    /\ DefPort \in Port /\ DefTimeout \in Timeout /\ DefOverride \in Override
    /\ DefBaudRate \in BaudRate
    /\ Port \cup Timeout \cup Override \cup BaudRate \subseteq Nat
    /\ MaxClients \in Nat /\ MaxPosts \in Nat /\ MaxResets \in Nat

Client == 1..MaxClients
None == -1
Failed == -2
Closed == -3

(* NV_SettingsStruct, in RAM and in flash: of the key only whether it is   *)
(* the right one.  The start-up goes through the fields in this order.     *)
Field == <<"VerifyKey", "ServerListenPort", "ClientTimeout",
           "ClientOverrideTimeout", "DataBaudRate", "SerialDataFlowControl">>
Defaults == [VerifyKey |-> TRUE, ServerListenPort |-> DefPort,
             ClientTimeout |-> DefTimeout, ClientOverrideTimeout |-> DefOverride,
             DataBaudRate |-> DefBaudRate, SerialDataFlowControl |-> 0]
Filled(word) == [VerifyKey |-> FALSE, ServerListenPort |-> word, ClientTimeout |-> word,
                 ClientOverrideTimeout |-> word, DataBaudRate |-> word,
                 SerialDataFlowControl |-> word]
Zeroed == Filled(0)
Blank == 65535
Erased == Filled(Blank)

(* The form of html/index.html: its fields, in the order a browser sends   *)
(* them, and what may be typed into them.                                  *)
Page == <<"ServerListenPort", "ClientTimeout", "ClientOverrrideTimeout",
          "BaudRate", "FlowControl">>
Forms == [ServerListenPort : Port, ClientTimeout : Timeout,
          ClientOverrrideTimeout : Override, BaudRate : BaudRate, FlowControl : {0}]

ASSUME FormAssumption == Form \subseteq Forms

NoForm == << >>
NoLimits == << >>

(* The setting each name that processPostVariables() knows is stored in.   *)
Target == [ServerListenPort |-> "ServerListenPort",
           ClientTimeout |-> "ClientTimeout",
           ClientOverrideTimeout |-> "ClientTimeout",
           BaudRate |-> "DataBaudRate",
           SerialDataFlowControl |-> "SerialDataFlowControl"]

VARIABLES
    NV_Settings,  (* the settings in RAM                                   *)
    flash,        (* the settings in flash                                 *)
    bChangeServerListenPort,
    serialRate,   (* the rate the data serial port was opened with, or     *)
                  (* Closed                                                *)
    main,         (* where UserMain is                                     *)
    field,        (* the field CheckNVSettings() copies next               *)
    serverfd,     (* the listening port, None before, Failed after an error*)
    listening,    (* the ports the stack listens on                        *)
    backlog,      (* the clients queued on the listening socket            *)
    clientfd,     (* the client accept() returned last                     *)
    open,         (* the clients whose connection has not been closed      *)
    limits,       (* the timeouts the session read at its start, or NoLimits*)
    http,         (* where the web server's task is in a POST              *)
    step,         (* and what it does with the field it has come to        *)
    form,         (* the submission it works on                            *)
    saved,        (* history: when RAM and flash were last to be made      *)
                  (* equal, by loading or by saving, it went well          *)
    early,        (* history: since power was switched on a submission     *)
                  (* began before the serial port was open                 *)
    clients, posts, resets    (* counted against the bounds                *)

startVars == <<main, field>>
mainVars == <<startVars, serverfd, clientfd, limits>>
webVars == <<http, step, form, early, posts>>
stackVars == <<listening, backlog, open, clients>>
vars == <<NV_Settings, flash, bChangeServerListenPort, serialRate, resets,
          mainVars, webVars, saved, stackVars>>

Init ==
    /\ NV_Settings = Zeroed
    /\ flash = Erased
    /\ bChangeServerListenPort = FALSE
    /\ serialRate = Closed
    /\ main = "settings" /\ field = 1
    /\ serverfd = None
    /\ listening = {}
    /\ backlog = << >>
    /\ clientfd = None
    /\ open = {}
    /\ limits = NoLimits
    /\ http = 0 /\ step = "field"
    /\ form = NoForm
    /\ saved = TRUE /\ early = FALSE
    /\ clients = 0 /\ posts = 0 /\ resets = 0

(***************************************************************************)
(* UserMain, from StartHttp() on.                                          *)
(***************************************************************************)
At(here, next) == main = here /\ main' = next /\ UNCHANGED field

Booted == main \notin {"settings", "load", "test", "default", "save", "lower",
                       "serial", "open"}

(* GetUserParameters() points at the settings in flash, or returns NULL:   *)
(* then CheckNVSettings() leaves those in RAM as they are.                 *)
GetUserParameters ==
    /\ \/ At("settings", "load") /\ UNCHANGED saved
       \/ At("settings", "lower") /\ saved' = FALSE
    /\ UNCHANGED <<NV_Settings, flash, bChangeServerListenPort, serialRate, serverfd,
                   clientfd, limits, resets, webVars, stackVars>>

(* The fields are assigned one after the other, from flash as it then is   *)
(* or from the defaults, and the last one leads on to next.                *)
Copy(source, here, next) ==
    /\ main = here
    /\ NV_Settings' = [NV_Settings EXCEPT ![Field[field]] = source[Field[field]]]
    /\ IF field < Len(Field) THEN main' = here /\ field' = field + 1
                             ELSE main' = next /\ field' = 1
    /\ UNCHANGED <<flash, bChangeServerListenPort, serialRate, serverfd, clientfd,
                   limits, resets, webVars, saved, stackVars>>

(* A wrong key means that there are no settings in flash. *)
TestKey ==
    /\ IF NV_Settings.VerifyKey THEN At("test", "lower") /\ saved' = TRUE
                                ELSE At("test", "default") /\ UNCHANGED saved
    /\ UNCHANGED <<NV_Settings, flash, bChangeServerListenPort, serialRate, serverfd,
                   clientfd, limits, resets, webVars, stackVars>>

(* SaveUserParameters() writes the settings to flash, or fails. *)
SaveUserParameters(image) ==
    \/ flash' = image /\ saved' = TRUE
    \/ UNCHANGED flash /\ saved' = FALSE

SaveDefaults ==
    /\ At("save", "lower")
    /\ SaveUserParameters(NV_Settings)
    /\ UNCHANGED <<NV_Settings, bChangeServerListenPort, serialRate, serverfd, clientfd,
                   limits, resets, webVars, stackVars>>

CheckNVSettings ==
    \/ GetUserParameters
    \/ Copy(flash, "load", "test")
    \/ TestKey
    \/ Copy(Defaults, "default", "save")
    \/ SaveDefaults

(* UserMain lowers the flag, and then comes to the serial port. *)
LowerFlag ==
    /\ At("lower", "serial")
    /\ bChangeServerListenPort' = FALSE
    /\ UNCHANGED <<NV_Settings, flash, serialRate, serverfd, clientfd, limits, resets,
                   webVars, saved, stackVars>>

(* The two calls of InitializeSerialPorts(), which either task may be in.  *)
(* A port that the other task has opened in between is not opened again.   *)
SerialClose == serialRate' = Closed
OpenSerial == serialRate' = IF serialRate = Closed THEN NV_Settings.DataBaudRate
                                                   ELSE serialRate

InitializeSerialPorts ==
    /\ \/ At("serial", "open") /\ SerialClose
       \/ At("open", "start") /\ OpenSerial
    /\ UNCHANGED <<NV_Settings, flash, bChangeServerListenPort, serverfd, clientfd,
                   limits, resets, webVars, saved, stackVars>>

(* listen() on the configured port, which may fail. *)
Listen(next) ==
    /\ \/ /\ serverfd' = NV_Settings.ServerListenPort
          /\ listening' = listening \cup {serverfd'}
          /\ main' = next
       \/ /\ serverfd' = Failed
          /\ UNCHANGED listening
          /\ main' = IF main = "start" THEN "halted" ELSE next
    /\ UNCHANGED field
    /\ UNCHANGED <<NV_Settings, flash, bChangeServerListenPort, serialRate, clientfd,
                   limits, resets, webVars, saved, backlog, open, clients>>

Start == main = "start" /\ Listen("check")

Check ==
    /\ At("check", IF bChangeServerListenPort THEN "close" ELSE "accept")
    /\ UNCHANGED <<NV_Settings, flash, bChangeServerListenPort, serialRate, serverfd,
                   clientfd, limits, resets, webVars, saved, stackVars>>

(* Mutant of CloseServer: the old listening socket is forgotten.           *)
MutantCloseServer ==
    /\ At("close", "relisten")
    /\ UNCHANGED <<NV_Settings, flash, bChangeServerListenPort, serialRate, serverfd,
                   clientfd, limits, resets, webVars, saved, stackVars>>

(* close(serverfd): whoever was queued on it is refused. *)
CloseServer ==
    /\ At("close", "relisten")
    /\ listening' = listening \ {serverfd}
    /\ backlog' = << >>
    /\ UNCHANGED <<NV_Settings, flash, bChangeServerListenPort, serialRate, serverfd,
                   clientfd, limits, resets, webVars, saved, open, clients>>

Relisten == main = "relisten" /\ Listen("clear")

(* Mutant of ClearFlag: the flag stays up. *)
MutantClearFlag ==
    /\ At("clear", "accept")
    /\ UNCHANGED <<NV_Settings, flash, bChangeServerListenPort, serialRate, serverfd,
                   clientfd, limits, resets, webVars, saved, stackVars>>

ClearFlag ==
    /\ At("clear", "accept")
    /\ bChangeServerListenPort' = FALSE
    /\ UNCHANGED <<NV_Settings, flash, serialRate, serverfd, clientfd, limits, resets,
                   webVars, saved, stackVars>>

Limits(data) == [ClientTimeout |-> data.ClientTimeout,
                 ClientOverrideTimeout |-> data.ClientOverrideTimeout]

(* accept() returns the first client of the queue.  DataPump() starts and  *)
(* reads its timeouts from flash, or uses the defaults.                    *)
Accept ==
    /\ At("accept", "pump")
    /\ serverfd \in listening
    /\ backlog # << >>
    /\ clientfd' = Head(backlog)
    /\ open' = open \cup {clientfd'}
    /\ backlog' = Tail(backlog)
    /\ \E data \in {flash, Defaults} : limits' = Limits(data)
    /\ UNCHANGED <<NV_Settings, flash, bChangeServerListenPort, serialRate, serverfd,
                   resets, webVars, saved, listening, clients>>

(* accept() returns after a second without a client, or at once with an    *)
(* error.                                                                  *)
AcceptNothing ==
    /\ At("accept", "check")
    /\ (serverfd \in listening) => (backlog = << >>)
    /\ clientfd' = None
    /\ UNCHANGED <<NV_Settings, flash, bChangeServerListenPort, serialRate, serverfd,
                   limits, resets, webVars, saved, stackVars>>

(* The ways a session can end, see module DataPump. *)
Ending ==
    {"fd1", "fdserial"}
      \cup (IF limits.ClientTimeout > 0 THEN {"timedout"} ELSE {})
      \cup (IF /\ backlog # << >>
               /\ (limits.ClientOverrideTimeout > 0) => (limits.ClientTimeout > 0)
            THEN {"overridden"} ELSE {})

(* The return value equals clientfd only after an error on the network.    *)
MustClose(rtn) == rtn = "fd1"

DataPumpReturns ==
    /\ At("pump", "check")
    /\ \E rtn \in Ending :
         IF MustClose(rtn)
           THEN open' = open \ {clientfd} /\ clientfd' = None
           ELSE UNCHANGED <<open, clientfd>>
    /\ limits' = NoLimits
    /\ UNCHANGED <<NV_Settings, flash, bChangeServerListenPort, serialRate, serverfd,
                   resets, webVars, saved, listening, backlog, clients>>

UserMain == \/ CheckNVSettings \/ LowerFlag \/ InitializeSerialPorts \/ Start \/ Check
            \/ CloseServer \/ Relisten \/ ClearFlag \/ Accept \/ AcceptNothing
            \/ DataPumpReturns

(***************************************************************************)
(* The web server's task.  http is 0 between submissions, i while field i  *)
(* of the page is handled, and Len(Page) + 1 at the end of the post.       *)
(***************************************************************************)
StartPost ==
    /\ http = 0 /\ posts < MaxPosts
    /\ http' = 1
    /\ form' \in Form
    /\ posts' = posts + 1
    /\ early' = (early \/ ~Booted)
    /\ UNCHANGED <<NV_Settings, flash, bChangeServerListenPort, serialRate, resets,
                   mainVars, step, saved, stackVars>>

(* The task goes on to field i of the page, or stays at it. *)
Go(here, i, next) ==
    step = here /\ step' = next /\ http' = i /\ UNCHANGED <<form, early, posts>>

Handling(name) == http \in 1..Len(Page) /\ Page[http] = name

(* A new listen port: the flag is raised and a line printed first. *)
NewPort == NV_Settings.ServerListenPort # form.ServerListenPort

RaiseFlag ==
    /\ Handling("ServerListenPort") /\ NewPort
    /\ bChangeServerListenPort' = TRUE
    /\ Go("field", http, "flagged")
    /\ UNCHANGED <<NV_Settings, flash, serialRate, resets, mainVars, saved, stackVars>>

(* Mutant of NewRate: the comparison comes after the assignment.           *)
MutantNewRate == FALSE

(* A new baud rate reopens the serial port. *)
NewRate == Handling("BaudRate") /\ NV_Settings.DataBaudRate # form.BaudRate

(* The field is stored, if its name is one the handler knows. *)
Store ==
    /\ http \in 1..Len(Page)
    /\ NV_Settings' = IF Page[http] \in DOMAIN Target
                        THEN [NV_Settings EXCEPT ![Target[Page[http]]] = form[Page[http]]]
                        ELSE NV_Settings
    /\ \/ Go("flagged", http + 1, "field")
       \/ /\ ~(Handling("ServerListenPort") /\ NewPort)
          /\ IF NewRate THEN Go("field", http, "close") ELSE Go("field", http + 1, "field")
    /\ UNCHANGED <<flash, bChangeServerListenPort, serialRate, resets, mainVars, saved,
                   stackVars>>

(* InitializeSerialPorts() in this task. *)
Reopen ==
    /\ \/ Go("close", http, "open") /\ SerialClose
       \/ Go("open", http + 1, "field") /\ OpenSerial
    /\ UNCHANGED <<NV_Settings, flash, bChangeServerListenPort, resets, mainVars, saved,
                   stackVars>>

processPostVariables == RaiseFlag \/ Store \/ Reopen

(* Mutant of Image: the settings' defaults are written back.               *)
MutantImage == Defaults
Image == NV_Settings

(* The end of the post: the key is made right and the settings are saved.  *)
EndOfPost ==
    /\ http = Len(Page) + 1
    /\ \/ /\ Go("field", http, "save")
          /\ NV_Settings' = [NV_Settings EXCEPT !.VerifyKey = TRUE]
          /\ UNCHANGED <<flash, saved>>
       \/ /\ step = "save"
          /\ SaveUserParameters(Image)
          /\ http' = 0 /\ step' = "field" /\ form' = NoForm
          /\ UNCHANGED <<NV_Settings, early, posts>>
    /\ UNCHANGED <<bChangeServerListenPort, serialRate, resets, mainVars, stackVars>>

Web == StartPost \/ processPostVariables \/ EndOfPost

(***************************************************************************)
(* The environment.                                                        *)
(***************************************************************************)
Connect ==
    /\ clients < MaxClients /\ serverfd \in listening
    /\ clients' = clients + 1
    /\ backlog' = Append(backlog, clients')
    /\ UNCHANGED <<NV_Settings, flash, bChangeServerListenPort, serialRate, resets,
                   mainVars, webVars, saved, listening, open>>

(* Power is lost: what is in flash stays. *)
Reset ==
    /\ resets < MaxResets
    /\ resets' = resets + 1
    /\ NV_Settings' = Zeroed
    /\ bChangeServerListenPort' = FALSE
    /\ serialRate' = Closed
    /\ main' = "settings" /\ field' = 1
    /\ serverfd' = None
    /\ listening' = {}
    /\ backlog' = << >>
    /\ clientfd' = None
    /\ open' = {}
    /\ http' = 0 /\ step' = "field" /\ form' = NoForm
    /\ early' = FALSE
    /\ limits' = NoLimits
    /\ UNCHANGED <<flash, saved, clients, posts>>

Next == UserMain \/ Web \/ Connect \/ Reset

Spec == Init /\ [][Next]_vars

(* UserMain's task runs again and again; accept() times out by itself.     *)
FairSpec == Spec /\ WF_vars(UserMain)
-----------------------------------------------------------------------------
Word == {0, Blank}
Settings == [VerifyKey : BOOLEAN,
             ServerListenPort : Port \cup Word, ClientTimeout : Timeout \cup Word,
             ClientOverrideTimeout : Override \cup Word,
             DataBaudRate : BaudRate \cup Word, SerialDataFlowControl : Word]

TypeOK ==
    /\ NV_Settings \in Settings
    /\ flash \in Settings
    /\ bChangeServerListenPort \in BOOLEAN
    /\ serialRate \in BaudRate \cup Word \cup {Closed}
    /\ main \in {"settings", "load", "test", "default", "save", "lower", "serial",
                 "open", "start", "halted", "check", "close", "relisten", "clear",
                 "accept", "pump"}
    /\ field \in 1..Len(Field)
    /\ serverfd \in Port \cup Word \cup {None, Failed}
    /\ listening \subseteq Port \cup Word
    /\ backlog \in Seq(Client)
    /\ clientfd \in Client \cup {None}
    /\ open \subseteq Client
    /\ limits \in [ClientTimeout : Timeout \cup Word,
                   ClientOverrideTimeout : Override \cup Word] \cup {NoLimits}
    /\ http \in 0..(Len(Page) + 1)
    /\ step \in {"field", "flagged", "close", "open", "save"}
    /\ form \in Form \cup {NoForm}
    /\ saved \in BOOLEAN /\ early \in BOOLEAN
    /\ clients \in 0..MaxClients /\ posts \in 0..MaxPosts /\ resets \in 0..MaxResets

(* However often the port is changed, and whenever: no listening socket is *)
(* left behind (UserMain closes the old one before it opens the new one).  *)
OneListener ==
    /\ TypeOK
    /\ listening \subseteq {serverfd}
    /\ (backlog # << >>) => (serverfd \in listening)

(* Between submissions the running settings are the ones a reset restores, *)
(* and the serial port runs at the configured rate, however often power is *)
(* lost in a submission or a start-up.  Exempt are what the last save lost *)
(* or the start-up could not load, and a power-on in which a submission    *)
(* came before UserMain had loaded the settings and opened the port: the   *)
(* two tasks then write the same fields and the same port at once.         *)
SettingsInForce ==
    (http = 0 /\ Booted /\ ~early) =>
        /\ saved => flash = NV_Settings
        /\ serialRate = NV_Settings.DataBaudRate

(* A request to change the listen port does not stay unanswered, unless a  *)
(* session runs or the server never came up.                               *)
ChangeTakesEffect ==
    bChangeServerListenPort ~> (~bChangeServerListenPort \/ main \in {"pump", "halted"})

(* webfuncs.cpp: bChangeServerListenPort tells of a changed listen port.   *)
(* After the start-up, while it is down and no submission is at work, the  *)
(* server listens on the configured port, or failed to.                    *)
FlagTellsOfChange ==
    (http = 0 /\ ~early /\ ~bChangeServerListenPort /\ main = "accept") =>
        serverfd \in {NV_Settings.ServerListenPort, Failed}
=============================================================================
