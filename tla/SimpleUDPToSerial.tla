------------------------- MODULE SimpleUDPToSerial --------------------------
(***************************************************************************)
(* The three tasks of udp/SimpleUDPToSerial: UserMain, which loads the     *)
(* settings and sends what the serial port delivers; UdpReader, which      *)
(* listens on the local port; and the web server's task, which runs the    *)
(* POST of the settings page.  They share the settings in RAM and a flag   *)
(* for each kind of change.  A new destination restarts the device, and    *)
(* the device may lose power at any time.  UdpReader's priority is below   *)
(* UserMain's: it runs while that one waits.                               *)
(***************************************************************************)
EXTENDS Integers, Sequences

CONSTANTS Defaults,         (* LOCAL_PORT, DEST_PORT and DEST_IPADDR       *)
          Forms,            (* what is submitted with the settings page    *)
          MaxPosts,         (* bound: submissions of the page              *)
          MaxResets         (* bound: power cycles                         *)

Fields == <<"tfLocalPort", "tfDestPort", "tfDestIpAddr">>
Unset == 0                  (* what RAM holds before the settings are read *)
                            (* and flash that was never written            *)

ASSUME SimpleUDPToSerialAssumption ==
    /\ Forms \cup {Defaults} \subseteq
          [tfLocalPort : Nat \ {Unset}, tfDestPort : Nat \ {Unset},
           tfDestIpAddr : Nat \ {Unset}]
    /\ MaxPosts \in Nat /\ MaxResets \in Nat

Zeroed == [tfLocalPort |-> Unset, tfDestPort |-> Unset, tfDestIpAddr |-> Unset]
NoKey == [Zeroed EXCEPT !.tfLocalPort = -1]   (* flash without VERIFY_KEY  *)
Stored(kept, field) == IF kept = NoKey THEN Unset ELSE kept[field]

VARIABLES
    gNvSettings, gChangedLocalPort, gChangedDest,   (* shared by the tasks *)
    flash,                           (* the user parameters                *)
    main, VerifyKey,                 (* UserMain: step, the key it read is *)
                                     (* the right one                      *)
    gDestPort, gIpaddr,              (* its destination                    *)
    debugInput,                      (* it has found a byte on the debug   *)
                                     (* port                               *)
    reader, gLocalPort, registered,  (* UdpReader: step, port, FIFOs       *)
    http, form,                      (* the web server: step, submission   *)
    sent,       (* history: where the packet of this pass went             *)
    submitted,  (* history: the submissions so far                         *)
    early,      (* history: a submission was handled before UserMain had   *)
                (* taken the settings over                                 *)
    posts, resets                    (* counted against the bounds         *)

sharedVars == <<gNvSettings, gChangedLocalPort, gChangedDest>>
startVars == <<VerifyKey, debugInput>>
mainVars == <<main, startVars, gDestPort, gIpaddr>>
readerVars == <<reader, gLocalPort, registered>>
httpVars == <<http, form>>
historyVars == <<sent, submitted, early>>
boundVars == <<posts, resets>>
vars == <<sharedVars, flash, mainVars, readerVars, httpVars, historyVars, boundVars>>

(* A device that has just been switched on, whatever its flash holds.      *)
Booted ==
    /\ gNvSettings' = Zeroed
    /\ gChangedLocalPort' = FALSE /\ gChangedDest' = FALSE
    /\ main' = "flags" /\ VerifyKey' = FALSE /\ debugInput' = FALSE
    /\ gDestPort' = Unset /\ gIpaddr' = Unset
    /\ reader' = "none" /\ gLocalPort' = Unset /\ registered' = {}
    /\ http' = "idle" /\ form' = Zeroed
    /\ sent' = << >>
    /\ UNCHANGED <<flash, submitted, early, posts>>

Init ==
    /\ gNvSettings = Zeroed
    /\ gChangedLocalPort = FALSE /\ gChangedDest = FALSE
    /\ flash \in {NoKey, Defaults}
    /\ main = "flags" /\ VerifyKey = FALSE /\ debugInput = FALSE
    /\ gDestPort = Unset /\ gIpaddr = Unset
    /\ reader = "none" /\ gLocalPort = Unset /\ registered = {}
    /\ http = "idle" /\ form = Zeroed
    /\ sent = << >> /\ submitted = {} /\ early = FALSE
    /\ posts = 0 /\ resets = 0

(***************************************************************************)
(* UserMain, from StartHttp() on.                                          *)
(***************************************************************************)
At(here, next) == main = here /\ main' = next

LowerFlags ==
    /\ At("flags", "settings")
    /\ gChangedLocalPort' = FALSE /\ gChangedDest' = FALSE
    /\ UNCHANGED <<gNvSettings, flash, startVars, gDestPort, gIpaddr,
                   readerVars, httpVars, historyVars, boundVars>>

(* CheckNVSettings() reads the key of the flash, and tests it once it is   *)
(* in RAM, where a submission may have set it by then, and sets it.        *)
ReadKey ==
    /\ At("settings", "testKey")
    /\ VerifyKey' = (flash # NoKey)
    /\ UNCHANGED <<sharedVars, flash, gDestPort, gIpaddr, debugInput, readerVars,
                   httpVars, historyVars, boundVars>>

TestKey ==
    /\ At("testKey", IF VerifyKey THEN "loadDestPort" ELSE "defaultLocalPort")
    /\ VerifyKey' = TRUE
    /\ UNCHANGED <<sharedVars, flash, gDestPort, gIpaddr, debugInput,
                   readerVars, httpVars, historyVars, boundVars>>

(* Then the fields, one by one, from the flash or from the defaults.       *)
Field == [loadDestPort |-> "tfDestPort", loadLocalPort |-> "tfLocalPort",
          loadDestIp |-> "tfDestIpAddr", defaultLocalPort |-> "tfLocalPort",
          defaultDestPort |-> "tfDestPort", defaultDestIp |-> "tfDestIpAddr"]
Following == [loadDestPort |-> "loadLocalPort", loadLocalPort |-> "loadDestIp",
              loadDestIp |-> "destPort", defaultLocalPort |-> "defaultDestPort",
              defaultDestPort |-> "defaultDestIp", defaultDestIp |-> "saveDefaults"]
Found(step) == IF step \in {"loadDestPort", "loadLocalPort", "loadDestIp"}
                 THEN Stored(flash, Field[step]) ELSE Defaults[Field[step]]

LoadField(step) ==
    /\ At(step, Following[step])
    /\ gNvSettings' = [gNvSettings EXCEPT ![Field[step]] = Found(step)]
    /\ UNCHANGED <<gChangedLocalPort, gChangedDest, flash, VerifyKey, gDestPort, gIpaddr,
                   debugInput, readerVars, httpVars, historyVars, boundVars>>

(* The result of writing the defaults is not looked at. *)
SaveDefaults ==
    /\ At("saveDefaults", "destPort")
    /\ flash' \in {flash, gNvSettings}
    /\ UNCHANGED <<sharedVars, startVars, gDestPort, gIpaddr, readerVars,
                   httpVars, historyVars, boundVars>>

CheckNVSettings == \/ ReadKey \/ TestKey \/ SaveDefaults
                   \/ \E step \in DOMAIN Following : LoadField(step)

CopyDestPort ==
    /\ At("destPort", "localPort")
    /\ gDestPort' = gNvSettings.tfDestPort
    /\ UNCHANGED <<sharedVars, flash, startVars, gIpaddr, readerVars, httpVars, historyVars,
                   boundVars>>

CopyLocalPort ==
    /\ At("localPort", "destIp")
    /\ gLocalPort' = gNvSettings.tfLocalPort
    /\ UNCHANGED <<sharedVars, flash, startVars, gDestPort, gIpaddr, reader, registered,
                   httpVars, historyVars, boundVars>>

(* AsciiToIp(), and the reader's task is created. *)
CopyDestIp ==
    /\ At("destIp", "loop")
    /\ gIpaddr' = gNvSettings.tfDestIpAddr
    /\ reader' = "register"
    /\ UNCHANGED <<sharedVars, flash, startVars, gDestPort, gLocalPort, registered,
                   httpVars, historyVars, boundVars>>

(* A second passes, or serial data comes and goes to the destination.  The *)
(* debug port is in select()'s set and is never read: once a byte is there *)
(* select() does not wait any more.                                        *)
Forward ==
    /\ At("loop", "test")
    /\ sent' \in {<< >>, <<gDestPort, gIpaddr>>}
    /\ debugInput' \in {debugInput, TRUE}
    /\ UNCHANGED <<sharedVars, flash, VerifyKey, gDestPort, gIpaddr, readerVars, httpVars,
                   submitted, early, boundVars>>

TestDest ==
    /\ At("test", IF gChangedDest THEN "newPort" ELSE "loop")
    /\ sent' = << >>
    /\ UNCHANGED <<sharedVars, flash, startVars, gDestPort, gIpaddr, readerVars, httpVars,
                   submitted, early, boundVars>>

TakeDestPort ==
    /\ At("newPort", "newIp")
    /\ gDestPort' = gNvSettings.tfDestPort
    /\ UNCHANGED <<sharedVars, flash, startVars, gIpaddr, readerVars, httpVars, historyVars,
                   boundVars>>

(* Mutant of Restarting: the new destination is used without a restart. *)
MutantRestarting == "loop"
Restarting == "reboot"
TakeDestIp ==
    /\ At("newIp", Restarting)
    /\ gIpaddr' = gNvSettings.tfDestIpAddr
    /\ gChangedDest' = FALSE
    /\ UNCHANGED <<gNvSettings, gChangedLocalPort, flash, startVars, gDestPort, readerVars,
                   httpVars, historyVars, boundVars>>

(* A second later, whatever the other tasks are doing. *)
ForceReboot == main = "reboot" /\ Booted /\ UNCHANGED resets

Main == \/ LowerFlags \/ CheckNVSettings \/ CopyDestPort \/ CopyLocalPort
        \/ CopyDestIp \/ Forward \/ TestDest \/ TakeDestPort \/ TakeDestIp
        \/ ForceReboot

(***************************************************************************)
(* UdpReader.                                                              *)
(***************************************************************************)
ReaderAt(here, next) == reader = here /\ reader' = next

Register ==
    /\ \/ ReaderAt("register", "wait")
       \/ ReaderAt("reregister", "lower")
    /\ registered' = registered \cup {gLocalPort}
    /\ UNCHANGED <<sharedVars, flash, mainVars, gLocalPort, httpVars, historyVars,
                   boundVars>>

(* Mutant of Unregistered: the old port stays registered. *)
MutantUnregistered == registered
Unregistered == registered \ {gLocalPort}

(* Once a packet has been written to the serial port, or after a second. *)
TestLocalPort ==
    /\ gChangedLocalPort
    /\ ReaderAt("wait", "copy")
    /\ registered' = Unregistered
    /\ UNCHANGED <<sharedVars, flash, mainVars, gLocalPort, httpVars, historyVars,
                   boundVars>>

TakeLocalPort ==
    /\ ReaderAt("copy", "reregister")
    /\ gLocalPort' = gNvSettings.tfLocalPort
    /\ UNCHANGED <<sharedVars, flash, mainVars, registered, httpVars, historyVars,
                   boundVars>>

LowerLocalPort ==
    /\ ReaderAt("lower", "wait")
    /\ gChangedLocalPort' = FALSE
    /\ UNCHANGED <<gNvSettings, gChangedDest, flash, mainVars, gLocalPort, registered,
                   httpVars, historyVars, boundVars>>

UdpReader == Register \/ TestLocalPort \/ TakeLocalPort \/ LowerLocalPort

(***************************************************************************)
(* The POST: the fields of the page in order, each stored before its flag  *)
(* is raised; the settings are saved at the end.                           *)
(***************************************************************************)
Starting == main \in {"flags", "settings", "testKey", "saveDefaults", "destPort",
                      "localPort", "destIp"} \cup DOMAIN Following

StartPost(s) ==
    /\ http = "idle" /\ posts < MaxPosts
    /\ http' = "tfLocalPort"
    /\ form' = s
    /\ submitted' = submitted \cup {s}
    /\ posts' = posts + 1
    /\ UNCHANGED <<sharedVars, flash, mainVars, readerVars, sent, early, resets>>

(* The step after a field has been stored. *)
Raising == [tfLocalPort |-> "raise tfLocalPort", tfDestPort |-> "raise tfDestPort",
            tfDestIpAddr |-> "raise tfDestIpAddr"]

Store(field) ==
    /\ http = field
    /\ gNvSettings' = [gNvSettings EXCEPT ![field] = form[field]]
    /\ http' = Raising[field]
    /\ early' = (early \/ Starting)
    /\ UNCHANGED <<gChangedLocalPort, gChangedDest, flash, mainVars, readerVars, form,
                   sent, submitted, boundVars>>

(* Mutant of NextStep: the settings are saved after the first field. *)
MutantNextStep(i) == "save"
NextStep(i) == IF i = Len(Fields) THEN "save" ELSE Fields[i + 1]

Raise(i) ==
    /\ http = Raising[Fields[i]]
    /\ IF Fields[i] = "tfLocalPort"
         THEN gChangedLocalPort' = TRUE /\ UNCHANGED gChangedDest
         ELSE gChangedDest' = TRUE /\ UNCHANGED gChangedLocalPort
    /\ http' = NextStep(i)
    /\ UNCHANGED <<gNvSettings, flash, mainVars, readerVars, form, historyVars,
                   boundVars>>

(* The key is set in RAM, too; SaveUserParameters() may fail. *)
EndPost ==
    /\ http = "save"
    /\ VerifyKey' = TRUE
    /\ flash' \in {flash, gNvSettings}
    /\ http' = "idle" /\ form' = Zeroed
    /\ UNCHANGED <<sharedVars, main, debugInput, gDestPort, gIpaddr, readerVars,
                   historyVars, boundVars>>

PostCallBack == \/ EndPost
                \/ \E i \in DOMAIN Fields : Store(Fields[i]) \/ Raise(i)

PowerCycle ==
    /\ resets < MaxResets
    /\ resets' = resets + 1
    /\ Booted

Next == \/ Main \/ UdpReader \/ PostCallBack \/ PowerCycle
        \/ \E s \in Forms : StartPost(s)

Spec == Init /\ [][Next]_vars

(* UserMain is scheduled again and again, and a submission that began is   *)
(* handled to its end.  UdpReader is while UserMain waits in select(): not *)
(* any more once a byte lies on the debug port.                            *)
FairSpec == /\ Spec
            /\ WF_vars(Main) /\ WF_vars(PostCallBack)
            /\ WF_vars(UdpReader /\ ~debugInput)
-----------------------------------------------------------------------------
Settings == [tfLocalPort : Nat, tfDestPort : Nat, tfDestIpAddr : Nat]

TypeOK ==
    /\ gNvSettings \in Settings /\ flash \in Settings \cup {NoKey}
    /\ gChangedLocalPort \in BOOLEAN /\ gChangedDest \in BOOLEAN
    /\ VerifyKey \in BOOLEAN /\ debugInput \in BOOLEAN
    /\ Starting \/ main \in {"loop", "test", "newPort", "newIp", "reboot"}
    /\ reader \in {"none", "register", "wait", "copy", "reregister", "lower"}
    /\ {gDestPort, gIpaddr, gLocalPort} \cup registered \subseteq Nat
    /\ http \in {"idle", "save"} \cup DOMAIN Raising \cup {Raising[f] : f \in DOMAIN Raising}
    /\ form \in Forms \cup {Zeroed} /\ submitted \subseteq Forms
    /\ sent = << >> \/ sent \in Nat \X Nat
    /\ early \in BOOLEAN /\ posts \in 0..MaxPosts /\ resets \in 0..MaxResets

(* The device listens on the port it names, on no other, and on that one   *)
(* at all times but while the reader changes it.                           *)
ListensOnOnePort ==
    /\ TypeOK
    /\ registered = IF reader \in {"wait", "lower"} THEN {gLocalPort} ELSE {}

Destination(s) == <<s.tfDestPort, s.tfDestIpAddr>>

(* A submission is never taken in part, although it is stored field by     *)
(* field: no packet goes to the port of one submission at the address of   *)
(* another, and the flash holds whole ones, although the restart that a    *)
(* submission causes, or a power cycle, may come before it is saved.       *)
(* Unless it was handled before UserMain had taken the settings over: then *)
(* the start-up's copies may put two of them together.                     *)
SubmissionsStayWhole ==
    \/ early
    \/ /\ sent \in {<< >>} \cup {Destination(s) : s \in submitted \cup {Defaults}}
       /\ flash \in submitted \cup {Defaults, NoKey}

(* In the end, the device works with the settings it shows on its page,    *)
(* also when the reader lowers its flag over a change it has not seen: the *)
(* restart that every submission brings makes up for that.  The port it    *)
(* listens on is a promise only while nothing comes in on the debug port:  *)
(* after a byte there UserMain never waits, and the reader may not run.    *)
WorksAsSet == <>[](
    /\ <<gDestPort, gIpaddr>> = Destination(gNvSettings)
    /\ debugInput \/ registered = {gNvSettings.tfLocalPort})
=============================================================================
