---------------------- MODULE SimpleUDPToSerialProofs ------------------------
(***************************************************************************)
(* What SimpleUDPToSerial's three tasks guarantee for any submissions and  *)
(* any number of them and of power cycles: the port that is listened on,   *)
(* and that a submission is never taken in part.                           *)
(***************************************************************************)
EXTENDS SimpleUDPToSerial, TLAPS

(* The reader's task is created by UserMain's last step of the start-up.   *)
ReaderComesLast == Starting => reader = "none"

Whole == submitted \cup {Defaults}
Working == http # "idle"

(* Steps of a submission at which a field has been stored already.         *)
LocalPortStored == http \in {"raise tfLocalPort", "tfDestPort", "raise tfDestPort",
                             "tfDestIpAddr", "raise tfDestIpAddr", "save"}
DestPortStored == http \in {"raise tfDestPort", "tfDestIpAddr", "raise tfDestIpAddr", "save"}
DestIpStored == http \in {"raise tfDestIpAddr", "save"}

(* A submission works on what was submitted, and the fields it has stored  *)
(* have not been touched since.                                            *)
StoredFields ==
    /\ Working => form \in submitted
    /\ LocalPortStored => gNvSettings.tfLocalPort = form.tfLocalPort
    /\ DestPortStored => gNvSettings.tfDestPort = form.tfDestPort
    /\ DestIpStored => gNvSettings.tfDestIpAddr = form.tfDestIpAddr

(* While the settings are loaded, what has been copied is that of the      *)
(* flash, if it holds any, or of the defaults.                             *)
Loading == main \in {"flags", "settings", "testKey"} \cup DOMAIN Following
LoadedFields ==
    /\ main = "testKey" => (VerifyKey <=> flash # NoKey)
    /\ main \in {"loadDestPort", "loadLocalPort", "loadDestIp"} => flash # NoKey
    /\ main \in {"loadLocalPort", "loadDestIp"} => gNvSettings.tfDestPort = flash.tfDestPort
    /\ main = "loadDestIp" => gNvSettings.tfLocalPort = flash.tfLocalPort
    /\ main \in {"defaultDestPort", "defaultDestIp"} =>
          gNvSettings.tfLocalPort = Defaults.tfLocalPort
    /\ main = "defaultDestIp" => gNvSettings.tfDestPort = Defaults.tfDestPort

(* Once they are loaded, RAM holds whole settings until a submission       *)
(* stores its first field, and during the start-up no submission does.     *)
WholeInRam ==
    /\ LoadedFields
    /\ (~Loading /\ ~LocalPortStored) => gNvSettings \in Whole
    /\ Starting => ~LocalPortStored

(* The destination is copied in two steps, of settings that no submission  *)
(* changes in between, and is in use only once it is complete: the steps   *)
(* that copy it again lead to a restart.                                   *)
WholeDestination ==
    /\ main \in {"localPort", "destIp"} => gDestPort = gNvSettings.tfDestPort
    /\ main \in {"loop", "test", "newPort"} =>
          <<gDestPort, gIpaddr>> \in {Destination(s) : s \in Whole}

KeptWhole ==
    /\ sent \in {<< >>} \cup {Destination(s) : s \in Whole}
    /\ flash \in Whole \cup {NoKey}
    /\ WholeInRam
    /\ WholeDestination

IInv == ListensOnOnePort /\ ReaderComesLast
        /\ (early \/ (StoredFields /\ KeptWhole))

LEMMA Submittable ==
    /\ \A s \in Forms \cup {Defaults} : s \in Settings
    /\ Zeroed \in Settings /\ NoKey \notin Settings
  BY SimpleUDPToSerialAssumption DEF Settings, Zeroed, NoKey, Unset

LEMMA FieldNames ==
    /\ DOMAIN Fields = 1..3 /\ Len(Fields) = 3
    /\ Fields[1] = "tfLocalPort" /\ Fields[2] = "tfDestPort" /\ Fields[3] = "tfDestIpAddr"
  BY DEF Fields

(* Settings whose three fields agree are the same.                         *)
LEMMA SameFields ==
  ASSUME NEW s \in Settings, NEW t \in Settings, s.tfLocalPort = t.tfLocalPort,
         s.tfDestPort = t.tfDestPort, s.tfDestIpAddr = t.tfDestIpAddr
  PROVE  s = t
  BY DEF Settings

LEMMA FollowingSteps ==
    /\ DOMAIN Following = {"loadDestPort", "loadLocalPort", "loadDestIp",
                           "defaultLocalPort", "defaultDestPort", "defaultDestIp"}
    /\ Following["loadDestPort"] = "loadLocalPort" /\ Field["loadDestPort"] = "tfDestPort"
    /\ Following["loadLocalPort"] = "loadDestIp" /\ Field["loadLocalPort"] = "tfLocalPort"
    /\ Following["loadDestIp"] = "destPort" /\ Field["loadDestIp"] = "tfDestIpAddr"
    /\ Following["defaultLocalPort"] = "defaultDestPort"
    /\ Field["defaultLocalPort"] = "tfLocalPort"
    /\ Following["defaultDestPort"] = "defaultDestIp"
    /\ Field["defaultDestPort"] = "tfDestPort"
    /\ Following["defaultDestIp"] = "saveDefaults"
    /\ Field["defaultDestIp"] = "tfDestIpAddr"
  BY DEF Following, Field

StartSteps == {"flags", "settings", "testKey", "saveDefaults", "destPort", "localPort",
               "destIp", "loadDestPort", "loadLocalPort", "loadDestIp",
               "defaultLocalPort", "defaultDestPort", "defaultDestIp"}

LEMMA StartingSteps == /\ Starting <=> main \in StartSteps
                       /\ Starting' <=> main' \in StartSteps
  BY FollowingSteps DEF Starting, StartSteps

(* Where the settings have been loaded, nothing is said of loading them.   *)
LEMMA PastLoading ==
    /\ (main \notin StartSteps \/ main \in {"destPort", "localPort", "destIp"}) => ~Loading
    /\ (main' \notin StartSteps \/ main' \in {"destPort", "localPort", "destIp"}) =>
          ~Loading' /\ LoadedFields'
  BY FollowingSteps DEF Loading, LoadedFields, StartSteps

HttpSteps == {"idle", "save", "tfLocalPort", "raise tfLocalPort", "tfDestPort",
              "raise tfDestPort", "tfDestIpAddr", "raise tfDestIpAddr"}

LEMMA NextSteps ==
    NextStep(1) = "tfDestPort" /\ NextStep(2) = "tfDestIpAddr" /\ NextStep(3) = "save"
<1>1. 1 + 1 = 2 /\ 2 + 1 = 3 /\ 1 # 3 /\ 2 # 3
  OBVIOUS
<1>2. QED
  BY <1>1, FieldNames DEF NextStep

LEMMA RaisingSteps ==
    /\ DOMAIN Raising = {"tfLocalPort", "tfDestPort", "tfDestIpAddr"}
    /\ Raising["tfLocalPort"] = "raise tfLocalPort"
    /\ Raising["tfDestPort"] = "raise tfDestPort"
    /\ Raising["tfDestIpAddr"] = "raise tfDestIpAddr"
  BY DEF Raising

LEMMA HttpTyped ==
    {"idle", "save"} \cup DOMAIN Raising \cup {Raising[f] : f \in DOMAIN Raising} = HttpSteps
  BY RaisingSteps DEF HttpSteps

LEMMA InitIsGood == Init => IInv
<1> SUFFICES ASSUME Init PROVE IInv
  OBVIOUS
<1> USE DEF Init
<1>1. gChangedLocalPort \in BOOLEAN /\ gChangedDest \in BOOLEAN /\ early \in BOOLEAN
  OBVIOUS
<1>2. /\ gNvSettings \in Settings /\ flash \in Settings \cup {NoKey}
      /\ posts \in 0..MaxPosts /\ resets \in 0..MaxResets
  BY Submittable, SimpleUDPToSerialAssumption
<1>3. sent = << >>
  OBVIOUS
<1>4. http \in HttpSteps /\ Starting /\ VerifyKey \in BOOLEAN /\ debugInput \in BOOLEAN
  BY StartingSteps DEF HttpSteps, StartSteps
<1>5. {gDestPort, gIpaddr, gLocalPort} \cup registered \subseteq Nat
  BY DEF Unset
<1>6. TypeOK
  BY <1>1, <1>2, <1>3, <1>4, <1>5, HttpTyped DEF TypeOK
<1>7. WholeInRam
  BY DEF WholeInRam, LoadedFields, Loading, LocalPortStored
<1>8. QED
  BY <1>6, <1>7 DEF IInv, ListensOnOnePort, ReaderComesLast, StoredFields, KeptWhole,
     Whole, Working, LocalPortStored, DestPortStored, DestIpStored, WholeDestination

(* CheckNVSettings() changes the settings, the flash and the key at most.  *)
LEMMA CheckTyped ==
  ASSUME TypeOK, CheckNVSettings
  PROVE  /\ main \in StartSteps /\ main' \in StartSteps
         /\ gNvSettings' \in Settings /\ flash' \in Settings \cup {NoKey}
         /\ VerifyKey' \in BOOLEAN
         /\ UNCHANGED <<gChangedLocalPort, gChangedDest, gDestPort, gIpaddr, debugInput,
                        reader, gLocalPort, registered, http, form, sent, submitted, early,
                        posts, resets>>
<1> USE DEF readerVars, httpVars, historyVars, boundVars, At
<1>1. CASE ReadKey
  <2>1. VerifyKey' \in BOOLEAN
    BY <1>1 DEF ReadKey
  <2>2. QED
    BY <1>1, <2>1 DEF ReadKey, TypeOK, sharedVars, StartSteps
<1>2. CASE TestKey
  BY <1>2 DEF TestKey, TypeOK, sharedVars, StartSteps
<1>3. CASE SaveDefaults
  BY <1>3 DEF SaveDefaults, TypeOK, sharedVars, startVars, StartSteps
<1>4. ASSUME NEW step \in DOMAIN Following, LoadField(step)
      PROVE  /\ main \in StartSteps /\ main' \in StartSteps
             /\ gNvSettings' \in Settings /\ flash' \in Settings \cup {NoKey}
             /\ VerifyKey' \in BOOLEAN
             /\ UNCHANGED <<gChangedLocalPort, gChangedDest, gDestPort, gIpaddr, debugInput,
                            reader, gLocalPort, registered, http, form, sent, submitted,
                            early, posts, resets>>
  <2>1. /\ main = step /\ main' = Following[step] /\ UNCHANGED <<flash, VerifyKey>>
        /\ gNvSettings' = [gNvSettings EXCEPT ![Field[step]] = Found(step)]
        /\ UNCHANGED <<gChangedLocalPort, gChangedDest, gDestPort, gIpaddr, debugInput,
                        reader, gLocalPort, registered, http, form, sent, submitted, early,
                        posts, resets>>
    BY <1>4 DEF LoadField
  <2>2. main \in StartSteps /\ main' \in StartSteps
    BY <2>1, FollowingSteps DEF StartSteps
  <2>3. Field[step] \in {"tfLocalPort", "tfDestPort", "tfDestIpAddr"}
    BY FollowingSteps
  <2>4. Found(step) \in Nat
    <3>1. flash = NoKey \/ flash \in Settings
      BY DEF TypeOK
    <3>2. Stored(flash, Field[step]) \in Nat
      BY <2>3, <3>1 DEF Stored, Settings, Unset
    <3>3. Defaults[Field[step]] \in Nat
      BY <2>3, Submittable DEF Settings
    <3>4. QED
      BY <3>2, <3>3 DEF Found
  <2>5. gNvSettings' \in Settings
    BY <2>1, <2>3, <2>4 DEF TypeOK, Settings
  <2>6. QED
    BY <2>1, <2>2, <2>5 DEF TypeOK
<1>5. QED
  BY <1>1, <1>2, <1>3, <1>4 DEF CheckNVSettings

(* One port: the reader registers where nothing is registered, under the   *)
(* port it has read, and takes a new one only after it has let go of it.   *)
LEMMA ListeningKept ==
  ASSUME IInv, [Next]_vars
  PROVE  /\ registered' = IF reader' \in {"wait", "lower"} THEN {gLocalPort'} ELSE {}
         /\ ReaderComesLast'
<1> USE StartingSteps DEF IInv, ListensOnOnePort, ReaderComesLast, StartSteps
<1>1. CASE Register
  BY <1>1 DEF Register, ReaderAt, mainVars
<1>2. CASE TestLocalPort
  BY <1>2 DEF TestLocalPort, ReaderAt, Unregistered, mainVars
<1>3. CASE TakeLocalPort \/ LowerLocalPort
  BY <1>3 DEF TakeLocalPort, LowerLocalPort, ReaderAt, mainVars
<1>4. CASE CopyLocalPort \/ CopyDestIp
  BY <1>4 DEF CopyLocalPort, CopyDestIp, At
<1>5. CASE \/ LowerFlags \/ CopyDestPort \/ Forward \/ TestDest
          \/ TakeDestPort \/ TakeDestIp
  BY <1>5 DEF LowerFlags, CopyDestPort, Forward, TestDest, TakeDestPort,
     TakeDestIp, Restarting, At, readerVars
<1>6. CASE ForceReboot \/ PowerCycle
  BY <1>6 DEF ForceReboot, PowerCycle, Booted
<1>7. CASE PostCallBack
  BY <1>7 DEF PostCallBack, EndPost, Store, Raise, mainVars, readerVars
<1>8. CASE (\E s \in Forms : StartPost(s)) \/ UNCHANGED vars
  BY <1>8 DEF StartPost, vars, mainVars, readerVars
<1>9. CASE CheckNVSettings
  BY <1>9, CheckTyped
<1>10. QED
  BY <1>1, <1>2, <1>3, <1>4, <1>5, <1>6, <1>7, <1>8, <1>9 DEF Next, Main, UdpReader

(* The steps keep every variable in its type.                              *)
LEMMA BootedTyped ==
  ASSUME TypeOK, Booted, resets' \in 0..MaxResets
  PROVE  TypeOK'
<1>1. gChangedLocalPort' \in BOOLEAN /\ gChangedDest' \in BOOLEAN
  BY DEF Booted
<1>2. early' \in BOOLEAN /\ VerifyKey' \in BOOLEAN /\ debugInput' \in BOOLEAN
  BY DEF Booted, TypeOK
<1>3. Starting'
  BY StartingSteps DEF Booted, StartSteps
<1>4. {gDestPort', gIpaddr', gLocalPort'} \cup registered' \subseteq Nat
  BY DEF Booted, Unset
<1>5. QED
  BY <1>1, <1>2, <1>3, <1>4, Submittable DEF Booted, TypeOK

LEMMA MainTyped ==
  ASSUME IInv, Main
  PROVE  TypeOK'
<1> USE DEF IInv, ListensOnOnePort
<1>1. CASE LowerFlags
  <2>1. gChangedLocalPort' \in BOOLEAN /\ gChangedDest' \in BOOLEAN
    BY <1>1 DEF LowerFlags
  <2>2. early' \in BOOLEAN /\ VerifyKey' \in BOOLEAN /\ debugInput' \in BOOLEAN
    BY <1>1 DEF LowerFlags, TypeOK, historyVars, startVars
  <2>3. Starting'
    BY <1>1, StartingSteps DEF LowerFlags, At, StartSteps
  <2>4. QED
    BY <1>1, <2>1, <2>2, <2>3 DEF LowerFlags, TypeOK, readerVars, httpVars, historyVars, boundVars
<1>2. CASE CheckNVSettings
  BY <1>2, CheckTyped, StartingSteps DEF TypeOK
<1>3. /\ gNvSettings.tfLocalPort \in Nat /\ gNvSettings.tfDestPort \in Nat
      /\ gNvSettings.tfDestIpAddr \in Nat
  BY DEF TypeOK, Settings
<1>4. CASE CopyDestPort \/ CopyLocalPort \/ CopyDestIp
  <2>1. Starting' \/ main' = "loop"
    BY <1>4, StartingSteps DEF CopyDestPort, CopyLocalPort, CopyDestIp, At, StartSteps
  <2>2. /\ UNCHANGED <<sharedVars, startVars, flash, httpVars, historyVars, boundVars, registered>>
        /\ gDestPort' \in Nat /\ gIpaddr' \in Nat /\ gLocalPort' \in Nat
        /\ reader' \in {reader, "register"}
    BY <1>3, <1>4 DEF CopyDestPort, CopyLocalPort, CopyDestIp, TypeOK, readerVars
  <2>3. QED
    BY <2>1, <2>2 DEF TypeOK, sharedVars, startVars, httpVars, historyVars, boundVars
<1>5. CASE Forward
  <2>1. debugInput' \in BOOLEAN
    BY <1>5 DEF Forward, TypeOK
  <2>2. sent' = << >> \/ sent' \in Nat \X Nat
    BY <1>5 DEF Forward, TypeOK
  <2>3. QED
    BY <1>5, <2>1, <2>2 DEF Forward, At, TypeOK, sharedVars, readerVars, httpVars, boundVars
<1>6. CASE TestDest
  <2>1. sent' = << >>
    BY <1>6 DEF TestDest
  <2>2. QED
    BY <1>6, <2>1 DEF TestDest, At, TypeOK, sharedVars, startVars, readerVars, httpVars,
       boundVars
<1>7. CASE TakeDestPort
  BY <1>7, <1>3 DEF TakeDestPort, At, TypeOK, sharedVars, startVars, readerVars, httpVars,
     historyVars, boundVars
<1>8. CASE TakeDestIp
  <2>1. gChangedDest' \in BOOLEAN
    BY <1>8 DEF TakeDestIp
  <2>2. gChangedLocalPort' \in BOOLEAN /\ early' \in BOOLEAN
    BY <1>8 DEF TakeDestIp, TypeOK, historyVars
  <2>3. QED
    BY <1>8, <1>3, <2>1, <2>2 DEF TakeDestIp, Restarting, At, TypeOK, startVars, readerVars,
       httpVars, historyVars, boundVars
<1>9. CASE ForceReboot
  <2>1. resets' \in 0..MaxResets
    BY <1>9 DEF ForceReboot, TypeOK
  <2>2. QED
    BY <1>9, <2>1, BootedTyped DEF ForceReboot
<1>10. QED
  BY <1>1, <1>2, <1>4, <1>5, <1>6, <1>7, <1>8, <1>9 DEF Main

LEMMA ReaderTyped ==
  ASSUME IInv, UdpReader
  PROVE  TypeOK'
<1> USE DEF IInv, ListensOnOnePort
<1>1. CASE Register \/ TestLocalPort
  BY <1>1 DEF Register, TestLocalPort, ReaderAt, Unregistered, Starting, TypeOK, sharedVars,
     mainVars, startVars, httpVars, historyVars, boundVars
<1>2. CASE TakeLocalPort
  BY <1>2 DEF TakeLocalPort, ReaderAt, Starting, TypeOK, Settings, sharedVars, mainVars,
     startVars, httpVars, historyVars, boundVars
<1>3. CASE LowerLocalPort
  <2>1. gChangedLocalPort' \in BOOLEAN
    BY <1>3 DEF LowerLocalPort
  <2>2. gChangedDest' \in BOOLEAN /\ early' \in BOOLEAN
    BY <1>3 DEF LowerLocalPort, TypeOK, historyVars
  <2>3. QED
    BY <1>3, <2>1, <2>2 DEF LowerLocalPort, ReaderAt, Starting, TypeOK, mainVars, startVars,
       httpVars, historyVars, boundVars
<1>4. QED
  BY <1>1, <1>2, <1>3 DEF UdpReader

LEMMA WebTyped ==
  ASSUME IInv, PostCallBack \/ (\E s \in Forms : StartPost(s))
  PROVE  TypeOK'
<1> USE DEF IInv, ListensOnOnePort
<1>1. CASE EndPost
  <2>1. flash' \in Settings \cup {NoKey} /\ http' = "idle" /\ form' = Zeroed
    BY <1>1 DEF EndPost, TypeOK
  <2>2. VerifyKey' \in BOOLEAN
    BY <1>1 DEF EndPost
  <2>3. QED
    BY <1>1, <2>1, <2>2 DEF EndPost, Starting, TypeOK, sharedVars, readerVars, historyVars,
       boundVars
<1>2. ASSUME NEW i \in 1..3, Store(Fields[i])
      PROVE  TypeOK'
  <2>1. Fields[i] \in {"tfLocalPort", "tfDestPort", "tfDestIpAddr"}
    BY FieldNames
  <2>2. form \in Settings /\ gNvSettings \in Settings
    BY Submittable DEF TypeOK
  <2>3. gNvSettings' \in Settings
    BY <1>2, <2>1, <2>2 DEF Store, Settings
  <2>4. http' \in HttpSteps
    BY <1>2, <2>1, RaisingSteps DEF Store, HttpSteps
  <2>5. early' \in BOOLEAN
    BY <1>2 DEF Store, TypeOK, Starting
  <2>6. gChangedLocalPort' \in BOOLEAN /\ gChangedDest' \in BOOLEAN
    BY <1>2 DEF Store, TypeOK
  <2>7. QED
    BY <1>2, <2>3, <2>4, <2>5, <2>6, HttpTyped DEF Store, Starting, TypeOK, mainVars,
       startVars, readerVars, boundVars
<1>3. ASSUME NEW i \in 1..3, Raise(i)
      PROVE  TypeOK'
  <2>1. http' \in HttpSteps
    <3>1. i = 1 \/ i = 2 \/ i = 3
      OBVIOUS
    <3>2. NextStep(i) \in HttpSteps
      BY <3>1, NextSteps DEF HttpSteps
    <3>3. QED
      BY <1>3, <3>2 DEF Raise
  <2>2. gChangedLocalPort' \in BOOLEAN
    BY <1>3 DEF Raise, TypeOK
  <2>3. gChangedDest' \in BOOLEAN
    BY <1>3 DEF Raise, TypeOK
  <2>4. early' \in BOOLEAN
    BY <1>3 DEF Raise, TypeOK, historyVars
  <2>5. QED
    BY <1>3, <2>1, <2>2, <2>3, <2>4, HttpTyped DEF Raise, Starting, TypeOK, mainVars,
       startVars, readerVars, historyVars, boundVars
<1>4. ASSUME NEW s \in Forms, StartPost(s)
      PROVE  TypeOK'
  <2>1. posts' \in 0..MaxPosts
    BY <1>4, SimpleUDPToSerialAssumption DEF StartPost, TypeOK
  <2>2. http' \in HttpSteps
    BY <1>4 DEF StartPost, HttpSteps
  <2>3. QED
    BY <1>4, <2>1, <2>2, HttpTyped DEF StartPost, Starting, TypeOK, sharedVars, mainVars,
       startVars, readerVars
<1>5. QED
  BY <1>1, <1>2, <1>3, <1>4, FieldNames DEF PostCallBack

LEMMA Typed ==
  ASSUME IInv, [Next]_vars
  PROVE  TypeOK'
<1>1. CASE PowerCycle
  <2>1. resets' \in 0..MaxResets
    BY <1>1, SimpleUDPToSerialAssumption DEF PowerCycle, IInv, ListensOnOnePort, TypeOK
  <2>2. QED
    BY <1>1, <2>1, BootedTyped DEF PowerCycle, IInv, ListensOnOnePort
<1>2. CASE UNCHANGED vars
  BY <1>2 DEF IInv, ListensOnOnePort, TypeOK, Starting, vars, sharedVars, mainVars,
     startVars, readerVars, httpVars, historyVars, boundVars
<1>3. QED
  BY <1>1, <1>2, MainTyped, ReaderTyped, WebTyped DEF Next

(* No task parts what a submission has put together.  A step that leaves a *)
(* submission, the settings and the destination alone keeps all of it.     *)
LEMMA NothingTouched ==
  ASSUME StoredFields, KeptWhole,
         UNCHANGED <<gNvSettings, flash, VerifyKey, gDestPort, gIpaddr, http, form, submitted>>,
         sent' \in {sent, << >>},
         \/ main' = main
         \/ main = "flags" /\ main' = "settings"
         \/ main = "test" /\ main' \in {"loop", "newPort"}
  PROVE  StoredFields' /\ KeptWhole'
<1>1. UNCHANGED <<Whole, Working, LocalPortStored, DestPortStored, DestIpStored>>
  BY DEF Whole, Working, LocalPortStored, DestPortStored, DestIpStored
<1>2. StoredFields'
  BY <1>1 DEF StoredFields
<1>3. WholeInRam'
  BY <1>1, StartingSteps, FollowingSteps DEF KeptWhole, WholeInRam, LoadedFields, Loading,
     StartSteps
<1>4. WholeDestination'
  BY <1>1 DEF KeptWhole, WholeDestination
<1>5. QED
  BY <1>1, <1>2, <1>3, <1>4 DEF KeptWhole

(* A restart, by TakeDestIp or by a loss of power, whatever it interrupts. *)
LEMMA RestartKeeps ==
  ASSUME KeptWhole, Booted
  PROVE  StoredFields' /\ KeptWhole'
  BY DEF Booted, KeptWhole, StoredFields, WholeInRam, LoadedFields, Loading,
     WholeDestination, Whole, Working, LocalPortStored, DestPortStored, DestIpStored

(* The start-up, which no submission meets: the settings are whole when    *)
(* the last field has been copied.                                         *)
LEMMA LoadingKeeps ==
  ASSUME IInv, StoredFields, KeptWhole, CheckNVSettings
  PROVE  StoredFields' /\ KeptWhole'
<1>1. /\ main \in StartSteps /\ main' \in StartSteps /\ gNvSettings' \in Settings
      /\ UNCHANGED <<gDestPort, gIpaddr, http, form, sent, submitted>>
  BY CheckTyped DEF IInv, ListensOnOnePort
<1>2. /\ ~LocalPortStored /\ ~LocalPortStored' /\ ~DestPortStored' /\ ~DestIpStored'
      /\ UNCHANGED <<Whole, Working>>
  BY <1>1, StartingSteps DEF KeptWhole, WholeInRam, Whole, Working, LocalPortStored,
     DestPortStored, DestIpStored
<1>3. StoredFields'
  BY <1>1, <1>2 DEF StoredFields
<1>4. gNvSettings \in Settings /\ Defaults \in Whole
  BY DEF IInv, ListensOnOnePort, TypeOK, Whole
<1>5. /\ flash' \in Whole \cup {NoKey} /\ LoadedFields' /\ main' \notin {"localPort", "destIp"}
      /\ ~Loading' => gNvSettings' \in Whole
  <2> USE FollowingSteps DEF Loading, LoadedFields, At
  <2>1. CASE ReadKey
    BY <2>1 DEF ReadKey, KeptWhole
  <2>2. CASE TestKey
    BY <2>2 DEF TestKey, KeptWhole, WholeInRam
  <2>3. CASE SaveDefaults
    <3>1. /\ main = "saveDefaults" /\ main' = "destPort" /\ UNCHANGED gNvSettings
          /\ flash' \in {flash, gNvSettings}
      BY <2>3 DEF SaveDefaults, sharedVars
    <3>2. gNvSettings \in Whole
      BY <1>2, <3>1 DEF KeptWhole, WholeInRam
    <3>3. QED
      BY <1>2, <3>1, <3>2 DEF KeptWhole
  <2>4. ASSUME NEW step \in DOMAIN Following, LoadField(step)
        PROVE  <1>5
    <3>1. /\ main = step /\ main' = Following[step] /\ UNCHANGED <<flash, VerifyKey>>
          /\ gNvSettings' = [gNvSettings EXCEPT ![Field[step]] = Found(step)]
      BY <2>4 DEF LoadField
    <3>2. LoadedFields /\ flash \in Whole \cup {NoKey}
      BY DEF KeptWhole, WholeInRam
    <3>3. CASE step \in {"loadDestPort", "loadLocalPort", "loadDestIp"}
      <4>1. flash # NoKey /\ flash \in Whole /\ flash \in Settings
        BY <3>1, <3>2, <3>3 DEF IInv, ListensOnOnePort, TypeOK
      <4>2. gNvSettings' = [gNvSettings EXCEPT ![Field[step]] = flash[Field[step]]]
        BY <3>1, <3>3, <4>1 DEF Found, Stored
      <4>3. CASE step = "loadDestPort"
        BY <1>2, <1>4, <3>1, <4>1, <4>2, <4>3 DEF Settings
      <4>4. CASE step = "loadLocalPort"
        BY <1>2, <1>4, <3>1, <3>2, <4>1, <4>2, <4>4 DEF Settings
      <4>5. CASE step = "loadDestIp"
        <5>1. gNvSettings' = flash
          <6>1. /\ gNvSettings'.tfDestIpAddr = flash.tfDestIpAddr
                /\ gNvSettings'.tfDestPort = flash.tfDestPort
                /\ gNvSettings'.tfLocalPort = flash.tfLocalPort
            BY <1>4, <3>1, <3>2, <4>1, <4>2, <4>5 DEF Settings
          <6>2. QED
            BY <1>1, <4>1, <6>1, SameFields
        <5>2. QED
          BY <1>2, <3>1, <4>1, <4>5, <5>1
      <4>6. QED
        BY <3>3, <4>3, <4>4, <4>5
    <3>4. CASE step \in {"defaultLocalPort", "defaultDestPort", "defaultDestIp"}
      <4>1. /\ gNvSettings' = [gNvSettings EXCEPT ![Field[step]] = Defaults[Field[step]]]
            /\ Defaults \in Settings
        BY <3>1, <3>4, Submittable DEF Found
      <4>2. CASE step = "defaultLocalPort"
        BY <1>2, <1>4, <3>1, <3>2, <4>1, <4>2 DEF Settings
      <4>3. CASE step = "defaultDestPort"
        BY <1>2, <1>4, <3>1, <3>2, <4>1, <4>3 DEF Settings
      <4>4. CASE step = "defaultDestIp"
        <5>1. gNvSettings' = Defaults
          <6>1. /\ gNvSettings'.tfDestIpAddr = Defaults.tfDestIpAddr
                /\ gNvSettings'.tfDestPort = Defaults.tfDestPort
                /\ gNvSettings'.tfLocalPort = Defaults.tfLocalPort
            BY <1>4, <3>1, <3>2, <4>1, <4>4 DEF Settings
          <6>2. QED
            BY <1>1, <4>1, <6>1, SameFields
        <5>2. QED
          BY <1>2, <1>4, <3>1, <3>2, <4>4, <5>1
      <4>5. QED
        BY <3>4, <4>2, <4>3, <4>4
    <3>5. QED
      BY <3>3, <3>4
  <2>5. QED
    BY <2>1, <2>2, <2>3, <2>4 DEF CheckNVSettings
<1>6. WholeDestination'
  BY <1>1, <1>5, FollowingSteps DEF WholeDestination, StartSteps
<1>7. WholeInRam'
  BY <1>1, <1>2, <1>5, StartingSteps DEF WholeInRam
<1>8. QED
  BY <1>1, <1>2, <1>3, <1>5, <1>6, <1>7 DEF KeptWhole

LEMMA MainKeeps ==
  ASSUME IInv, StoredFields, KeptWhole, Main
  PROVE  StoredFields' /\ KeptWhole'
<1>1. CASE LowerFlags \/ TestDest
  BY <1>1, NothingTouched DEF LowerFlags, TestDest, At, sharedVars, startVars, readerVars,
     httpVars, historyVars
<1>2. CASE CheckNVSettings
  BY <1>2, LoadingKeeps
<1>3. CASE CopyDestPort \/ CopyLocalPort
  <2>1. /\ \/ main = "destPort" /\ main' = "localPort" /\ gDestPort' = gNvSettings.tfDestPort
           \/ main = "localPort" /\ main' = "destIp" /\ UNCHANGED gDestPort
        /\ UNCHANGED <<gNvSettings, flash, http, form, sent, submitted>>
    BY <1>3 DEF CopyDestPort, CopyLocalPort, At, sharedVars, httpVars, historyVars
  <2>2. UNCHANGED <<Whole, Working, LocalPortStored, DestPortStored, DestIpStored>>
    BY <2>1 DEF Whole, Working, LocalPortStored, DestPortStored, DestIpStored
  <2>3. StoredFields'
    BY <2>1, <2>2 DEF StoredFields
  <2>4. WholeInRam'
    BY <2>1, <2>2, PastLoading, StartingSteps DEF KeptWhole, WholeInRam, StartSteps
  <2>5. WholeDestination'
    BY <2>1, <2>2 DEF KeptWhole, WholeDestination
  <2>6. QED
    BY <2>1, <2>2, <2>3, <2>4, <2>5 DEF KeptWhole
<1>4. CASE CopyDestIp
  <2>1. /\ main = "destIp" /\ main' = "loop" /\ gIpaddr' = gNvSettings.tfDestIpAddr
        /\ UNCHANGED <<gNvSettings, flash, gDestPort, http, form, sent, submitted>>
    BY <1>4 DEF CopyDestIp, At, sharedVars, httpVars, historyVars
  <2>2. UNCHANGED <<Whole, Working, LocalPortStored, DestPortStored, DestIpStored>>
    BY <2>1 DEF Whole, Working, LocalPortStored, DestPortStored, DestIpStored
  <2>3. gNvSettings \in Whole /\ gDestPort = gNvSettings.tfDestPort
    BY <2>1, PastLoading, StartingSteps DEF KeptWhole, WholeInRam, WholeDestination, StartSteps
  <2>4. <<gDestPort', gIpaddr'>> = Destination(gNvSettings)
    BY <2>1, <2>3 DEF Destination
  <2>5. StoredFields'
    BY <2>1, <2>2 DEF StoredFields
  <2>6. WholeInRam'
    BY <2>1, <2>2, <2>3, PastLoading, StartingSteps DEF WholeInRam, StartSteps
  <2>7. WholeDestination'
    BY <2>1, <2>2, <2>3, <2>4 DEF WholeDestination
  <2>8. QED
    BY <2>1, <2>2, <2>5, <2>6, <2>7 DEF KeptWhole
<1>5. CASE Forward
  <2>1. /\ main = "loop" /\ main' = "test" /\ sent' \in {<< >>, <<gDestPort, gIpaddr>>}
        /\ UNCHANGED <<gNvSettings, flash, gDestPort, gIpaddr, http, form, submitted>>
    BY <1>5 DEF Forward, At, sharedVars, httpVars
  <2>2. UNCHANGED <<Whole, Working, LocalPortStored, DestPortStored, DestIpStored>>
    BY <2>1 DEF Whole, Working, LocalPortStored, DestPortStored, DestIpStored
  <2>3. <<gDestPort, gIpaddr>> \in {Destination(s) : s \in Whole}
    BY <2>1 DEF KeptWhole, WholeDestination
  <2>4. StoredFields'
    BY <2>1, <2>2 DEF StoredFields
  <2>5. WholeInRam'
    BY <2>1, <2>2, PastLoading, StartingSteps DEF KeptWhole, WholeInRam, StartSteps
  <2>6. WholeDestination'
    BY <2>1, <2>2, <2>3 DEF WholeDestination
  <2>7. QED
    BY <2>1, <2>2, <2>3, <2>4, <2>5, <2>6 DEF KeptWhole
<1>6. CASE TakeDestPort \/ TakeDestIp
  <2>1. /\ main' \in {"newIp", "reboot"} /\ main \in {"newPort", "newIp"}
        /\ UNCHANGED <<gNvSettings, flash, http, form, sent, submitted>>
    BY <1>6 DEF TakeDestPort, TakeDestIp, Restarting, At, sharedVars, httpVars, historyVars
  <2>2. UNCHANGED <<Whole, Working, LocalPortStored, DestPortStored, DestIpStored>>
    BY <2>1 DEF Whole, Working, LocalPortStored, DestPortStored, DestIpStored
  <2>3. StoredFields'
    BY <2>1, <2>2 DEF StoredFields
  <2>4. WholeInRam' /\ WholeDestination'
    BY <2>1, <2>2, PastLoading, StartingSteps DEF KeptWhole, WholeInRam, WholeDestination,
       StartSteps
  <2>5. QED
    BY <2>1, <2>2, <2>3, <2>4 DEF KeptWhole
<1>7. CASE ForceReboot
  BY <1>7, RestartKeeps DEF ForceReboot
<1>8. QED
  BY <1>1, <1>2, <1>3, <1>4, <1>5, <1>6, <1>7 DEF Main

(* The POST: a field is stored before the next, and the flash takes the    *)
(* settings once all three are those of one submission.                    *)
LEMMA WebKeeps ==
  ASSUME IInv, StoredFields, KeptWhole, ~early',
         PostCallBack \/ (\E s \in Forms : StartPost(s))
  PROVE  StoredFields' /\ KeptWhole'
<1>1. LocalPortStored => ~Starting
  BY DEF KeptWhole, WholeInRam
<1>2. ASSUME NEW i \in 1..3, Store(Fields[i])
      PROVE  StoredFields' /\ KeptWhole'
  <2>1. /\ ~Starting /\ http = Fields[i] /\ http' = Raising[Fields[i]]
        /\ gNvSettings' = [gNvSettings EXCEPT ![Fields[i]] = form[Fields[i]]]
        /\ UNCHANGED <<flash, main, gDestPort, gIpaddr, form, sent, submitted>>
    BY <1>2 DEF Store, mainVars
  <2>2. gNvSettings \in Settings /\ form \in submitted
    BY <2>1, FieldNames DEF IInv, ListensOnOnePort, TypeOK, StoredFields, Working
  <2>3. StoredFields' /\ LocalPortStored'
    <3>1. CASE i = 1
      <4>1. http' = "raise tfLocalPort" /\ gNvSettings'.tfLocalPort = form.tfLocalPort
        BY <2>1, <2>2, <3>1, FieldNames, RaisingSteps DEF Settings
      <4>2. QED
        BY <2>1, <2>2, <4>1 DEF StoredFields, LocalPortStored, DestPortStored, DestIpStored
    <3>2. CASE i = 2
      <4>1. /\ http = "tfDestPort" /\ http' = "raise tfDestPort"
            /\ gNvSettings'.tfDestPort = form.tfDestPort
            /\ gNvSettings'.tfLocalPort = gNvSettings.tfLocalPort
        BY <2>1, <2>2, <3>2, FieldNames, RaisingSteps DEF Settings
      <4>2. QED
        BY <2>1, <2>2, <4>1 DEF StoredFields, LocalPortStored, DestPortStored, DestIpStored
    <3>3. CASE i = 3
      <4>1. /\ http = "tfDestIpAddr" /\ http' = "raise tfDestIpAddr"
            /\ gNvSettings'.tfDestIpAddr = form.tfDestIpAddr
            /\ gNvSettings'.tfDestPort = gNvSettings.tfDestPort
            /\ gNvSettings'.tfLocalPort = gNvSettings.tfLocalPort
        BY <2>1, <2>2, <3>3, FieldNames, RaisingSteps DEF Settings
      <4>2. QED
        BY <2>1, <2>2, <4>1 DEF StoredFields, LocalPortStored, DestPortStored, DestIpStored
    <3>4. QED
      BY <3>1, <3>2, <3>3
  <2>4. WholeInRam' /\ WholeDestination' /\ UNCHANGED Whole
    BY <2>1, <2>3, PastLoading, StartingSteps DEF KeptWhole, WholeInRam, WholeDestination,
       Whole, StartSteps
  <2>5. QED
    BY <2>1, <2>3, <2>4 DEF KeptWhole
<1>3. ASSUME NEW i \in 1..3, Raise(i)
      PROVE  StoredFields' /\ KeptWhole'
  <2>1. /\ http = Raising[Fields[i]] /\ http' = NextStep(i)
        /\ UNCHANGED <<gNvSettings, flash, main, gDestPort, gIpaddr, form, sent, submitted>>
    BY <1>3 DEF Raise, mainVars, historyVars
  <2>2. \/ http = "raise tfLocalPort" /\ http' = "tfDestPort"
        \/ http = "raise tfDestPort" /\ http' = "tfDestIpAddr"
        \/ http = "raise tfDestIpAddr" /\ http' = "save"
    <3>1. i = 1 \/ i = 2 \/ i = 3
      OBVIOUS
    <3>2. QED
      BY <2>1, <3>1, FieldNames, RaisingSteps, NextSteps
  <2>3. /\ LocalPortStored /\ LocalPortStored' /\ Working
        /\ DestPortStored' => DestPortStored
        /\ DestIpStored' => DestIpStored
    BY <2>2 DEF Working, LocalPortStored, DestPortStored, DestIpStored
  <2>4. StoredFields'
    BY <2>1, <2>3 DEF StoredFields
  <2>5. UNCHANGED Whole
    BY <2>1 DEF Whole
  <2>6. WholeInRam' /\ WholeDestination'
    BY <1>1, <2>1, <2>3, <2>5, PastLoading, StartingSteps DEF KeptWhole, WholeInRam,
       WholeDestination, StartSteps
  <2>7. QED
    BY <2>1, <2>4, <2>5, <2>6 DEF KeptWhole
<1>4. CASE EndPost
  <2>1. /\ http = "save" /\ http' = "idle" /\ flash' \in {flash, gNvSettings}
        /\ UNCHANGED <<gNvSettings, main, gDestPort, gIpaddr, sent, submitted>>
    BY <1>4 DEF EndPost, sharedVars, historyVars
  <2>2. gNvSettings \in Whole
    <3>1. /\ form \in submitted /\ gNvSettings.tfLocalPort = form.tfLocalPort
          /\ gNvSettings.tfDestPort = form.tfDestPort
          /\ gNvSettings.tfDestIpAddr = form.tfDestIpAddr
      BY <2>1 DEF StoredFields, Working, LocalPortStored, DestPortStored, DestIpStored
    <3>2. gNvSettings \in Settings /\ form \in Settings
      BY <3>1, Submittable DEF IInv, ListensOnOnePort, TypeOK
    <3>3. QED
      BY <3>1, <3>2, SameFields DEF Whole
  <2>3. ~Starting
    BY <1>1, <2>1 DEF LocalPortStored
  <2>4. ~Working' /\ ~LocalPortStored' /\ ~DestPortStored' /\ ~DestIpStored'
    BY <2>1 DEF Working, LocalPortStored, DestPortStored, DestIpStored
  <2>5. StoredFields'
    BY <2>4 DEF StoredFields
  <2>6. UNCHANGED Whole
    BY <2>1 DEF Whole
  <2>7. WholeInRam' /\ WholeDestination'
    BY <2>1, <2>2, <2>3, <2>4, <2>6, PastLoading, StartingSteps DEF KeptWhole, WholeInRam,
       WholeDestination, StartSteps
  <2>8. QED
    BY <2>1, <2>2, <2>5, <2>6, <2>7 DEF KeptWhole
<1>5. ASSUME NEW s \in Forms, StartPost(s)
      PROVE  StoredFields' /\ KeptWhole'
  <2>1. /\ http = "idle" /\ http' = "tfLocalPort" /\ form' = s
        /\ submitted' = submitted \cup {s}
        /\ UNCHANGED <<gNvSettings, flash, main, VerifyKey, gDestPort, gIpaddr, sent>>
    BY <1>5 DEF StartPost, sharedVars, mainVars, startVars
  <2>2. /\ ~LocalPortStored /\ ~LocalPortStored' /\ ~DestPortStored' /\ ~DestIpStored'
        /\ Whole \subseteq Whole'
    BY <2>1 DEF LocalPortStored, DestPortStored, DestIpStored, Whole
  <2>3. StoredFields'
    BY <2>1, <2>2 DEF StoredFields
  <2>4. WholeInRam'
    BY <2>1, <2>2 DEF KeptWhole, WholeInRam, LoadedFields, Loading, Starting
  <2>5. WholeDestination'
    BY <2>1, <2>2 DEF KeptWhole, WholeDestination
  <2>6. QED
    BY <2>1, <2>2, <2>3, <2>4, <2>5 DEF KeptWhole
<1>6. QED
  BY <1>2, <1>3, <1>4, <1>5, FieldNames DEF PostCallBack

LEMMA WholeKept ==
  ASSUME IInv, [Next]_vars
  PROVE  early' \/ (StoredFields' /\ KeptWhole')
<1> SUFFICES ASSUME ~early'
             PROVE  StoredFields' /\ KeptWhole'
  OBVIOUS
<1>1. CASE PostCallBack \/ (\E s \in Forms : StartPost(s))
  <2>1. ~early
    BY <1>1 DEF PostCallBack, EndPost, Store, Raise, StartPost, historyVars
  <2>2. QED
    BY <1>1, <2>1, WebKeeps DEF IInv
<1>2. CASE Main \/ PowerCycle \/ UdpReader \/ UNCHANGED vars
  <2>1. UNCHANGED early
    BY <1>2, CheckTyped DEF Main, IInv, ListensOnOnePort, LowerFlags, CopyDestPort,
       CopyLocalPort, CopyDestIp,
       Forward, TestDest, TakeDestPort, TakeDestIp, ForceReboot, PowerCycle, Booted,
       UdpReader, Register, TestLocalPort, TakeLocalPort, LowerLocalPort, vars, historyVars
  <2>2. StoredFields /\ KeptWhole
    BY <2>1 DEF IInv
  <2>3. CASE Main
    BY <2>2, <2>3, MainKeeps
  <2>4. CASE PowerCycle
    BY <2>2, <2>4, RestartKeeps DEF PowerCycle
  <2>5. CASE UdpReader \/ UNCHANGED vars
    BY <2>2, <2>5, NothingTouched DEF UdpReader, Register, TestLocalPort, TakeLocalPort,
       LowerLocalPort, vars, sharedVars, mainVars, startVars, httpVars, historyVars
  <2>6. QED
    BY <1>2, <2>3, <2>4, <2>5
<1>3. QED
  BY <1>1, <1>2 DEF Next

LEMMA Invariant == Spec => []IInv
<1>1. IInv /\ [Next]_vars => IInv'
  BY Typed, ListeningKept, WholeKept DEF IInv, ListensOnOnePort
<1>2. QED
  BY InitIsGood, <1>1, PTL DEF Spec

(* However submissions, restarts and losses of power meet the reader's     *)
(* steps: UdpReader listens on the port it holds, on that one alone, and   *)
(* on none only while it changes it or has not begun.                      *)
THEOREM OnePort == Spec => []ListensOnOnePort
  BY Invariant, PTL DEF IInv

(* The page's handler stores a submission field by field, and UserMain     *)
(* copies the destination field by field: yet no packet is sent to a       *)
(* mixture of two submissions, and the flash never holds one, unless a     *)
(* submission was handled before UserMain had taken the settings over: the *)
(* theorem says nothing of such a device, and the code does mix them there.*)
THEOREM WholeSubmissions == Spec => []SubmissionsStayWhole
<1>1. IInv => SubmissionsStayWhole
  BY DEF IInv, KeptWhole, Whole, SubmissionsStayWhole
<1>2. QED
  BY Invariant, <1>1, PTL
=============================================================================
