------------------------------- MODULE Link_proof -------------------------------
(***************************************************************************)
(* Proofs about the class Link.  First LinkCommands and the LinkConnection  *)
(* under it, for any paths, devices and retries and however often devices   *)
(* come and go: what a Link remembers of its device is right, reconnect does*)
(* not end on another device, and what a command reports is what the device *)
(* did.  Then DriverPath, for any words and texts of any length: what was   *)
(* put together is read back, and compared as if the parts were.            *)
(***************************************************************************)
EXTENDS LinkCommands, DriverPath, FiniteSetTheorems, SequenceTheorems,
        WellFoundedInduction, TLAPS

(* What is remembered of an identified device, also in the middle of a scan.*)
RightInfo ==
  /\ known => Connected
  /\ known /\ session # NoDevice
       => /\ info.serial = session
          /\ isBoot <=> mode[session] = "boot"
          /\ isBoot => attrs = session

(* Why putting old information back, when reconnect gives up, does no harm: *)
(* by then nothing is known of a device, because every attempt that was not *)
(* the right one was left, and every one that failed knows of none.         *)
ScanInfo ==
  /\ pc \in {"first", "next"} => ~error
  /\ pc = "first" /\ known => info = last
  /\ pc = "next" => ~known
  /\ pc \in {"tried", "matched"} /\ error => ~known
  /\ pc \in {"list", "listed"} => op = "list"
  /\ pc \in {"first", "tried", "next", "matched"} => round < Retries

LinkInv == TypeOK /\ RightInfo /\ ScanInfo /\ NeverTheWrongDevice

(* A command that goes on was sent to what is known as the OS, and was never*)
(* answered; a scan is no command.                                          *)
CommandInv ==
  /\ command \in Kinds
  /\ running \in BOOLEAN
  /\ tries \in 0 .. MaxTries /\ served \in 0 .. tries /\ lost \in 0 .. served
  /\ running => /\ pc = "idle" /\ op = "none" /\ ~error
                /\ tries < MaxTries
                /\ command.needsOs => ~isBoot
                /\ served = lost
  /\ pc # "idle" => command = NoCommand /\ served = lost
  /\ DoneIfReported
  /\ RepeatedOnlyIfLost

IInv == LinkInv /\ CommandInv

-----------------------------------------------------------------------------
(* The type invariant in three parts, for steps that leave some of them.    *)
WorldTypes ==
  port \in [Paths -> Serials] /\ mode \in [Devices -> {"os", "boot"}]
    /\ changes \in 0 .. MaxChanges

LinkTypes ==
  /\ handle \in Paths \union {NoPath} /\ session \in Serials
  /\ isBoot \in BOOLEAN /\ legacy \in BOOLEAN
  /\ info \in Info /\ attrs \in Serials
  /\ error \in BOOLEAN /\ known \in BOOLEAN

ScanTypes ==
  /\ pc \in {"idle", "list", "listed", "first", "tried", "next", "matched"}
  /\ op \in {"none", "connect", "list", "reconnect"}
  /\ target \in Paths \union {NoPath} /\ todo \subseteq Paths
  /\ round \in 0 .. Retries /\ last \in Info /\ list \subseteq Info
  /\ disturbed \in {"no", "earlier", "now"}

LEMMA TypeParts ==
  /\ TypeOK <=> WorldTypes /\ LinkTypes /\ ScanTypes
  /\ TypeOK' <=> WorldTypes' /\ LinkTypes' /\ ScanTypes'
  BY DEF TypeOK, WorldTypes, LinkTypes, ScanTypes

LEMMA NoInfoType == NoInfo \in Info /\ NoDevice \in Serials
  BY DEF NoInfo, Info, Serials

(* connect, from wherever it is called: what it leaves is of the right types*)
(* and right, and if it may connect at all, an error means that nothing is  *)
(* known of the device.                                                     *)
LEMMA ConnectRight ==
  ASSUME TypeOK, RightInfo,
         NEW place \in Paths \union {NoPath}, NEW leg \in BOOLEAN,
         ConnectTo(place, leg)
  PROVE  /\ handle' \in Paths \union {NoPath} /\ session' \in Serials
         /\ isBoot' \in BOOLEAN /\ legacy' \in BOOLEAN
         /\ info' \in Info /\ attrs' \in Serials
         /\ error' \in BOOLEAN /\ known' \in BOOLEAN
         /\ disturbed' \in {"no", "earlier", "now"}
         /\ mode' = mode => RightInfo'
         /\ ~error /\ (known => SamePath(place)) => (error' => ~known')
<1> DEFINE d == DeviceUsed(place)
<1>1. CASE error /\ UNCHANGED <<linkVars, disturbed>>
  BY <1>1 DEF TypeOK, RightInfo, Connected, linkVars
<1>2. CASE /\ ~error /\ ~SamePath(place)
           /\ error' = TRUE
           /\ UNCHANGED <<handle, session, isBoot, legacy, info, attrs, known, disturbed>>
  BY <1>2 DEF TypeOK, RightInfo, Connected
<1>3. CASE ~error /\ SamePath(place) /\ legacy' = leg /\ NoAnswer(place, leg)
  BY <1>3 DEF TypeOK, RightInfo, Connected, NoAnswer, Drop, Disturb, Serials
<1>4. CASE /\ ~error /\ SamePath(place) /\ Speaks(d, leg)
           /\ legacy' = leg
           /\ handle' = PathUsed(place) /\ session' = d
           /\ IF mode[d] = "os" THEN IdentifyOs(place, d) ELSE IdentifyBootloader(place, d)
  <2>1. /\ d \in Devices /\ session' \in Serials
        /\ handle' \in Paths /\ Connected'
    BY <1>4, LinkAssumption
    DEF TypeOK, Speaks, DeviceUsed, PathUsed, Connected, Serials
  <2>2. CASE mode[d] = "os" /\ IdentifyOs(place, d)
    <3>1. PICK s \in Serials, read \in BOOLEAN :
            /\ read => s = d
            /\ info' = [path |-> place, serial |-> s]
            /\ known' = read
            /\ Disturb(~read)
      BY <2>2 DEF IdentifyOs
    <3>2. isBoot' = FALSE /\ attrs' = attrs /\ error' = error
      BY <2>2 DEF IdentifyOs
    <3> QED
      BY <1>4, <2>1, <2>2, <3>1, <3>2 DEF TypeOK, RightInfo, Connected, Info, Disturb
  <2>3. CASE mode[d] # "os" /\ IdentifyBootloader(place, d)
    <3>1. PICK read \in BOOLEAN :
            /\ attrs' = IF read THEN d ELSE attrs
            /\ info' = [path |-> place, serial |-> attrs']
            /\ error' = ~read
            /\ known' = read
            /\ Disturb(~read)
      BY <2>3 DEF IdentifyBootloader
    <3>2. isBoot' = TRUE /\ mode[d] = "boot"
      BY <2>1, <2>3 DEF IdentifyBootloader, TypeOK
    <3>3. attrs' \in Serials
      BY <2>1, <3>1 DEF TypeOK, Serials
    <3> QED
      BY <1>4, <2>1, <2>3, <3>1, <3>2, <3>3 DEF TypeOK, RightInfo, Connected, Info, Disturb
  <2> QED
    BY <1>4, <2>2, <2>3
<1> QED
  BY <1>1, <1>2, <1>3, <1>4 DEF ConnectTo

-----------------------------------------------------------------------------
LEMMA InitHolds == CommandInit => IInv
<1> SUFFICES ASSUME CommandInit
             PROVE  IInv
  OBVIOUS
<1> USE LinkAssumption DEF CommandInit
<1>1. port \in [Paths -> Serials]
  BY DEF Init, Serials
<1>2. TypeOK
  <2>1. WorldTypes
    BY <1>1 DEF Init, WorldTypes
  <2>2. LinkTypes
    BY NoInfoType DEF Init, LinkTypes
  <2>3. ScanTypes
    BY NoInfoType DEF Init, ScanTypes
  <2> QED
    BY <2>1, <2>2, <2>3, TypeParts
<1>3. RightInfo /\ ScanInfo /\ NeverTheWrongDevice
  BY DEF Init, RightInfo, ScanInfo, Connected, NeverTheWrongDevice, Idle
<1>4. CommandInv
  <2>1. command \in Kinds /\ ~command.reports
    BY DEF Kinds, NoCommand
  <2>2. DoneIfReported /\ RepeatedOnlyIfLost
    BY <2>1 DEF DoneIfReported, RepeatedOnlyIfLost
  <2>3. tries \in 0 .. MaxTries /\ served \in 0 .. tries /\ lost \in 0 .. served
    BY DEF MaxTries
  <2>4. running = FALSE /\ pc = "idle"
    BY DEF Init
  <2> QED
    BY <2>1, <2>2, <2>3, <2>4 DEF CommandInv
<1> QED
  BY <1>2, <1>3, <1>4 DEF IInv, LinkInv

(* A step that leaves the link disconnected, or everything about it as it   *)
(* was, and ends idle with no scan to speak of.                             *)
LEMMA NoScanRight ==
  ASSUME LinkInv, NoScan,
         Drop \/ UNCHANGED <<handle, session, known, isBoot, info, attrs, mode>>
  PROVE  RightInfo' /\ ScanInfo' /\ NeverTheWrongDevice'
  BY DEF LinkInv, NoScan, Drop, RightInfo, Connected, ScanInfo, NeverTheWrongDevice, Idle

LEMMA NoScanTypes ==
  ASSUME TypeOK, NoScan
  PROVE  /\ pc' \in {"idle"} /\ op' \in {"none"} /\ disturbed' \in {"no"}
         /\ target' \in {NoPath} /\ todo' \subseteq Paths /\ round' \in 0 .. Retries
         /\ last' \in Info /\ list' \subseteq Info
  BY LinkAssumption DEF NoScan, NoInfo, Info, Serials

(* An operation of the connection.                                          *)
LEMMA UserStepKeepsLink ==
  ASSUME LinkInv, UserStep
  PROVE  LinkInv'
<1> USE LinkAssumption DEF LinkInv
<1>1. CASE Connect
  <2>1. PICK p \in Paths, leg \in BOOLEAN : ConnectTo(p, leg) /\ target' = p
    BY <1>1 DEF Connect
  <2>2. /\ pc' = "idle" /\ op' = "connect"
        /\ todo' = {} /\ round' = 0 /\ last' = NoInfo /\ list' = {}
        /\ UNCHANGED worldVars
    BY <1>1 DEF Connect
  <2>3. TypeOK'
    BY <2>1, <2>2, ConnectRight DEF TypeOK, worldVars, NoInfo, Info, Serials
  <2>4. RightInfo'
    BY <2>1, <2>2, ConnectRight DEF worldVars
  <2> QED
    BY <2>2, <2>3, <2>4 DEF ScanInfo, NeverTheWrongDevice, Idle
<1>2. CASE Disconnect
  <2>1. TypeOK'
    BY <1>2, NoScanTypes DEF Disconnect, Disconnected, Drop, worldVars, TypeOK, Serials
  <2> QED
    BY <1>2, <2>1, NoScanRight DEF Disconnect, Disconnected
<1>3. CASE Ping
  <2>1. NoScan /\ UNCHANGED <<worldVars, legacy, info, attrs, error>>
    BY <1>3 DEF Ping
  <2>2. PICK p \in Paths, keep \in BOOLEAN :
          \/ Drop /\ UNCHANGED isBoot
          \/ /\ Speaks(DeviceUsed(p), legacy)
             /\ IF keep
                  THEN /\ handle' = PathUsed(p) /\ session' = DeviceUsed(p)
                       /\ UNCHANGED <<known, isBoot>>
                  ELSE Disconnected
    BY <1>3 DEF Ping
  <2>3. CASE Drop /\ isBoot' \in BOOLEAN
    <3>1. TypeOK'
      BY <2>1, <2>3, NoScanTypes DEF Drop, worldVars, TypeOK, Serials
    <3> QED
      BY <2>1, <2>3, <3>1, NoScanRight
  <2>4. CASE /\ handle' = PathUsed(p) /\ session' = DeviceUsed(p)
             /\ UNCHANGED <<known, isBoot>>
    <3>1. TypeOK'
      BY <2>1, <2>4, NoScanTypes
      DEF worldVars, TypeOK, Serials, PathUsed, DeviceUsed, Connected
    <3>2. RightInfo' /\ ScanInfo' /\ NeverTheWrongDevice'
      BY <2>1, <2>4
      DEF worldVars, NoScan, PathUsed, DeviceUsed, RightInfo, Connected, ScanInfo,
          NeverTheWrongDevice, Idle
    <3> QED
      BY <3>1, <3>2
  <2> QED
    BY <2>2, <2>3, <2>4 DEF Disconnected, LinkInv, TypeOK
<1>4. CASE Reset
  <2>1. /\ NoScan
        /\ UNCHANGED <<changes, isBoot, legacy, info, attrs>>
        /\ \/ error' = TRUE /\ UNCHANGED <<handle, session, known, port, mode>>
           \/ Drop /\ error' = FALSE
    BY <1>4 DEF Reset
  <2>2. port' \in [Paths -> Serials] /\ mode' \in [Devices -> {"os", "boot"}]
    BY <1>4 DEF Reset, TypeOK, Serials
  <2>3. TypeOK'
    BY <2>1, <2>2, NoScanTypes DEF Drop, TypeOK, Serials
  <2> QED
    BY <2>1, <2>3, NoScanRight
<1>5. CASE ClearError
  <2>1. TypeOK'
    BY <1>5, NoScanTypes DEF ClearError, worldVars, TypeOK
  <2> QED
    BY <1>5, <2>1, NoScanRight DEF ClearError, worldVars
<1>6. CASE ListStart
  <2>1. /\ todo' \subseteq Paths /\ last' \in Info /\ list' \subseteq Info
        /\ pc' \in {"idle", "list"} /\ op' = "list" /\ target' = NoPath /\ round' = 0
        /\ disturbed' = "no"
    BY <1>6 DEF ListStart, PathList, Attached, NoInfo, Info, Serials
  <2>2. /\ handle' = NoPath /\ session' = NoDevice /\ known' = FALSE /\ isBoot' = FALSE
        /\ UNCHANGED <<worldVars, legacy, info, attrs, error>>
    BY <1>6 DEF ListStart, Disconnected, Drop
  <2>3. TypeOK'
    <3>1. WorldTypes'
      BY <2>2 DEF worldVars, TypeOK, WorldTypes
    <3>2. LinkTypes'
      BY <2>2, NoInfoType DEF TypeOK, LinkTypes
    <3>3. ScanTypes'
      BY <2>1 DEF ScanTypes
    <3> QED
      BY <3>1, <3>2, <3>3, TypeParts
  <2> QED
    BY <1>6, <2>3
    DEF ListStart, Disconnected, Drop, RightInfo, ScanInfo, NeverTheWrongDevice, Idle
<1>7. CASE ReconnectStart
  <2>1. TypeOK'
    BY <1>7 DEF ReconnectStart, linkVars, worldVars, TypeOK
  <2> QED
    BY <1>7, <2>1
    DEF ReconnectStart, linkVars, worldVars, RightInfo, Connected, ScanInfo,
        NeverTheWrongDevice, Idle
<1> QED
  BY <1>1, <1>2, <1>3, <1>4, <1>5, <1>6, <1>7 DEF UserStep

(* A step of a scan.                                                        *)
LEMMA ScanStepKeepsLink ==
  ASSUME LinkInv, ScanStep
  PROVE  LinkInv'
<1> USE LinkAssumption DEF LinkInv
<1>1. CASE ListConnect
  <2>1. PICK p \in todo : ConnectTo(p, FALSE) /\ target' = p /\ todo' = Tried(p)
    BY <1>1 DEF ListConnect
  <2>2. p \in Paths \union {NoPath} /\ mode' = mode
    BY <1>1 DEF ListConnect, worldVars, TypeOK
  <2>3. TypeOK'
    BY <1>1, <2>1, <2>2, ConnectRight DEF ListConnect, worldVars, TypeOK, Tried
  <2>4. RightInfo'
    BY <2>1, <2>2, ConnectRight
  <2> QED
    BY <1>1, <2>3, <2>4 DEF ListConnect, ScanInfo, NeverTheWrongDevice, Idle
<1>2. CASE ListRecord
  <2>1. [path |-> target, serial |-> info.serial] \in Info
    BY DEF TypeOK, Info
  <2>2. TypeOK'
    BY <1>2, <2>1
    DEF ListRecord, Disconnected, Drop, ForgetError, worldVars, TypeOK, Serials
  <2> QED
    BY <1>2, <2>2
    DEF ListRecord, Disconnected, Drop, ForgetError, worldVars, RightInfo, Connected,
        ScanInfo, NeverTheWrongDevice, Idle
<1>3. CASE ReconnectLast
  <2>1. last.path \in Paths \union {NoPath} /\ mode' = mode
    BY <1>3 DEF ReconnectLast, worldVars, TypeOK, Info
  <2>2. TypeOK'
    BY <1>3, <2>1, ConnectRight DEF ReconnectLast, worldVars, TypeOK
  <2>3. ~error /\ (known => SamePath(last.path))
    BY <1>3 DEF ReconnectLast, ScanInfo, SamePath
  <2>4. RightInfo' /\ (error' => ~known')
    BY <1>3, <2>1, <2>3, ConnectRight DEF ReconnectLast
  <2> QED
    BY <1>3, <2>2, <2>4 DEF ReconnectLast, ScanInfo, NeverTheWrongDevice, Idle
<1>4. CASE ReconnectNext
  <2>1. PICK p \in todo : ConnectTo(p, FALSE) /\ target' = p /\ todo' = Tried(p)
    BY <1>4 DEF ReconnectNext
  <2>2. p \in Paths \union {NoPath} /\ mode' = mode
    BY <1>4 DEF ReconnectNext, worldVars, TypeOK
  <2>3. TypeOK'
    BY <1>4, <2>1, <2>2, ConnectRight DEF ReconnectNext, worldVars, TypeOK, Tried
  <2>4. RightInfo' /\ (error' => ~known')
    BY <1>4, <2>1, <2>2, ConnectRight DEF ReconnectNext, ScanInfo
  <2> QED
    BY <1>4, <2>3, <2>4 DEF ReconnectNext, ScanInfo, NeverTheWrongDevice, Idle
<1>5. CASE ReconnectCheck
  <2>1. TypeOK'
    <3>1. /\ handle' \in {handle, NoPath} /\ session' \in {session, NoDevice}
          /\ known' \in {known, FALSE} /\ isBoot' \in {isBoot, FALSE}
          /\ pc' \in {"idle", "next"} /\ todo' \subseteq Paths /\ error' = FALSE
      BY <1>5 DEF ReconnectCheck, LeaveWrong, Disconnected, Drop, ForgetError, PathList,
                  Attached, TypeOK
    <3>2. UNCHANGED <<worldVars, legacy, info, attrs, op, target, round, last, list,
                      disturbed>>
      BY <1>5 DEF ReconnectCheck
    <3>3. LinkTypes'
      BY <3>1, <3>2, NoInfoType DEF TypeOK, LinkTypes
    <3>4. WorldTypes' /\ ScanTypes'
      BY <3>1, <3>2 DEF worldVars, TypeOK, WorldTypes, ScanTypes
    <3> QED
      BY <3>3, <3>4, TypeParts
  <2>2. /\ mode' = mode /\ info' = info /\ attrs' = attrs /\ last' = last /\ op' = op
        /\ error' = FALSE /\ round' = round
        /\ pc \in {"tried", "matched"} /\ pc' \in {"idle", "next"}
    BY <1>5 DEF ReconnectCheck, ForgetError, worldVars
  <2>3. CASE Found
    BY <1>5, <2>1, <2>2, <2>3
    DEF ReconnectCheck, Found, RightInfo, Connected, ScanInfo, NeverTheWrongDevice, Idle
  <2>4. CASE ~Found
    (* Either way nothing is known: it was left, or there is an error.        *)
    <3>1. ~known' /\ pc' = "next"
      BY <1>5, <2>4 DEF ReconnectCheck, LeaveWrong, Disconnected, Drop, ScanInfo
    <3> QED
      BY <2>1, <2>2, <3>1 DEF RightInfo, ScanInfo, NeverTheWrongDevice, Idle
  <2> QED
    BY <2>3, <2>4
<1>6. CASE ReconnectWait
  <2>1. /\ round' \in 0 .. Retries /\ round' = round + 1
        /\ pc' \in {"first", "idle"} /\ info' \in {info, last}
        /\ disturbed' \in {disturbed, "earlier"}
    BY <1>6 DEF ReconnectWait, ScanInfo, TypeOK
  <2>2. TypeOK'
    BY <1>6, <2>1 DEF ReconnectWait, worldVars, TypeOK
  <2> QED
    BY <1>6, <2>1, <2>2
    DEF ReconnectWait, RoundsLeft, worldVars, RightInfo, ScanInfo, NeverTheWrongDevice, Idle
<1> QED
  BY <1>1, <1>2, <1>3, <1>4, <1>5, <1>6 DEF ScanStep

(* Devices that come and go.                                                *)
LEMMA WorldKeepsLink ==
  ASSUME LinkInv, Attach \/ Unplug
  PROVE  LinkInv'
<1> USE LinkAssumption DEF LinkInv
<1>1. CASE Attach
  <2>1. TypeOK'
    BY <1>1 DEF Attach, Unplugged, Disturb, linkVars, scanVars, TypeOK, Serials
  <2> QED
    BY <1>1, <2>1
    DEF Attach, linkVars, scanVars, RightInfo, Connected, ScanInfo, NeverTheWrongDevice,
        Idle
<1>2. CASE Unplug
  <2>1. TypeOK'
    <3>1. port' \in [Paths -> Serials] /\ session' \in {session, NoDevice}
      BY <1>2, NoInfoType DEF Unplug, TypeOK
    <3>2. WorldTypes'
      BY <1>2, <3>1 DEF Unplug, TypeOK, WorldTypes
    <3>3. LinkTypes'
      BY <1>2, <3>1, NoInfoType DEF Unplug, TypeOK, LinkTypes
    <3>4. ScanTypes'
      BY <1>2 DEF Unplug, Disturb, scanVars, TypeOK, ScanTypes
    <3> QED
      BY <3>2, <3>3, <3>4, TypeParts
  <2>2. /\ session' \in {session, NoDevice}
        /\ UNCHANGED <<mode, handle, isBoot, info, attrs, error, known, scanVars>>
    BY <1>2 DEF Unplug
  <2> QED
    BY <2>1, <2>2
    DEF scanVars, RightInfo, Connected, ScanInfo, NeverTheWrongDevice, Idle
<1> QED
  BY <1>1, <1>2

-----------------------------------------------------------------------------
(* A command that starts or is refused.                                     *)
LEMMA BeginKeeps ==
  ASSUME IInv, NEW kind \in Kinds, NEW invalid \in BOOLEAN, Begin(kind, invalid)
  PROVE  IInv'
<1> USE DEF IInv
<1>1. /\ ~running /\ ~error /\ NoScan
      /\ command' = kind /\ tries' = 0 /\ served' = 0 /\ lost' = 0
      /\ error' = (Refuses(kind) \/ invalid) /\ running' = ~error'
      /\ UNCHANGED <<worldVars, handle, session, isBoot, legacy, info, attrs, known>>
  BY DEF Begin
<1>2. error' \in BOOLEAN /\ running' \in BOOLEAN
  BY <1>1
<1>3. LinkInv'
  <2>1. WorldTypes' /\ LinkTypes'
    BY <1>1, <1>2 DEF LinkInv, worldVars, TypeOK, WorldTypes, LinkTypes
  <2>2. ScanTypes'
    BY <1>1, NoScanTypes DEF LinkInv, ScanTypes
  <2> QED
    BY <1>1, <2>1, <2>2, TypeParts, NoScanRight DEF LinkInv, worldVars
<1>4. CommandInv'
  <2>1. tries' \in 0 .. MaxTries /\ served' \in 0 .. tries' /\ lost' \in 0 .. served'
        /\ tries' < MaxTries
    BY <1>1 DEF MaxTries
  <2>2. pc' = "idle" /\ op' = "none"
    BY <1>1 DEF NoScan
  <2>3. RepeatedOnlyIfLost'
    BY <1>1 DEF RepeatedOnlyIfLost
  <2>4. DoneIfReported'
    BY <1>1 DEF DoneIfReported
  <2>5. running' => ~error' /\ (command'.needsOs => ~isBoot')
    BY <1>1 DEF Refuses
  <2> QED
    BY <1>1, <1>2, <2>1, <2>2, <2>3, <2>4, <2>5 DEF CommandInv
<1> QED
  BY <1>3, <1>4

(* One try of a command.                                                    *)
LEMMA TryKeeps ==
  ASSUME IInv, Try
  PROVE  IInv'
<1> USE DEF IInv
<1>1. PICK carriedOut \in BOOLEAN, answered \in BOOLEAN, garbled \in BOOLEAN :
        /\ answered => carriedOut /\ ~garbled
        /\ served' = served + (IF carriedOut THEN 1 ELSE 0)
        /\ lost' = lost + (IF carriedOut /\ ~answered THEN 1 ELSE 0)
        /\ running' = AgainIfGarbled(garbled)
        /\ error' = (~running' /\ Reported(~answered))
  BY DEF Try
<1>2. /\ running /\ tries' = tries + 1
      /\ UNCHANGED <<command, worldVars, handle, session, isBoot, legacy, info, attrs,
                     known, scanVars, disturbed>>
  BY DEF Try
<1>3. /\ running' \in BOOLEAN /\ error' \in BOOLEAN
      /\ running' => garbled /\ tries' < MaxTries /\ ~error'
  BY <1>1 DEF AgainIfGarbled, Reported
<1>4. /\ pc = "idle" /\ op = "none" /\ (command.needsOs => ~isBoot)
      /\ served = lost /\ tries < MaxTries
  BY <1>2 DEF CommandInv
<1>5. LinkInv'
  <2>1. WorldTypes' /\ LinkTypes' /\ ScanTypes'
    BY <1>2, <1>3
    DEF LinkInv, worldVars, scanVars, TypeOK, WorldTypes, LinkTypes, ScanTypes
  <2>2. RightInfo' /\ ScanInfo' /\ NeverTheWrongDevice'
    BY <1>2, <1>4
    DEF LinkInv, worldVars, scanVars, RightInfo, Connected, ScanInfo,
        NeverTheWrongDevice, Idle
  <2> QED
    BY <2>1, <2>2, TypeParts DEF LinkInv
<1>6. CommandInv'
  <2>1. tries' \in 0 .. MaxTries /\ served' \in 0 .. tries' /\ lost' \in 0 .. served'
    BY <1>1, <1>2, <1>4 DEF CommandInv, MaxTries
  <2>2. (served' = lost' <=> ~answered) /\ RepeatedOnlyIfLost'
    BY <1>1, <1>4 DEF CommandInv, RepeatedOnlyIfLost
  <2>3. DoneIfReported'
    BY <1>1, <1>2, <2>2 DEF DoneIfReported, Reported
  <2>4. running' => ~answered
    BY <1>1, <1>3
  <2> QED
    BY <1>2, <1>3, <1>4, <2>1, <2>2, <2>3, <2>4 DEF CommandInv, scanVars
<1> QED
  BY <1>5, <1>6

(* With no command there is nothing to report.                              *)
LEMMA NoCommandRight ==
  ASSUME CommandInv, ~running,
         command' = NoCommand /\ tries' = 0 /\ served' = 0 /\ lost' = 0,
         running' = running
  PROVE  CommandInv'
<1>1. command' \in Kinds /\ ~command'.reports
  BY DEF Kinds, NoCommand
<1>2. tries' \in 0 .. MaxTries /\ served' \in 0 .. tries' /\ lost' \in 0 .. served'
      /\ served' = lost' /\ RepeatedOnlyIfLost'
  BY DEF MaxTries, RepeatedOnlyIfLost
<1>3. DoneIfReported'
  BY <1>1 DEF DoneIfReported
<1> QED
  BY <1>1, <1>2, <1>3 DEF CommandInv

LEMMA GetBootloaderAttrKeeps ==
  ASSUME IInv, GetBootloaderAttr
  PROVE  IInv'
<1> USE DEF IInv
<1>1. /\ ~running /\ NoScan /\ error' \in BOOLEAN
      /\ command' = NoCommand /\ tries' = 0 /\ served' = 0 /\ lost' = 0
      /\ UNCHANGED <<running, worldVars, handle, session, isBoot, legacy, info, attrs,
                     known>>
  BY DEF GetBootloaderAttr
<1>2. LinkInv'
  <2>1. WorldTypes' /\ LinkTypes'
    BY <1>1 DEF LinkInv, worldVars, TypeOK, WorldTypes, LinkTypes
  <2>2. ScanTypes'
    BY <1>1, NoScanTypes DEF LinkInv, ScanTypes
  <2> QED
    BY <1>1, <2>1, <2>2, TypeParts, NoScanRight DEF LinkInv, worldVars
<1>3. CommandInv'
  BY <1>1, NoCommandRight
<1> QED
  BY <1>2, <1>3

LEMMA OtherOperationKeeps ==
  ASSUME IInv, OtherOperation
  PROVE  IInv'
<1>1. LinkInv'
  BY UserStepKeepsLink DEF IInv, OtherOperation
<1>2. CommandInv'
  BY NoCommandRight DEF IInv, OtherOperation
<1> QED
  BY <1>1, <1>2 DEF IInv

(* A scan is no command, and devices that come and go leave it alone.       *)
LEMMA RestKeeps ==
  ASSUME IInv, ScanStep \/ Attach \/ Unplug, UNCHANGED commandVars
  PROVE  IInv'
<1> USE DEF IInv
<1>1. LinkInv'
  BY ScanStepKeepsLink, WorldKeepsLink
<1>2. CASE ScanStep
  <2>1. pc # "idle"
    BY <1>2 DEF ScanStep, ListConnect, ListRecord, ReconnectLast, ReconnectNext,
                ReconnectCheck, ReconnectWait
  <2>2. ~running /\ command = NoCommand /\ served = lost
    BY <2>1 DEF CommandInv
  <2>3. ~command'.reports
    BY <2>2 DEF commandVars, NoCommand
  <2>4. DoneIfReported' /\ RepeatedOnlyIfLost'
    BY <2>2, <2>3 DEF commandVars, DoneIfReported, RepeatedOnlyIfLost, CommandInv
  <2> QED
    BY <1>1, <2>2, <2>4 DEF commandVars, CommandInv
<1>3. CASE Attach \/ Unplug
  <2>1. UNCHANGED <<pc, op, error, isBoot>>
    BY <1>3 DEF Attach, Unplug, linkVars, scanVars
  <2> QED
    BY <1>1, <2>1 DEF commandVars, CommandInv, DoneIfReported, RepeatedOnlyIfLost
<1> QED
  BY <1>2, <1>3

-----------------------------------------------------------------------------
LEMMA StepKeeps == IInv /\ [CommandNext]_allVars => IInv'
<1> SUFFICES ASSUME IInv, [CommandNext]_allVars
             PROVE  IInv'
  OBVIOUS
<1>1. ASSUME NEW needsOs \in BOOLEAN, NEW reports \in BOOLEAN
      PROVE  [needsOs |-> needsOs, reports |-> reports] \in Kinds
  BY DEF Kinds
<1>2. CASE GetTime \/ SetTime \/ RunApp \/ Format \/ ReadFlash \/ WriteFlash
  BY <1>1, <1>2, BeginKeeps
  DEF GetTime, SetTime, RunApp, Format, ReadFlash, WriteFlash
<1>3. CASE Try
  BY <1>3, TryKeeps
<1>4. CASE GetBootloaderAttr
  BY <1>4, GetBootloaderAttrKeeps
<1>5. CASE OtherOperation
  BY <1>5, OtherOperationKeeps
<1>6. CASE ScanGoesOn \/ ((Attach \/ Unplug) /\ UNCHANGED commandVars)
  BY <1>6, RestKeeps DEF ScanGoesOn
<1>7. CASE UNCHANGED allVars
  <2>1. UNCHANGED <<worldVars, linkVars, scanVars, disturbed, commandVars>>
    BY <1>7 DEF allVars, vars
  <2>2. WorldTypes' /\ LinkTypes' /\ ScanTypes'
    BY <2>1, TypeParts
    DEF IInv, LinkInv, worldVars, linkVars, scanVars, WorldTypes, LinkTypes, ScanTypes
  <2>3. RightInfo' /\ ScanInfo' /\ NeverTheWrongDevice'
    BY <2>1
    DEF IInv, LinkInv, worldVars, linkVars, scanVars, RightInfo, Connected, ScanInfo,
        NeverTheWrongDevice, Idle
  <2>4. CommandInv'
    BY <2>1
    DEF IInv, linkVars, scanVars, commandVars, CommandInv, DoneIfReported,
        RepeatedOnlyIfLost
  <2> QED
    BY <2>2, <2>3, <2>4, TypeParts DEF IInv, LinkInv
<1> QED
  BY <1>2, <1>3, <1>4, <1>5, <1>6, <1>7 DEF CommandNext

LEMMA Invariance == CommandSpec => []IInv
  BY InitHolds, StepKeeps, PTL DEF CommandSpec

(* The types, of the connection and of its commands.                        *)
THEOREM Types == CommandSpec => []CommandTypeOK
<1>1. IInv => CommandTypeOK
  BY DEF IInv, LinkInv, CommandInv, CommandTypeOK
<1> QED
  BY <1>1, Invariance, PTL

(* What connect identified describes the device behind the handle for as    *)
(* long as the device is there, whatever the program and the devices do.    *)
THEOREM IdentifiedRight == CommandSpec => []Identified
<1>1. IInv => Identified
  BY DEF IInv, LinkInv, RightInfo, Identified
<1> QED
  BY <1>1, Invariance, PTL

(* reconnect does not end on a device other than the last one.              *)
THEOREM ReconnectRight == CommandSpec => []NeverTheWrongDevice
<1>1. IInv => NeverTheWrongDevice
  BY DEF IInv, LinkInv
<1> QED
  BY <1>1, Invariance, PTL

(* No command of the OS is sent to a device that is known as a bootloader.  *)
THEOREM CommandsToTheOs == CommandSpec => []NotToTheBootloader
<1>1. IInv => NotToTheBootloader
  <2> SUFFICES ASSUME IInv, running, command.needsOs, known, session # NoDevice
               PROVE  mode[session] = "os"
    BY DEF NotToTheBootloader
  <2>1. ~isBoot /\ mode[session] # "boot"
    BY DEF IInv, CommandInv, LinkInv, RightInfo
  <2>2. session \in Devices
    BY DEF IInv, LinkInv, TypeOK, Serials
  <2> QED
    BY <2>1, <2>2 DEF IInv, LinkInv, TypeOK
<1> QED
  BY <1>1, Invariance, PTL

(* A command that reports ends without an error exactly if the device said  *)
(* that it carried it out.                                                  *)
THEOREM ReportsRight == CommandSpec => []DoneIfReported
<1>1. IInv => DoneIfReported
  BY DEF IInv, CommandInv
<1> QED
  BY <1>1, Invariance, PTL

(* Only a lost answer makes the device carry a command out again.           *)
THEOREM NoNeedlessRepeat == CommandSpec => []RepeatedOnlyIfLost
<1>1. IInv => RepeatedOnlyIfLost
  BY DEF IInv, CommandInv
<1> QED
  BY <1>1, Invariance, PTL

-----------------------------------------------------------------------------
(* Scans that nothing disturbs.  Which operation is under way.              *)
OneScan ==
  /\ op = "list" => pc \in {"idle", "list", "listed"}
  /\ op = "reconnect" => pc \in {"idle", "first", "tried", "next", "matched"}
  /\ op \in {"none", "connect"} => pc = "idle"

Answers(p) == Speaks(port[p], FALSE)
Listing(S) == {[path |-> p, serial |-> port[p]] : p \in {q \in S : Answers(q)}}

(* After an attempt that was not disturbed: without an answer nothing is    *)
(* connected, with one the device was identified.                           *)
Attempted ==
  /\ error => ~Connected
  /\ ~error => Connected /\ known /\ info.serial = session

(* get_info_list has listed the paths it has tried, and is not connected    *)
(* when it comes to the next.                                               *)
ListScan ==
  disturbed = "no" /\ op = "list"
    => /\ todo \subseteq Attached
       /\ pc = "list" => ~Connected /\ ~error /\ list = Listing(Attached \ todo)
       /\ pc = "listed" => /\ target \in Attached \ todo
                           /\ list = Listing((Attached \ todo) \ {target})
                           /\ Attempted
                           /\ error <=> ~Answers(target)
                           /\ ~error => session = port[target]
       /\ pc = "idle" => ~Connected /\ list = Listing(Attached)

(* The device that reconnect looks for.                                     *)
Wanted(p) == port[p] = last.serial /\ Answers(p)

(* reconnect goes on only if it has not found it where it has looked, and   *)
(* then has left whatever it was connected to.                              *)
ReconnectScan ==
  disturbed = "no" /\ op = "reconnect"
    => /\ pc = "first" => ~error /\ SamePath(last.path)
       /\ pc \in {"tried", "matched"} => Attempted
       /\ pc = "next" => /\ ~Connected /\ ~error
                         /\ \A p \in Attached \ todo : ~Wanted(p)
       /\ pc = "matched" => /\ \A p \in (Attached \ todo) \ {target} : ~Wanted(p)
                            /\ target \in Paths
                            /\ error <=> ~Answers(target)
                            /\ ~error => session = port[target]
       /\ pc = "idle" => \/ Connected /\ known /\ session = last.serial
                         \/ \A p \in Attached : ~Wanted(p)

QuietInv == OneScan /\ ListScan /\ ReconnectScan

(* A disturbance is not forgotten by an attempt.                            *)
LEMMA StillQuiet ==
  ASSUME NEW place, NEW leg, ConnectTo(place, leg), disturbed' = "no"
  PROVE  disturbed = "no"
  BY DEF ConnectTo, linkVars, NoAnswer, IdentifyOs, IdentifyBootloader, Disturb

(* An attempt by a scan, in the state a scan is in when it makes one.       *)
LEMMA ConnectQuiet ==
  ASSUME TypeOK, NEW place \in Paths \union {NoPath}, ConnectTo(place, FALSE),
         ~error, SamePath(place), disturbed' = "no"
  PROVE  /\ disturbed = "no"
         /\ error' => ~Connected' /\ ~Speaks(DeviceUsed(place), FALSE)
         /\ ~error' => /\ Connected' /\ known' /\ info'.serial = session'
                       /\ session' = DeviceUsed(place)
                       /\ Speaks(DeviceUsed(place), FALSE)
<1> DEFINE d == DeviceUsed(place)
<1>1. CASE NoAnswer(place, FALSE)
  BY <1>1 DEF NoAnswer, Drop, Connected, Disturb
<1>2. CASE /\ Speaks(d, FALSE)
           /\ handle' = PathUsed(place) /\ session' = d
           /\ IF mode[d] = "os" THEN IdentifyOs(place, d) ELSE IdentifyBootloader(place, d)
  <2>1. Connected'
    BY <1>2, LinkAssumption DEF Speaks, DeviceUsed, PathUsed, Connected, TypeOK
  <2>2. CASE IdentifyOs(place, d)
    <3>1. PICK s \in Serials, read \in BOOLEAN :
            /\ read => s = d
            /\ info' = [path |-> place, serial |-> s]
            /\ known' = read
            /\ Disturb(~read)
      BY <2>2 DEF IdentifyOs
    <3>2. error' = error
      BY <2>2 DEF IdentifyOs
    <3>3. read /\ disturbed = "no"
      BY <3>1 DEF Disturb
    <3> QED
      BY <1>2, <2>1, <3>1, <3>2, <3>3
  <2>3. CASE IdentifyBootloader(place, d)
    <3>1. PICK read \in BOOLEAN :
            /\ attrs' = IF read THEN d ELSE attrs
            /\ info' = [path |-> place, serial |-> attrs']
            /\ error' = ~read
            /\ known' = read
            /\ Disturb(~read)
      BY <2>3 DEF IdentifyBootloader
    <3>2. read /\ disturbed = "no"
      BY <3>1 DEF Disturb
    <3> QED
      BY <1>2, <2>1, <3>1, <3>2
  <2> QED
    BY <1>2, <2>2, <2>3
<1> QED
  BY <1>1, <1>2 DEF ConnectTo

(* The same, when nothing is connected: the device is the one at the path.  *)
LEMMA TryPath ==
  ASSUME TypeOK, NEW p \in Paths, ConnectTo(p, FALSE),
         ~error, ~Connected, disturbed' = "no", port' = port
  PROVE  /\ disturbed = "no"
         /\ Attempted'
         /\ error' <=> ~Answers(p)'
         /\ ~error' => session' = port'[p]
<1>1. SamePath(p) /\ DeviceUsed(p) = port[p]
  BY DEF SamePath, DeviceUsed
<1>2. Answers(p)' <=> Speaks(DeviceUsed(p), FALSE)
  BY <1>1 DEF Answers, Speaks
<1>3. p \in Paths \union {NoPath}
  OBVIOUS
<1> QED
  BY <1>1, <1>2, <1>3, ConnectQuiet DEF Attempted

LEMMA ListingGrows ==
  ASSUME NEW S, NEW p \in S
  PROVE  /\ Answers(p) => Listing(S \ {p}) \union {[path |-> p, serial |-> port[p]]}
                            = Listing(S)
         /\ ~Answers(p) => Listing(S \ {p}) = Listing(S)
<1> DEFINE T == {q \in S : Answers(q)}
           U == {q \in S \ {p} : Answers(q)}
<1>1. Answers(p) => T = U \union {p}
  OBVIOUS
<1>2. ~Answers(p) => T = U
  OBVIOUS
<1>3. Listing(S) = {[path |-> q, serial |-> port[q]] : q \in T}
      /\ Listing(S \ {p}) = {[path |-> q, serial |-> port[q]] : q \in U}
  BY DEF Listing
<1> HIDE DEF T, U
<1> QED
  BY <1>1, <1>2, <1>3

-----------------------------------------------------------------------------
LEMMA QuietInit == CommandInit => QuietInv
  BY DEF CommandInit, Init, QuietInv, OneScan, ListScan, ReconnectScan

LEMMA ListStepQuiet ==
  ASSUME LinkInv, QuietInv, ListConnect \/ ListRecord
  PROVE  QuietInv'
<1>1. op = "list" /\ op' = op /\ UNCHANGED <<port, mode, last>>
  BY DEF ListConnect, ListRecord, LinkInv, ScanInfo, worldVars
<1>2. ReconnectScan'
  BY <1>1 DEF ReconnectScan
<1>3. /\ Attached' = Attached
      /\ \A S : Listing(S)' = Listing(S)
      /\ \A p : Answers(p)' <=> Answers(p)
  BY <1>1 DEF Attached, Listing, Answers, Speaks
<1>4. CASE ListConnect
  <2>1. PICK p \in todo : ConnectTo(p, FALSE) /\ target' = p /\ todo' = todo \ {p}
    BY <1>4 DEF ListConnect, Tried
  <2>2. pc = "list" /\ pc' = "listed" /\ list' = list
    BY <1>4 DEF ListConnect
  <2>3. OneScan'
    BY <1>1, <2>2 DEF OneScan
  <2>4. ASSUME disturbed' = "no"
        PROVE  /\ todo' \subseteq Attached' /\ target' \in Attached' \ todo'
               /\ list' = Listing((Attached \ todo) \ {target})'
               /\ Attempted' /\ (error' <=> ~Answers(target)')
               /\ (~error' => session' = port'[target'])
    <3>1. disturbed = "no"
      BY <2>1, <2>4, StillQuiet
    <3>2. ~error /\ ~Connected /\ list = Listing(Attached \ todo) /\ todo \subseteq Attached
      BY <1>1, <2>2, <3>1 DEF QuietInv, ListScan
    <3>3. p \in Paths
      BY <2>1, <3>2 DEF Attached
    <3>4. Attempted' /\ (error' <=> ~Answers(p)') /\ (~error' => session' = port'[p])
      BY <1>1, <2>1, <2>4, <3>2, <3>3, TryPath DEF LinkInv
    <3>5. (Attached \ todo') \ {p} = Attached \ todo
      BY <2>1
    <3>6. Listing((Attached \ todo) \ {target})' = Listing((Attached \ todo') \ {p})
      BY <1>1, <1>3, <2>1 DEF Listing, Answers, Speaks
    <3>7. Answers(target)' <=> Answers(p)'
      BY <2>1 DEF Answers
    <3> QED
      BY <1>3, <2>1, <2>2, <3>2, <3>4, <3>5, <3>6, <3>7
  <2>5. ListScan'
    BY <2>2, <2>4 DEF ListScan
  <2> QED
    BY <1>2, <2>3, <2>5 DEF QuietInv
<1>5. CASE ListRecord
  <2>1. /\ pc = "listed" /\ pc' = (IF todo = {} THEN "idle" ELSE "list") /\ ~error'
        /\ UNCHANGED <<todo, target, disturbed>>
        /\ ~error => list' = list \union {[path |-> target, serial |-> info.serial]}
                     /\ ~Connected'
        /\ error => list' = list /\ handle' = handle
    BY <1>5 DEF ListRecord, ForgetError, Disconnected, Drop, Connected
  <2>2. OneScan'
    BY <1>1, <2>1 DEF OneScan
  <2>3. ASSUME disturbed' = "no"
        PROVE  todo \subseteq Attached /\ ~Connected' /\ list' = Listing(Attached \ todo)
    <3>1. /\ todo \subseteq Attached /\ target \in Attached \ todo
          /\ list = Listing((Attached \ todo) \ {target})
          /\ Attempted
          /\ error <=> ~Answers(target)
          /\ ~error => session = port[target]
      BY <1>1, <2>1, <2>3 DEF QuietInv, ListScan
    <3>2. CASE error
      BY <2>1, <3>1, <3>2, ListingGrows DEF Attempted, Connected
    <3>3. CASE ~error
      <4>1. info.serial = port[target] /\ Answers(target)
        BY <3>1, <3>3 DEF Attempted
      <4>2. list \union {[path |-> target, serial |-> port[target]]}
              = Listing(Attached \ todo)
        BY <3>1, <4>1, ListingGrows
      <4> QED
        BY <2>1, <3>1, <3>3, <4>1, <4>2
    <3> QED
      BY <3>2, <3>3
  <2>4. ListScan'
    <3> SUFFICES ASSUME disturbed' = "no"
                 PROVE  /\ todo' \subseteq Attached' /\ ~Connected'
                        /\ list' = Listing(Attached \ todo)'
                        /\ pc' = "idle" => list' = Listing(Attached)'
      BY <2>1 DEF ListScan
    <3>1. todo \subseteq Attached /\ ~Connected' /\ list' = Listing(Attached \ todo)
      BY <2>3
    <3>2. Listing(Attached \ todo)' = Listing(Attached \ todo)
          /\ Listing(Attached)' = Listing(Attached)
      BY <1>1, <1>3, <2>1 DEF Listing, Answers, Speaks
    <3>3. pc' = "idle" => Attached \ todo = Attached
      BY <2>1
    <3> QED
      BY <1>3, <2>1, <3>1, <3>2, <3>3
  <2> QED
    BY <1>2, <2>2, <2>4 DEF QuietInv
<1> QED
  BY <1>4, <1>5

(* A step of a reconnect.                                                   *)
LEMMA ReconnectStepQuiet ==
  ASSUME LinkInv, QuietInv,
         ReconnectLast \/ ReconnectNext \/ ReconnectCheck \/ ReconnectWait
  PROVE  QuietInv'
<1>1. /\ op = "reconnect" /\ op' = op /\ UNCHANGED <<port, mode, last>>
      /\ pc \in {"first", "tried", "next", "matched"}
      /\ pc' \in {"idle", "first", "tried", "next", "matched"}
  <2>1. op \in {"none", "connect", "list", "reconnect"}
    BY DEF LinkInv, TypeOK
  <2> QED
    BY <2>1 DEF ReconnectLast, ReconnectNext, ReconnectCheck, ReconnectWait, worldVars,
                QuietInv, OneScan
<1>2. OneScan' /\ ListScan'
  BY <1>1 DEF OneScan, ListScan
<1>3. /\ Attached' = Attached
      /\ \A p : Answers(p)' <=> Answers(p)
      /\ \A p : Wanted(p)' <=> Wanted(p)
  BY <1>1 DEF Attached, Wanted, Answers, Speaks
<1>4. CASE ReconnectLast
  <2>1. /\ pc = "first" /\ pc' = "tried"
        /\ ConnectTo(last.path, FALSE) /\ last.path \in Paths \union {NoPath}
    BY <1>4 DEF ReconnectLast, LinkInv, TypeOK, Info
  <2>2. ASSUME disturbed' = "no"
        PROVE  Attempted'
    <3>1. disturbed = "no"
      BY <2>1, <2>2, StillQuiet
    <3>2. ~error /\ SamePath(last.path)
      BY <1>1, <2>1, <3>1 DEF QuietInv, ReconnectScan
    <3> QED
      BY <2>1, <2>2, <3>2, ConnectQuiet DEF LinkInv, Attempted
  <2> QED
    BY <1>2, <2>1, <2>2 DEF QuietInv, ReconnectScan
<1>5. CASE ReconnectNext
  <2>1. PICK p \in todo : ConnectTo(p, FALSE) /\ target' = p /\ todo' = todo \ {p}
    BY <1>5 DEF ReconnectNext, Tried
  <2>2. pc = "next" /\ pc' = "matched" /\ p \in Paths
    BY <1>5, <2>1 DEF ReconnectNext, LinkInv, TypeOK
  <2>3. ASSUME disturbed' = "no"
        PROVE  /\ Attempted' /\ (error' <=> ~Answers(p)')
               /\ (~error' => session' = port'[p])
               /\ \A q \in (Attached \ todo') \ {p} : ~Wanted(q)
    <3>1. disturbed = "no"
      BY <2>1, <2>3, StillQuiet
    <3>2. ~error /\ ~Connected /\ \A q \in Attached \ todo : ~Wanted(q)
      BY <1>1, <2>2, <3>1 DEF QuietInv, ReconnectScan
    <3>3. Attempted' /\ (error' <=> ~Answers(p)') /\ (~error' => session' = port'[p])
      BY <1>1, <2>1, <2>2, <2>3, <3>2, TryPath DEF LinkInv
    <3> QED
      BY <2>1, <3>2, <3>3
  <2>4. Answers(target)' <=> Answers(p)'
    BY <2>1 DEF Answers
  <2>5. ReconnectScan'
    BY <1>1, <1>3, <2>1, <2>2, <2>3, <2>4 DEF ReconnectScan
  <2> QED
    BY <1>2, <2>5 DEF QuietInv
<1>6. CASE ReconnectCheck
  <2>1. /\ pc \in {"tried", "matched"} /\ ~error'
        /\ UNCHANGED <<info, target, disturbed>>
    BY <1>6 DEF ReconnectCheck, ForgetError
  <2>2. disturbed = "no" => Attempted
    BY <1>1, <2>1 DEF QuietInv, ReconnectScan
  <2>3. CASE Found
    <3>1. pc' = "idle" /\ UNCHANGED <<handle, session, known>>
      BY <1>6, <2>3 DEF ReconnectCheck
    <3>2. disturbed = "no" => Connected /\ known /\ session = last.serial
      BY <2>2, <2>3 DEF Found, Attempted
    <3> QED
      BY <1>1, <1>2, <2>1, <3>1, <3>2 DEF QuietInv, ReconnectScan, Connected
  <2>4. CASE ~Found
    <3>1. /\ pc' = "next" /\ LeaveWrong
          /\ todo' = IF pc = "tried" THEN Attached ELSE todo
      BY <1>6, <2>4 DEF ReconnectCheck, PathList
    <3>2. disturbed = "no" => ~Connected'
      BY <2>2, <3>1 DEF LeaveWrong, Disconnected, Drop, Attempted, Connected
    <3>3. ASSUME disturbed = "no", NEW p \in Attached \ todo'
          PROVE  ~Wanted(p)
      <4>1. pc = "matched" /\ todo' = todo
        BY <2>1, <3>1, <3>3
      <4>2. CASE p # target
        BY <1>1, <3>3, <4>1, <4>2 DEF QuietInv, ReconnectScan
      <4>3. CASE p = target
        <5>1. Answers(target) => session = port[target] /\ info.serial = session
                                   /\ ~error
          BY <1>1, <2>2, <3>3, <4>1 DEF QuietInv, ReconnectScan, Attempted
        <5> QED
          BY <2>4, <4>3, <5>1 DEF Found, Wanted
      <4> QED
        BY <4>2, <4>3
    <3> QED
      BY <1>1, <1>2, <1>3, <2>1, <3>1, <3>2, <3>3 DEF QuietInv, ReconnectScan
  <2> QED
    BY <2>3, <2>4
<1>7. CASE ReconnectWait
  <2>1. /\ pc = "next" /\ todo = {} /\ pc' \in {"first", "idle"}
        /\ UNCHANGED <<handle, error>>
        /\ disturbed' = "no" => disturbed = "no"
    BY <1>7 DEF ReconnectWait
  <2>2. disturbed' = "no" => ~Connected /\ ~error /\ \A p \in Attached : ~Wanted(p)
    BY <1>1, <2>1 DEF QuietInv, ReconnectScan
  <2> QED
    BY <1>1, <1>2, <1>3, <2>1, <2>2 DEF QuietInv, ReconnectScan, SamePath, Connected
<1> QED
  BY <1>4, <1>5, <1>6, <1>7

(* A call of the program, also the start of a scan.                         *)
LEMMA UserStepQuiet ==
  ASSUME LinkInv, QuietInv, UserStep
  PROVE  QuietInv'
<1>1. CASE op' \in {"none", "connect"} /\ pc' = "idle"
  BY <1>1 DEF QuietInv, OneScan, ListScan, ReconnectScan
<1>2. CASE ListStart
  <2>1. /\ op' = "list" /\ port' = port /\ todo' = Attached /\ list' = {} /\ ~Connected'
        /\ ~error' /\ pc' = IF Attached = {} THEN "idle" ELSE "list"
    BY <1>2 DEF ListStart, PathList, Disconnected, Drop, Connected, worldVars
  <2>2. Attached' = Attached /\ (Attached \ todo)' = {}
    BY <2>1 DEF Attached
  <2>3. Listing(Attached \ todo)' = {} /\ (Attached = {} => Listing(Attached)' = {})
    BY <2>2 DEF Listing
  <2> QED
    BY <2>1, <2>2, <2>3 DEF QuietInv, OneScan, ListScan, ReconnectScan
<1>3. CASE ReconnectStart
  BY <1>3 DEF ReconnectStart, linkVars, QuietInv, OneScan, ListScan, ReconnectScan,
              SamePath, Connected
<1> QED
  BY <1>1, <1>2, <1>3 DEF UserStep, Connect, Disconnect, Ping, Reset, ClearError, NoScan

LEMMA QuietStep ==
  ASSUME IInv, QuietInv, [CommandNext]_allVars
  PROVE  QuietInv'
<1>1. CASE GetTime \/ SetTime \/ RunApp \/ Format \/ ReadFlash \/ WriteFlash
             \/ GetBootloaderAttr
  <2>1. NoScan
    BY <1>1 DEF GetTime, SetTime, RunApp, Format, ReadFlash, WriteFlash,
                GetBootloaderAttr, Begin
  <2> QED
    BY <2>1 DEF NoScan, QuietInv, OneScan, ListScan, ReconnectScan
<1>2. CASE Try
  <2>1. op = "none" /\ op' = op /\ pc' = pc /\ pc = "idle"
    BY <1>2 DEF Try, scanVars, IInv, CommandInv
  <2> QED
    BY <2>1 DEF QuietInv, OneScan, ListScan, ReconnectScan
<1>3. CASE OtherOperation
  BY <1>3, UserStepQuiet DEF OtherOperation, IInv
<1>4. CASE ScanGoesOn
  BY <1>4, ListStepQuiet, ReconnectStepQuiet DEF ScanGoesOn, ScanStep, IInv
<1>5. CASE Attach \/ Unplug
  BY <1>5 DEF Attach, Unplug, Disturb, scanVars, QuietInv, OneScan, ListScan, ReconnectScan
<1>6. CASE UNCHANGED allVars
  <2>1. UNCHANGED <<worldVars, linkVars, scanVars, disturbed>>
    BY <1>6 DEF allVars, vars
  <2>2. /\ Attached' = Attached /\ Attempted' = Attempted /\ Connected' = Connected
        /\ SamePath(last.path)' = SamePath(last.path)
    BY <2>1 DEF worldVars, linkVars, scanVars, Attached, Attempted, Connected, SamePath
  <2> QED
    BY <2>1
    DEF QuietInv, OneScan, ListScan, ReconnectScan, worldVars, linkVars, scanVars,
        Attached, Attempted, Connected, SamePath, Listing, Answers, Wanted, Speaks
<1> QED
  BY <1>1, <1>2, <1>3, <1>4, <1>5, <1>6 DEF CommandNext

LEMMA QuietInvariance == CommandSpec => []QuietInv
<1>1. IInv /\ QuietInv /\ [CommandNext]_allVars => QuietInv'
  BY QuietStep
<1> QED
  BY <1>1, QuietInit, Invariance, PTL DEF CommandSpec

(* A reconnect that nothing disturbed finds the device wherever it is now,  *)
(* from whatever an earlier operation left of a connection.                 *)
THEOREM ReconnectComplete == CommandSpec => []ReconnectFinds
<1>1. QuietInv => ReconnectFinds
  BY DEF QuietInv, ReconnectScan, ReconnectFinds, Idle, Wanted, Answers
<1> QED
  BY <1>1, QuietInvariance, PTL

(* A get_info_list that nothing disturbed lists exactly the devices that    *)
(* answer, each at its path, and leaves none connected.                     *)
THEOREM ListComplete == CommandSpec => []InfoListComplete
<1>1. QuietInv => InfoListComplete
  BY DEF QuietInv, ListScan, InfoListComplete, Idle, Listing, Answers
<1> QED
  BY <1>1, QuietInvariance, PTL

-----------------------------------------------------------------------------
(* Driver paths: the delimiters of a text, and where they cut it.  What     *)
(* would be an induction over the text is asked of the least number of      *)
(* symbols that has so many delimiters.                                     *)
Count(t, n) == Cardinality(DelimitersIn(t, n))

(* Of numbers, one is the least.                                            *)
LEMMA LeastNumber ==
  ASSUME NEW T, T \subseteq Nat, T # {}
  PROVE  \E m \in T : \A k \in T : m <= k
<1> DEFINE R == OpToRel(<, Nat)
<1>1. IsWellFoundedOn(R, Nat)
  BY NatLessThanWellFounded
<1>2. PICK m \in T : \A k \in T : <<k, m>> \notin R
  <2> HIDE DEF R
  <2> QED
    BY <1>1, WFMin, Zenon
<1>3. \A k \in T : ~(k < m)
  BY <1>2 DEF OpToRel
<1> QED
  BY <1>3

LEMMA CountType ==
  ASSUME NEW t, NEW n \in Nat
  PROVE  /\ IsFiniteSet(DelimitersIn(t, n)) /\ Count(t, n) \in Nat
         /\ Count(t, 0) = 0
<1>1. IsFiniteSet(1 .. n)
  BY FS_Interval
<1>2. DelimitersIn(t, n) \subseteq 1 .. n
  BY DEF DelimitersIn
<1>3. DelimitersIn(t, 0) = {}
  BY DEF DelimitersIn
<1>4. IsFiniteSet(DelimitersIn(t, n))
  BY <1>1, <1>2, FS_Subset
<1> QED
  BY <1>3, <1>4, FS_CardinalityType, FS_EmptySet DEF Count

(* A symbol more is a delimiter more, or none; so the number of delimiters  *)
(* never falls, and rises at each.                                          *)
LEMMA CountNext ==
  ASSUME NEW t, NEW n \in Nat
  PROVE  Count(t, n + 1) = IF t[n + 1] \in Delimiters THEN Count(t, n) + 1 ELSE Count(t, n)
<1>1. n + 1 \notin DelimitersIn(t, n)
  BY DEF DelimitersIn
<1>2. \A j : j \in 1 .. n + 1 <=> j \in 1 .. n \/ j = n + 1
  OBVIOUS
<1>3. CASE t[n + 1] \in Delimiters
  <2>1. DelimitersIn(t, n + 1) = DelimitersIn(t, n) \union {n + 1}
    BY <1>2, <1>3, Zenon DEF DelimitersIn
  <2> QED
    BY <1>1, <1>3, <2>1, CountType, FS_AddElement DEF Count
<1>4. CASE t[n + 1] \notin Delimiters
  <2>1. DelimitersIn(t, n + 1) = DelimitersIn(t, n)
    BY <1>2, <1>4, Zenon DEF DelimitersIn
  <2> QED
    BY <1>4, <2>1, Zenon DEF Count
<1> QED
  BY <1>3, <1>4

LEMMA CountGrows ==
  ASSUME NEW t, NEW m \in Nat, NEW n \in Nat, m <= n
  PROVE  /\ Count(t, m) <= Count(t, n)
         /\ m < n /\ t[n] \in Delimiters => Count(t, m) < Count(t, n)
<1>1. ASSUME NEW k \in Nat, m <= k
      PROVE  Count(t, m) <= Count(t, k)
  <2>1. DelimitersIn(t, m) \subseteq DelimitersIn(t, k)
    BY <1>1 DEF DelimitersIn
  <2> QED
    BY <2>1, CountType, FS_Subset DEF Count
<1>2. CASE m < n /\ t[n] \in Delimiters
  <2>1. n - 1 \in Nat /\ m <= n - 1 /\ (n - 1) + 1 = n
    BY <1>2
  <2>2. Count(t, n) = Count(t, n - 1) + 1
    BY <1>2, <2>1, CountNext
  <2>3. Count(t, m) \in Nat /\ Count(t, n - 1) \in Nat /\ Count(t, m) <= Count(t, n - 1)
    BY <1>1, <2>1, CountType
  <2> QED
    BY <2>2, <2>3
<1> QED
  BY <1>1, <1>2

(* Texts that agree up to a place have as many delimiters there.            *)
LEMMA CountSame ==
  ASSUME NEW s, NEW t, NEW n \in Nat, \A i \in 1 .. n : s[i] = t[i]
  PROVE  Count(s, n) = Count(t, n)
<1>1. DelimitersIn(s, n) = DelimitersIn(t, n)
  BY Zenon DEF DelimitersIn
<1> QED
  BY <1>1, Zenon DEF Count

(* A delimiter is the only one of its number, and every number up to the    *)
(* total has one.                                                           *)
LEMMA NthIs ==
  ASSUME NEW t \in Texts, NEW i \in 1 .. Len(t), t[i] \in Delimiters
  PROVE  Nth(t, Count(t, i)) = {i}
<1>1. Len(t) \in Nat
  BY LenProperties DEF Texts
<1>2. i \in Nth(t, Count(t, i))
  BY DEF Nth, DelimitersIn, Count
<1>3. ASSUME NEW j \in Nth(t, Count(t, i))
      PROVE  j = i
  <2>1. j \in 1 .. Len(t) /\ t[j] \in Delimiters /\ Count(t, j) = Count(t, i)
    BY <1>3 DEF Nth, DelimitersIn, Count
  <2>2. i \in Nat /\ j \in Nat /\ Count(t, i) \in Nat
    BY <1>1, <2>1, CountType
  <2>3. ~(i < j) /\ ~(j < i)
    BY <2>1, <2>2, CountGrows
  <2> QED
    BY <2>2, <2>3
<1> QED
  BY <1>2, <1>3

LEMMA NthExists ==
  ASSUME NEW t \in Texts, NEW k \in Nat \ {0}, k <= Count(t, Len(t))
  PROVE  \E i \in 1 .. Len(t) : t[i] \in Delimiters /\ Count(t, i) = k
<1>1. Len(t) \in Nat
  BY LenProperties DEF Texts
<1> DEFINE T == {n \in Nat : k <= Count(t, n)}
<1>2. PICK m \in T : \A n \in T : m <= n
  <2>1. T \subseteq Nat /\ Len(t) \in T
    BY <1>1
  <2> QED
    BY <2>1, LeastNumber
<1>3. m \in Nat /\ k <= Count(t, m) /\ m <= Len(t)
  BY <1>1, <1>2
<1>4. m # 0
  BY <1>3, CountType
<1>5. m - 1 \in Nat /\ (m - 1) + 1 = m /\ m - 1 \notin T
  BY <1>2, <1>3, <1>4
<1>6. Count(t, m - 1) \in Nat /\ ~(k <= Count(t, m - 1))
  BY <1>5, CountType
<1>7. Count(t, m) = IF t[m] \in Delimiters THEN Count(t, m - 1) + 1 ELSE Count(t, m - 1)
  BY <1>5, CountNext
<1>8. t[m] \in Delimiters /\ Count(t, m) = k
  BY <1>3, <1>6, <1>7
<1> QED
  BY <1>1, <1>3, <1>4, <1>8

(* So a text is cut at its first delimiters, and then at its end.           *)
LEMMA CutIs ==
  ASSUME NEW t \in Texts, NEW i \in 1 .. Len(t), t[i] \in Delimiters,
         Count(t, i) <= DelimitersRead
  PROVE  Cut(t, Count(t, i)) = i
<1>1. i \in Nat /\ i > 0
  BY LenProperties DEF Texts
<1>2. Count(t, i) \in Nat /\ Count(t, i) # 0
  BY <1>1, CountType, CountGrows
<1>3. Nth(t, Count(t, i)) = {i}
  BY NthIs
<1>4. ~(Count(t, i) > DelimitersRead)
  BY <1>2 DEF DelimitersRead
<1> QED
  BY <1>2, <1>3, <1>4 DEF Cut

LEMMA CutEnd ==
  ASSUME NEW t \in Texts, NEW k \in Nat, k > Count(t, Len(t))
  PROVE  Cut(t, k) = Len(t) + 1
<1>1. Len(t) \in Nat
  BY LenProperties DEF Texts
<1>2. Count(t, Len(t)) \in Nat
  BY <1>1, CountType
<1>3. Nth(t, k) = {}
  <2> SUFFICES ASSUME NEW i \in Nth(t, k)
               PROVE  FALSE
    OBVIOUS
  <2>1. i \in Nat /\ i <= Len(t) /\ Count(t, i) = k
    BY <1>1 DEF Nth, DelimitersIn, Count
  <2>2. Count(t, i) <= Count(t, Len(t))
    BY <1>1, <2>1, CountGrows
  <2> QED
    BY <1>2, <2>1, <2>2
<1> QED
  BY <1>2, <1>3 DEF Cut

LEMMA CutPlace ==
  ASSUME NEW t \in Texts, NEW k \in 0 .. DelimitersRead, k <= Count(t, Len(t))
  PROVE  /\ Cut(t, k) \in 0 .. Len(t)
         /\ k # 0 => /\ Cut(t, k) # 0 /\ t[Cut(t, k)] \in Delimiters
                     /\ Count(t, Cut(t, k)) = k
<1>1. Len(t) \in Nat /\ k \in Nat /\ k <= DelimitersRead
  BY LenProperties DEF Texts, DelimitersRead
<1>2. CASE k = 0
  BY <1>1, <1>2 DEF Cut
<1>3. CASE k # 0
  <2>1. PICK i \in 1 .. Len(t) : t[i] \in Delimiters /\ Count(t, i) = k
    BY <1>1, <1>3, NthExists
  <2>2. Cut(t, k) = i
    BY <1>1, <2>1, CutIs
  <2> QED
    BY <1>1, <2>1, <2>2
<1> QED
  BY <1>2, <1>3

(* The value at a position of a text, and its number of delimiters.         *)
Value(t, k) == ValueAt(Split(t), k)
Total(t)    == Count(t, Len(t))

LEMMA ValueIs ==
  ASSUME NEW t \in Texts, NEW k \in 0 .. 5
  PROVE  Value(t, k) = IF k <= Total(t) THEN SubSeq(t, Cut(t, k) + 1, Cut(t, k + 1) - 1)
                       ELSE Empty
<1>1. Total(t) \in Nat
  BY LenProperties, CountType DEF Texts, Total
<1>2. Tokens(t) = 1 + IF Total(t) < 6 THEN Total(t) ELSE 6
  BY DEF Tokens, Total, Count, DelimitersRead
<1>3. Tokens(t) \in Nat /\ (k < Tokens(t) <=> k <= Total(t))
  BY <1>1, <1>2
<1>4. Len(Split(t)) = Tokens(t)
  BY <1>3 DEF Split
<1>5. CASE k <= Total(t)
  <2>1. k + 1 \in 1 .. Tokens(t) /\ (k + 1) - 1 = k
    BY <1>3, <1>5
  <2> QED
    BY <1>3, <1>4, <1>5, <2>1 DEF Value, ValueAt, Split
<1>6. CASE ~(k <= Total(t))
  BY <1>3, <1>4, <1>6 DEF Value, ValueAt
<1> QED
  BY <1>5, <1>6

(* Parts of texts that agree there are the same.                            *)
LEMMA SamePart ==
  ASSUME NEW s \in Texts, NEW t \in Texts, Len(s) <= Len(t),
         \A i \in 1 .. Len(s) : s[i] = t[i],
         NEW a \in Nat, NEW b \in Nat, b <= Len(s) + 1
  PROVE  SubSeq(s, a + 1, b - 1) = SubSeq(t, a + 1, b - 1)
<1>1. Len(s) \in Nat /\ Len(t) \in Nat
  BY LenProperties DEF Texts
<1>2. SubSeq(s, a + 1, b - 1) = [i \in 1 .. (b - 1) - (a + 1) + 1 |-> s[a + 1 + i - 1]]
      /\ SubSeq(t, a + 1, b - 1) = [i \in 1 .. (b - 1) - (a + 1) + 1 |-> t[a + 1 + i - 1]]
  OBVIOUS
<1>3. \A i \in 1 .. (b - 1) - (a + 1) + 1 : a + 1 + i - 1 \in 1 .. Len(s)
  BY <1>1
<1> QED
  BY <1>2, <1>3

(* A start of a text that ends where a part ends has the parts of the text. *)
LEMMA StartHas ==
  ASSUME NEW s \in Texts, NEW t \in Texts, Len(s) <= Len(t),
         \A i \in 1 .. Len(s) : s[i] = t[i],
         Len(s) = Len(t) \/ t[Len(s) + 1] \in Delimiters,
         NEW k \in 0 .. 5, k <= Total(s)
  PROVE  Value(s, k) = Value(t, k)
<1>1. Len(s) \in Nat /\ Len(t) \in Nat /\ Total(s) \in Nat /\ Total(t) \in Nat
  BY LenProperties, CountType DEF Texts, Total
<1>2. \A n \in 0 .. Len(s) : Count(s, n) = Count(t, n)
  <2> SUFFICES ASSUME NEW n \in 0 .. Len(s)
               PROVE  Count(s, n) = Count(t, n)
    OBVIOUS
  <2>1. n \in Nat /\ \A i \in 1 .. n : s[i] = t[i]
    BY <1>1
  <2> QED
    BY <2>1, CountSame
<1>3. Total(s) <= Total(t) /\ k <= Total(t)
  <2>1. Count(t, Len(s)) <= Total(t)
    BY <1>1, CountGrows DEF Total
  <2> QED
    BY <1>1, <1>2, <2>1 DEF Total
<1>4. \A m \in 1 .. 6 : m <= Total(s) => Cut(s, m) = Cut(t, m) /\ Cut(s, m) \in 0 .. Len(s)
  <2> SUFFICES ASSUME NEW m \in 1 .. 6, m <= Total(s)
               PROVE  Cut(s, m) = Cut(t, m) /\ Cut(s, m) \in 0 .. Len(s)
    OBVIOUS
  <2>1. /\ Cut(s, m) \in 1 .. Len(s) /\ s[Cut(s, m)] \in Delimiters
        /\ Count(s, Cut(s, m)) = m
    <3>1. m \in 0 .. DelimitersRead /\ m # 0
      BY DEF DelimitersRead
    <3> QED
      BY <1>1, <3>1, CutPlace DEF Total
  <2>2. /\ Cut(s, m) \in 1 .. Len(t) /\ t[Cut(s, m)] \in Delimiters
        /\ Count(t, Cut(s, m)) = m
    BY <1>1, <1>2, <2>1
  <2>3. Cut(t, m) = Cut(s, m)
    BY <2>2, CutIs DEF DelimitersRead
  <2> QED
    BY <2>1, <2>3
<1>5. Cut(s, k) = Cut(t, k) /\ Cut(s, k) \in 0 .. Len(s)
  <2>1. CASE k = 0
    BY <1>1, <2>1 DEF Cut
  <2>2. CASE k # 0
    BY <1>4, <2>2
  <2> QED
    BY <2>1, <2>2
<1>6. Cut(s, k + 1) = Cut(t, k + 1) /\ Cut(s, k + 1) \in 0 .. Len(s) + 1
  <2>1. CASE k + 1 <= Total(s)
    BY <1>1, <1>4, <2>1
  <2>2. CASE k = Total(s)
    <3>1. Cut(s, k + 1) = Len(s) + 1
      BY <1>1, <2>2, CutEnd DEF Total
    <3>2. CASE Len(s) = Len(t)
      <4>1. Total(t) = k
        BY <1>1, <1>2, <2>2, <3>2 DEF Total
      <4>2. Cut(t, k + 1) = Len(t) + 1
        BY <1>1, <4>1, CutEnd DEF Total
      <4> QED
        BY <1>1, <3>1, <3>2, <4>2
    <3>3. CASE Len(s) # Len(t)
      <4>1. Len(s) + 1 \in 1 .. Len(t) /\ t[Len(s) + 1] \in Delimiters
        BY <1>1, <3>3
      <4>2. Count(t, Len(s) + 1) = k + 1
        <5>1. Count(t, Len(s)) = k
          BY <1>1, <1>2, <2>2 DEF Total
        <5> QED
          BY <1>1, <4>1, <5>1, CountNext
      <4>3. Cut(t, k + 1) = Len(s) + 1
        BY <4>1, <4>2, CutIs DEF DelimitersRead
      <4> QED
        BY <1>1, <3>1, <4>3
    <3> QED
      BY <3>2, <3>3
  <2> QED
    BY <1>1, <2>1, <2>2
<1>7. SubSeq(s, Cut(s, k) + 1, Cut(s, k + 1) - 1) = SubSeq(t, Cut(t, k) + 1, Cut(t, k + 1) - 1)
  <2>1. Cut(s, k) \in Nat /\ Cut(s, k + 1) \in Nat /\ Cut(s, k + 1) <= Len(s) + 1
    BY <1>1, <1>5, <1>6
  <2>2. SubSeq(s, Cut(s, k) + 1, Cut(s, k + 1) - 1) = SubSeq(t, Cut(s, k) + 1, Cut(s, k + 1) - 1)
    BY <2>1, SamePart
  <2> QED
    BY <1>5, <1>6, <2>2, Zenon
<1> QED
  BY <1>3, <1>7, ValueIs

(* Texts of one symbol, and of two.                                         *)
LEMMA OneSymbol ==
  ASSUME NEW S, NEW d \in S
  PROVE  <<d>> \in Seq(S) /\ Len(<<d>>) = 1 /\ <<d>>[1] = d
  OBVIOUS

LEMMA TwoSymbols ==
  ASSUME NEW a, NEW b
  PROVE  <<a>> \o <<b>> = <<a, b>>
<1>1. <<a>> \in Seq({a, b}) /\ <<b>> \in Seq({a, b}) /\ <<a, b>> \in Seq({a, b})
  OBVIOUS
<1>2. /\ <<a>> \o <<b>> \in Seq({a, b}) /\ Len(<<a>> \o <<b>>) = 1 + 1
      /\ \A i \in 1 .. 1 + 1 : (<<a>> \o <<b>>)[i] = IF i <= 1 THEN <<a>>[i] ELSE <<b>>[i - 1]
  <2>1. Len(<<a>>) = 1 /\ Len(<<b>>) = 1
    OBVIOUS
  <2>2. /\ <<a>> \o <<b>> \in Seq({a, b}) /\ Len(<<a>> \o <<b>>) = Len(<<a>>) + Len(<<b>>)
        /\ \A i \in 1 .. Len(<<a>>) + Len(<<b>>) :
             (<<a>> \o <<b>>)[i] = IF i <= Len(<<a>>) THEN <<a>>[i] ELSE <<b>>[i - Len(<<a>>)]
    BY <1>1, ConcatProperties, Zenon
  <2> QED
    BY <2>1, <2>2, Zenon
<1>3. (<<a>> \o <<b>>)[1] = a /\ (<<a>> \o <<b>>)[2] = b
  BY <1>2
<1>4. Len(<<a>> \o <<b>>) = Len(<<a, b>>)
      /\ \A i \in 1 .. Len(<<a>> \o <<b>>) : (<<a>> \o <<b>>)[i] = <<a, b>>[i]
  BY <1>2, <1>3
<1> QED
  BY <1>1, <1>2, <1>4, SeqEqual, Zenon

(* A part that is added is the last value, and leaves the others alone.     *)
LEMMA PartAdded ==
  ASSUME NEW t \in Texts, NEW d \in Delimiters, NEW p \in Texts
  PROVE  /\ t \o <<d>> \o p \in Texts
         /\ \A k \in 0 .. 5 : k <= Total(t) => Value(t \o <<d>> \o p, k) = Value(t, k)
         /\ Plain(p) => /\ Total(t \o <<d>> \o p) = Total(t) + 1
                        /\ Total(t) <= 4 => Value(t \o <<d>> \o p, Total(t) + 1) = p
<1> DEFINE u == t \o <<d>> \o p
           n == Len(t)
<1>1. <<d>> \in Texts /\ Len(<<d>>) = 1 /\ <<d>>[1] = d
  BY OneSymbol DEF Texts
<1>2. n \in Nat /\ Len(p) \in Nat /\ Total(t) \in Nat
  BY LenProperties, CountType DEF Texts, Total
<1>3. /\ u \in Texts /\ Len(u) = n + 1 + Len(p)
      /\ \A i \in 1 .. n : u[i] = t[i]
      /\ u[n + 1] = d
      /\ \A i \in 1 .. Len(p) : u[n + 1 + i] = p[i]
  <2>1. t \o <<d>> \in Texts /\ Len(t \o <<d>>) = n + 1
        /\ \A i \in 1 .. n + 1 : (t \o <<d>>)[i] = IF i <= n THEN t[i] ELSE d
    <3>1. t \in Seq(Words \union Delimiters) /\ <<d>> \in Seq(Words \union Delimiters)
      BY <1>1 DEF Texts
    <3>2. /\ t \o <<d>> \in Seq(Words \union Delimiters) /\ Len(t \o <<d>>) = Len(t) + Len(<<d>>)
          /\ \A i \in 1 .. Len(t) + Len(<<d>>) :
               (t \o <<d>>)[i] = IF i <= Len(t) THEN t[i] ELSE <<d>>[i - Len(t)]
      BY <3>1, ConcatProperties, Zenon
    <3>3. \A i \in 1 .. n + 1 : i <= n \/ i - n = 1
      BY <1>2
    <3> QED
      BY <1>1, <3>2, <3>3, Zenon DEF Texts
  <2>2. u \in Texts /\ Len(u) = n + 1 + Len(p)
        /\ \A i \in 1 .. n + 1 + Len(p) :
             u[i] = IF i <= n + 1 THEN (t \o <<d>>)[i] ELSE p[i - (n + 1)]
    <3>1. t \o <<d>> \in Seq(Words \union Delimiters) /\ p \in Seq(Words \union Delimiters)
      BY <2>1 DEF Texts
    <3>2. /\ u \in Seq(Words \union Delimiters) /\ Len(u) = Len(t \o <<d>>) + Len(p)
          /\ \A i \in 1 .. Len(t \o <<d>>) + Len(p) :
               u[i] = IF i <= Len(t \o <<d>>) THEN (t \o <<d>>)[i]
                      ELSE p[i - Len(t \o <<d>>)]
      BY <3>1, ConcatProperties, Zenon
    <3> QED
      BY <2>1, <3>2, Zenon DEF Texts
  <2>3. \A i \in 1 .. Len(p) : n + 1 + i \in 1 .. n + 1 + Len(p) /\ ~(n + 1 + i <= n + 1)
                              /\ (n + 1 + i) - (n + 1) = i
    BY <1>2
  <2>4. \A i \in 1 .. n : i \in 1 .. n + 1 + Len(p) /\ i <= n + 1 /\ i \in 1 .. n + 1 /\ i <= n
    BY <1>2
  <2>5. n + 1 \in 1 .. n + 1 + Len(p) /\ n + 1 \in 1 .. n + 1 /\ ~(n + 1 <= n)
    BY <1>2
  <2> HIDE DEF u, n
  <2> QED
    BY <2>1, <2>2, <2>3, <2>4, <2>5
<1> HIDE DEF u
<1>4. \A k \in 0 .. 5 : k <= Total(t) => Value(u, k) = Value(t, k)
  BY <1>2, <1>3, StartHas
<1>5. Count(u, n + 1) = Total(t) + 1
  <2>1. Count(u, n) = Count(t, n)
    BY <1>2, <1>3, CountSame
  <2> QED
    BY <1>2, <1>3, <2>1, CountNext DEF Total
<1>6. ASSUME Plain(p)
      PROVE  /\ Total(u) = Total(t) + 1
             /\ Total(t) <= 4 => Value(u, Total(t) + 1) = p
  <2>1. \A i \in 1 .. Len(p) : p[i] \notin Delimiters
    BY <1>6, LenProperties DEF Plain, Texts
  <2>2. DelimitersIn(u, Len(u)) = DelimitersIn(u, n + 1)
    <3>1. ASSUME NEW i \in DelimitersIn(u, Len(u))
          PROVE  i \in DelimitersIn(u, n + 1)
      <4>1. i \in Nat /\ 1 <= i /\ i <= n + 1 + Len(p) /\ u[i] \in Delimiters
        BY <1>2, <1>3 DEF DelimitersIn
      <4>2. ASSUME ~(i <= n + 1)
            PROVE  FALSE
        <5>1. i - (n + 1) \in 1 .. Len(p) /\ n + 1 + (i - (n + 1)) = i
          BY <1>2, <4>1, <4>2
        <5> QED
          BY <1>3, <2>1, <4>1, <5>1
      <4> QED
        BY <1>2, <4>1, <4>2 DEF DelimitersIn
    <3>2. DelimitersIn(u, n + 1) \subseteq DelimitersIn(u, Len(u))
      BY <1>2, <1>3 DEF DelimitersIn
    <3> QED
      BY <3>1, <3>2
  <2>3. Total(u) = Total(t) + 1
    BY <1>5, <2>2 DEF Total, Count
  <2>4. ASSUME Total(t) <= 4
        PROVE  Value(u, Total(t) + 1) = p
    <3>1. Total(t) + 1 \in 0 .. 5 /\ Total(t) + 1 <= Total(u)
      BY <1>2, <2>3, <2>4
    <3>2. Cut(u, Total(t) + 1) = n + 1
      <4>1. n + 1 \in 1 .. Len(u) /\ u[n + 1] \in Delimiters
        BY <1>2, <1>3
      <4>2. Count(u, n + 1) <= DelimitersRead
        BY <1>2, <1>5, <2>4 DEF DelimitersRead
      <4> QED
        BY <1>3, <1>5, <4>1, <4>2, CutIs, Zenon
    <3>3. Cut(u, Total(t) + 1 + 1) = Len(u) + 1
      <4>1. Total(t) + 1 + 1 \in Nat /\ Total(t) + 1 + 1 > Count(u, Len(u))
        BY <1>2, <2>3 DEF Total
      <4> QED
        BY <1>3, <4>1, CutEnd, Zenon
    <3>4. Value(u, Total(t) + 1) = SubSeq(u, n + 1 + 1, Len(u) + 1 - 1)
      <4>1. Value(u, Total(t) + 1) = SubSeq(u, Cut(u, Total(t) + 1) + 1, Cut(u, Total(t) + 1 + 1) - 1)
        BY <1>3, <3>1, ValueIs, Zenon
      <4> QED
        BY <3>2, <3>3, <4>1
    <3>5. SubSeq(u, n + 1 + 1, Len(u) + 1 - 1)
            = [i \in 1 .. (Len(u) + 1 - 1) - (n + 1 + 1) + 1 |-> u[n + 1 + 1 + i - 1]]
      BY <1>2, <1>3
    <3>6. (Len(u) + 1 - 1) - (n + 1 + 1) + 1 = Len(p)
          /\ \A i \in 1 .. Len(p) : n + 1 + 1 + i - 1 = n + 1 + i
      BY <1>2, <1>3
    <3>7. p = [i \in 1 .. Len(p) |-> p[i]]
      BY LenProperties DEF Texts
    <3>8. SubSeq(u, n + 1 + 1, Len(u) + 1 - 1) = [i \in 1 .. Len(p) |-> p[i]]
      BY <1>3, <3>5, <3>6
    <3> QED
      BY <3>4, <3>7, <3>8, Zenon
  <2> QED
    BY <2>3, <2>4
<1> QED
  BY <1>3, <1>4, <1>6 DEF u

-----------------------------------------------------------------------------
(* What is read of a text to which the first m of the values f were added:  *)
(* those values.  Only an empty part that added no delimiter leaves fewer.  *)
Has(t, f, m) ==
  /\ t \in Texts
  /\ \A k \in 0 .. 5 : Value(t, k) = IF k <= m THEN f[k] ELSE Empty
  /\ \/ Total(t) = m
     \/ ~keeps /\ f[m] = Empty

InPlace(f) == keeps \/ \A k \in 1 .. 4 : f[k + 1] # Empty => f[k] # Empty

(* The text before anything was added to it, and what is read where nothing *)
(* is.                                                                      *)
LEMMA EmptyText ==
  /\ Empty \in Texts /\ Total(Empty) = 0 /\ Value(Empty, 0) = Empty
  /\ Plain(Empty)
<1>1. Empty \in Texts /\ Len(Empty) = 0
  BY DEF Empty, Texts
<1>2. Total(Empty) = 0
  BY <1>1, CountType DEF Total
<1>3. Cut(Empty, 0) = 0 /\ Cut(Empty, 1) = 1
  <2>1. Cut(Empty, 1) = Len(Empty) + 1
    BY <1>1, <1>2, CutEnd DEF Total
  <2> QED
    BY <1>1, <2>1 DEF Cut
<1>4. Value(Empty, 0) = SubSeq(Empty, Cut(Empty, 0) + 1, Cut(Empty, 0 + 1) - 1)
  BY <1>1, <1>2, ValueIs
<1>5. SubSeq(Empty, 1, 0) = Empty
  BY SubSeqEmpty DEF Empty
<1>6. Plain(Empty)
  BY DEF Plain, Empty
<1> QED
  BY <1>1, <1>2, <1>3, <1>4, <1>5, <1>6

LEMMA BeyondEmpty ==
  ASSUME NEW t \in Texts, NEW k \in 0 .. 5, k > Total(t)
  PROVE  Value(t, k) = Empty
<1>1. Total(t) \in Nat
  BY LenProperties, CountType DEF Texts, Total
<1> QED
  BY <1>1, ValueIs

(* One more part, with a delimiter in front of it.                          *)
LEMMA PartHas ==
  ASSUME NEW t \in Texts, NEW d \in Delimiters, NEW f, NEW m \in 0 .. 4,
         \A k \in 0 .. 5 : Value(t, k) = IF k <= m THEN f[k] ELSE Empty,
         Total(t) = m, f[m + 1] \in Texts, Plain(f[m + 1])
  PROVE  Has(t \o <<d>> \o f[m + 1], f, m + 1)
<1> DEFINE u == t \o <<d>> \o f[m + 1]
<1>1. /\ u \in Texts /\ Total(u) = m + 1 /\ Value(u, m + 1) = f[m + 1]
      /\ \A k \in 0 .. 5 : k <= m => Value(u, k) = Value(t, k)
  BY PartAdded
<1> HIDE DEF u
<1>2. ASSUME NEW k \in 0 .. 5
      PROVE  Value(u, k) = IF k <= m + 1 THEN f[k] ELSE Empty
  <2>1. CASE k <= m
    BY <1>1, <2>1
  <2>2. CASE k = m + 1
    BY <1>1, <2>2
  <2>3. CASE k > m + 1
    BY <1>1, <2>3, BeyondEmpty
  <2> QED
    BY <2>1, <2>2, <2>3
<1> QED
  BY <1>1, <1>2 DEF Has, u

(* The same with operator/: if it adds no delimiter, the values from here on*)
(* are empty, and reading finds none.                                       *)
LEMMA SlashHas ==
  ASSUME NEW t, NEW f, NEW m \in 1 .. 4, InPlace(f), Has(t, f, m),
         f[m + 1] \in Texts, Plain(f[m + 1])
  PROVE  Has(Slash(t, f[m + 1]), f, m + 1)
<1>1. CASE f[m + 1] = Empty /\ ~keeps
  <2>1. Slash(t, f[m + 1]) = t
    BY <1>1, Zenon DEF Slash
  <2>2. \A k \in 0 .. 5 : Value(t, k) = IF k <= m + 1 THEN f[k] ELSE Empty
    <3>1. \A k \in 0 .. 5 : k <= m + 1 => k <= m \/ k = m + 1
      OBVIOUS
    <3>2. \A k \in 0 .. 5 : k <= m => k <= m + 1
      OBVIOUS
    <3>3. ~(m + 1 <= m)
      OBVIOUS
    <3> QED
      BY <1>1, <3>1, <3>2, <3>3, Zenon DEF Has
  <2> QED
    BY <1>1, <2>1, <2>2, Zenon DEF Has
<1>2. CASE ~(f[m + 1] = Empty /\ ~keeps)
  <2>1. Slash(t, f[m + 1]) = t \o <<"/">> \o f[m + 1]
    BY <1>2, Zenon DEF Slash
  <2>2. Total(t) = m
    BY <1>2 DEF Has, InPlace
  <2>3. "/" \in Delimiters /\ m \in 0 .. 4
    BY DEF Delimiters
  <2> QED
    <3>1. t \in Texts /\ \A k \in 0 .. 5 : Value(t, k) = IF k <= m THEN f[k] ELSE Empty
      BY DEF Has
    <3>2. Has(t \o <<"/">> \o f[m + 1], f, m + 1)
      BY <2>2, <2>3, <3>1, PartHas
    <3> QED
      BY <2>1, <3>2, Zenon
<1> QED
  BY <1>1, <1>2

(* What precedes the parts.                                                 *)
LEMMA NameHas ==
  ASSUME NEW w \in Words, NEW f, f[0] = Empty, f[1] = <<w>>
  PROVE  Has(<<"@", w>>, f, 1)
<1>1. <<w>> \in Texts /\ Plain(<<w>>)
  <2>1. w \notin Delimiters
    BY PartsAssumption
  <2> QED
    BY <2>1, OneSymbol DEF Texts, Plain
<1>2. \A k \in 0 .. 5 : Value(Empty, k) = IF k <= 0 THEN f[k] ELSE Empty
  <2> SUFFICES ASSUME NEW k \in 0 .. 5
               PROVE  Value(Empty, k) = IF k <= 0 THEN f[k] ELSE Empty
    OBVIOUS
  <2>1. CASE k = 0
    BY <2>1, EmptyText
  <2>2. CASE k > 0
    BY <2>2, EmptyText, BeyondEmpty
  <2> QED
    BY <2>1, <2>2
<1>3. Has(Empty \o <<"@">> \o f[0 + 1], f, 0 + 1)
  <2>1. "@" \in Delimiters /\ 0 + 1 = 1
    BY DEF Delimiters
  <2> QED
    BY <1>1, <1>2, <2>1, EmptyText, PartHas
<1>4. Empty \o <<"@">> \o <<w>> = <<"@", w>>
  <2>1. Empty \o <<"@">> = <<"@">>
    BY OneSymbol, ConcatEmptySeq, Zenon DEF Empty
  <2> QED
    BY <2>1, TwoSymbols, Zenon
<1>5. 0 + 1 = 1
  OBVIOUS
<1> QED
  BY <1>3, <1>4, <1>5

-----------------------------------------------------------------------------
(* The parts are texts, without delimiters but in a device.                 *)
LEMMA PlainWords ==
  ASSUME NEW t \in Seq(Words)
  PROVE  t \in Texts /\ Plain(t)
<1>1. t \in Texts
  BY SeqMonotonic DEF Texts
<1>2. \A i \in DOMAIN t : t[i] \in Words
  BY LenProperties
<1> QED
  BY <1>1, <1>2, PartsAssumption DEF Plain

LEMMA OptionTypes ==
  ASSUME NEW o \in Construct
  PROVE  /\ o.type \in {"usb", "serial"} /\ o.device \in Texts
         /\ \A p \in {o.vendor, o.product, o.interface, o.serial} : p \in Texts /\ Plain(p)
<1>1. /\ o.type \in {"usb", "serial"} /\ o.device \in Texts
      /\ {o.vendor, o.product, o.interface, o.serial} \subseteq Seq(Words)
  BY PartsAssumption DEF Construct
<1> QED
  BY <1>1, PlainWords

(* What is to be read of a usb path and of a serial one, by position.       *)
UsbValues(o) ==
  [k \in 0 .. 5 |-> IF k = 0 THEN Empty ELSE IF k = 1 THEN <<"usb">>
                    ELSE IF k = 2 THEN o.vendor ELSE IF k = 3 THEN o.product
                    ELSE IF k = 4 THEN o.interface ELSE o.serial]

SerialValues(o) ==
  [k \in 0 .. 5 |-> IF k = 1 THEN <<"serial">> ELSE IF k = 2 THEN o.device ELSE Empty]

(* What is constructed is a text.                                           *)
LEMMA SlashType ==
  ASSUME NEW t \in Texts, NEW p \in Texts
  PROVE  Slash(t, p) \in Texts
<1>1. "/" \in Delimiters
  BY DEF Delimiters
<1> QED
  BY <1>1, PartAdded DEF Slash

LEMMA TextType ==
  ASSUME NEW o \in Construct
  PROVE  Text(o) \in Texts
<1>1. <<"@", "usb">> \in Texts /\ <<"@", "serial">> \in Texts
  BY PartsAssumption DEF Texts, Delimiters
<1> QED
  BY <1>1, OptionTypes, SlashType DEF Text

(* The four values of a usb path come one after the other; the device comes *)
(* behind them and disturbs none of them.                                   *)
LEMMA UsbRead ==
  ASSUME NEW o \in Construct, o.type = "usb", Placed(o)
  PROVE  \A k \in 0 .. 5 : Value(Text(o), k) = UsbValues(o)[k]
<1> DEFINE f  == UsbValues(o)
           t1 == <<"@", "usb">>
           t2 == Slash(t1, o.vendor)
           t3 == Slash(t2, o.product)
           t4 == Slash(t3, o.interface)
           t5 == Slash(t4, o.serial)
<1>1. Text(o) = Slash(t5, o.device)
  BY DEF Text
<1>2. /\ f[0] = Empty /\ f[1] = <<"usb">> /\ f[2] = o.vendor /\ f[3] = o.product
      /\ f[4] = o.interface /\ f[5] = o.serial
  BY DEF UsbValues
<1>3. InPlace(f) /\ (keeps \/ (o.device # Empty => f[5] # Empty))
  <2>1. keeps \/ \A i \in 2 .. 5 : UsbParts(o)[i] # Empty => UsbParts(o)[i - 1] # Empty
    BY DEF Placed
  <2>2. /\ UsbParts(o)[1] = f[2] /\ UsbParts(o)[2] = f[3] /\ UsbParts(o)[3] = f[4]
        /\ UsbParts(o)[4] = f[5] /\ UsbParts(o)[5] = o.device
    BY <1>2 DEF UsbParts
  <2>3. keeps \/ /\ f[3] # Empty => f[2] # Empty
                 /\ f[4] # Empty => f[3] # Empty
                 /\ f[5] # Empty => f[4] # Empty
                 /\ o.device # Empty => f[5] # Empty
    <3>1. /\ 2 \in 2 .. 5 /\ 3 \in 2 .. 5 /\ 4 \in 2 .. 5 /\ 5 \in 2 .. 5
          /\ 2 - 1 = 1 /\ 3 - 1 = 2 /\ 4 - 1 = 3 /\ 5 - 1 = 4
      OBVIOUS
    <3> HIDE DEF f
    <3> QED
      BY <2>1, <2>2, <3>1, Zenon
  <2>4. f[1] # Empty
    BY <1>2 DEF Empty
  <2>5. \A k \in 1 .. 4 : k = 1 \/ k = 2 \/ k = 3 \/ k = 4
    OBVIOUS
  <2>6. 1 + 1 = 2 /\ 2 + 1 = 3 /\ 3 + 1 = 4 /\ 4 + 1 = 5
    OBVIOUS
  <2> HIDE DEF f
  <2> QED
    BY <2>3, <2>4, <2>5, <2>6, Zenon DEF InPlace
<1>4. \A k \in 2 .. 5 : f[k] \in Texts /\ Plain(f[k])
  <2>1. \A k \in 2 .. 5 : k = 2 \/ k = 3 \/ k = 4 \/ k = 5
    OBVIOUS
  <2> HIDE DEF f
  <2> QED
    BY <1>2, <2>1, OptionTypes, Zenon
<1>5. /\ 2 \in 2 .. 5 /\ 3 \in 2 .. 5 /\ 4 \in 2 .. 5 /\ 5 \in 2 .. 5
      /\ 1 \in 1 .. 4 /\ 2 \in 1 .. 4 /\ 3 \in 1 .. 4 /\ 4 \in 1 .. 4
      /\ 1 + 1 = 2 /\ 2 + 1 = 3 /\ 3 + 1 = 4 /\ 4 + 1 = 5
  OBVIOUS
<1> HIDE DEF f
<1>6. Has(t1, f, 1)
  BY <1>2, NameHas, PartsAssumption
<1>7. Has(t2, f, 2)
  <2> HIDE DEF t1
  <2> QED
    BY <1>2, <1>3, <1>4, <1>5, <1>6, SlashHas, Zenon
<1>8. Has(t3, f, 3)
  <2> HIDE DEF t2
  <2> QED
    BY <1>2, <1>3, <1>4, <1>5, <1>7, SlashHas, Zenon
<1>9. Has(t4, f, 4)
  <2> HIDE DEF t3
  <2> QED
    BY <1>2, <1>3, <1>4, <1>5, <1>8, SlashHas, Zenon
<1>10. Has(t5, f, 5)
  <2> HIDE DEF t4
  <2> QED
    BY <1>2, <1>3, <1>4, <1>5, <1>9, SlashHas, Zenon
<1> HIDE DEF t5
<1>11. \A k \in 0 .. 5 : Value(t5, k) = f[k]
  BY <1>10 DEF Has
<1>12. CASE o.device = Empty /\ ~keeps
  BY <1>1, <1>11, <1>12 DEF Slash, f
<1>13. CASE ~(o.device = Empty /\ ~keeps)
  <2>1. Text(o) = t5 \o <<"/">> \o o.device
    BY <1>1, <1>13, Zenon DEF Slash
  <2>2. Total(t5) = 5 /\ t5 \in Texts
    BY <1>3, <1>10, <1>13 DEF Has
  <2>3. "/" \in Delimiters /\ o.device \in Texts
    BY OptionTypes DEF Delimiters
  <2>4. \A k \in 0 .. 5 : k <= Total(t5) => Value(Text(o), k) = Value(t5, k)
    <3>1. \A k \in 0 .. 5 :
            k <= Total(t5) => Value(t5 \o <<"/">> \o o.device, k) = Value(t5, k)
      BY <2>2, <2>3, PartAdded, Zenon
    <3> QED
      BY <2>1, <3>1, Zenon
  <2> QED
    BY <1>11, <2>2, <2>4 DEF f
<1> QED
  BY <1>12, <1>13

(* The device of a serial path is read if it is one word.                   *)
LEMMA SerialRead ==
  ASSUME NEW o \in Construct, o.type = "serial", Plain(o.device)
  PROVE  \A k \in 0 .. 5 : Value(Text(o), k) = SerialValues(o)[k]
<1> DEFINE f == SerialValues(o)
<1>1. Text(o) = Slash(<<"@", "serial">>, o.device)
  BY DEF Text
<1>2. /\ f[0] = Empty /\ f[1] = <<"serial">> /\ f[2] = o.device
      /\ f[3] = Empty /\ f[4] = Empty /\ f[5] = Empty
  BY DEF SerialValues
<1> HIDE DEF f
<1>3. InPlace(f)
  <2>1. f[1] # Empty
    BY <1>2 DEF Empty
  <2> QED
    BY <1>2, <2>1 DEF InPlace
<1>4. Has(<<"@", "serial">>, f, 1)
  BY <1>2, NameHas, PartsAssumption
<1>5. Has(Text(o), f, 2)
  <2>1. 1 \in 1 .. 4 /\ 1 + 1 = 2 /\ o.device \in Texts
    BY OptionTypes
  <2> QED
    BY <1>1, <1>2, <1>3, <1>4, <2>1, SlashHas, Zenon
<1>6. \A k \in 0 .. 5 : ~(k <= 2) => f[k] = Empty
  BY <1>2
<1> QED
  BY <1>5, <1>6 DEF Has, f

-----------------------------------------------------------------------------
(* What the getters return, in terms of the values at the positions.        *)
LEMMA TypeIs ==
  ASSUME NEW t
  PROVE  /\ Value(t, 1) = <<"usb">> => TypeOf(t) = "usb"
         /\ Value(t, 1) = <<"serial">> => TypeOf(t) = "serial"
         /\ Value(t, 1) \notin {<<"usb">>, <<"serial">>} => TypeOf(t) = "null"
<1>1. Head(<<"usb">>) = "usb" /\ Head(<<"serial">>) = "serial"
  OBVIOUS
<1>2. TypeOf(t) = IF Value(t, 1) \in {<<"usb">>, <<"serial">>} THEN Head(Value(t, 1)) ELSE "null"
  BY DEF TypeOf, TypeIn, Value
<1> HIDE DEF Value
<1> QED
  BY <1>1, <1>2

LEMMA PartsAre ==
  ASSUME NEW t
  PROVE  /\ Parts(t).type = TypeOf(t)
         /\ Parts(t).vendor = IF TypeOf(t) = "usb" THEN Value(t, 2) ELSE Empty
         /\ Parts(t).product = IF TypeOf(t) = "usb" THEN Value(t, 3) ELSE Empty
         /\ Parts(t).interface = IF TypeOf(t) = "usb" THEN Value(t, 4) ELSE Empty
         /\ Parts(t).serial = IF TypeOf(t) = "usb" THEN Value(t, 5) ELSE Empty
         /\ Parts(t).device = IF TypeOf(t) = "serial" THEN Value(t, 2) ELSE Empty
  BY DEF Parts, TypeOf, Value

(* What was constructed from parts that are readable is read as those parts.*)
LEMMA ConstructRead ==
  ASSUME NEW o \in Construct, Readable(o)
  PROVE  /\ TypeOf(Text(o)) = o.type /\ Parts(Text(o)).type = o.type
         /\ \A f \in Fields : Parts(Text(o))[f] = Given(o, f)
<1> DEFINE t == Text(o)
<1>1. \A f \in Fields : f \in {"vendor", "product", "interface", "serial", "device"}
  BY DEF Fields, UsbFields
<1>2. CASE o.type = "usb"
  <2>1. \A k \in 0 .. 5 : Value(t, k) = UsbValues(o)[k]
    BY <1>2, UsbRead DEF Readable
  <2>2. /\ Value(t, 1) = <<"usb">> /\ Value(t, 2) = o.vendor /\ Value(t, 3) = o.product
        /\ Value(t, 4) = o.interface /\ Value(t, 5) = o.serial
    <3> HIDE DEF t
    <3> QED
      BY <2>1 DEF UsbValues
  <2> HIDE DEF t
  <2>3. TypeOf(t) = "usb"
    BY <2>2, TypeIs
  <2>4. /\ Parts(t).type = "usb" /\ Parts(t).vendor = o.vendor /\ Parts(t).product = o.product
        /\ Parts(t).interface = o.interface /\ Parts(t).serial = o.serial
        /\ Parts(t).device = Empty
    BY <2>2, <2>3, PartsAre
  <2> QED
    BY <1>1, <1>2, <2>3, <2>4 DEF t, Given, UsbFields
<1>3. CASE o.type = "serial"
  <2>1. \A k \in 0 .. 5 : Value(t, k) = SerialValues(o)[k]
    BY <1>3, SerialRead DEF Readable
  <2>2. Value(t, 1) = <<"serial">> /\ Value(t, 2) = o.device
    <3> HIDE DEF t
    <3> QED
      BY <2>1 DEF SerialValues
  <2> HIDE DEF t
  <2>3. TypeOf(t) = "serial"
    BY <2>2, TypeIs
  <2>4. /\ Parts(t).type = "serial" /\ Parts(t).vendor = Empty /\ Parts(t).product = Empty
        /\ Parts(t).interface = Empty /\ Parts(t).serial = Empty
        /\ Parts(t).device = o.device
    BY <2>2, <2>3, PartsAre
  <2> QED
    BY <1>1, <1>3, <2>3, <2>4 DEF t, Given, UsbFields
<1> QED
  BY <1>2, <1>3, OptionTypes

-----------------------------------------------------------------------------
(* A path is a text, and the text of what it was constructed from.          *)
PathInv ==
  /\ keeps \in BOOLEAN
  /\ path \in Texts /\ other \in Texts
  /\ options \in Construct \union {None} /\ otherOptions \in Construct \union {None}
  /\ options # None => path = Text(options)
  /\ otherOptions # None => other = Text(otherOptions)

(* What a path was constructed from has a type.                             *)
LEMMA ConstructSome ==
  ASSUME NEW o \in Construct
  PROVE  o # None
<1>1. o.type # "none"
  BY OptionTypes
<1> QED
  BY <1>1 DEF None

(* What somebody wrote of a text is a text.                                 *)
LEMMA PartOfText ==
  ASSUME NEW t \in Texts, NEW from \in 1 .. 2, NEW n \in 0 .. Len(t)
  PROVE  SubSeq(t, from, n) \in Texts
<1>1. Len(t) \in Nat
  BY LenProperties DEF Texts
<1>2. SubSeq(t, from, n) = [i \in 1 .. n - from + 1 |-> t[from + i - 1]]
  BY <1>1
<1>3. \A i \in 1 .. n - from + 1 : from + i - 1 \in 1 .. Len(t)
  BY <1>1
<1>4. \A j \in 1 .. Len(t) : t[j] \in Words \union Delimiters
  BY ElementOfSeq DEF Texts
<1>5. CASE n - from + 1 \in Nat
  <2>1. SubSeq(t, from, n) \in [1 .. n - from + 1 -> Words \union Delimiters]
    BY <1>2, <1>3, <1>4
  <2> QED
    BY <1>5, <2>1 DEF Texts
<1>6. CASE n - from + 1 \notin Nat
  <2>1. n < from
    BY <1>1, <1>6
  <2>2. SubSeq(t, from, n) = <<>>
    BY <1>1, <2>1, SubSeqEmpty
  <2> QED
    BY <2>2, EmptyText DEF Empty
<1> QED
  BY <1>5, <1>6

LEMMA PathInvariant == PathSpec => []PathInv
<1>1. PathInit => PathInv
  <2> SUFFICES ASSUME PathInit
               PROVE  PathInv
    OBVIOUS
  <2> QED
    BY EmptyText DEF PathInit, PathInv
<1>2. PathInv /\ [PathNext]_pathVars => PathInv'
  <2> SUFFICES ASSUME PathInv, [PathNext]_pathVars
               PROVE  PathInv'
    OBVIOUS
  <2>1. CASE ConstructPath
    <3>1. path' = Text(options)'
      BY <2>1 DEF ConstructPath, Text, Slash
    <3>2. path' \in Texts
      BY <2>1, TextType DEF ConstructPath
    <3>3. otherOptions # None => other = Text(otherOptions)'
      BY <2>1 DEF ConstructPath, PathInv, Text, Slash
    <3> QED
      BY <2>1, <3>1, <3>2, <3>3 DEF ConstructPath, PathInv
  <2>2. CASE ConstructOther
    <3>1. other' = Text(otherOptions)'
      BY <2>2 DEF ConstructOther, Text, Slash
    <3>2. other' \in Texts
      BY <2>2, TextType DEF ConstructOther
    <3>3. options # None => path = Text(options)'
      BY <2>2 DEF ConstructOther, PathInv, Text, Slash
    <3> QED
      BY <2>2, <3>1, <3>2, <3>3 DEF ConstructOther, PathInv
  <2>3. CASE ReadPath
    <3>1. other' \in Texts
      BY <2>3, PartOfText DEF ReadPath, PathInv
    <3>2. path = Text(options)'
      BY <2>3 DEF ReadPath, PathInv, Text, Slash
    <3>3. otherOptions' # None => other' = Text(otherOptions)'
      <4>1. CASE other' = path
        <5>1. otherOptions' = options /\ options' = options
          BY <2>3, <4>1 DEF ReadPath
        <5>2. Text(otherOptions)' = Text(options)'
          BY <5>1, Zenon DEF Text, Slash, UsbParts
        <5> QED
          BY <3>2, <4>1, <5>2, Zenon
      <4>2. CASE other' # path
        BY <2>3, <4>2 DEF ReadPath
      <4> QED
        BY <4>1, <4>2
    <3>4. otherOptions' \in Construct \union {None}
      BY <2>3 DEF ReadPath, PathInv
    <3> QED
      BY <2>3, <3>1, <3>2, <3>3, <3>4 DEF ReadPath, PathInv
  <2>4. CASE UNCHANGED pathVars
    BY <2>4 DEF pathVars, PathInv, Text, Slash
  <2> QED
    BY <2>1, <2>2, <2>3, <2>4 DEF PathNext
<1> QED
  BY <1>1, <1>2, PTL DEF PathSpec

-----------------------------------------------------------------------------
(* A driver path that was constructed from parts that stay where they are   *)
(* is read back to the same parts by the getters, whatever the words, and   *)
(* whatever the device of a usb path is: split stops in front of it.        *)
THEOREM PathReadsBack == PathSpec => []ReadsBack
<1>1. PathInv => ReadsBack
  <2> SUFFICES ASSUME PathInv, options # None, Readable(options)
               PROVE  LET p == Parts(path) IN
                      /\ IsValid(path) /\ p.type = options.type
                      /\ \A f \in Fields : p[f] = Given(options, f)
                      /\ IsPartial(path) <=>
                           IF options.type = "usb" THEN \E f \in UsbFields : options[f] = Empty
                                                   ELSE options.device = Empty
    BY DEF ReadsBack
  <2>1. options \in Construct /\ path = Text(options)
    BY DEF PathInv
  <2>2. /\ TypeOf(path) = options.type /\ Parts(path).type = options.type
        /\ \A f \in Fields : Parts(path)[f] = Given(options, f)
    BY <2>1, ConstructRead
  <2>3. options.type \in {"usb", "serial"}
    BY <2>1, OptionTypes
  <2>4. IsValid(path)
    BY <2>2, <2>3 DEF IsValid
  <2>5. IsPartial(path) <=>
          IF options.type = "usb" THEN \E f \in UsbFields : options[f] = Empty
                                  ELSE options.device = Empty
    <3>1. CASE options.type = "usb"
      <4>1. IsPartial(path) <=> \E f \in UsbFields : Parts(path)[f] = Empty
        BY <2>2, <3>1 DEF IsPartial
      <4>2. \A f \in UsbFields : Parts(path)[f] = options[f]
        BY <2>2, <3>1, Zenon DEF Given, Fields
      <4> QED
        BY <3>1, <4>1, <4>2
    <3>2. CASE options.type = "serial"
      <4>1. IsPartial(path) <=> Parts(path).device = Empty
        BY <2>2, <3>2 DEF IsPartial
      <4>2. Parts(path).device = options.device
        BY <2>2, <3>2 DEF Given, Fields, UsbFields
      <4> QED
        BY <3>2, <4>1, <4>2
    <3> QED
      BY <2>3, <3>1, <3>2
  <2> QED
    BY <2>2, <2>4, <2>5
<1> QED
  BY <1>1, PathInvariant, PTL

(* Two driver paths that were constructed are equal, for operator==, if and *)
(* only if they are of one type and no part that both were given differs;   *)
(* whichever is on the left.                                                *)
THEOREM PathSameIfNoConflict == PathSpec => []SameIfNoConflict
<1>1. ASSUME NEW s, NEW t
      PROVE  Same(s, t) <=> Same(t, s)
  <2>1. \A f \in Fields : Conflict(Parts(s)[f], Parts(t)[f]) <=> Conflict(Parts(t)[f], Parts(s)[f])
    BY Zenon DEF Conflict
  <2> QED
    BY <2>1, Zenon DEF Same
<1>2. PathInv => SameIfNoConflict
  <2> SUFFICES ASSUME PathInv, options # None, otherOptions # None,
                      Readable(options), Readable(otherOptions)
               PROVE  /\ Same(path, other) <=>
                           /\ options.type = otherOptions.type
                           /\ \A f \in Fields :
                                LET x == Given(options, f)  y == Given(otherOptions, f) IN
                                Empty \in {x, y} \/ x = y
                      /\ Same(path, other) <=> Same(other, path)
    BY DEF SameIfNoConflict
  <2>1. /\ options \in Construct /\ path = Text(options)
        /\ otherOptions \in Construct /\ other = Text(otherOptions)
    BY DEF PathInv
  <2>2. /\ Parts(path).type = options.type
        /\ \A f \in Fields : Parts(path)[f] = Given(options, f)
    BY <2>1, ConstructRead
  <2>3. /\ Parts(other).type = otherOptions.type
        /\ \A f \in Fields : Parts(other)[f] = Given(otherOptions, f)
    BY <2>1, ConstructRead
  <2>4. "null" \notin {Parts(path).type, Parts(other).type}
    BY <2>1, <2>2, <2>3, OptionTypes
  <2>5. Same(path, other) <=>
          /\ options.type = otherOptions.type
          /\ \A f \in Fields : ~Conflict(Given(options, f), Given(otherOptions, f))
    BY <2>2, <2>3, <2>4 DEF Same
  <2>6. \A f \in Fields :
          ~Conflict(Given(options, f), Given(otherOptions, f))
            <=> (Empty \in {Given(options, f), Given(otherOptions, f)}
                   \/ Given(options, f) = Given(otherOptions, f))
    BY DEF Conflict
  <2> QED
    BY <1>1, <2>5, <2>6
<1> QED
  BY <1>2, PathInvariant, PTL

(* What somebody wrote of a path, up to the end of a part, equals the path, *)
(* whatever path it is: constructed from parts that can be read back or not.*)
THEOREM PathStartFindsIt == PathSpec => []StartFindsIt
<1>1. PathInv => StartFindsIt
  <2> SUFFICES ASSUME PathInv, IsStart(other, path),
                      Len(other) = Len(path) \/ path[Len(other) + 1] = "/"
               PROVE  Same(path, other)
    BY DEF StartFindsIt
  <2>1. path \in Texts /\ other \in Texts /\ Len(other) \in Nat /\ Len(path) \in Nat
    BY LenProperties DEF PathInv, Texts
  <2>2. Len(other) <= Len(path) /\ \A i \in 1 .. Len(other) : other[i] = path[i]
    BY <2>1 DEF IsStart
  <2>3. Len(other) = Len(path) \/ path[Len(other) + 1] \in Delimiters
    BY DEF Delimiters
  <2>4. \A k \in 0 .. 5 : Value(other, k) = Empty \/ Value(other, k) = Value(path, k)
    <3> SUFFICES ASSUME NEW k \in 0 .. 5
                 PROVE  Value(other, k) = Empty \/ Value(other, k) = Value(path, k)
      OBVIOUS
    <3>1. Total(other) \in Nat
      BY <2>1, CountType DEF Total
    <3>2. CASE k <= Total(other)
      BY <2>1, <2>2, <2>3, <3>2, StartHas
    <3>3. CASE k > Total(other)
      BY <2>1, <3>3, BeyondEmpty
    <3> QED
      BY <3>1, <3>2, <3>3
  <2>5. TypeOf(other) \in {"null", TypeOf(path)}
    <3>1. Empty \notin {<<"usb">>, <<"serial">>}
      BY DEF Empty
    <3>2. Value(other, 1) = Empty \/ Value(other, 1) = Value(path, 1)
      BY <2>4
    <3> QED
      BY <3>1, <3>2, TypeIs
  <2>6. \A f \in Fields : Parts(other)[f] = Empty \/ Parts(other)[f] = Parts(path)[f]
    <3>1. \A k \in {2, 3, 4, 5} : Value(other, k) = Empty \/ Value(other, k) = Value(path, k)
      BY <2>4
    <3>2. \A f \in Fields : f \in {"vendor", "product", "interface", "serial", "device"}
      BY DEF Fields, UsbFields
    <3> QED
      BY <2>5, <3>1, <3>2, PartsAre
  <2>7. \A f \in Fields : ~Conflict(Parts(path)[f], Parts(other)[f])
    BY <2>6 DEF Conflict
  <2>8. "null" \in {Parts(path).type, Parts(other).type}
          \/ Parts(path).type = Parts(other).type
    BY <2>5, PartsAre
  <2> QED
    BY <2>7, <2>8 DEF Same
<1> QED
  BY <1>1, PathInvariant, PTL
=============================================================================
