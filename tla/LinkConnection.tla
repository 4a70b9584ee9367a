---------------------------- MODULE LinkConnection ----------------------------
(***************************************************************************)
(* The connection a Link object keeps to a device (Link.cpp): connect, ping,*)
(* disconnect, reset, get_info_list and reconnect, with devices that appear *)
(* at a path, leave it, reboot into their OS or their bootloader and come   *)
(* back at another path, while the two scans are under way.                 *)
(*                                                                         *)
(* A Link remembers more than the handle: whether the device is a bootloader*)
(* (m_is_bootloader), the path and serial number it identified              *)
(* (m_link_info), the last bootloader attributes (m_bootloader_attributes)  *)
(* and the thread's error.  None of these is cleared when the handle goes,  *)
(* so the question is when they can be relied on.                           *)
(***************************************************************************)
EXTENDS Integers, FiniteSets

CONSTANTS
  Paths,       (* paths at which the host finds devices                     *)
  Devices,     (* devices; a device is identified by its serial number      *)
  OldDevices,  (* those that only know the legacy requests                  *)
  Retries,     (* the argument of reconnect                                 *)
  MaxChanges,  (* bound: devices attached or unplugged                      *)
  NoPath, NoDevice

ASSUME LinkAssumption ==
  /\ NoPath \notin Paths /\ NoDevice \notin Devices
  /\ OldDevices \subseteq Devices
  /\ Retries \in Nat \ {0} /\ MaxChanges \in Nat

VARIABLES
  port,       (* device found at each path                                  *)
  mode,       (* what each device runs                                      *)
  changes,    (* devices attached or unplugged so far                       *)
  handle,     (* path the phy handle was opened at, NoPath if not open      *)
  session,    (* device the handle reaches, NoDevice if it is gone          *)
  isBoot,     (* m_is_bootloader                                            *)
  legacy,     (* m_is_legacy                                                *)
  info,       (* m_link_info                                                *)
  attrs,      (* serial number in m_bootloader_attributes                   *)
  error,      (* the thread's error context holds an error                  *)
  pc,         (* where the running operation is                             *)
  op,         (* the operation that runs, or that ran last                  *)
  target,     (* path it is connecting to                                   *)
  todo,       (* paths of the snapshot still to be tried                    *)
  round,      (* rounds of reconnect finished                               *)
  last,       (* last_info of reconnect                                     *)
  list,       (* result of get_info_list                                    *)
  known,      (* history: the device behind the handle was identified       *)
  disturbed   (* history: whether in this scan a request failed that the    *)
              (* device would have answered, or a device came or went:      *)
              (* "no", "now" in this round, or "earlier"                    *)

worldVars == <<port, mode, changes>>
linkVars  == <<handle, session, isBoot, legacy, info, attrs, error, known>>
scanVars  == <<pc, op, target, todo, round, last, list>>
vars      == <<worldVars, linkVars, scanVars, disturbed>>

Serials == Devices \union {NoDevice}
Info    == [path : Paths \union {NoPath}, serial : Serials]

NoInfo == [path |-> NoPath, serial |-> NoDevice]

TypeOK ==
  /\ port \in [Paths -> Serials]
  /\ mode \in [Devices -> {"os", "boot"}]
  /\ changes \in 0 .. MaxChanges
  /\ handle \in Paths \union {NoPath}
  /\ session \in Serials
  /\ isBoot \in BOOLEAN /\ legacy \in BOOLEAN
  /\ info \in Info /\ last \in Info
  /\ attrs \in Serials
  /\ error \in BOOLEAN
  /\ pc \in {"idle", "list", "listed", "first", "tried", "next", "matched"}
  /\ op \in {"none", "connect", "list", "reconnect"}
  /\ target \in Paths \union {NoPath}
  /\ todo \subseteq Paths
  /\ round \in 0 .. Retries
  /\ list \subseteq Info
  /\ known \in BOOLEAN /\ disturbed \in {"no", "earlier", "now"}

(* get_path_list: the paths at which the driver finds a device now.         *)
Attached == {p \in Paths : port[p] # NoDevice}
NoneAttached == {}
PathList == Attached

Unplugged == {d \in Devices : \A p \in Paths : port[p] # d}

Init ==
  /\ port \in {f \in [Paths -> Serials] :
                 \A p, q \in Paths : p # q /\ f[p] = f[q] => f[p] = NoDevice}
  /\ mode \in [Devices -> {"os", "boot"}]
  /\ changes = 0
  /\ handle = NoPath /\ session = NoDevice
  /\ isBoot = FALSE /\ legacy = FALSE
  /\ info = NoInfo /\ last = NoInfo
  /\ attrs = NoDevice
  /\ error = FALSE
  /\ pc = "idle" /\ op = "none" /\ target = NoPath /\ todo = {} /\ round = 0
  /\ list = {}
  /\ known = FALSE /\ disturbed = "no"

-----------------------------------------------------------------------------
Connected == handle # NoPath

(* A device answers isbootloader only in the form it knows.                 *)
Speaks(d, leg) == d # NoDevice /\ (leg <=> d \in OldDevices)

(* ping_connection opens a handle only if there is none: an open one is     *)
(* used whatever the path.                                                  *)
PathUsed(path)   == IF Connected THEN handle ELSE path
DeviceUsed(path) == IF Connected THEN session
                    ELSE IF path \in Paths THEN port[path] ELSE NoDevice

Disturb(b) == disturbed' = IF b THEN "now" ELSE disturbed

Drop == handle' = NoPath /\ session' = NoDevice /\ known' = FALSE

(* ping_connection without an answer, from open or from isbootloader: the   *)
(* handle is closed and the error set.                                      *)
NoAnswer(path, leg) ==
  /\ Drop
  /\ error' = TRUE
  /\ Disturb(Speaks(DeviceUsed(path), leg))
  /\ UNCHANGED <<isBoot, info, attrs>>

(* connect, once ping_connection found a device running its OS.  The result *)
(* of link_get_sys_info is not looked at: if it fails, what is recorded is  *)
(* whatever was in the uninitialised structure.                             *)
IdentifyOs(path, d) ==
  /\ isBoot' = FALSE
  /\ \E s \in Serials, read \in BOOLEAN :
       /\ read => s = d
       /\ info' = [path |-> path, serial |-> s]
       /\ known' = read
       /\ Disturb(~read)
  /\ UNCHANGED <<attrs, error>>

(* connect, once ping_connection found a bootloader.  If the attributes     *)
(* cannot be read the error is set, but the handle stays open and the       *)
(* attributes of some earlier bootloader are recorded.                      *)
IdentifyBootloader(path, d) ==
  /\ isBoot' = TRUE
  /\ \E read \in BOOLEAN :
       /\ attrs' = IF read THEN d ELSE attrs
       /\ info' = [path |-> path, serial |-> attrs']
       /\ error' = ~read
       /\ known' = read
       /\ Disturb(~read)

SamePath(path) == ~Connected \/ info.path = path

(* Link::connect.  The cached path stands for that of the handle.           *)
ConnectTo(path, leg) ==
  \/ /\ error
     /\ UNCHANGED <<linkVars, disturbed>>
  \/ /\ ~error /\ ~SamePath(path)
     /\ error' = TRUE
     /\ UNCHANGED <<handle, session, isBoot, legacy, info, attrs, known, disturbed>>
  \/ /\ ~error /\ SamePath(path)
     /\ legacy' = leg
     /\ NoAnswer(path, leg)
  \/ LET d == DeviceUsed(path) IN
     /\ ~error /\ SamePath(path) /\ Speaks(d, leg)
     /\ legacy' = leg
     /\ handle' = PathUsed(path) /\ session' = d
     /\ IF mode[d] = "os" THEN IdentifyOs(path, d) ELSE IdentifyBootloader(path, d)

(* Link::disconnect: the handle is closed, the cached information stays.    *)
Disconnected == Drop /\ isBoot' = FALSE

-----------------------------------------------------------------------------
(* Operations of the program that owns the Link.  Each starts with none of  *)
(* the local variables of an earlier one.                                   *)
Connect ==
  /\ pc = "idle" /\ pc' = "idle" /\ op' = "connect"
  /\ \E p \in Paths, leg \in BOOLEAN : ConnectTo(p, leg) /\ target' = p
  /\ todo' = {} /\ round' = 0 /\ last' = NoInfo /\ list' = {}
  /\ UNCHANGED worldVars

NoScan ==
  /\ pc = "idle" /\ pc' = "idle" /\ op' = "none"
  /\ target' = NoPath /\ todo' = {} /\ round' = 0 /\ last' = NoInfo /\ list' = {}
  /\ disturbed' = "no"

Disconnect ==
  /\ NoScan
  /\ Disconnected
  /\ UNCHANGED <<worldVars, legacy, info, attrs, error>>

(* Link::ping: whatever went wrong is forgotten; with keep the handle stays *)
(* open on a device that nothing is known about.                            *)
Ping ==
  /\ NoScan /\ ~error
  /\ \E p \in Paths, keep \in BOOLEAN :
       \/ Drop /\ UNCHANGED isBoot
       \/ /\ Speaks(DeviceUsed(p), legacy)
          /\ IF keep
               THEN /\ handle' = PathUsed(p) /\ session' = DeviceUsed(p)
                    /\ UNCHANGED <<known, isBoot>>
               ELSE Disconnected
  /\ UNCHANGED <<worldVars, legacy, info, attrs, error>>

(* Link::reset and reset_bootloader: the device, if the request gets there, *)
(* leaves its path and starts as asked.  The handle is given up unclosed and*)
(* m_is_bootloader keeps its value.                                         *)
Reset ==
  /\ NoScan /\ ~error
  /\ IF ~Connected
       THEN error' = TRUE /\ UNCHANGED <<handle, session, known, port, mode>>
       ELSE /\ Drop
            /\ error' = FALSE
            /\ \/ UNCHANGED <<port, mode>>
               \/ /\ session # NoDevice
                  /\ \E m \in {"os", "boot"} : mode' = [mode EXCEPT ![session] = m]
                  /\ port' = [p \in Paths |-> IF port[p] = session THEN NoDevice
                                              ELSE port[p]]
  /\ UNCHANGED <<changes, isBoot, legacy, info, attrs>>

(* API_RESET_ERROR by the program.                                          *)
ClearError ==
  /\ NoScan /\ error
  /\ error' = FALSE
  /\ UNCHANGED <<worldVars, handle, session, isBoot, legacy, info, attrs, known>>

-----------------------------------------------------------------------------
(* Link::get_info_list: a snapshot of the paths, then connect, record and   *)
(* disconnect for each (in any order: it is the driver's).                  *)
ListStart ==
  /\ pc = "idle" /\ ~error
  /\ op' = "list"
  /\ todo' = PathList
  /\ list' = {}
  /\ disturbed' = "no"
  /\ Disconnected
  /\ pc' = IF PathList = {} THEN "idle" ELSE "list"
  /\ target' = NoPath /\ round' = 0 /\ last' = NoInfo
  /\ UNCHANGED <<worldVars, legacy, info, attrs, error>>

TriedAgain(p) == todo
Tried(p) == todo \ {p}

ListConnect ==
  /\ pc = "list"
  /\ \E p \in todo : /\ ConnectTo(p, FALSE)
                     /\ target' = p
                     /\ todo' = Tried(p)
  /\ pc' = "listed"
  /\ UNCHANGED <<worldVars, op, round, last, list>>

KeepError(e) == e
ForgetError(e) == FALSE

ListRecord ==
  /\ pc = "listed"
  /\ IF ~error
       THEN /\ list' = list \union {[path |-> target, serial |-> info.serial]}
            /\ Disconnected
       ELSE UNCHANGED <<list, handle, session, known, isBoot>>
  /\ error' = ForgetError(error)
  /\ pc' = IF todo = {} THEN "idle" ELSE "list"
  /\ UNCHANGED <<worldVars, legacy, info, attrs, op, target, todo, round, last,
                 disturbed>>

(* Link::reconnect: each round tries the last path, then every path found,  *)
(* for the device with the last serial number.                              *)
ReconnectStart ==
  /\ pc = "idle" /\ ~error
  /\ op' = "reconnect"
  /\ last' = info
  /\ target' = NoPath /\ round' = 0 /\ todo' = {} /\ list' = {}
  /\ disturbed' = "no"
  /\ pc' = "first"
  /\ UNCHANGED <<worldVars, linkVars>>

ReconnectLast ==
  /\ pc = "first"
  /\ ConnectTo(last.path, FALSE)
  /\ target' = last.path
  /\ pc' = "tried"
  /\ UNCHANGED <<worldVars, op, todo, round, last, list>>

ReconnectNext ==
  /\ pc = "next"
  /\ \E p \in todo : /\ ConnectTo(p, FALSE)
                     /\ target' = p
                     /\ todo' = Tried(p)
  /\ pc' = "matched"
  /\ UNCHANGED <<worldVars, op, round, last, list>>

FoundAny == ~error
Found == ~error /\ last.serial = info.serial

(* A device that is not the right one is disconnected; after an error there *)
(* is nothing to disconnect, or so the code assumes.                        *)
LeaveOpen == UNCHANGED <<handle, session, known, isBoot>>
LeaveWrong == IF error THEN UNCHANGED <<handle, session, known, isBoot>>
              ELSE Disconnected

(* After each attempt: the right device ends the operation, a wrong one is  *)
(* left, an error is forgotten.  The paths are read after the first attempt.*)
ReconnectCheck ==
  /\ pc \in {"tried", "matched"}
  /\ IF Found
       THEN pc' = "idle" /\ UNCHANGED <<handle, session, known, isBoot, todo>>
       ELSE /\ LeaveWrong
            /\ todo' = IF pc = "tried" THEN PathList ELSE todo
            /\ pc' = "next"
  /\ error' = ForgetError(error)
  /\ UNCHANGED <<worldVars, legacy, info, attrs, op, target, round, last, list,
                 disturbed>>

RoundsLeft(n) == n < Retries

(* The end of a round.  After the last one the information of before is put *)
(* back, and nothing tells the caller that no device was found.             *)
ReconnectWait ==
  /\ pc = "next" /\ todo = {}
  /\ round' = round + 1
  /\ IF RoundsLeft(round + 1)
       THEN /\ pc' = "first" /\ info' = info
            /\ disturbed' = IF disturbed = "now" THEN "earlier" ELSE disturbed
       ELSE pc' = "idle" /\ info' = last /\ disturbed' = disturbed
  /\ UNCHANGED <<worldVars, handle, session, isBoot, legacy, attrs, error, known,
                 op, target, todo, last, list>>

-----------------------------------------------------------------------------
(* Devices come and go, also in the middle of a scan.                       *)
Attach ==
  /\ changes < MaxChanges
  /\ changes' = changes + 1
  /\ \E d \in Unplugged, p \in Paths \ Attached : port' = [port EXCEPT ![p] = d]
  /\ Disturb(TRUE)
  /\ UNCHANGED <<mode, linkVars, scanVars>>

Unplug ==
  /\ changes < MaxChanges
  /\ changes' = changes + 1
  /\ \E p \in Attached :
       /\ port' = [port EXCEPT ![p] = NoDevice]
       /\ session' = IF session = port[p] THEN NoDevice ELSE session
  /\ Disturb(TRUE)
  /\ UNCHANGED <<mode, handle, isBoot, legacy, info, attrs, error, known, scanVars>>

UserStep == \/ Connect \/ Disconnect \/ Ping \/ Reset \/ ClearError
            \/ ListStart \/ ReconnectStart

ScanStep == \/ ListConnect \/ ListRecord
            \/ ReconnectLast \/ ReconnectNext \/ ReconnectCheck \/ ReconnectWait

Next == UserStep \/ ScanStep \/ Attach \/ Unplug

(* A scan goes on: every call it makes returns within its timeout.          *)
Spec == Init /\ [][Next]_vars /\ WF_vars(ScanStep)

-----------------------------------------------------------------------------
Idle(o) == pc = "idle" /\ op = o

(* What connect identified describes the device behind the handle for as    *)
(* long as that device is there: its serial number, whether it runs its     *)
(* bootloader, which decides what every other operation of Link does, and   *)
(* then its attributes, which update_os compares an image with.  The code   *)
(* keeps all of it across disconnects, resets and pings, and reconnect puts *)
(* old information back when it gives up.                                   *)
Identified ==
  pc = "idle" /\ known /\ session # NoDevice
    => /\ info.serial = session
       /\ isBoot <=> mode[session] = "boot"
       /\ isBoot => attrs = session

(* reconnect never ends on a device other than the last one, whatever comes *)
(* or goes meanwhile, unless it was misled by an unread serial number.      *)
NeverTheWrongDevice ==
  Idle("reconnect") /\ known /\ session # NoDevice => session = last.serial

(* A reconnect during which nothing was unplugged and no request failed     *)
(* finds the device again wherever it is now, from every state the Link can *)
(* be in (connected or not, to this device or another).                     *)
ReconnectFinds ==
  Idle("reconnect") /\ disturbed = "no"
    /\ (\E p \in Attached : port[p] = last.serial /\ Speaks(port[p], FALSE))
    => Connected /\ session = last.serial /\ known

(* A get_info_list during which nothing was unplugged and no request failed *)
(* lists exactly the devices that answer, each at its path, and leaves the  *)
(* Link disconnected, so that the next connect can be to any of them.       *)
InfoListComplete ==
  Idle("list") /\ disturbed = "no"
    => /\ list = {[path |-> p, serial |-> port[p]] :
                    p \in {q \in Attached : Speaks(port[q], FALSE)}}
       /\ ~Connected

=============================================================================
