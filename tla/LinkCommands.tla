----------------------------- MODULE LinkCommands -----------------------------
(***************************************************************************)
(* The commands of a Link that are one request to the device (Link.cpp):    *)
(* get_time, set_time, run_app, format, read_flash, write_flash and         *)
(* get_bootloader_attr, issued over the connection of LinkConnection.       *)
(*                                                                         *)
(* Which of them may be sent is decided by what the Link remembers of the   *)
(* device, a request whose answer was garbled or lost is sent again, and the*)
(* device may be unplugged between two tries.                               *)
(***************************************************************************)
EXTENDS LinkConnection

VARIABLES
  command,    (* what kind of command runs, or ran last                     *)
  running,    (* its loop has not ended                                     *)
  tries,      (* requests sent                                              *)
  served,     (* history: requests a device carried out                     *)
  lost        (* history: requests carried out whose answer did not arrive  *)

commandVars == <<command, running, tries, served, lost>>
allVars     == <<vars, commandVars>>

MaxTries == 3      (* MAX_TRIES *)

(* needsOs: refused when m_is_bootloader; reports: a failure is an error.   *)
Kinds     == [needsOs : BOOLEAN, reports : BOOLEAN]
NoCommand == [needsOs |-> FALSE, reports |-> FALSE]

CommandTypeOK ==
  /\ TypeOK
  /\ command \in Kinds
  /\ running \in BOOLEAN
  /\ tries \in 0 .. MaxTries /\ served \in 0 .. tries /\ lost \in 0 .. served

CommandInit ==
  /\ Init
  /\ command = NoCommand /\ running = FALSE
  /\ tries = 0 /\ served = 0 /\ lost = 0

-----------------------------------------------------------------------------
RefusesNone(kind) == FALSE
Refuses(kind) == kind.needsOs /\ isBoot

(* A command starts, or is refused with an error.                           *)
Begin(kind, invalid) ==
  /\ ~running /\ ~error
  /\ NoScan
  /\ command' = kind
  /\ tries' = 0 /\ served' = 0 /\ lost' = 0
  /\ error' = (Refuses(kind) \/ invalid)
  /\ running' = ~error'
  /\ UNCHANGED <<worldVars, handle, session, isBoot, legacy, info, attrs, known>>

GetTime    == Begin([needsOs |-> TRUE, reports |-> TRUE], FALSE)
SetTime    == Begin([needsOs |-> TRUE, reports |-> FALSE], FALSE)
RunApp     == \E tooLong \in BOOLEAN :
                Begin([needsOs |-> TRUE, reports |-> TRUE], tooLong)
Format     == Begin([needsOs |-> TRUE, reports |-> FALSE], FALSE)
ReadFlash  == Begin([needsOs |-> FALSE, reports |-> FALSE], FALSE)
WriteFlash == Begin([needsOs |-> FALSE, reports |-> FALSE], FALSE)

(* The loop goes on only after LINK_PROT_ERROR, and not for ever.           *)
AgainWhatever(garbled) == tries' < MaxTries
AgainIfGarbled(garbled) == garbled /\ tries' < MaxTries

(* After the loop: err < 0 of the last try is an error, if it is looked at. *)
NeverReported(failed) == FALSE
Reported(failed) == failed /\ command.reports

(* One try.  A request without an answer fails: as garbled (sent again) or  *)
(* otherwise (not), whether or not the device carried it out; a device that *)
(* is there may also refuse.  A bootloader knows no command of the OS.      *)
Try ==
  /\ running
  /\ tries' = tries + 1
  /\ \E carriedOut, answered, garbled \in BOOLEAN :
       /\ carriedOut => session # NoDevice /\ (command.needsOs => mode[session] = "os")
       /\ answered => carriedOut /\ ~garbled
       /\ served' = served + (IF carriedOut THEN 1 ELSE 0)
       /\ lost' = lost + (IF carriedOut /\ ~answered THEN 1 ELSE 0)
       /\ running' = AgainIfGarbled(garbled)
       /\ error' = (~running' /\ Reported(~answered))
  /\ UNCHANGED <<command, worldVars, handle, session, isBoot, legacy, info, attrs,
                 known, scanVars, disturbed>>

(* get_bootloader_attr: one request, in the form m_is_legacy says, to a     *)
(* bootloader; any failure is an error.                                     *)
GetBootloaderAttr ==
  /\ ~running /\ ~error
  /\ NoScan
  /\ \E answered \in BOOLEAN :
       /\ answered => /\ Connected /\ isBoot
                      /\ Speaks(session, legacy) /\ mode[session] = "boot"
       /\ error' = ~answered
  /\ command' = NoCommand /\ tries' = 0 /\ served' = 0 /\ lost' = 0
  /\ UNCHANGED <<running, worldVars, handle, session, isBoot, legacy, info, attrs,
                 known>>

(* Any other operation of the Link.                                         *)
OtherOperation ==
  /\ ~running
  /\ UserStep
  /\ command' = NoCommand /\ tries' = 0 /\ served' = 0 /\ lost' = 0
  /\ UNCHANGED running

ScanGoesOn == ScanStep /\ UNCHANGED commandVars

CommandNext ==
  \/ GetTime \/ SetTime \/ RunApp \/ Format \/ ReadFlash \/ WriteFlash
  \/ Try
  \/ GetBootloaderAttr
  \/ OtherOperation
  \/ ScanGoesOn
  \/ (Attach \/ Unplug) /\ UNCHANGED commandVars

(* Every call of a scan or a command returns within its timeout.            *)
CommandSpec ==
  CommandInit /\ [][CommandNext]_allVars /\ WF_allVars(ScanGoesOn \/ Try)

-----------------------------------------------------------------------------
(* A command of the OS is never sent to a bootloader that connect has seen  *)
(* to be one, though m_is_bootloader outlives the handle it was read over:  *)
(* neither after a reset, nor after a scan that gave up half way.           *)
NotToTheBootloader ==
  running /\ command.needsOs /\ known /\ session # NoDevice => mode[session] = "os"

(* get_time and run_app end without an error exactly if the device carried  *)
(* the command out and said so, in whichever try.                           *)
DoneIfReported ==
  ~running /\ command.reports => (error <=> served = lost)

(* The device carries a command out again only if an answer was lost: an    *)
(* application is started twice, or a page written twice, only then.        *)
RepeatedOnlyIfLost == served <= lost + 1

(* Every scan and every command ends, whatever devices do meanwhile.        *)
Returns == pc # "idle" \/ running ~> pc = "idle" /\ ~running

=============================================================================
