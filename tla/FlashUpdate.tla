------------------------------ MODULE FlashUpdate ------------------------------
(***************************************************************************)
(* Link::update_os on a device that runs its OS (Link.cpp,                  *)
(* update_os_flash_device): the flash is a device file of the target; its   *)
(* pages are erased and written one by one through ioctl, the first page    *)
(* first.                                                                   *)
(*                                                                         *)
(* Nothing in these functions looks at the result of an ioctl.  What keeps  *)
(* a failure from doing harm is that a pending error makes every further    *)
(* request a no-op; so errors are modelled as the code has them.            *)
(***************************************************************************)
EXTENDS Integers

CONSTANTS
  Cells,      (* size of the flash, in units of one I_FLASH_WRITEPAGE       *)
  PageLen,    (* size of a page that is erased, in the same units           *)
  OsStart,    (* flash_os_info_t::start; below it is the bootloader         *)
  Word,       (* sizes are unsigned and wrap at Word (2^32 in the code)     *)
  MaxImage,   (* bound: units in an image                                   *)
  MaxCalls    (* bound: calls of update_os                                  *)

ASSUME FlashAssumption ==
  /\ PageLen \in Nat \ {0} /\ Cells \in Nat \ {0} /\ Cells % PageLen = 0
  /\ OsStart \in 1 .. Cells - 1 /\ OsStart % PageLen = 0
  /\ MaxImage \in Nat /\ MaxCalls \in Nat
  /\ Word \in Nat /\ Word > MaxImage + 1 /\ Word > Cells + PageLen

VARIABLES
  flash,      (* content of every unit                                      *)
  signing,    (* the target requires signatures; constant                   *)
  pc,         (* where update_os is                                         *)
  calls,      (* calls of update_os so far                                  *)
  upd,        (* number of the image                                        *)
  len, pos,   (* units in the image file, and its position                  *)
  error,      (* the thread's error context holds an error                  *)
  page,       (* next page to erase                                         *)
  erased,     (* size_erased                                                *)
  base,       (* os_info.start                                              *)
  required,   (* is_signature_required                                      *)
  written,    (* size_processed                                             *)
  fresh,      (* history: the image was at its beginning at the call        *)
  faulty      (* history: a request of this call failed                     *)

imageVars == <<upd, len, pos, fresh>>
eraseVars == <<page, erased>>
writeVars == <<base, required, written>>
vars == <<flash, signing, pc, calls, error, faulty, imageVars, eraseVars, writeVars>>

Blank   == 0
Garbage == -1      (* nothing that belongs at this place of an image        *)
Boot    == -2      (* the bootloader                                        *)
Addresses == 0 .. Cells - 1
Running == {"open", "find", "erase", "install", "write", "sign"}

TypeOK ==
  /\ flash \in [Addresses -> {Garbage, Blank, Boot} \union 1 .. MaxCalls + 1]
  /\ signing \in BOOLEAN
  /\ pc \in Running \union {"idle", "done"}
  /\ calls \in 0 .. MaxCalls /\ upd \in 1 .. MaxCalls + 1
  /\ len \in 0 .. MaxImage /\ pos \in 0 .. len
  /\ error \in BOOLEAN /\ fresh \in BOOLEAN /\ faulty \in BOOLEAN
  /\ page \in 0 .. Cells \div PageLen
  /\ erased \in 0 .. Cells
  /\ base \in {0, OsStart} /\ required \in BOOLEAN
  /\ written \in 0 .. Cells

(* The device came with image 1.                                            *)
Init ==
  /\ flash = [a \in Addresses |-> IF a < OsStart THEN Boot ELSE 1]
  /\ signing \in BOOLEAN
  /\ pc = "idle" /\ calls = 0
  /\ upd = 1 /\ len = 0 /\ pos = 0 /\ fresh = TRUE
  /\ error = FALSE /\ faulty = FALSE
  /\ page = 0 /\ erased = 0
  /\ base = 0 /\ required = FALSE /\ written = 0

-----------------------------------------------------------------------------
(* A request reaches the device only if no error is pending.                *)
ReachesAnyway(err) == TRUE
Reaches(err) == ~err

(* A request that fails leaves an error; one whose answer is lost has had   *)
(* its effect all the same.                                                 *)
NotNoted(err, answered) == err
Noted(err, answered) == err \/ ~answered

Outcome(answered) ==
  /\ error' = Noted(error, answered)
  /\ faulty' = (faulty \/ ~answered)

(* The program calls update_os, with a new image or again with the file     *)
(* object of its last call, whose position is where that call left it.  The *)
(* ids are not compared: the function returns before it seeks the image.    *)
Start ==
  /\ pc \in {"idle", "done"} /\ calls < MaxCalls
  /\ pc' = "open" /\ calls' = calls + 1
  /\ \/ /\ upd' = calls + 2
        /\ len' \in 0 .. MaxImage
        /\ pos' = 0
     \/ /\ pc = "done"
        /\ UNCHANGED <<upd, len, pos>>
  /\ fresh' = (pos' = 0)
  /\ error' = FALSE /\ faulty' = FALSE
  /\ page' = 0 /\ erased' = 0
  /\ base' = 0 /\ required' = FALSE /\ written' = 0
  /\ UNCHANGED <<flash, signing>>

(* The flash device is opened; without it nothing is done.                  *)
Open ==
  /\ pc = "open"
  /\ \E ok \in BOOLEAN : Outcome(ok) /\ pc' = IF ok THEN "find" ELSE "done"
  /\ UNCHANGED <<flash, signing, calls, imageVars, eraseVars, writeVars>>

(* erase_os_flash_device up to its loop: I_FLASH_GETOSINFO, GET_PAGE.       *)
FindPage ==
  /\ pc = "find" /\ pc' = "erase"
  /\ \E ok \in BOOLEAN : /\ Outcome(ok)
                         /\ page' = IF ok THEN OsStart \div PageLen ELSE 0
  /\ UNCHANGED <<flash, signing, calls, imageVars, erased, writeVars>>

EnoughButOne(n) == n + PageLen >= len
Enough(n) == n >= len

(* One round of the erase loop: I_FLASH_GETPAGEINFO, then I_FLASH_ERASEPAGE.*)
(* There is no way out of it but having erased enough.                      *)
EraseRound ==
  /\ pc = "erase"
  /\ \E known, taken, answered \in BOOLEAN :
       /\ known => Reaches(error) /\ page < Cells \div PageLen
       /\ (taken => known) /\ (answered => taken)
       /\ Outcome(answered)
       /\ erased' = IF known THEN erased + PageLen ELSE erased
       /\ flash' = [a \in Addresses |->
                      IF taken /\ a \div PageLen = page THEN Blank ELSE flash[a]]
       /\ page' = IF known THEN page + 1 ELSE page
  /\ pc' = IF Enough(erased') THEN "install" ELSE "erase"
  /\ UNCHANGED <<signing, calls, imageVars, writeVars>>

(* The signature, one unit here, is not written.                            *)
InstallSizeAlways(n, signed) == (n - 1) % Word
InstallSize(n, signed) == IF signed THEN (n - 1) % Word ELSE n

(* install_os_flash_device up to its loop.  I_FLASH_GETOSINFO again: if it  *)
(* fails the start address is 0, where the bootloader is.                   *)
Install ==
  /\ pc = "install"
  /\ IF error
       THEN /\ pc' = "done"
            /\ UNCHANGED <<error, faulty, base, required>>
       ELSE /\ pc' = "write"
            /\ \E known, told \in BOOLEAN :
                 /\ told => known
                 /\ Outcome(told)
                 /\ base' = IF known THEN OsStart ELSE 0
                 /\ required' = (told /\ signing)
  /\ UNCHANGED <<flash, signing, calls, imageVars, eraseVars, written>>

WriteEndsAtSize(err, n) == n >= InstallSize(len, required)
WriteEnds(err, n) == err \/ n >= InstallSize(len, required)

(* What ends up in a unit: image data if the file was at the place it is    *)
(* written to, anything if the file had ended or the unit was not blank.    *)
Stored(addr, place) ==
  IF flash[addr] = Blank /\ pos = place /\ pos < len THEN upd ELSE Garbage

(* One round of the write loop.  Neither the result of reading the image nor*)
(* the number of bytes read is looked at.                                   *)
WriteRound ==
  LET addr == base + written
      some == InstallSize(len, required) > written IN
  /\ pc = "write"
  /\ \E read, taken, answered \in BOOLEAN :
       /\ read => Reaches(error)
       /\ taken => read /\ addr < Cells
       /\ answered => taken
       /\ Outcome(answered)
       /\ pos' = IF read /\ some /\ pos < len THEN pos + 1 ELSE pos
       /\ flash' = IF taken /\ some
                     THEN [flash EXCEPT ![addr] = Stored(addr, written)]
                     ELSE flash
       /\ written' = IF error' \/ ~some THEN written ELSE written + 1
  /\ pc' = IF ~WriteEnds(error', written') THEN "write"
           ELSE IF required THEN "sign" ELSE "done"
  /\ UNCHANGED <<signing, calls, upd, len, fresh, eraseVars, base, required>>

(* The signature is read, which rewinds the image, and handed over.         *)
Sign ==
  /\ pc = "sign" /\ pc' = "done"
  /\ pos' = IF error THEN pos ELSE 0
  /\ \E ok \in BOOLEAN : Outcome(ok /\ Reaches(error))
  /\ UNCHANGED <<flash, signing, calls, upd, len, fresh, eraseVars, writeVars>>

(* The host program dies.                                                   *)
Crash ==
  /\ pc \in Running /\ pc' = "idle"
  /\ UNCHANGED <<flash, signing, calls, error, faulty, imageVars, eraseVars,
                 writeVars>>

HostStep == Open \/ FindPage \/ EraseRound \/ Install \/ WriteRound \/ Sign

Next == Start \/ HostStep \/ Crash

(* Requests return within the transport's timeouts.                         *)
Spec == Init /\ [][Next]_vars /\ WF_vars(HostStep)

-----------------------------------------------------------------------------
(* The bootloader is never touched, although a failed request for the start *)
(* of the OS leaves the address of the bootloader in its place.             *)
BootloaderKept == \A a \in 0 .. OsStart - 1 : flash[a] = Boot

(* What is written is written to flash that this call has erased: the pages *)
(* erased cover the image, whatever its size.  (An empty image on a target  *)
(* that requires signatures has a size that wraps around.)                  *)
WritesToErased ==
  [][len > 0 => \A a \in Addresses :
       flash'[a] # flash[a] /\ flash'[a] # Blank => flash[a] = Blank]_vars

(* After the first request that fails the device is left alone to the end   *)
(* of the call, in the endless erase loop too.                              *)
QuietAfterError == [][error /\ pc \in Running => flash' = flash]_vars

(* A call in which nothing failed, given an image at its beginning, has     *)
(* installed exactly that image and reports no error.                       *)
UndisturbedInstalls ==
  pc = "done" /\ ~faulty /\ fresh /\ len > 0
    => /\ ~error
       /\ \A a \in 0 .. len - 1 :
            flash[OsStart + a] = IF signing /\ a = len - 1 THEN Blank ELSE upd

(* The only way not to return is an error in the erase loop.                *)
ReturnsOrErases ==
  pc \in Running ~> pc \notin Running \/ (pc = "erase" /\ error)

=============================================================================
