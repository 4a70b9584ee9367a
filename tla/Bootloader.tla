------------------------------ MODULE Bootloader ------------------------------
(***************************************************************************)
(* The target of an OS update: the flash of a device that runs the Stratify *)
(* OS bootloader.  The bootloader is not part of this repository; what is   *)
(* modelled is what Link.cpp relies on when it drives one.                  *)
(*                                                                         *)
(* The OS region of the flash is the page the bootloader looks at to decide *)
(* whether there is a valid image (the first 256 bytes, page0) and Blocks   *)
(* further pieces, one per transfer of the host (body).  What a page holds  *)
(* is abstracted to the update that wrote it: update u writes image u and   *)
(* image 0 is the OS the device came with.                                  *)
(***************************************************************************)
EXTENDS Integers

CONSTANTS
  Blocks,      (* pieces of 1024 bytes an image is sent in                  *)
  MaxUpdates,  (* bound: updates started by the host                        *)
  MaxResets    (* bound: resets of the device, at any moment                *)

ASSUME BoundsAssumption ==
  /\ Blocks \in Nat \ {0}
  /\ MaxUpdates \in Nat
  /\ MaxResets \in Nat

VARIABLES
  page0,    (* first 256 bytes of the OS region                             *)
  body,     (* the remaining pieces                                         *)
  cached,   (* first page held in RAM by a caching bootloader (>= 0x400)    *)
  erasing,  (* an erase is under way: no request is answered                *)
  dirty,    (* an erase has begun and not been completed since              *)
  live,     (* the host's handle reaches the device                         *)
  resets,   (* resets so far                                                *)
  boot      (* what kind of bootloader this is; never changes               *)

deviceVars == <<page0, body, cached, erasing, dirty, live, resets, boot>>

Images  == 0 .. MaxUpdates
Blank   == -1        (* erased flash                                        *)
Garbage == -2        (* neither erased nor any image                        *)
Short   == -4        (* the last piece of an image without its end          *)
Content == Images \union {Blank, Garbage, Short}

(***************************************************************************)
(* The first page, which is never cut, also holds the hardware id, which is *)
(* either the one of the board or that of another board revision (the ids   *)
(* differ in the lowest bit only).                                          *)
(***************************************************************************)
Page        == [img : Content \ {Short}, id : {"board", "revision"}]
BlankPage   == [img |-> Blank, id |-> "board"]
GarbagePage == [img |-> Garbage, id |-> "board"]

(***************************************************************************)
(* caches: version >= 0x400, keeps the first page back by itself.           *)
(* signed: requires a signature, and refuses to read flash back.            *)
(***************************************************************************)
BootKinds == [caches : BOOLEAN, signed : BOOLEAN]

DeviceTypeOK ==
  /\ page0 \in Page
  /\ body \in [1 .. Blocks -> Content]
  /\ cached \in Page
  /\ erasing \in BOOLEAN
  /\ dirty \in BOOLEAN
  /\ live \in BOOLEAN
  /\ resets \in 0 .. MaxResets
  /\ boot \in BootKinds

DeviceInit ==
  /\ page0 = [img |-> 0, id |-> "board"]
  /\ body = [b \in 1 .. Blocks |-> 0]
  /\ cached = BlankPage
  /\ erasing = FALSE
  /\ dirty = FALSE
  /\ live = TRUE
  /\ resets = 0
  /\ boot \in BootKinds

-----------------------------------------------------------------------------
(***************************************************************************)
(* Requests of the host.  A request has an effect only on a listening       *)
(* device; whether the answer comes back is up to the host's action.        *)
(***************************************************************************)
Listening == live /\ ~erasing

(* link_eraseflash: the target starts to erase and stops answering.         *)
TakeErase(taken) ==
  /\ taken => Listening
  /\ erasing' = (erasing \/ taken)
  /\ dirty' = (dirty \/ taken)

(* link_writeflash of piece b with content u.        A caching bootloader   *)
(* keeps the first page of piece 1 back; otherwise first goes to the flash. *)
TakePiece(taken, b, u, first) ==
  /\ taken => Listening
  /\ body' \in IF taken
                 THEN {[body EXCEPT ![b] = c] : c \in {u, Garbage}}
                 ELSE {body}
  /\ cached' \in IF taken /\ b = 1 /\ boot.caches
                   THEN {first, GarbagePage} ELSE {cached}
  /\ page0' = IF taken /\ b = 1 /\ ~boot.caches /\ first # BlankPage
                THEN first ELSE page0

(* link_writeflash of the first page alone.                                 *)
TakeFirstPage(taken, first) ==
  /\ taken => Listening
  /\ page0' \in IF taken THEN {first, GarbagePage} ELSE {page0}

(* link_verify_signature: a caching bootloader programs the page it kept,   *)
(* unless it requires a signature and the one it got is wrong.              *)
TakeSignature(taken, valid) ==
  LET installs == taken /\ boot.caches /\ cached # BlankPage
                        /\ (boot.signed => valid)
  IN  /\ taken => Listening
      /\ page0' \in IF installs THEN {cached, GarbagePage} ELSE {page0}
      /\ cached' = IF installs THEN BlankPage ELSE cached

(* link_readflash can only succeed on a bootloader that lets code be read.  *)
Readable == Listening /\ ~boot.signed

-----------------------------------------------------------------------------
(* One page is erased; the order is the target's own.                       *)
ErasePage ==
  /\ erasing
  /\ \/ /\ page0 # BlankPage
        /\ page0' = BlankPage
        /\ body' = body
     \/ \E b \in 1 .. Blocks :
          /\ body[b] # Blank
          /\ body' = [body EXCEPT ![b] = Blank]
          /\ page0' = page0
  /\ UNCHANGED <<cached, erasing, dirty, live, resets, boot>>

EraseDone ==
  /\ erasing
  /\ page0 = BlankPage
  /\ \A b \in 1 .. Blocks : body[b] = Blank
  /\ erasing' = FALSE
  /\ dirty' = FALSE
  /\ UNCHANGED <<page0, body, cached, live, resets, boot>>

(* Power cycle or watchdog: an erase stops where it is, the page kept in    *)
(* RAM is gone.  A USB handle dies with the device, a serial one survives.  *)
DeviceReset ==
  /\ resets < MaxResets
  /\ resets' = resets + 1
  /\ erasing' = FALSE
  /\ cached' = BlankPage
  /\ live' \in {live, FALSE}
  /\ UNCHANGED <<page0, body, dirty, boot>>

=============================================================================
