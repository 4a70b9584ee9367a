------------------------------- MODULE OsUpdate -------------------------------
(***************************************************************************)
(* Link::update_os on a device that runs its bootloader (Link.cpp): the     *)
(* image id is checked, the flash erased, the erase awaited, the image sent *)
(* piece by piece with its first page held back, optionally read back, and  *)
(* the first page written last, so that a device never starts a partly      *)
(* written OS.                                                              *)
(*                                                                         *)
(* Every call over the link may fail, and may take effect although its      *)
(* answer is lost; the host program may die between any two calls and be    *)
(* started again; the device may reset at any moment.                       *)
(***************************************************************************)
EXTENDS Bootloader

CONSTANT RetryCount   (* UpdateOs::bootloader_retry_count                   *)

ASSUME RetryAssumption == RetryCount \in Nat

VARIABLES
  pc,        (* where update_os is                                          *)
  upd,       (* number of the update, which is the image it installs        *)
  opt,       (* its options and its image                                   *)
  loc,       (* pieces sent, or compared, so far                            *)
  sigReq,    (* is_signature_required, as install_os understood the answer  *)
  startBuf,  (* start_address_buffer: GarbagePage until it is assigned      *)
  retry,     (* polls for the end of the erase that failed                  *)
  error,     (* the thread's error context holds an error                   *)
  faulty,    (* history: a call failed, was garbled or aborted              *)
  unread,    (* history: the comparison loop ended before the last piece    *)
  short      (* history: images that may have been installed without their  *)
             (* end                                                         *)

hostVars == <<pc, upd, opt, loc, sigReq, startBuf, retry, error,
              faulty, unread, short>>
vars     == <<deviceVars, hostVars>>

Running == {"validate", "erase", "poll", "open", "write", "sign",
            "verify", "start", "readback"}

(***************************************************************************)
(* verify: UpdateOs::is_verify.  signature: the one at the end of the image.*)
(* id: how the hardware id in the image compares with that of the           *)
(* bootloader.                                                              *)
(***************************************************************************)
Options == [verify : BOOLEAN, signature : {"none", "wrong", "right"},
            id : {"same", "lsb", "other"}]

TypeOK ==
  /\ DeviceTypeOK
  /\ pc \in Running \union {"idle", "done"}
  /\ upd \in Images
  /\ opt \in Options
  /\ loc \in 0 .. Blocks
  /\ sigReq \in BOOLEAN
  /\ startBuf \in Page
  /\ retry \in 0 .. RetryCount + 1
  /\ error \in BOOLEAN
  /\ faulty \in BOOLEAN
  /\ unread \in BOOLEAN
  /\ short \subseteq Images

Init ==
  /\ DeviceInit
  /\ pc = "idle"
  /\ upd = 0
  /\ opt \in Options
  /\ loc = 0
  /\ sigReq = FALSE
  /\ startBuf = GarbagePage
  /\ retry = 0
  /\ error = FALSE
  /\ faulty = FALSE
  /\ unread = FALSE
  /\ short = {}

Return(failed) ==
  /\ pc' = "done"
  /\ error' = (error \/ failed)

Goto(next) ==
  /\ pc' = next
  /\ error' = error

(* The first page as it is in the image of this update.                     *)
OwnPage == [img |-> upd, id |-> IF opt.id = "same" THEN "board" ELSE "revision"]

(* A piece as install_os sends it.  When it takes a signature to be required*)
(* it cuts sizeof(auth_signature_marker_t) off the image, which is the end  *)
(* of the OS itself if the image has no signature.                          *)
CutsOs(required) == required /\ opt.signature = "none"
OwnPiece(piece) == IF piece = Blocks /\ CutsOs(sigReq) THEN Short ELSE upd

-----------------------------------------------------------------------------
(* A program connects to the bootloader and calls update_os on the image of *)
(* the next update.  Connecting needs an answer, so no erase is under way.  *)
Start ==
  /\ pc \in {"idle", "done"}
  /\ upd < MaxUpdates
  /\ ~erasing
  /\ pc' = "validate"
  /\ upd' = upd + 1
  /\ opt' \in Options
  /\ loc' = 0
  /\ sigReq' = FALSE
  /\ startBuf' = GarbagePage
  /\ retry' = 0
  /\ error' = FALSE
  /\ faulty' = FALSE
  /\ unread' = FALSE
  /\ live' = TRUE
  /\ UNCHANGED <<page0, body, cached, erasing, dirty, resets, boot, short>>

(* The ids are compared without their lowest bit.                           *)
IdAcceptedExactly(id) == id = "same"
IdAccepted(id) == id \in {"same", "lsb"}

(* validate_os_image_id_with_connected_bootloader                           *)
Validate ==
  /\ pc = "validate"
  /\ \E readable \in BOOLEAN :
       /\ IF readable /\ IdAccepted(opt.id) THEN Goto("erase") ELSE Return(TRUE)
       /\ faulty' = (faulty \/ ~readable)
  /\ UNCHANGED <<deviceVars, upd, opt, loc, sigReq, startBuf, retry,
                 unread, short>>

MayPollAnyway(answered) == TRUE
MayPoll(answered) == answered

(* erase_os, the request                                                    *)
Erase ==
  /\ pc = "erase"
  /\ \E taken, answered \in BOOLEAN :
       /\ answered => taken
       /\ TakeErase(taken)
       /\ IF MayPoll(answered) THEN Goto("poll") ELSE Return(TRUE)
       /\ faulty' = (faulty \/ ~answered)
  /\ UNCHANGED <<page0, body, cached, live, resets, boot,
                 upd, opt, loc, sigReq, startBuf, retry, unread, short>>

PollForever(failures) == TRUE
PollAgain(failures) == failures < RetryCount

(* erase_os, one round of the loop that waits for the end of the erase.     *)
(* Each round resets the error, so running out of retries is not reported.  *)
(* The count is capped one above what the loop can reach.                   *)
Poll ==
  /\ pc = "poll"
  /\ \E answered \in BOOLEAN :
       /\ answered => Listening
       /\ Goto(IF ~answered /\ PollAgain(retry) THEN "poll" ELSE "open")
       /\ retry' = IF answered \/ retry > RetryCount + 1 THEN retry ELSE retry + 1
       /\ faulty' = (faulty \/ (~answered /\ (Listening \/ ~PollAgain(retry))))
  /\ UNCHANGED <<deviceVars, upd, opt, loc, sigReq, startBuf, unread, short>>

MayInstallUnpolled(imageRead, attrRead) == imageRead
MayInstall(imageRead, attrRead) == imageRead /\ attrRead

(* install_os up to the first transfer: rewinds and copies the image, asks  *)
(* for the attributes again and whether a signature is required, and returns*)
(* if the first two failed.  A failure of the last one is a negative number,*)
(* which sets no error and counts as "required".                            *)
Open ==
  /\ pc = "open"
  /\ \E imageRead, answered, sigAnswered \in BOOLEAN :
       /\ answered \/ sigAnswered => Listening
       /\ IF MayInstall(imageRead, answered) THEN Goto("write") ELSE Return(TRUE)
       /\ sigReq' = (boot.signed \/ ~sigAnswered)
       /\ faulty' = (faulty \/ ~imageRead \/ ~answered \/ ~sigAnswered)
  /\ short' = IF CutsOs(sigReq') THEN short \union {upd} ELSE short
  /\ loc' = 0
  /\ UNCHANGED <<deviceVars, upd, opt, startBuf, retry, unread>>

(* Before version 0x400 the host keeps the first page of the first piece    *)
(* and sends 0xff in its place.                                             *)
HoldsNothingBack(piece) == FALSE
HoldsBack(piece) == ~boot.caches /\ piece = 1

(* The images an update that ends its transfers too early may install: its  *)
(* own, or, if not even the first piece was taken, that of the page a       *)
(* caching bootloader still keeps from an earlier update.                   *)
Unfinished(kept) == {upd, kept.img} \intersect Images

(* install_os, one round of the transfer loop.  A short or negative result  *)
(* and an abort by the progress callback both leave the loop with a nonzero *)
(* err, and no error is set.  A result of zero also leaves the loop, but err*)
(* is then 0 and the installation goes on as if all pieces had been sent.   *)
WritePiece ==
  LET piece == loc + 1 IN
  /\ pc = "write"
  /\ startBuf' = IF HoldsBack(piece) THEN OwnPage ELSE startBuf
  /\ \E taken, abort \in BOOLEAN, result \in {"full", "zero", "failed"} :
       /\ result = "full" => taken
       /\ TakePiece(taken, piece, OwnPiece(piece),
                    IF HoldsBack(piece) THEN BlankPage ELSE OwnPage)
       /\ loc' = IF result = "full" THEN piece ELSE loc
       /\ \/ /\ result = "full" /\ ~abort
             /\ Goto(IF piece = Blocks THEN "sign" ELSE "write")
          \/ /\ result = "full" /\ abort
             /\ Return(FALSE)
          \/ /\ result = "zero"
             /\ Goto("sign")
          \/ /\ result = "failed"
             /\ Return(FALSE)
       /\ short' = IF result = "zero" THEN short \union Unfinished(cached') ELSE short
       /\ faulty' = (faulty \/ result # "full" \/ abort
                       \/ body'[piece] = Garbage \/ cached' = GarbagePage)
  /\ UNCHANGED <<erasing, dirty, live, resets, boot, upd, opt, sigReq, retry,
                 unread>>

(* link_verify_signature is always called and its result never looked at.   *)
(* The comparison is left out whenever a signature is taken to be required. *)
Sign ==
  /\ pc = "sign"
  /\ \E taken \in BOOLEAN :
       /\ TakeSignature(taken, opt.signature = "right")
       /\ faulty' = (faulty \/ ~taken \/ page0' = GarbagePage)
  /\ loc' = 0
  /\ Goto(IF opt.verify /\ ~sigReq THEN "verify" ELSE "start")
  /\ UNCHANGED <<body, erasing, dirty, live, resets, boot,
                 upd, opt, sigReq, startBuf, retry, unread, short>>

MatchesFirstPageOnly(piece) == piece = 1 => page0 = BlankPage

(* What was read back is what was sent; the first page is expected to be    *)
(* 0xff, whatever the version of the bootloader.                            *)
Matches(piece) ==
  /\ body[piece] = upd
  /\ piece = 1 => page0 = BlankPage

(* install_os, one round of the comparison loop.  A difference or a short   *)
(* read is an error.  A negative or empty read, an abort or a failing image *)
(* file only end the loop, and the installation goes on (the last with an   *)
(* error).                                                                  *)
VerifyPiece ==
  LET piece == loc + 1 IN
  /\ pc = "verify"
  /\ \/ /\ \E abort \in BOOLEAN :
             /\ Readable /\ Matches(piece)
             /\ loc' = piece
             /\ Goto(IF abort \/ piece = Blocks THEN "start" ELSE "verify")
             /\ unread' = (unread \/ (abort /\ piece # Blocks))
             /\ faulty' = (faulty \/ abort)
     \/ /\ Readable /\ ~Matches(piece)
        /\ Return(TRUE)
        /\ UNCHANGED <<loc, unread, faulty>>
     \/ /\ Return(TRUE)                        \* 0 < result < bytes asked for
        /\ faulty' = TRUE
        /\ UNCHANGED <<loc, unread>>
     \/ /\ Goto("start")                       \* result <= 0
        /\ unread' = TRUE
        /\ faulty' = TRUE
        /\ loc' = loc
     \/ /\ pc' = "start"                       \* the image file fails
        /\ error' = TRUE
        /\ unread' = TRUE
        /\ faulty' = TRUE
        /\ loc' = loc
  /\ UNCHANGED <<deviceVars, upd, opt, sigReq, startBuf, retry, short>>

(* The hardware id in the first page is corrected if it differs.            *)
Corrected(page) == IF opt.id = "same" THEN page ELSE [page EXCEPT !.id = "board"]

(* install_os, the first page.  It is sent only to bootloaders before 0x400;*)
(* if that fails the flash is erased again, without looking at the result.  *)
WriteStart ==
  LET buf  == Corrected(startBuf)
      next == IF opt.verify THEN "readback" ELSE "done"
  IN
  /\ pc = "start"
  /\ startBuf' = buf
  /\ \/ /\ boot.caches
        /\ Goto(next)
        /\ UNCHANGED <<page0, erasing, dirty, faulty>>
     \/ /\ ~boot.caches
        /\ TakeFirstPage(TRUE, buf)
        /\ Goto(next)
        /\ faulty' = (faulty \/ page0' = GarbagePage)
        /\ UNCHANGED <<erasing, dirty>>
     \/ /\ ~boot.caches
        /\ \E taken, erased \in BOOLEAN :
             /\ TakeFirstPage(taken, buf)
             /\ TakeErase(erased)
        /\ Return(TRUE)
        /\ faulty' = TRUE
  /\ UNCHANGED <<body, cached, live, resets, boot, upd, opt, loc, sigReq, retry,
                 unread, short>>

(* install_os, reading the first page back.  On a caching bootloader the    *)
(* buffer it is compared with was never assigned.                           *)
ReadBack ==
  /\ pc = "readback"
  /\ \/ /\ Readable
        /\ startBuf.img = Garbage \/ page0 = startBuf
        /\ Return(FALSE)
        /\ UNCHANGED <<erasing, dirty, faulty>>
     \/ /\ Readable
        /\ startBuf.img = Garbage \/ page0 # startBuf
        /\ \E erased \in BOOLEAN : TakeErase(erased)
        /\ Return(TRUE)
        /\ faulty' = faulty
     \/ /\ Return(TRUE)                        \* the read fails
        /\ faulty' = (faulty \/ Readable)
        /\ UNCHANGED <<erasing, dirty>>
  /\ UNCHANGED <<page0, body, cached, live, resets, boot,
                 upd, opt, loc, sigReq, startBuf, retry, unread, short>>

(* The host program dies; a later Start is a new run of it.                 *)
Crash ==
  /\ pc \in Running
  /\ pc' = "idle"
  /\ UNCHANGED <<deviceVars, upd, opt, loc, sigReq, startBuf, retry, error,
                 faulty, unread, short>>

-----------------------------------------------------------------------------
HostStep == \/ Validate \/ Erase \/ Poll \/ Open \/ WritePiece
            \/ Sign \/ VerifyPiece \/ WriteStart \/ ReadBack

(* A device that resets while an update runs is one of the update's faults. *)
DeviceStep ==
  \/ (ErasePage \/ EraseDone) /\ UNCHANGED hostVars
  \/ /\ DeviceReset
     /\ faulty' = TRUE
     /\ UNCHANGED <<pc, upd, opt, loc, sigReq, startBuf, retry, error, unread,
                    short>>

Next == Start \/ HostStep \/ Crash \/ DeviceStep

(* Calls over the link return within the transport's timeouts, so the host  *)
(* goes on.  Nothing is assumed of the device, of the user or of crashes.   *)
Spec == Init /\ [][Next]_vars /\ WF_vars(HostStep)

-----------------------------------------------------------------------------
(* A device whose flash was not left half erased and whose first page holds *)
(* an image has every piece of that same image, never one of another: an    *)
(* update that failed, was aborted, lost its device or died at any point    *)
(* leaves either no valid first page or a whole image (pieces may still have*)
(* been garbled on the way, which is what verification is for).  Two updates*)
(* are excepted, which leave an image without its end: one whose request    *)
(* about the signature failed, on an image without a signature, and one that*)
(* had a result of zero for a transfer (see README).                        *)
NoPartialBoot ==
  page0.img \in Images /\ ~dirty
    => \A b \in 1 .. Blocks :
         \/ body[b] \in {page0.img, Garbage}
         \/ page0.img \in short /\ body[b] \in {Short, Blank}

(* From the first transfer on, the erase of this update has ended.  The loop*)
(* of erase_os cannot report that it gave up, so this rests on the second   *)
(* request for the attributes in install_os.                                *)
NoWriteWhileErasing ==
  pc \in {"write", "sign", "verify", "start", "readback"} => ~erasing

(* With verification on, a bootloader that leaves the first page to the host*)
(* never gets one on top of a piece that is garbled, cut or missing, unless *)
(* the comparison was cut short by a failed read or an abort, or left out   *)
(* because a signature is required or the request about it failed.          *)
VerifiedBoot ==
  opt.verify /\ ~sigReq /\ ~boot.caches /\ ~unread /\ ~dirty
    /\ page0.img = upd
    => \A b \in 1 .. Blocks : body[b] = upd

(* An update during which nothing failed ends with its image installed and  *)
(* reports no error, whatever earlier updates, crashes and resets left      *)
(* behind.  Excepted: the combinations of verification with a caching or a  *)
(* signature-checking bootloader, which the code gets wrong (see README).   *)
Expected == /\ opt.id # "other"
            /\ boot.signed => opt.signature = "right"
            /\ opt.verify => ~boot.caches /\ ~boot.signed

Installed == /\ page0.img = upd
             /\ \A b \in 1 .. Blocks : body[b] = upd

FaultFreeInstalls ==
  pc = "done" /\ ~faulty /\ Expected => Installed /\ ~error

(* The update implements the atomic slot of OsSlot: a half-erased flash is  *)
(* a torn slot, a blank or garbled first page an empty one, and a first page*)
(* with a piece of its image cut or missing a partial one.                  *)
Whole == \A b \in 1 .. Blocks : body[b] \in {page0.img, Garbage}

Slot == INSTANCE OsSlot WITH
          latest  <- upd,
          spoiled <- upd \in short,
          slot    <- IF dirty THEN -3
                     ELSE IF page0.img \notin Images THEN -1
                     ELSE IF Whole THEN page0.img ELSE -5

AtomicSlot == Slot!SlotSpec

(* Every call of update_os returns, even if the device never finishes its   *)
(* erase: the wait is bounded by bootloader_retry_count.                    *)
UpdateReturns == pc \in Running ~> pc \notin Running

=============================================================================
