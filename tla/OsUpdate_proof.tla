---------------------------- MODULE OsUpdate_proof ----------------------------
(***************************************************************************)
(* Proofs about OsUpdate for every number of pieces, updates, resets and    *)
(* retries.  Inv is the inductive invariant: NoPartialBoot is not inductive *)
(* by itself, because what makes the last write safe is that the flash was  *)
(* seen empty after the erase, that no erase can still be running, and that *)
(* the page kept back, on the host or in the target, is the one of the      *)
(* update that wrote all the pieces.                                        *)
(***************************************************************************)
EXTENDS OsUpdate, TLAPS

Transfer == {"write", "sign", "verify", "start", "readback"}

(* A loop that goes round again has a round left: without this the counters *)
(* could leave their types.                                                 *)
LoopBounds ==
  /\ pc \in {"validate", "erase"} => retry = 0
  /\ pc = "poll" => retry <= RetryCount
  /\ pc \in {"write", "verify"} => loc < Blocks

(* An erase in progress is an erase not completed.                          *)
EraseIsDirty == erasing => dirty

(* Between the request to erase and the first transfer, a flash that is not *)
(* dirty is empty.                                                          *)
EmptyBeforeTransfer ==
  pc \in {"poll", "open"} /\ ~dirty
    => page0 = BlankPage /\ \A b \in 1 .. Blocks : body[b] = Blank

(* Until the first page is written there is no image in it.                 *)
NoPageYet ==
  /\ pc \in {"write", "sign"} /\ ~dirty => page0.img \notin Images
  /\ pc \in {"verify", "start"} /\ ~boot.caches /\ ~dirty
       => page0.img \notin Images

(* The pieces sent so far are those of this update, and the others are blank*)
(* unless an erase was cut short.  Only an update that is in short goes on  *)
(* from the transfer with a piece that is cut or missing.                   *)
OfUpdate(b) == \/ body[b] \in {upd, Garbage}
               \/ upd \in short /\ body[b] \in {Short, Blank}

PiecesSent ==
  /\ pc = "write" => \A b \in 1 .. loc : OfUpdate(b)
  /\ pc = "write" /\ ~dirty => \A b \in loc + 1 .. Blocks : body[b] = Blank
  /\ pc \in Transfer \ {"write"} /\ ~dirty => \A b \in 1 .. Blocks : OfUpdate(b)

(* The page the host, or the target, keeps back is that of this update too, *)
(* except after a result of zero for the first piece, when a target may have*)
(* kept the page of an earlier update, and nothing was written.             *)
OldPage == /\ cached.img \in short
           /\ upd \in short
           /\ \A b \in 1 .. Blocks : body[b] = Blank

PageKept ==
  /\ startBuf.img \in {upd, Garbage}
  /\ boot.caches /\ pc = "write" /\ loc > 0 => cached.img \in {upd, Garbage, Blank}
  /\ boot.caches /\ pc = "sign" /\ ~dirty
       => cached.img \in {upd, Garbage, Blank} \/ OldPage

(* No image is that of a later update, and one that will be cut is noted.   *)
ShortSoFar ==
  /\ short \subseteq 0 .. upd
  /\ cached.img \in Images => cached.img <= upd
  /\ pc = "write" /\ CutsOs(sigReq) => upd \in short

Inv ==
  /\ TypeOK /\ LoopBounds
  /\ EraseIsDirty
  /\ NoWriteWhileErasing
  /\ EmptyBeforeTransfer
  /\ NoPageYet
  /\ PiecesSent
  /\ PageKept
  /\ ShortSoFar
  /\ NoPartialBoot

-----------------------------------------------------------------------------
(* The pages the host builds are pages, and the image number of an update   *)
(* is never one of the codes for blank or garbled flash.                    *)
LEMMA PagesAreTyped ==
  ASSUME TypeOK
  PROVE  /\ OwnPage \in Page /\ OwnPage.img = upd /\ OwnPage # BlankPage
         /\ Corrected(startBuf) \in Page
         /\ Corrected(startBuf).img = startBuf.img
         /\ BlankPage \in Page /\ GarbagePage \in Page
         /\ Images \subseteq Content
         /\ Blank \notin Images /\ Garbage \notin Images /\ Short \notin Images
         /\ \A b : OwnPiece(b) \in Content \ {Blank, Garbage}
<1>1. /\ Images \subseteq Content
      /\ Blank \notin Images /\ Garbage \notin Images /\ Short \notin Images
      /\ Short # Blank /\ Short # Garbage /\ Short \in Content
  BY BoundsAssumption DEF Content, Images, Blank, Garbage, Short
<1>2. BlankPage \in Page /\ GarbagePage \in Page
  BY DEF BlankPage, GarbagePage, Page, Content, Blank, Garbage, Short
<1>3. OwnPage \in Page /\ OwnPage.img = upd
  BY <1>1 DEF TypeOK, OwnPage, Page
<1>4. OwnPage # BlankPage
  BY <1>1, <1>3 DEF TypeOK, BlankPage
<1>5. Corrected(startBuf) \in Page /\ Corrected(startBuf).img = startBuf.img
  BY DEF TypeOK, Corrected, Page
<1>6. \A b : OwnPiece(b) \in Content \ {Blank, Garbage}
  BY <1>1 DEF TypeOK, OwnPiece
<1>7. QED BY <1>1, <1>2, <1>3, <1>4, <1>5, <1>6

LEMMA TypeInit == Init => TypeOK
<1> SUFFICES ASSUME Init PROVE TypeOK
  OBVIOUS
<1>1. [img |-> 0, id |-> "board"] \in Page /\ BlankPage \in Page /\ GarbagePage \in Page
  BY BoundsAssumption
     DEF Page, Content, Images, BlankPage, GarbagePage, Blank, Garbage, Short
<1>2. 0 \in Content /\ 0 \in Images
  BY BoundsAssumption DEF Content, Images
<1>3. DeviceTypeOK
  <2>1. page0 \in Page /\ cached \in Page /\ body \in [1 .. Blocks -> Content]
    BY <1>1, <1>2 DEF Init, DeviceInit
  <2>2. resets \in 0 .. MaxResets
    BY BoundsAssumption DEF Init, DeviceInit
  <2>3. QED BY <2>1, <2>2 DEF Init, DeviceInit, DeviceTypeOK
<1>4. loc \in 0 .. Blocks /\ retry \in 0 .. RetryCount + 1
  BY BoundsAssumption, RetryAssumption DEF Init
<1>5. QED BY <1>1, <1>2, <1>3, <1>4 DEF Init, TypeOK, Running

(* Every step keeps every variable in its type.                             *)
LEMMA TypeStep == TypeOK /\ LoopBounds /\ [Next]_vars => TypeOK'
<1> SUFFICES ASSUME TypeOK, LoopBounds, [Next]_vars PROVE TypeOK'
  OBVIOUS
<1>0. /\ OwnPage \in Page /\ Corrected(startBuf) \in Page
      /\ BlankPage \in Page /\ GarbagePage \in Page
      /\ Blank \in Content /\ Garbage \in Content /\ upd \in Images
      /\ \A b : OwnPiece(b) \in Content
  BY PagesAreTyped DEF TypeOK, Content
<1> USE DEF TypeOK, DeviceTypeOK, Running, Goto, Return
<1>1. CASE Start
  <2>1. upd' \in Images
    BY <1>1, BoundsAssumption DEF Start, Images
  <2>2. loc' \in 0 .. Blocks /\ retry' \in 0 .. RetryCount + 1
    BY <1>1, BoundsAssumption, RetryAssumption DEF Start
  <2>3. QED BY <1>0, <1>1, <2>1, <2>2 DEF Start
<1>2. CASE Validate
  BY <1>2 DEF Validate, deviceVars
<1>3. CASE Erase
  BY <1>3 DEF Erase, TakeErase
<1>4. CASE Poll
  <2>1. retry' \in 0 .. RetryCount + 1
    BY <1>4, RetryAssumption DEF Poll, LoopBounds
  <2>2. QED BY <1>4, <2>1 DEF Poll, deviceVars
<1>5. CASE Open
  <2>1. loc' \in 0 .. Blocks
    BY <1>5, BoundsAssumption DEF Open
  <2>2. sigReq' \in BOOLEAN /\ short' \subseteq Images
    BY <1>0, <1>5 DEF Open
  <2>3. QED BY <1>5, <2>1, <2>2 DEF Open, deviceVars
<1>6. CASE WritePiece
  <2>1. startBuf' \in Page
    BY <1>0, <1>6 DEF WritePiece
  <2>2. loc' \in 0 .. Blocks
    BY <1>6, BoundsAssumption DEF WritePiece, LoopBounds
  <2>3. body' \in [1 .. Blocks -> Content] /\ cached' \in Page /\ page0' \in Page
    BY <1>0, <1>6 DEF WritePiece, TakePiece
  <2>4. short' \subseteq Images
    BY <1>6 DEF WritePiece, Unfinished
  <2>5. pc' \in Running \union {"idle", "done"} /\ error' \in BOOLEAN /\ faulty' \in BOOLEAN
    BY <1>6 DEF WritePiece
  <2>6. QED BY <1>6, <2>1, <2>2, <2>3, <2>4, <2>5 DEF WritePiece
<1>7. CASE Sign
  <2>1. loc' \in 0 .. Blocks
    BY <1>7, BoundsAssumption DEF Sign
  <2>2. page0' \in Page /\ cached' \in Page
    BY <1>0, <1>7 DEF Sign, TakeSignature
  <2>3. QED BY <1>7, <2>1, <2>2 DEF Sign
<1>8. CASE VerifyPiece
  <2>1. loc' \in 0 .. Blocks
    BY <1>8, BoundsAssumption DEF VerifyPiece, LoopBounds
  <2>2. QED BY <1>8, <2>1 DEF VerifyPiece, deviceVars
<1>9. CASE WriteStart
  BY <1>0, <1>9 DEF WriteStart, TakeFirstPage, TakeErase
<1>10. CASE ReadBack
  BY <1>10 DEF ReadBack, TakeErase
<1>11. CASE Crash
  BY <1>11 DEF Crash, deviceVars
<1>12. CASE DeviceStep
  <2>1. CASE ErasePage /\ UNCHANGED hostVars
    BY <1>0, <2>1 DEF ErasePage, hostVars
  <2>2. CASE EraseDone /\ UNCHANGED hostVars
    BY <2>2 DEF EraseDone, hostVars
  <2>3. CASE DeviceReset /\ faulty' = TRUE
               /\ UNCHANGED <<pc, upd, opt, loc, sigReq, startBuf, retry, error, unread,
                              short>>
    <3>1. resets' \in 0 .. MaxResets
      BY <2>3, BoundsAssumption DEF DeviceReset
    <3>2. QED BY <1>0, <2>3, <3>1 DEF DeviceReset
  <2>4. QED BY <1>12, <2>1, <2>2, <2>3 DEF DeviceStep
<1>13. CASE UNCHANGED vars
  BY <1>13 DEF vars, deviceVars, hostVars
<1>14. QED
  BY <1>1, <1>2, <1>3, <1>4, <1>5, <1>6, <1>7, <1>8, <1>9, <1>10, <1>11,
     <1>12, <1>13 DEF Next, HostStep

(* Every step keeps the bounds of the loops.                                *)
LEMMA LoopBoundsStep == TypeOK /\ LoopBounds /\ [Next]_vars => LoopBounds'
<1> SUFFICES ASSUME TypeOK, LoopBounds, [Next]_vars PROVE LoopBounds'
  OBVIOUS
<1> USE RetryAssumption, BoundsAssumption DEF LoopBounds, TypeOK, Goto, Return
<1>1. CASE Start           BY <1>1 DEF Start
<1>2. CASE Validate        BY <1>2 DEF Validate
<1>3. CASE Erase           BY <1>3 DEF Erase
<1>4. CASE Poll            BY <1>4 DEF Poll, PollAgain
<1>5. CASE Open            BY <1>5 DEF Open
<1>6. CASE WritePiece      BY <1>6 DEF WritePiece
<1>7. CASE Sign            BY <1>7 DEF Sign
<1>8. CASE VerifyPiece     BY <1>8 DEF VerifyPiece
<1>9. CASE WriteStart      BY <1>9 DEF WriteStart
<1>10. CASE ReadBack       BY <1>10 DEF ReadBack
<1>11. CASE Crash          BY <1>11 DEF Crash, Running
<1>12. CASE DeviceStep     BY <1>12 DEF DeviceStep, hostVars
<1>13. CASE UNCHANGED vars BY <1>13 DEF vars, hostVars
<1>14. QED
  BY <1>1, <1>2, <1>3, <1>4, <1>5, <1>6, <1>7, <1>8, <1>9, <1>10, <1>11,
     <1>12, <1>13 DEF Next, HostStep

(* Every variable stays in its type, for every number of pieces, updates,   *)
(* resets and retries.                                                      *)
THEOREM TypeCorrect == Spec => []TypeOK
<1>1. Init => TypeOK /\ LoopBounds
  BY TypeInit DEF Init, LoopBounds
<1>2. TypeOK /\ LoopBounds /\ [Next]_vars => (TypeOK /\ LoopBounds)'
  BY TypeStep, LoopBoundsStep
<1>3. QED BY <1>1, <1>2, PTL DEF Spec

-----------------------------------------------------------------------------
(* The part of Inv that is not about types.                                 *)
SafeInv == EraseIsDirty /\ NoWriteWhileErasing /\ EmptyBeforeTransfer
             /\ NoPageYet /\ PiecesSent /\ PageKept /\ ShortSoFar /\ NoPartialBoot

LEMMA SafeInit == Init => SafeInv
<1> SUFFICES ASSUME Init PROVE SafeInv
  OBVIOUS
<1>1. \A b \in 1 .. Blocks : body[b] = 0
  BY DEF Init, DeviceInit
<1>2. page0.img = 0
  BY DEF Init, DeviceInit
<1>3. startBuf.img \in {upd, Garbage}
  BY DEF Init, GarbagePage
<1>4. cached.img \notin Images
  BY PagesAreTyped, TypeInit DEF Init, DeviceInit, BlankPage
<1>5. ShortSoFar
  BY <1>4 DEF Init, ShortSoFar
<1>6. QED
  BY <1>1, <1>2, <1>3, <1>5
     DEF Init, DeviceInit, SafeInv, EraseIsDirty, NoWriteWhileErasing,
         EmptyBeforeTransfer, NoPageYet, PiecesSent, PageKept, NoPartialBoot,
         Transfer

(* The three ways a round of the transfer loop ends: the piece was sent, the*)
(* loop ends with a result of zero, the installation ends.                  *)
OthersKept(piece) == \A b \in 1 .. Blocks : b # piece => body'[b] = body[b]

SentPiece(piece) ==
  /\ pc' = IF piece = Blocks THEN "sign" ELSE "write"
  /\ loc' = piece
  /\ short' = short
  /\ body'[piece] \in {OwnPiece(piece), Garbage}
  /\ boot.caches /\ piece = 1 => cached' \in {OwnPage, GarbagePage}

EndsAtZero(piece) ==
  /\ pc' = "sign"
  /\ short' = short \union Unfinished(cached')
  /\ body'[piece] \in {body[piece], OwnPiece(piece), Garbage}
  /\ \/ body' = body /\ cached' = cached
     \/ boot.caches /\ piece = 1 => cached' \in {OwnPage, GarbagePage}

LEMMA WriteEffects ==
  ASSUME TypeOK, LoopBounds, WritePiece
  PROVE  /\ pc = "write" /\ loc \in Nat /\ Blocks \in Nat /\ loc < Blocks
         /\ page0' = page0 /\ startBuf' \in {startBuf, OwnPage}
         /\ UNCHANGED <<erasing, dirty, live, upd, boot, opt, sigReq, unread>>
         /\ \/ cached' = cached
            \/ boot.caches /\ loc = 0 /\ cached' \in {OwnPage, GarbagePage}
         /\ OthersKept(loc + 1)
         /\ SentPiece(loc + 1) \/ EndsAtZero(loc + 1) \/ (pc' = "done" /\ short' = short)
<1> DEFINE piece == loc + 1
           first == IF HoldsBack(piece) THEN BlankPage ELSE OwnPage
<1>1. PICK taken \in BOOLEAN, result \in {"full", "zero", "failed"} :
        /\ result = "full" => taken
        /\ TakePiece(taken, piece, OwnPiece(piece), first)
        /\ loc' = IF result = "full" THEN piece ELSE loc
        /\ \/ result = "full" /\ pc' = IF piece = Blocks THEN "sign" ELSE "write"
           \/ result = "zero" /\ pc' = "sign"
           \/ result # "zero" /\ pc' = "done"
        /\ short' = IF result = "zero" THEN short \union Unfinished(cached') ELSE short
  BY DEF WritePiece, Goto, Return
<1>2. /\ pc = "write" /\ loc \in Nat /\ loc < Blocks /\ Blocks \in Nat
      /\ UNCHANGED <<erasing, dirty, live, upd, boot, opt, sigReq, unread>>
      /\ body \in [1 .. Blocks -> Content] /\ piece \in 1 .. Blocks
      /\ startBuf' \in {startBuf, OwnPage}
  BY BoundsAssumption DEF WritePiece, LoopBounds, TypeOK, DeviceTypeOK
<1>3. page0' = page0
  BY <1>1, <1>2 DEF TakePiece, HoldsBack
<1>4. ~taken => body' = body /\ cached' = cached
  BY <1>1 DEF TakePiece
<1>5. taken => /\ body'[piece] \in {OwnPiece(piece), Garbage}
               /\ OthersKept(piece)
  BY <1>1, <1>2 DEF TakePiece, OthersKept
<1>6. boot.caches /\ piece = 1 => first = OwnPage
  BY DEF HoldsBack
<1>7. taken /\ boot.caches /\ piece = 1 => cached' \in {OwnPage, GarbagePage}
  BY <1>1, <1>6 DEF TakePiece
<1>8. cached' = cached \/ (boot.caches /\ loc = 0 /\ cached' \in {OwnPage, GarbagePage})
  BY <1>1, <1>2, <1>6 DEF TakePiece
<1>9. OthersKept(piece)
  BY <1>4, <1>5 DEF OthersKept
<1> HIDE DEF piece, first
<1>10. SentPiece(piece) \/ EndsAtZero(piece) \/ (pc' = "done" /\ short' = short)
  <2>1. CASE result = "full" /\ pc' # "done"
    BY <1>1, <1>5, <1>7, <2>1 DEF SentPiece
  <2>2. CASE result = "zero"
    BY <1>1, <1>4, <1>5, <1>7, <2>2 DEF EndsAtZero
  <2>3. CASE result = "failed" \/ (result = "full" /\ pc' = "done")
    BY <1>1, <2>3
  <2>4. QED BY <2>1, <2>2, <2>3
<1>11. QED BY <1>2, <1>3, <1>8, <1>9, <1>10 DEF piece

(* Every step keeps it.                                                     *)
LEMMA SafeStep ==
  ASSUME TypeOK, LoopBounds, SafeInv, [Next]_vars
  PROVE  SafeInv'
<1>0. /\ Blank \notin Images /\ Garbage \notin Images /\ upd \in Images
      /\ OwnPage.img = upd /\ OwnPage # BlankPage
      /\ Corrected(startBuf).img = startBuf.img
      /\ BlankPage.img = Blank /\ GarbagePage.img = Garbage
      /\ upd \in 0 .. upd /\ Images \subseteq Nat /\ upd <= upd
      /\ cached.img \in Images \union {Blank, Garbage}
  <2>1. upd \in Nat /\ Images \subseteq Nat
    BY BoundsAssumption DEF TypeOK, Images
  <2>2. cached.img \in Images \union {Blank, Garbage}
    BY DEF TypeOK, DeviceTypeOK, Page, Content
  <2>3. QED BY <2>1, <2>2, PagesAreTyped DEF TypeOK, BlankPage, GarbagePage
<1> USE DEF SafeInv, EraseIsDirty, NoWriteWhileErasing, EmptyBeforeTransfer,
            NoPageYet, PiecesSent, PageKept, ShortSoFar, NoPartialBoot, Transfer,
            OfUpdate, OldPage, Goto, Return
<1>1. CASE Start
  <2>1. /\ pc' = "validate" /\ ~erasing /\ upd' = upd + 1
        /\ startBuf' = GarbagePage
        /\ UNCHANGED <<page0, body, cached, erasing, dirty, boot, short>>
    BY <1>1 DEF Start
  <2>2. short \subseteq 0 .. upd' /\ (cached.img \in Images => cached.img <= upd')
    <3>1. \A i, j \in Nat : i <= j => i <= j + 1
      OBVIOUS
    <3>2. upd \in Nat /\ 0 .. upd \subseteq 0 .. upd + 1
      BY <1>0
    <3>3. QED BY <1>0, <2>1, <3>1, <3>2
  <2>3. QED BY <1>0, <2>1, <2>2
<1>2. CASE Validate
  BY <1>2 DEF Validate, deviceVars
<1>3. CASE Erase
  BY <1>3 DEF Erase, TakeErase, MayPoll
<1>4. CASE Poll
  BY <1>4 DEF Poll, deviceVars
<1>5. CASE Open
  <2>1. /\ pc = "open" /\ pc' \in {"write", "done"} /\ loc' = 0
        /\ UNCHANGED <<deviceVars, upd, startBuf, opt>>
        /\ short' = IF CutsOs(sigReq') THEN short \union {upd} ELSE short
    BY <1>5 DEF Open
  <2>2. pc' = "write" => ~erasing
    BY <1>5 DEF Open, MayInstall, Listening
  <2>3. short \subseteq short' /\ short' \subseteq 0 .. upd
        /\ (CutsOs(sigReq)' => upd \in short')
    BY <1>0, <2>1 DEF CutsOs
  <2>4. pc' = "write" /\ ~dirty => \A b \in loc' + 1 .. Blocks : body[b] = Blank
    BY <2>1
  <2>5. QED BY <1>0, <2>1, <2>2, <2>3, <2>4 DEF deviceVars
<1>6. CASE WritePiece
  <2>0. /\ pc = "write" /\ loc \in Nat /\ Blocks \in Nat /\ loc < Blocks
        /\ page0' = page0 /\ startBuf' \in {startBuf, OwnPage}
        /\ UNCHANGED <<erasing, dirty, upd, boot, opt, sigReq>>
        /\ cached' = cached \/ cached' \in {OwnPage, GarbagePage}
    BY <1>6, WriteEffects
  <2>1. (SentPiece(loc + 1) \/ EndsAtZero(loc + 1) \/ (pc' = "done" /\ short' = short))
          /\ OthersKept(loc + 1)
    BY <1>6, WriteEffects
  <2>2. OwnPiece(loc + 1) = upd \/ (OwnPiece(loc + 1) = Short /\ upd \in short)
    BY <2>0 DEF OwnPiece
  <2>3. EraseIsDirty' /\ NoWriteWhileErasing' /\ EmptyBeforeTransfer' /\ NoPageYet'
        /\ NoPartialBoot'
    <3>1. pc' \in {"write", "sign", "done"}
      BY <2>1 DEF SentPiece, EndsAtZero
    <3>2. QED BY <2>0, <3>1
  <2>4. PiecesSent'
    <3>1. CASE SentPiece(loc + 1)
      <4>1. ASSUME NEW b \in 1 .. loc + 1 PROVE OfUpdate(b)'
        <5>1. CASE b = loc + 1
          BY <2>0, <2>2, <3>1, <5>1 DEF SentPiece
        <5>2. CASE b # loc + 1
          <6>1. b \in 1 .. loc /\ b \in 1 .. Blocks
            BY <2>0, <5>2
          <6>2. body'[b] = body[b]
            BY <2>1, <5>2, <6>1 DEF OthersKept
          <6>3. QED BY <2>0, <3>1, <6>1, <6>2 DEF SentPiece
        <5>3. QED BY <5>1, <5>2
      <4>2. ASSUME NEW b \in loc + 1 + 1 .. Blocks, ~dirty PROVE body'[b] = Blank
        <5>1. b \in 1 .. Blocks /\ b # loc + 1 /\ b \in loc + 1 .. Blocks
          BY <2>0
        <5>2. QED BY <2>0, <2>1, <4>2, <5>1 DEF OthersKept
      <4>3. pc' \in {"write", "sign"} /\ loc' = loc + 1
            /\ (pc' = "sign" => loc + 1 = Blocks)
        BY <3>1 DEF SentPiece
      <4>4. QED BY <2>0, <4>1, <4>2, <4>3
    <3>2. CASE EndsAtZero(loc + 1)
      <4>1. ASSUME NEW b \in 1 .. Blocks, ~dirty PROVE OfUpdate(b)'
        <5>1. upd \in short' /\ upd' = upd
          BY <1>0, <2>0, <3>2 DEF EndsAtZero, Unfinished
        <5>2. CASE b = loc + 1
          <6>1. body[b] = Blank
            BY <2>0, <4>1, <5>2
          <6>2. QED BY <2>2, <3>2, <5>1, <5>2, <6>1 DEF EndsAtZero
        <5>3. CASE b # loc + 1
          <6>1. body'[b] = body[b] /\ (b \in 1 .. loc \/ b \in loc + 1 .. Blocks)
            BY <2>0, <2>1, <5>3 DEF OthersKept
          <6>2. QED BY <2>0, <4>1, <5>1, <6>1
        <5>4. QED BY <5>2, <5>3
      <4>2. pc' = "sign" /\ dirty' = dirty
        BY <2>0, <3>2 DEF EndsAtZero
      <4>3. QED BY <4>1, <4>2
    <3>3. CASE pc' = "done"
      BY <3>3
    <3>4. QED BY <2>1, <3>1, <3>2, <3>3
  <2>5. PageKept'
    <3>1. startBuf'.img \in {upd', Garbage}
      BY <1>0, <2>0
    <3>2. CASE SentPiece(loc + 1)
      <4>1. boot.caches => cached'.img \in {upd, Garbage, Blank}
        BY <1>0, <2>0, <3>2 DEF SentPiece
      <4>2. QED BY <2>0, <3>1, <4>1
    <3>3. CASE EndsAtZero(loc + 1)
      <4>1. ASSUME boot.caches, ~dirty
            PROVE  cached'.img \in {upd, Garbage, Blank} \/ OldPage'
        <5>1. CASE loc > 0 \/ cached' \in {OwnPage, GarbagePage}
          BY <1>0, <2>0, <4>1, <5>1
        <5>2. CASE loc = 0 /\ cached' \notin {OwnPage, GarbagePage}
          <6>1. cached' = cached /\ body' = body
            BY <2>0, <3>3, <4>1, <5>2 DEF EndsAtZero
          <6>2. \A b \in 1 .. Blocks : body[b] = Blank
            BY <2>0, <4>1, <5>2
          <6>3. cached.img \in Images => OldPage'
            BY <1>0, <2>0, <3>3, <6>1, <6>2 DEF EndsAtZero, Unfinished
          <6>4. QED BY <1>0, <6>1, <6>3
        <5>3. QED BY <2>0, <5>1, <5>2
      <4>2. pc' = "sign"
        BY <3>3 DEF EndsAtZero
      <4>3. QED BY <2>0, <3>1, <4>1, <4>2
    <3>4. CASE pc' = "done"
      BY <3>1, <3>4
    <3>5. QED BY <2>1, <3>2, <3>3, <3>4
  <2>6. ShortSoFar'
    <3>1. cached'.img \in Images => cached'.img <= upd
      BY <1>0, <2>0
    <3>2. short \subseteq short' /\ short' \subseteq 0 .. upd
      <4>1. \A i, j \in Nat : i <= j => i \in 0 .. j
        OBVIOUS
      <4>2. Unfinished(cached') \subseteq 0 .. upd
        BY <1>0, <3>1, <4>1 DEF Unfinished
      <4>3. short' = short \/ short' = short \union Unfinished(cached')
        BY <2>1 DEF SentPiece, EndsAtZero
      <4>4. QED BY <4>2, <4>3
    <3>3. CutsOs(sigReq)' <=> CutsOs(sigReq)
      BY <2>0 DEF CutsOs
    <3>4. QED BY <2>0, <3>1, <3>2, <3>3
  <2>7. QED BY <2>3, <2>4, <2>5, <2>6
<1>7. CASE Sign
  BY <1>0, <1>7 DEF Sign, TakeSignature
<1>8. CASE VerifyPiece
  BY <1>8 DEF VerifyPiece, deviceVars
<1>9. CASE WriteStart
  <2>1. /\ pc = "start" /\ pc' \in {"readback", "done"}
        /\ UNCHANGED <<body, cached, upd, short>> /\ startBuf'.img = startBuf.img
        /\ boot' = boot /\ (dirty => dirty')
    BY <1>0, <1>9 DEF WriteStart, TakeErase
  <2>2. erasing' => dirty'
    BY <1>9 DEF WriteStart, TakeErase
  <2>3. pc' = "readback" => ~erasing'
    BY <1>9 DEF WriteStart
  <2>4. page0'.img \in {page0.img, upd, Garbage}
    BY <1>0, <1>9 DEF WriteStart, TakeFirstPage
  <2>5. ~dirty' => \A b \in 1 .. Blocks : OfUpdate(b)'
    BY <2>1
  <2>6. NoPartialBoot'
    BY <1>0, <2>1, <2>4, <2>5
  <2>7. PiecesSent' /\ PageKept' /\ ShortSoFar'
    BY <2>1, <2>5
  <2>8. QED
    BY <2>1, <2>2, <2>3, <2>6, <2>7
<1>10. CASE ReadBack
  <2>1. /\ pc' = "done" /\ UNCHANGED <<page0, body, cached, upd, startBuf, boot, short>>
    BY <1>10 DEF ReadBack
  <2>2. dirty => dirty'
    BY <1>10 DEF ReadBack, TakeErase
  <2>3. erasing' => dirty'
    BY <1>10 DEF ReadBack, TakeErase
  <2>4. QED BY <2>1, <2>2, <2>3
<1>11. CASE Crash
  BY <1>11 DEF Crash, deviceVars
<1>12. CASE DeviceStep
  <2>1. CASE ErasePage /\ UNCHANGED hostVars
    BY <1>0, <2>1 DEF ErasePage, hostVars
  <2>2. CASE EraseDone /\ UNCHANGED hostVars
    BY <1>0, <2>2 DEF EraseDone, hostVars
  <2>3. CASE DeviceReset /\ faulty' = TRUE
               /\ UNCHANGED <<pc, upd, opt, loc, sigReq, startBuf, retry, error, unread,
                              short>>
    BY <1>0, <2>3 DEF DeviceReset, CutsOs
  <2>4. QED BY <1>12, <2>1, <2>2, <2>3 DEF DeviceStep
<1>13. CASE UNCHANGED vars
  BY <1>13 DEF vars, deviceVars, hostVars, CutsOs
<1>14. QED
  BY <1>1, <1>2, <1>3, <1>4, <1>5, <1>6, <1>7, <1>8, <1>9, <1>10, <1>11,
     <1>12, <1>13 DEF Next, HostStep

LEMMA Invariance == Spec => []Inv
<1>1. Init => Inv
  BY TypeInit, SafeInit DEF Init, LoopBounds, Inv, SafeInv
<1>2. Inv /\ [Next]_vars => Inv'
  BY TypeStep, LoopBoundsStep, SafeStep DEF Inv, SafeInv
<1>3. QED BY <1>1, <1>2, PTL DEF Spec

(* Whatever fails, a device is never left with the first page of an image   *)
(* whose other pieces belong to another image, nor with one whose pieces are*)
(* missing, unless a transfer gave a result of zero or the request about the*)
(* signature failed on an image without one.                                *)
THEOREM BootSafe == Spec => []NoPartialBoot
<1>1. Inv => NoPartialBoot    BY DEF Inv
<1>2. QED BY <1>1, Invariance, PTL

(* The host never sends a piece while the target still erases, although the *)
(* loop that waits for the erase gives up without reporting it.             *)
THEOREM NoWriteDuringErase == Spec => []NoWriteWhileErasing
<1>1. Inv => NoWriteWhileErasing    BY DEF Inv
<1>2. QED BY <1>1, Invariance, PTL

-----------------------------------------------------------------------------
LEMMA SlotInitially == Init => Slot!SlotInit
BY PagesAreTyped, BoundsAssumption DEF Init, DeviceInit, Slot!SlotInit, Images, Whole

(* Every step of the update is a step of the slot or leaves it alone: Start *)
(* begins an update, a request to erase tears the slot, the end of the erase*)
(* empties it, a transfer that ends too early spoils the update, and the one*)
(* write of a first page installs the latest image, all of it if the update *)
(* is not spoilt.                                                           *)
LEMMA SlotStep ==
  ASSUME Inv, [Next]_vars
  PROVE  [Slot!Begin \/ Slot!Spoil \/ Slot!Lose \/ Slot!Install]_(Slot!slotVars)
<1>0. /\ Blank \notin Images /\ Garbage \notin Images /\ Short \notin Images
      /\ Blank # Garbage /\ upd \in Images
      /\ Corrected(startBuf).img = startBuf.img
      /\ BlankPage.img = Blank /\ GarbagePage.img = Garbage
      /\ dirty \in BOOLEAN
  BY PagesAreTyped
     DEF Inv, TypeOK, DeviceTypeOK, BlankPage, GarbagePage, Blank, Garbage
<1> USE DEF Slot!Begin, Slot!Spoil, Slot!Lose, Slot!Install, Slot!slotVars,
            Slot!Torn, Slot!Empty, Slot!Partial, Whole, Goto, Return
<1>1. CASE Start
  <2>1. \A i \in Nat : i + 1 \notin 0 .. i
    OBVIOUS
  <2>2. upd \in Nat /\ upd' = upd + 1 /\ short' = short /\ upd < MaxUpdates
    BY <1>0, <1>1, BoundsAssumption DEF Start, Images
  <2>3. upd' \notin short'
    BY <2>1, <2>2 DEF Inv, ShortSoFar
  <2>4. UNCHANGED <<page0, body, dirty>>
    BY <1>1 DEF Start
  <2>5. QED BY <2>2, <2>3, <2>4
<1>2. CASE Validate
  BY <1>2 DEF Validate, deviceVars
<1>3. CASE Erase
  BY <1>0, <1>3 DEF Erase, TakeErase
<1>4. CASE Poll
  BY <1>4 DEF Poll, deviceVars
<1>5. CASE Open
  <2>1. UNCHANGED <<page0, body, dirty, upd>>
        /\ (short' = short \/ short' = short \union {upd})
    BY <1>5 DEF Open, deviceVars
  <2>2. QED BY <2>1
<1>6. CASE WritePiece
  <2>1. /\ UNCHANGED <<page0, dirty, upd>> /\ pc = "write"
        /\ short' = short \/ short' = short \union Unfinished(cached')
    BY <1>6, WriteEffects DEF Inv, SentPiece, EndsAtZero
  <2>2. ~dirty => page0.img \notin Images
    BY <2>1 DEF Inv, NoPageYet
  <2>3. (upd \in short)' = (upd \in short) \/ (upd \in short)'
    BY <2>1
  <2>4. QED BY <2>1, <2>2, <2>3
<1>7. CASE Sign
  <2>1. /\ pc = "sign" /\ UNCHANGED <<dirty, upd, body, short>>
        /\ page0' = page0 \/ (page0' = GarbagePage /\ boot.caches)
             \/ (page0' = cached /\ boot.caches)
    BY <1>7 DEF Sign, TakeSignature
  <2>2. ~dirty => page0.img \notin Images
    BY <2>1 DEF Inv, NoPageYet
  <2>3. ~dirty => \A b \in 1 .. Blocks : OfUpdate(b)
    BY <2>1 DEF Inv, PiecesSent, Transfer
  <2>4. CASE ~dirty /\ page0' = cached /\ boot.caches /\ cached.img \in Images
    <3>1. cached.img = upd \/ OldPage
      BY <1>0, <2>1, <2>4 DEF Inv, PageKept
    <3>2. CASE cached.img = upd
      <4>1. ~Whole' => upd \in short
        BY <2>1, <2>3, <2>4, <3>2 DEF OfUpdate
      <4>2. QED BY <1>0, <2>1, <2>2, <2>4, <3>2, <4>1
    <3>3. CASE OldPage
      <4>1. 1 \in 1 .. Blocks /\ body[1] = Blank
        BY <3>3, BoundsAssumption DEF OldPage
      <4>2. ~Whole' /\ upd \in short
        BY <1>0, <2>1, <2>4, <3>3, <4>1 DEF OldPage
      <4>3. QED BY <1>0, <2>1, <2>2, <2>4, <4>2
    <3>4. QED BY <3>1, <3>2, <3>3
  <2>5. CASE ~dirty /\ page0'.img \notin Images
    BY <1>0, <2>1, <2>2, <2>5
  <2>6. CASE dirty \/ page0' = page0
    BY <2>1, <2>6
  <2>7. QED BY <1>0, <2>1, <2>4, <2>5, <2>6
<1>8. CASE VerifyPiece
  BY <1>8 DEF VerifyPiece, deviceVars
<1>9. CASE WriteStart
  <2>1. /\ UNCHANGED <<upd, body, short>> /\ pc = "start"
        /\ page0' = page0 \/ page0'.img \in {upd, Garbage}
        /\ dirty => dirty'
    BY <1>0, <1>9 DEF WriteStart, TakeFirstPage, TakeErase, Inv, PageKept
  <2>2. ~dirty /\ page0' # page0 => page0.img \notin Images
    BY <1>9 DEF WriteStart, Inv, NoPageYet
  <2>3. dirty' \in BOOLEAN
    BY <1>0, <1>9 DEF WriteStart, TakeErase
  <2>4. ~dirty => \A b \in 1 .. Blocks : OfUpdate(b)
    BY <2>1 DEF Inv, PiecesSent, Transfer
  <2>5. CASE ~dirty' /\ page0' # page0 /\ page0'.img = upd
    <3>1. ~Whole' => upd \in short
      BY <2>1, <2>4, <2>5 DEF OfUpdate
    <3>2. QED BY <1>0, <2>1, <2>2, <2>5, <3>1
  <2>6. CASE dirty' \/ page0' = page0 \/ page0'.img = Garbage
    BY <1>0, <2>1, <2>2, <2>3, <2>6
  <2>7. QED BY <2>1, <2>5, <2>6
<1>10. CASE ReadBack
  BY <1>0, <1>10 DEF ReadBack, TakeErase
<1>11. CASE Crash
  BY <1>11 DEF Crash, deviceVars
<1>12. CASE DeviceStep
  <2>1. CASE ErasePage /\ UNCHANGED hostVars
    BY <1>0, <2>1 DEF ErasePage, hostVars, Inv, EraseIsDirty
  <2>2. CASE EraseDone /\ UNCHANGED hostVars
    BY <1>0, <2>2 DEF EraseDone, hostVars, Inv, EraseIsDirty
  <2>3. CASE DeviceReset /\ faulty' = TRUE
               /\ UNCHANGED <<pc, upd, opt, loc, sigReq, startBuf, retry, error, unread,
                              short>>
    BY <2>3 DEF DeviceReset
  <2>4. QED BY <1>12, <2>1, <2>2, <2>3 DEF DeviceStep
<1>13. CASE UNCHANGED vars
  BY <1>13 DEF vars, deviceVars, hostVars
<1>14. QED
  BY <1>1, <1>2, <1>3, <1>4, <1>5, <1>6, <1>7, <1>8, <1>9, <1>10, <1>11,
     <1>12, <1>13 DEF Next, HostStep

(* The update implements the atomic slot.                                   *)
THEOREM Refinement == Spec => AtomicSlot
<1>1. Init => Slot!SlotInit
  BY SlotInitially
<1>2. Inv /\ [Next]_vars
        => [Slot!Begin \/ Slot!Spoil \/ Slot!Lose \/ Slot!Install]_(Slot!slotVars)
  BY SlotStep
<1>3. QED BY <1>1, <1>2, Invariance, PTL DEF Spec, AtomicSlot, Slot!SlotSpec

-----------------------------------------------------------------------------
(* Verification.  The number of an update is new: until it writes its first *)
(* page no first page has it.                                               *)
NumberIsNew ==
  /\ page0.img \in Images => page0.img <= upd
  /\ pc \in Running \ {"readback"} /\ ~boot.caches => page0.img # upd

(* What has been compared, and was not cut short, is as it was sent.        *)
Compared ==
  opt.verify /\ ~sigReq /\ ~unread
    => /\ pc = "verify" => \A b \in 1 .. loc : body[b] = upd
       /\ pc = "start"  => \A b \in 1 .. Blocks : body[b] = upd

VerifyInv == Inv /\ NumberIsNew /\ Compared /\ VerifiedBoot

LEMMA VerifyInit == Init => VerifyInv
<1> SUFFICES ASSUME Init PROVE VerifyInv
  OBVIOUS
<1>1. Inv
  BY TypeInit, SafeInit DEF Init, LoopBounds, Inv, SafeInv
<1>2. page0.img = 0 /\ \A b \in 1 .. Blocks : body[b] = 0
  BY DEF Init, DeviceInit
<1>3. QED
  BY <1>1, <1>2
     DEF Init, VerifyInv, NumberIsNew, Compared, VerifiedBoot, Running

LEMMA VerifyStep ==
  ASSUME VerifyInv, [Next]_vars
  PROVE  (NumberIsNew /\ Compared /\ VerifiedBoot)'
<1>0. /\ Blank \notin Images /\ Garbage \notin Images /\ upd \in Images
      /\ Corrected(startBuf).img = startBuf.img
      /\ BlankPage.img = Blank /\ GarbagePage.img = Garbage
      /\ Images \subseteq Int /\ upd <= upd
  BY PagesAreTyped DEF VerifyInv, Inv, TypeOK, DeviceTypeOK, BlankPage, GarbagePage, Images
<1> USE DEF NumberIsNew, Compared, VerifiedBoot, Running, Goto, Return
<1>1. CASE Start
  <2>1. pc' = "validate" /\ upd' = upd + 1 /\ page0' = page0
    BY <1>1 DEF Start
  <2>2. page0.img \in Images => page0.img <= upd
    BY DEF VerifyInv
  <2>3. page0.img # upd' /\ (page0.img \in Images => page0.img <= upd')
    <3>1. upd \in Int /\ upd' \in Images
      BY <1>0, <1>1, TypeStep DEF VerifyInv, Inv, TypeOK
    <3>2. CASE page0.img \in Images
      <4>1. \A i, j \in Int : i <= j => i # j + 1 /\ i <= j + 1
        BY SMT
      <4>2. page0.img \in Int /\ page0.img <= upd
        BY <1>0, <2>2, <3>2
      <4>3. QED BY <2>1, <3>1, <4>1, <4>2, Zenon
    <3>3. CASE page0.img \notin Images
      BY <3>1, <3>3
    <3>4. QED BY <3>2, <3>3
  <2>4. QED BY <2>1, <2>3
<1>2. CASE Validate
  BY <1>2 DEF Validate, deviceVars, VerifyInv
<1>3. CASE Erase
  BY <1>3 DEF Erase, TakeErase, VerifyInv
<1>4. CASE Poll
  BY <1>4 DEF Poll, deviceVars, VerifyInv
<1>5. CASE Open
  <2>1. /\ pc = "open" /\ pc' \in {"write", "done"}
        /\ UNCHANGED <<page0, body, dirty, boot, upd, opt, unread>>
    BY <1>5 DEF Open, deviceVars
  <2>2. QED BY <2>1 DEF VerifyInv
<1>6. CASE WritePiece
  <2>1. page0' = page0
    BY <1>6, WriteEffects DEF VerifyInv, Inv
  <2>2. /\ pc = "write" /\ pc' \in {"write", "sign", "done"}
        /\ UNCHANGED <<dirty, boot, upd, opt, sigReq, unread>>
    BY <1>6, WriteEffects DEF VerifyInv, Inv, SentPiece, EndsAtZero
  <2>3. ~boot.caches => page0.img # upd
    BY <2>2 DEF VerifyInv
  <2>4. NumberIsNew'
    BY <2>1, <2>2, <2>3 DEF VerifyInv
  <2>5. Compared' /\ VerifiedBoot'
    BY <2>1, <2>2, <2>3
  <2>6. QED BY <2>4, <2>5
<1>7. CASE Sign
  <2>1. /\ pc = "sign" /\ UNCHANGED <<body, dirty, boot, upd, opt, sigReq, unread>>
        /\ loc' = 0 /\ pc' = IF opt.verify /\ ~sigReq THEN "verify" ELSE "start"
    BY <1>7 DEF Sign
  <2>2. /\ ~boot.caches => page0' = page0
        /\ page0'.img \in Images => page0'.img <= upd
    BY <1>0, <1>7 DEF Sign, TakeSignature, VerifyInv, Inv, ShortSoFar
  <2>3. NumberIsNew'
    BY <1>0, <2>1, <2>2 DEF VerifyInv
  <2>4. Compared' /\ VerifiedBoot'
    BY <2>1, <2>2 DEF VerifyInv
  <2>5. QED BY <2>3, <2>4
<1>8. CASE VerifyPiece
  <2>1. /\ pc = "verify" /\ pc' \in {"verify", "start", "done"}
        /\ UNCHANGED <<page0, body, dirty, boot, upd, opt, sigReq>>
    BY <1>8 DEF VerifyPiece, deviceVars
  <2>2. NumberIsNew' /\ VerifiedBoot'
    BY <2>1 DEF VerifyInv
  <2>3. ASSUME ~unread', pc' \in {"verify", "start"}
        PROVE  /\ ~unread /\ body[loc + 1] = upd /\ loc' = loc + 1
               /\ pc' = "start" => loc + 1 = Blocks
    BY <1>8, <2>3 DEF VerifyPiece, Matches
  <2>4. loc \in Nat
    BY DEF VerifyInv, Inv, TypeOK
  <2>5. ASSUME opt.verify, ~sigReq, ~unread', pc' \in {"verify", "start"}
        PROVE  \A b \in 1 .. loc + 1 : body[b] = upd
    BY <2>1, <2>3, <2>4, <2>5 DEF VerifyInv
  <2>6. Compared'
    BY <2>1, <2>3, <2>5
  <2>7. QED BY <2>2, <2>6
<1>9. CASE WriteStart
  <2>1. /\ pc = "start" /\ pc' \in {"readback", "done"}
        /\ UNCHANGED <<body, boot, upd, opt, sigReq, unread>>
        /\ page0' = page0 \/ page0'.img \in {upd, Garbage}
    BY <1>0, <1>9 DEF WriteStart, TakeFirstPage, VerifyInv, Inv, PageKept
  <2>2. NumberIsNew' /\ Compared'
    BY <1>0, <2>1 DEF VerifyInv
  <2>3. opt.verify /\ ~sigReq /\ ~unread => \A b \in 1 .. Blocks : body[b] = upd
    BY <2>1 DEF VerifyInv
  <2>4. QED BY <2>1, <2>2, <2>3
<1>10. CASE ReadBack
  <2>1. /\ pc' = "done" /\ UNCHANGED <<page0, body, upd, boot, opt, sigReq, unread>>
    BY <1>10 DEF ReadBack
  <2>2. dirty => dirty'
    BY <1>10 DEF ReadBack, TakeErase
  <2>3. QED BY <2>1, <2>2 DEF VerifyInv
<1>11. CASE Crash
  BY <1>11 DEF Crash, deviceVars, VerifyInv
<1>12. CASE DeviceStep
  <2>1. CASE ErasePage /\ UNCHANGED hostVars
    <3>1. /\ dirty /\ UNCHANGED <<dirty, pc, upd, boot>>
          /\ page0' = page0 \/ page0' = BlankPage
      BY <2>1 DEF ErasePage, hostVars, VerifyInv, Inv, EraseIsDirty
    <3>2. pc \notin {"verify", "start"} /\ pc' = pc
      BY <2>1 DEF ErasePage, hostVars, VerifyInv, Inv, NoWriteWhileErasing
    <3>3. QED BY <1>0, <3>1, <3>2 DEF VerifyInv
  <2>2. CASE EraseDone /\ UNCHANGED hostVars
    BY <1>0, <2>2 DEF EraseDone, hostVars, VerifyInv
  <2>3. CASE DeviceReset /\ faulty' = TRUE
               /\ UNCHANGED <<pc, upd, opt, loc, sigReq, startBuf, retry, error, unread,
                              short>>
    BY <2>3 DEF DeviceReset, VerifyInv
  <2>4. QED BY <1>12, <2>1, <2>2, <2>3 DEF DeviceStep
<1>13. CASE UNCHANGED vars
  BY <1>13 DEF vars, deviceVars, hostVars, VerifyInv
<1>14. QED
  BY <1>1, <1>2, <1>3, <1>4, <1>5, <1>6, <1>7, <1>8, <1>9, <1>10, <1>11,
     <1>12, <1>13 DEF Next, HostStep

(* With verification on, a first page is never put on top of a piece that   *)
(* was garbled, cut or not sent, in install_os and after whatever came      *)
(* before it, unless the comparison was cut short or, because a signature is*)
(* required or the request about it failed, left out.                       *)
THEOREM VerifiedBootSafe == Spec => []VerifiedBoot
<1>1. Inv /\ [Next]_vars => Inv'
  BY TypeStep, LoopBoundsStep, SafeStep DEF Inv, SafeInv
<1>2. VerifyInv /\ [Next]_vars => VerifyInv'
  BY <1>1, VerifyStep DEF VerifyInv
<1>3. VerifyInv => VerifiedBoot
  BY DEF VerifyInv
<1>4. QED BY <1>2, <1>3, VerifyInit, PTL DEF Spec

-----------------------------------------------------------------------------
(* Success.  In an update that nothing disturbed, each phase leaves what the*)
(* next one needs: an answer means that the erase is over, a flash that was *)
(* seen empty takes every piece, and the first page that was kept back, on  *)
(* the host or in the target, is the right one.                             *)
Undisturbed ==
  /\ pc \in Running => live
  /\ pc \in Running \union {"done"} => ~error
  /\ pc = "poll" => (dirty => erasing)
  /\ pc \in Transfer \union {"open", "done"} => ~dirty

Sent ==
  /\ pc = "write"
       => /\ \A b \in 1 .. loc : body[b] = upd
          /\ loc > 0 => IF boot.caches THEN cached = OwnPage ELSE startBuf = OwnPage
  /\ pc \in (Transfer \ {"write"}) \union {"done"}
       => \A b \in 1 .. Blocks : body[b] = upd
  /\ pc \in {"write", "sign", "verify", "start"} /\ ~boot.caches => page0 = BlankPage

Kept ==
  /\ pc = "sign" /\ boot.caches => cached = OwnPage
  /\ pc \in {"sign", "verify", "start"} /\ ~boot.caches => startBuf = OwnPage
  /\ pc = "start" /\ boot.caches => page0.img = upd
  /\ pc \in {"verify", "readback"} => ~boot.caches /\ ~boot.signed
  /\ pc = "readback" => page0 = startBuf /\ startBuf.img = upd
  /\ pc = "done" => page0.img = upd
  /\ pc \in Transfer => sigReq = boot.signed

Progress == ~faulty /\ Expected => Undisturbed /\ Sent /\ Kept

LEMMA ProgressInit == Init => Progress
BY DEF Init, DeviceInit, Progress, Undisturbed, Sent, Kept, Running, Transfer

(* What is known in the middle of an update that nothing disturbed.         *)
LEMMA ProgressStep ==
  ASSUME Inv, Progress, [Next]_vars, ~faulty', Expected'
  PROVE  (Undisturbed /\ Sent /\ Kept)'
<1>0. /\ upd \in Images /\ upd # Blank /\ upd # Garbage
      /\ OwnPage.img = upd /\ OwnPage # BlankPage
      /\ Corrected(OwnPage).img = upd
      /\ BlankPage.img = Blank /\ GarbagePage.img = Garbage
      /\ faulty \in BOOLEAN /\ error \in BOOLEAN /\ dirty \in BOOLEAN
      /\ erasing \in BOOLEAN /\ live \in BOOLEAN
      /\ loc \in 0 .. Blocks /\ body \in [1 .. Blocks -> Content]
      /\ Blocks \in Nat /\ Blocks > 0
  <2>1. Corrected(OwnPage).img = OwnPage.img
    BY PagesAreTyped DEF Inv, Corrected, Page
  <2>2. QED
    BY <2>1, PagesAreTyped, BoundsAssumption
       DEF Inv, TypeOK, DeviceTypeOK, BlankPage, GarbagePage
<1>1. CASE Start
  <2>1. pc' = "validate" /\ ~error' /\ live'
    BY <1>1 DEF Start
  <2>2. QED BY <2>1 DEF Undisturbed, Sent, Kept, Transfer
<1> SUFFICES ASSUME ~Start
             PROVE  (Undisturbed /\ Sent /\ Kept)'
  BY <1>1
<1>2. upd' = upd /\ opt' = opt /\ boot' = boot /\ OwnPage' = OwnPage
        /\ (Expected <=> Expected') /\ (faulty => faulty')
  <2>1. upd' = upd /\ opt' = opt /\ boot' = boot
    BY DEF Next, HostStep, DeviceStep, Validate, Erase, Poll, Open, WritePiece,
                Sign, VerifyPiece, WriteStart, ReadBack, Crash, ErasePage, EraseDone,
                DeviceReset, vars, deviceVars, hostVars
  <2>2. faulty => faulty'
    BY <1>0
       DEF Next, HostStep, DeviceStep, Validate, Erase, Poll, Open, WritePiece,
           Sign, VerifyPiece, WriteStart, ReadBack, Crash, vars, hostVars
  <2>3. QED BY <2>1, <2>2 DEF OwnPage, Expected
<1>3. /\ Expected /\ ~faulty /\ Undisturbed /\ Sent /\ Kept
      /\ OwnPage' = OwnPage /\ UNCHANGED <<upd, opt, boot>>
  BY <1>2 DEF Progress
<1>4. CASE Validate
  <2>1. pc' = "erase" /\ ~error' /\ live'
    BY <1>3, <1>4 DEF Validate, Goto, Return, Expected, IdAccepted, Undisturbed,
                      Running, deviceVars, Inv, TypeOK, Options
  <2>2. QED BY <2>1 DEF Undisturbed, Sent, Kept, Transfer
<1>5. CASE Erase
  <2>1. pc' = "poll" /\ ~error' /\ live' /\ erasing'
    BY <1>3, <1>5 DEF Erase, Goto, Return, MayPoll, TakeErase, Undisturbed, Running
  <2>2. QED BY <2>1 DEF Undisturbed, Sent, Kept, Transfer
<1>6. CASE Poll
  <2>1. /\ pc = "poll" /\ pc' \in {"poll", "open"} /\ error' = error
        /\ UNCHANGED deviceVars
    BY <1>6 DEF Poll, Goto
  <2>2. pc' = "open" => ~erasing
    BY <1>0, <1>3, <1>6 DEF Poll, Goto, Listening, Undisturbed, Running
  <2>3. QED
    BY <1>3, <2>1, <2>2 DEF Undisturbed, Sent, Kept, Transfer, Running, deviceVars
<1>7. CASE Open
  <2>1. /\ pc = "open" /\ pc' = "write" /\ error' = error /\ loc' = 0
        /\ UNCHANGED <<deviceVars, startBuf>>
    BY <1>7 DEF Open, Goto, Return, MayInstall
  <2>2. sigReq' = boot.signed
    <3>1. PICK sigAnswered \in BOOLEAN :
            /\ sigReq' = (boot.signed \/ ~sigAnswered)
            /\ ~sigAnswered => faulty'
      BY <1>7 DEF Open
    <3>2. sigAnswered /\ boot.signed \in BOOLEAN
      BY <3>1 DEF Inv, TypeOK, DeviceTypeOK, BootKinds
    <3>3. QED BY <3>1, <3>2
  <2>3. page0 = BlankPage /\ ~dirty
    BY <1>3, <2>1 DEF Inv, EmptyBeforeTransfer, Undisturbed
  <2>4. QED
    BY <1>3, <2>1, <2>3, <2>2 DEF Undisturbed, Sent, Kept, Transfer, Running, deviceVars
<1>8. CASE WritePiece
  <2>1. /\ pc = "write" /\ loc < Blocks /\ loc' = loc + 1
        /\ error' = error /\ UNCHANGED <<erasing, dirty, live, sigReq>>
        /\ pc' = IF loc + 1 = Blocks THEN "sign" ELSE "write"
        /\ body'[loc + 1] # Garbage /\ cached' # GarbagePage
        /\ TakePiece(TRUE, loc + 1, OwnPiece(loc + 1),
                     IF HoldsBack(loc + 1) THEN BlankPage ELSE OwnPage)
        /\ startBuf' = IF HoldsBack(loc + 1) THEN OwnPage ELSE startBuf
    BY <1>8 DEF WritePiece, Goto, Return, Inv, LoopBounds
  <2>2. page0' = page0
    BY <1>0, <2>1 DEF TakePiece, HoldsBack
  <2>3. OwnPiece(loc + 1) = upd
    BY <1>3, <2>1 DEF OwnPiece, CutsOs, Kept, Expected, Transfer
  <2>4. \A b \in 1 .. loc + 1 : body'[b] = upd
    <3>1. body' = [body EXCEPT ![loc + 1] = upd]
      BY <1>0, <2>1, <2>3 DEF TakePiece
    <3>2. \A b \in 1 .. loc : body[b] = upd
      BY <1>3, <2>1 DEF Sent
    <3>3. \A b \in 1 .. loc + 1 : b \in 1 .. Blocks /\ (b = loc + 1 \/ b \in 1 .. loc)
      BY <1>0, <2>1
    <3>4. QED BY <1>0, <3>1, <3>2, <3>3
  <2>5. IF boot.caches THEN cached' = OwnPage ELSE startBuf' = OwnPage
    <3>1. CASE loc = 0
      BY <1>0, <2>1, <3>1 DEF TakePiece, HoldsBack
    <3>2. CASE loc # 0
      <4>1. loc > 0 /\ loc + 1 # 1
        BY <1>0, <3>2
      <4>2. UNCHANGED <<cached, startBuf>>
        BY <2>1, <4>1 DEF TakePiece, HoldsBack
      <4>3. QED BY <1>3, <2>1, <4>1, <4>2 DEF Sent
    <3>3. QED BY <3>1, <3>2
  <2>6. Undisturbed'
    BY <1>3, <2>1 DEF Undisturbed, Transfer, Running
  <2>7. ~boot.caches => page0' = BlankPage
    BY <1>3, <2>1, <2>2 DEF Sent
  <2>8. Sent' /\ Kept'
    BY <1>3, <2>1, <2>4, <2>5, <2>7 DEF Sent, Kept, Transfer
  <2>9. QED BY <2>6, <2>8
<1>9. CASE Sign
  <2>1. /\ pc = "sign" /\ error' = error
        /\ UNCHANGED <<body, erasing, dirty, live, startBuf, sigReq>>
        /\ pc' = IF opt.verify /\ ~sigReq THEN "verify" ELSE "start"
        /\ TakeSignature(TRUE, opt.signature = "right") /\ page0' # GarbagePage
    BY <1>9 DEF Sign, Goto
  <2>2. boot.caches => page0' = OwnPage
    BY <1>0, <1>3, <2>1 DEF TakeSignature, Kept, Expected
  <2>3. ~boot.caches => page0' = BlankPage
    BY <1>3, <2>1 DEF TakeSignature, Sent
  <2>4. ~boot.caches => startBuf = OwnPage
    BY <1>3, <2>1 DEF Kept
  <2>5. pc' = "verify" => ~boot.caches /\ ~boot.signed
    BY <1>3, <2>1 DEF Expected
  <2>6. Undisturbed'
    BY <1>3, <2>1 DEF Undisturbed, Transfer, Running
  <2>7. Sent'
    BY <1>3, <2>1, <2>3 DEF Sent, Transfer
  <2>8. Kept'
    BY <1>0, <1>3, <2>1, <2>2, <2>4, <2>5 DEF Kept, Transfer
  <2>9. QED BY <2>6, <2>7, <2>8
<1>10. CASE VerifyPiece
  <2>1. /\ pc = "verify" /\ UNCHANGED <<deviceVars, startBuf, sigReq>>
    BY <1>10 DEF VerifyPiece
  <2>2. Matches(loc + 1)
    <3>1. loc < Blocks /\ ~boot.caches
      BY <1>3, <2>1 DEF Inv, LoopBounds, Kept
    <3>2. loc + 1 \in 1 .. Blocks /\ page0 = BlankPage
      BY <1>0, <1>3, <2>1, <3>1 DEF Sent
    <3>3. QED BY <1>3, <2>1, <3>2 DEF Sent, Matches, Transfer
  <2>3. pc' \in {"verify", "start"} /\ error' = error
    BY <1>0, <1>10, <2>2 DEF VerifyPiece, Goto
  <2>4. QED
    BY <1>3, <2>1, <2>3 DEF Undisturbed, Sent, Kept, Transfer, Running, deviceVars
<1>11. CASE WriteStart
  <2>1. /\ pc = "start" /\ error' = error /\ startBuf' = Corrected(startBuf)
        /\ pc' = IF opt.verify THEN "readback" ELSE "done"
        /\ UNCHANGED <<body, erasing, dirty, live, sigReq>>
        /\ boot.caches => page0' = page0
        /\ ~boot.caches => TakeFirstPage(TRUE, Corrected(startBuf)) /\ page0' # GarbagePage
    BY <1>0, <1>11 DEF WriteStart, Goto
  <2>2. ~boot.caches => page0' = startBuf' /\ startBuf'.img = upd
    BY <1>0, <1>3, <2>1 DEF TakeFirstPage, Kept
  <2>3. page0'.img = upd
    BY <1>3, <2>1, <2>2 DEF Kept
  <2>4. pc' = "readback" => ~boot.caches /\ ~boot.signed
    BY <1>3, <2>1 DEF Expected
  <2>5. Undisturbed'
    BY <1>3, <2>1 DEF Undisturbed, Transfer, Running
  <2>6. Sent' /\ Kept'
    BY <1>3, <2>1, <2>2, <2>3, <2>4 DEF Sent, Kept, Transfer
  <2>7. QED BY <2>5, <2>6
<1>12. CASE ReadBack
  <2>1. pc = "readback" /\ pc' = "done" /\ UNCHANGED <<page0, body, live, startBuf>>
    BY <1>12 DEF ReadBack, Return
  <2>2. /\ page0 = startBuf /\ startBuf.img # Garbage
        /\ live /\ ~erasing /\ ~boot.signed
    BY <1>0, <1>3, <2>1
       DEF Kept, Undisturbed, Running, Inv, NoWriteWhileErasing
  <2>3. UNCHANGED <<erasing, dirty, error>>
    BY <1>0, <1>12, <2>2 DEF ReadBack, Readable, Listening, Return
  <2>4. QED
    BY <1>3, <2>1, <2>2, <2>3 DEF Undisturbed, Sent, Kept, Transfer, Running
<1>13. CASE Crash
  <2>1. pc' = "idle"
    BY <1>13 DEF Crash
  <2>2. QED BY <2>1 DEF Undisturbed, Sent, Kept, Transfer, Running
<1>14. CASE DeviceStep
  <2>1. (ErasePage \/ EraseDone) /\ UNCHANGED hostVars
    BY <1>14 DEF DeviceStep
  <2>2. erasing /\ live' = live /\ cached' = cached /\ dirty
    BY <2>1 DEF ErasePage, EraseDone, Inv, EraseIsDirty
  <2>3. dirty' => erasing'
    BY <1>0, <2>1, <2>2 DEF ErasePage, EraseDone
  <2>4. pc \notin Transfer \union {"open", "done"} /\ pc' = pc /\ error' = error
    BY <1>3, <2>1, <2>2 DEF Undisturbed, hostVars
  <2>5. QED
    BY <1>3, <2>2, <2>3, <2>4 DEF Undisturbed, Sent, Kept, Transfer, Running
<1>15. CASE UNCHANGED vars
  BY <1>15, <1>0
     DEF vars, deviceVars, hostVars, Progress, Expected, Undisturbed, Sent, Kept, OwnPage
<1>16. QED
  BY <1>1, <1>4, <1>5, <1>6, <1>7, <1>8, <1>9, <1>10, <1>11, <1>12, <1>13, <1>14,
     <1>15 DEF Next, HostStep

(* An update that nothing disturbed reports what it did.                    *)
LEMMA ProgressSuffices ==
  ASSUME Inv, Progress
  PROVE  FaultFreeInstalls
BY DEF Progress, Undisturbed, Sent, Kept, FaultFreeInstalls, Installed

(* An update that nothing disturbed installs its image and reports success, *)
(* whatever the updates, crashes and resets before it left behind.          *)
THEOREM FaultFreeSucceeds == Spec => []FaultFreeInstalls
<1>1. Init => Inv /\ Progress
  BY TypeInit, SafeInit, ProgressInit DEF Init, LoopBounds, Inv, SafeInv
<1>2. Inv /\ [Next]_vars => Inv'
  BY TypeStep, LoopBoundsStep, SafeStep DEF Inv, SafeInv
<1>3. Inv /\ Progress /\ [Next]_vars => Progress'
  BY ProgressStep DEF Progress
<1>4. Inv /\ Progress => FaultFreeInstalls
  BY ProgressSuffices
<1>5. QED BY <1>1, <1>2, <1>3, <1>4, PTL DEF Spec

=============================================================================
