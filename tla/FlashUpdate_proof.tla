--------------------------- MODULE FlashUpdate_proof ---------------------------
(***************************************************************************)
(* Proofs about FlashUpdate for every flash, image and number of calls.     *)
(* None of the properties is inductive: that no request fails the code      *)
(* never checks, so each phase carries what holds as long as no error is    *)
(* pending, and the phases hand it on to each other.                        *)
(***************************************************************************)
EXTENDS FlashUpdate, TLAPS

Before == {"open", "find", "erase", "install"}

(* Units of the image that are written.                                     *)
Size == IF signing THEN len - 1 ELSE len

(* The history tells what the error context tells: an error is never reset  *)
(* during a call.                                                           *)
ErrorsStay == error = faulty

(* Nothing is written before the install loop.                              *)
NotBegun == pc \in Before => written = 0 /\ (fresh => pos = 0)

(* The flash up to the next page to erase is blank, counted in units.       *)
Erasing ==
  /\ pc \in {"open", "find"} => erased = 0
  /\ pc = "erase" /\ ~error => /\ OsStart + erased = PageLen * page
                               /\ \A a \in OsStart .. OsStart + erased - 1 :
                                    flash[a] = Blank

(* So it is where the image goes ...                                        *)
Erased ==
  pc = "install" /\ ~error
    => erased >= len /\ \A a \in OsStart .. OsStart + erased - 1 : flash[a] = Blank

(* ... until the image is there.                                            *)
Writing ==
  pc = "write" /\ ~error
    => /\ base = OsStart /\ required = signing
       /\ len > 0 =>
            /\ erased >= len /\ written <= Size
            /\ \A a \in OsStart + written .. OsStart + erased - 1 : flash[a] = Blank
            /\ fresh => /\ pos = written
                        /\ \A a \in 0 .. written - 1 : flash[OsStart + a] = upd

Installed ==
  pc \in {"sign", "done"} /\ ~error /\ fresh /\ len > 0
    => \A a \in 0 .. len - 1 :
         flash[OsStart + a] = IF signing /\ a = len - 1 THEN Blank ELSE upd

(* What is erased is flash.                                                 *)
InFlash == OsStart + erased <= Cells

Inv ==
  /\ TypeOK
  /\ ErrorsStay /\ NotBegun /\ InFlash
  /\ Erasing /\ Erased /\ Writing /\ Installed
  /\ BootloaderKept

-----------------------------------------------------------------------------
(* Division, as far as pages need it.                                       *)
LEMMA Division ==
  ASSUME NEW a \in Nat, NEW p \in Nat \ {0}
  PROVE  /\ a \div p \in Nat /\ a % p \in 0 .. p - 1
         /\ a = p * (a \div p) + (a % p)
BY SMT

(* A unit lies in a page if it lies between its ends.                       *)
LEMMA InPage ==
  ASSUME NEW a \in Nat, NEW p \in Nat \ {0}, NEW q \in Nat, a \div p = q
  PROVE  p * q <= a /\ a < p * q + p
BY Division, SMT

LEMMA NextPage ==
  ASSUME NEW p \in Nat \ {0}, NEW q \in Nat
  PROVE  p * (q + 1) = p * q + p
BY SMT

(* Pages before the last end in the flash.                                  *)
LEMMA PageFits ==
  ASSUME NEW p \in Nat \ {0}, NEW q \in Nat, NEW n \in Nat, q < n
  PROVE  p * q + p <= p * n
<1>1. PICK d \in Nat : n = q + 1 + d
  <2>1. n - q - 1 \in Nat /\ n = q + 1 + (n - q - 1)
    BY SMT
  <2>2. QED BY <2>1
<1>2. p * n = p * q + p + p * d
  BY <1>1, SMT
<1>3. p * d >= 0
  BY SMT
<1>4. QED BY <1>2, <1>3, SMT

(* The bootloader and the OS are whole pages.                               *)
LEMMA WholePages ==
  /\ PageLen \in Nat \ {0} /\ Cells \in Nat \ {0} /\ OsStart \in Nat
  /\ 0 < OsStart /\ OsStart < Cells
  /\ OsStart \div PageLen \in Nat /\ Cells \div PageLen \in Nat
  /\ OsStart = PageLen * (OsStart \div PageLen)
  /\ Cells = PageLen * (Cells \div PageLen)
  /\ OsStart \div PageLen <= Cells \div PageLen
<1>1. /\ PageLen \in Nat \ {0} /\ Cells \in Nat \ {0} /\ OsStart \in Nat
      /\ 0 < OsStart /\ OsStart < Cells
  BY FlashAssumption
<1> DEFINE f == OsStart \div PageLen
           n == Cells \div PageLen
<1>2. f \in Nat /\ OsStart = PageLen * f
  BY <1>1, Division, FlashAssumption
<1>3. n \in Nat /\ Cells = PageLen * n
  BY <1>1, Division, FlashAssumption
<1>4. f <= n
  <2> SUFFICES ASSUME n < f PROVE FALSE
    BY <1>2, <1>3
  <2>1. PageLen * n + PageLen <= PageLen * f
    BY <1>1, <1>2, <1>3, PageFits
  <2>2. QED BY <2>1, <1>1, <1>2, <1>3
<1>5. QED BY <1>1, <1>2, <1>3, <1>4

-----------------------------------------------------------------------------
LEMMA InvInit == Init => Inv
<1> SUFFICES ASSUME Init PROVE Inv
  OBVIOUS
<1>1. TypeOK
  <2>1. Cells \div PageLen \in Nat /\ 0 \in 0 .. Cells \div PageLen
    BY WholePages
  <2>2. flash \in [Addresses -> {Garbage, Blank, Boot} \union 1 .. MaxCalls + 1]
    BY FlashAssumption DEF Init
  <2>3. /\ calls \in 0 .. MaxCalls /\ upd \in 1 .. MaxCalls + 1
        /\ len \in 0 .. MaxImage /\ pos \in 0 .. len
        /\ erased \in 0 .. Cells /\ written \in 0 .. Cells
    BY FlashAssumption DEF Init
  <2>4. QED BY <2>1, <2>2, <2>3 DEF Init, TypeOK
<1>2. BootloaderKept
  BY WholePages DEF Init, BootloaderKept, Addresses
<1>3. ErrorsStay /\ NotBegun /\ Erasing /\ Erased /\ Writing /\ Installed
  BY DEF Init, ErrorsStay, NotBegun, Before, Erasing, Erased, Writing, Installed
<1>4. InFlash
  BY WholePages DEF Init, InFlash
<1>5. QED BY <1>1, <1>2, <1>3, <1>4 DEF Inv

(* Steps that leave the flash alone keep the bootloader.                    *)
LEMMA StartStep == Inv /\ Start => Inv'
<1> SUFFICES ASSUME Inv, Start PROVE Inv'
  OBVIOUS
<1>1. TypeOK'
  <2>1. Cells \div PageLen \in Nat
    BY WholePages
  <2>2. upd' \in 1 .. MaxCalls + 1 /\ calls' \in 0 .. MaxCalls
    BY FlashAssumption DEF Inv, TypeOK, Start
  <2>3. len' \in 0 .. MaxImage /\ pos' \in 0 .. len'
    BY FlashAssumption DEF Inv, TypeOK, Start
  <2>4. fresh' \in BOOLEAN
    BY DEF Start
  <2>5. flash' \in [Addresses -> {Garbage, Blank, Boot} \union 1 .. MaxCalls + 1]
    BY DEF Inv, TypeOK, Start
  <2>6. erased' \in 0 .. Cells /\ written' \in 0 .. Cells /\ page' \in 0 .. Cells \div PageLen
    BY <2>1, FlashAssumption DEF Start
  <2>7. QED BY <2>2, <2>3, <2>4, <2>5, <2>6 DEF Inv, TypeOK, Start, Running
<1>2. (ErrorsStay /\ NotBegun /\ Erasing /\ Erased /\ Writing /\ Installed)'
  BY DEF Start, ErrorsStay, NotBegun, Before, Erasing, Erased, Writing, Installed
<1>3. InFlash'
  BY WholePages DEF Start, InFlash
<1>4. BootloaderKept'
  BY DEF Inv, Start, BootloaderKept
<1>5. QED BY <1>1, <1>2, <1>3, <1>4 DEF Inv

LEMMA OpenStep == Inv /\ Open => Inv'
<1> SUFFICES ASSUME Inv, Open PROVE Inv'
  OBVIOUS
<1> USE DEF Open, Outcome, Noted, imageVars, eraseVars, writeVars
<1>1. TypeOK'
  BY DEF Inv, TypeOK, Running
<1>2. ErrorsStay' /\ NotBegun'
  BY DEF Inv, ErrorsStay, NotBegun, Before, TypeOK
<1>3. (Erasing /\ Erased /\ Writing /\ Installed)'
  BY DEF Inv, TypeOK, Erasing, Erased, Writing, Installed
<1>4. InFlash' /\ BootloaderKept'
  BY DEF Inv, InFlash, BootloaderKept
<1>5. QED BY <1>1, <1>2, <1>3, <1>4 DEF Inv

LEMMA FindPageStep == Inv /\ FindPage => Inv'
<1> SUFFICES ASSUME Inv, FindPage PROVE Inv'
  OBVIOUS
<1> USE DEF FindPage, Outcome, Noted, imageVars, writeVars
<1>1. TypeOK'
  BY WholePages DEF Inv, TypeOK, Running
<1>2. ErrorsStay' /\ NotBegun'
  BY DEF Inv, ErrorsStay, NotBegun, Before, TypeOK
<1>3. Erasing'
  <2> SUFFICES ASSUME ~error' PROVE /\ OsStart + erased' = PageLen * page'
                                   /\ \A a \in OsStart .. OsStart + erased' - 1 :
                                        flash'[a] = Blank
    BY DEF Erasing
  <2>1. page' = OsStart \div PageLen
    OBVIOUS
  <2>2. erased' = 0
    BY DEF Inv, Erasing
  <2>3. QED BY <2>1, <2>2, WholePages
<1>4. (Erased /\ Writing /\ Installed)'
  BY DEF Erased, Writing, Installed
<1>5. InFlash' /\ BootloaderKept'
  BY DEF Inv, InFlash, BootloaderKept
<1>6. QED BY <1>1, <1>2, <1>3, <1>4, <1>5 DEF Inv

(* The page that is erased follows those erased before, and the OS starts   *)
(* at the first of them.                                                    *)
LEMMA EraseRoundStep == Inv /\ EraseRound => Inv'
<1> SUFFICES ASSUME Inv, EraseRound PROVE Inv'
  OBVIOUS
<1> DEFINE New(taken) == [a \in Addresses |->
                 IF taken /\ a \div PageLen = page THEN Blank ELSE flash[a]]
<1> USE DEF imageVars, writeVars
<1>1. PICK known, taken, answered \in BOOLEAN :
        /\ known => ~error /\ page < Cells \div PageLen
        /\ (taken => known) /\ (answered => taken)
        /\ error' = (error \/ ~answered) /\ faulty' = (faulty \/ ~answered)
        /\ erased' = IF known THEN erased + PageLen ELSE erased
        /\ flash' = New(taken)
        /\ page' = IF known THEN page + 1 ELSE page
  BY DEF EraseRound, Reaches, Outcome, Noted
<1>2. pc = "erase" /\ pc' \in {"erase", "install"}
  BY DEF EraseRound
<1>3. /\ flash \in [Addresses -> {Garbage, Blank, Boot} \union 1 .. MaxCalls + 1]
      /\ page \in Nat /\ erased \in Nat /\ error \in BOOLEAN /\ len \in Nat
      /\ Addresses \subseteq Nat
  BY WholePages DEF Inv, TypeOK, Addresses
<1>4. ~error => OsStart + erased = PageLen * page
  BY <1>2 DEF Inv, Erasing
<1>5. known => OsStart + erased' = PageLen * page'
  BY <1>1, <1>3, <1>4, NextPage, WholePages
<1>6. InFlash'
  <2>1. CASE ~known
    BY <2>1, <1>1 DEF Inv, InFlash
  <2>2. CASE known
    <3>1. PageLen * page + PageLen <= PageLen * (Cells \div PageLen)
      BY <2>2, <1>1, <1>3, WholePages, PageFits
    <3>2. PageLen * page' = PageLen * page + PageLen
      BY <2>2, <1>1, <1>3, WholePages, NextPage
    <3>3. QED BY <3>1, <3>2, <2>2, <1>5, WholePages DEF InFlash
  <2>3. QED BY <2>1, <2>2
<1>7. TypeOK'
  <2>1. flash' \in [Addresses -> {Garbage, Blank, Boot} \union 1 .. MaxCalls + 1]
    BY <1>1, <1>3
  <2>2. erased' \in 0 .. Cells
    BY <1>1, <1>3, <1>6, WholePages DEF InFlash
  <2>3. page' \in 0 .. Cells \div PageLen
    BY <1>1, <1>3, WholePages DEF Inv, TypeOK
  <2>4. error' \in BOOLEAN /\ faulty' \in BOOLEAN
    BY <1>1 DEF Inv, TypeOK
  <2>5. QED BY <2>1, <2>2, <2>3, <2>4, <1>2 DEF Inv, TypeOK, EraseRound, Running
<1>8. ErrorsStay' /\ NotBegun'
  BY <1>1, <1>2 DEF Inv, ErrorsStay, NotBegun, Before, EraseRound, TypeOK
<1>9. ASSUME ~error' PROVE \A a \in OsStart .. OsStart + erased' - 1 : flash'[a] = Blank
  <2>1. /\ ~error /\ taken /\ known
        /\ \A a \in OsStart .. OsStart + erased - 1 : flash[a] = Blank
    BY <1>9, <1>1, <1>2 DEF Inv, Erasing
  <2> SUFFICES ASSUME NEW a \in OsStart .. OsStart + erased' - 1
               PROVE  flash'[a] = Blank
    OBVIOUS
  <2>2. a \in Addresses /\ a \in Nat
    BY <1>6, <1>3, <1>1, <2>1, WholePages DEF InFlash, Addresses
  <2>3. CASE a < OsStart + erased
    <3>1. flash[a] = Blank
      BY <2>1, <2>2, <2>3, <1>3, WholePages
    <3>2. QED BY <3>1, <1>1, <2>2
  <2>4. CASE a >= OsStart + erased
    <3>1. PageLen * page <= a /\ a < PageLen * page + PageLen
      BY <2>1, <2>2, <2>4, <1>1, <1>3, <1>4, WholePages
    <3>2. a \div PageLen = page
      BY <3>1, <2>2, <1>3, WholePages, SMT
    <3>3. QED BY <3>2, <2>1, <1>1, <2>2
  <2>5. QED BY <2>2, <2>3, <2>4, <1>3, WholePages
<1>10. Erasing'
  BY <1>1, <1>2, <1>5, <1>9 DEF Erasing
<1>11. Erased'
  <2> SUFFICES ASSUME pc' = "install", ~error' PROVE erased' >= len'
    BY <1>9 DEF Erased
  <2>1. Enough(erased')
    BY DEF EraseRound
  <2>2. QED BY <2>1 DEF Enough, EraseRound
<1>12. Writing' /\ Installed'
  BY <1>2 DEF Writing, Installed
<1>13. BootloaderKept'
  <2> SUFFICES ASSUME NEW a \in 0 .. OsStart - 1 PROVE flash'[a] = Boot
    BY DEF BootloaderKept
  <2>1. a \in Addresses /\ a \in Nat /\ flash[a] = Boot
    BY WholePages DEF Inv, BootloaderKept, Addresses
  <2>2. CASE taken
    <3>1. a < PageLen * page
      BY <2>2, <2>1, <1>1, <1>3, <1>4, WholePages
    <3>2. a \div PageLen # page
      BY <3>1, <2>1, <1>3, InPage, WholePages
    <3>3. QED BY <3>2, <2>1, <1>1
  <2>3. CASE ~taken
    BY <2>3, <2>1, <1>1
  <2>4. QED BY <2>2, <2>3
<1>14. QED BY <1>6, <1>7, <1>8, <1>10, <1>11, <1>12, <1>13 DEF Inv

(* An image with something in it has a size that does not wrap.             *)
LEMMA SizeOfImage ==
  ASSUME TypeOK, len > 0
  PROVE  /\ InstallSize(len, signing) = Size
         /\ Size \in Nat /\ Size <= len /\ len \in Nat
         /\ (signing => Size = len - 1) /\ (~signing => Size = len)
<1>1. len \in 1 .. MaxImage /\ len - 1 \in Nat /\ len - 1 < Word /\ Word \in Nat \ {0}
  BY FlashAssumption DEF TypeOK
<1>2. (len - 1) % Word = len - 1
  BY <1>1, SMT
<1>3. QED BY <1>1, <1>2 DEF InstallSize, Size

LEMMA InstallStep == Inv /\ Install => Inv'
<1> SUFFICES ASSUME Inv, Install PROVE Inv'
  OBVIOUS
<1> USE DEF imageVars, eraseVars
<1>1. /\ pc = "install" /\ pc' \in {"done", "write"} /\ written = 0 /\ written' = 0
      /\ flash' = flash /\ signing' = signing /\ len' = len /\ pos' = pos
      /\ upd' = upd /\ fresh' = fresh /\ erased' = erased
      /\ calls' = calls /\ page' = page
  BY DEF Install, Inv, NotBegun, Before
<1>2. /\ error' = faulty'
      /\ pc' = "done" => error'
      /\ pc' = "write" /\ ~error' => ~error /\ base' = OsStart /\ required' = signing
      /\ base' \in {0, OsStart} /\ required' \in BOOLEAN
      /\ error' \in BOOLEAN
  <2>1. CASE error
    BY <2>1, <1>1 DEF Install, Inv, TypeOK, ErrorsStay
  <2>2. CASE ~error
    <3>1. PICK known, told \in BOOLEAN :
            /\ told => known
            /\ error' = (error \/ ~told) /\ faulty' = (faulty \/ ~told)
            /\ base' = IF known THEN OsStart ELSE 0
            /\ required' = (told /\ signing)
      BY <2>2 DEF Install, Outcome, Noted
    <3>2. pc' = "write"
      BY <2>2 DEF Install
    <3>3. signing \in BOOLEAN /\ error = faulty
      BY DEF Inv, TypeOK, ErrorsStay
    <3>4. QED BY <2>2, <3>1, <3>2, <3>3
  <2>3. QED BY <2>1, <2>2 DEF Inv, TypeOK
<1>3. TypeOK'
  BY <1>1, <1>2 DEF Inv, TypeOK, Running
<1>4. ErrorsStay' /\ NotBegun'
  BY <1>1, <1>2 DEF ErrorsStay, NotBegun, Before
<1>5. (Erasing /\ Erased /\ Installed)'
  BY <1>1, <1>2 DEF Erasing, Erased, Installed
<1>6. Writing'
  <2> SUFFICES ASSUME pc' = "write", ~error'
               PROVE  Writing'
    BY DEF Writing
  <2>1. /\ erased >= len
        /\ \A a \in OsStart .. OsStart + erased - 1 : flash[a] = Blank
    BY <1>1, <1>2 DEF Inv, Erased
  <2>2. len > 0 => Size' \in Nat
    BY <1>1, SizeOfImage DEF Inv, Size
  <2>3. len > 0 => written' <= Size'
    BY <2>2, <1>1
  <2>4. fresh => pos = 0
    BY <1>1 DEF Inv, NotBegun, Before
  <2>5. OsStart + written' = OsStart
    BY <1>1, WholePages
  <2>6. QED BY <1>1, <1>2, <2>1, <2>3, <2>4, <2>5 DEF Writing
<1>7. InFlash' /\ BootloaderKept'
  BY <1>1 DEF Inv, InFlash, BootloaderKept
<1>8. QED BY <1>3, <1>4, <1>5, <1>6, <1>7 DEF Inv

LEMMA SignStep == Inv /\ Sign => Inv'
<1> SUFFICES ASSUME Inv, Sign PROVE Inv'
  OBVIOUS
<1> USE DEF Sign, Outcome, Noted, Reaches, eraseVars, writeVars
<1>1. TypeOK'
  BY FlashAssumption DEF Inv, TypeOK, Running
<1>2. ErrorsStay' /\ NotBegun'
  BY DEF Inv, ErrorsStay, NotBegun, Before, TypeOK
<1>3. (Erasing /\ Erased /\ Writing)'
  BY DEF Erasing, Erased, Writing
<1>4. Installed'
  BY DEF Inv, Installed
<1>5. InFlash' /\ BootloaderKept'
  BY DEF Inv, InFlash, BootloaderKept
<1>6. QED BY <1>1, <1>2, <1>3, <1>4, <1>5 DEF Inv

LEMMA QuietStep == Inv /\ (Crash \/ UNCHANGED vars) => Inv'
<1> SUFFICES ASSUME Inv, Crash \/ UNCHANGED vars PROVE Inv'
  OBVIOUS
<1> USE DEF vars, imageVars, eraseVars, writeVars
<1>1. CASE Crash
  <2>1. TypeOK' /\ InFlash' /\ BootloaderKept' /\ ErrorsStay'
    BY <1>1 DEF Crash, Inv, TypeOK, InFlash, BootloaderKept, ErrorsStay
  <2>2. (NotBegun /\ Erasing /\ Erased /\ Writing /\ Installed)'
    BY <1>1 DEF Crash, NotBegun, Before, Erasing, Erased, Writing, Installed
  <2>3. QED BY <2>1, <2>2 DEF Inv
<1>2. CASE UNCHANGED vars
  BY <1>2 DEF Inv, TypeOK, InFlash, BootloaderKept, ErrorsStay, NotBegun, Erasing,
              Erased, Writing, Installed, Size
<1>3. QED BY <1>1, <1>2

(* The place that is written is the next blank one, and no unit of the      *)
(* bootloader: an answer to every request so far has given the start of the *)
(* OS.                                                                      *)
LEMMA WriteRoundStep == Inv /\ WriteRound => Inv'
<1> SUFFICES ASSUME Inv, WriteRound PROVE Inv'
  OBVIOUS
<1> DEFINE addr == base + written
           some == InstallSize(len, required) > written
<1>1. PICK read, taken, answered \in BOOLEAN :
        /\ read => ~error
        /\ taken => read /\ addr < Cells
        /\ answered => taken
        /\ error' = (error \/ ~answered) /\ faulty' = (faulty \/ ~answered)
        /\ pos' = IF read /\ some /\ pos < len THEN pos + 1 ELSE pos
        /\ flash' = IF taken /\ some
                      THEN [flash EXCEPT ![addr] = Stored(addr, written)]
                      ELSE flash
        /\ written' = IF error' \/ ~some THEN written ELSE written + 1
  BY DEF WriteRound, Reaches, Outcome, Noted
<1>2. /\ pc = "write" /\ pc' \in {"write", "sign", "done"}
      /\ signing' = signing /\ len' = len /\ upd' = upd /\ fresh' = fresh
      /\ erased' = erased /\ page' = page /\ base' = base
      /\ required' = required /\ calls' = calls
      /\ pc' = "write" <=> ~WriteEnds(error', written')
  BY DEF WriteRound, eraseVars
<1>3. /\ flash \in [Addresses -> {Garbage, Blank, Boot} \union 1 .. MaxCalls + 1]
      /\ error \in BOOLEAN /\ faulty \in BOOLEAN /\ written \in Nat /\ base \in Nat
      /\ len \in Nat /\ pos \in 0 .. len /\ erased \in Nat
      /\ upd \in 1 .. MaxCalls + 1 /\ addr \in Nat /\ signing \in BOOLEAN
  BY WholePages, FlashAssumption DEF Inv, TypeOK
<1>4. taken => ~error /\ base = OsStart /\ required = signing /\ addr = OsStart + written
  BY <1>1, <1>2, <1>3 DEF Inv, Writing
<1>5. TypeOK'
  <2>1. Stored(addr, written) \in {Garbage, Blank, Boot} \union 1 .. MaxCalls + 1
    BY <1>3 DEF Stored
  <2>2. flash' \in [Addresses -> {Garbage, Blank, Boot} \union 1 .. MaxCalls + 1]
    BY <2>1, <1>1, <1>3
  <2>3. pos' \in 0 .. len'
    BY <1>1, <1>2, <1>3
  <2>4. written' \in 0 .. Cells
    <3>1. CASE error' \/ ~some
      BY <3>1, <1>1 DEF Inv, TypeOK
    <3>2. CASE ~error' /\ some
      <4>1. addr < Cells /\ written' = written + 1
        BY <3>2, <1>1
      <4>2. QED BY <4>1, <1>3, WholePages
    <3>3. QED BY <3>1, <3>2
  <2>5. error' \in BOOLEAN /\ faulty' \in BOOLEAN
    BY <1>1, <1>3
  <2>6. QED BY <2>2, <2>3, <2>4, <2>5, <1>2 DEF Inv, TypeOK, Running
<1>6. ErrorsStay' /\ NotBegun'
  BY <1>1, <1>2 DEF Inv, ErrorsStay, NotBegun, Before
<1>7. (Erasing /\ Erased)' /\ InFlash'
  BY <1>2 DEF Inv, Erasing, Erased, InFlash
<1>8. BootloaderKept'
  <2> SUFFICES ASSUME NEW a \in 0 .. OsStart - 1 PROVE flash'[a] = Boot
    BY DEF BootloaderKept
  <2>1. a \in Addresses /\ flash[a] = Boot
    BY WholePages DEF Inv, BootloaderKept, Addresses
  <2>2. taken => a # addr
    BY <1>4, <1>3, WholePages
  <2>3. QED BY <2>1, <2>2, <1>1, <1>3
(* What holds of the flash after a round without an error.                  *)
<1>9. ASSUME ~error', len > 0
      PROVE  /\ base = OsStart /\ required = signing /\ erased >= len
             /\ written' \in Nat /\ written' <= Size
             /\ \A a \in OsStart + written' .. OsStart + erased - 1 : flash'[a] = Blank
             /\ fresh => /\ pos' = written'
                         /\ \A a \in 0 .. written' - 1 : flash'[OsStart + a] = upd
  <2>1. ~error /\ taken /\ read
    BY <1>9, <1>1
  <2>2. /\ erased >= len /\ written <= Size
        /\ \A a \in OsStart + written .. OsStart + erased - 1 : flash[a] = Blank
        /\ fresh => /\ pos = written
                    /\ \A a \in 0 .. written - 1 : flash[OsStart + a] = upd
    BY <1>9, <2>1, <1>2 DEF Inv, Writing
  <2>3. /\ InstallSize(len, required) = Size /\ Size \in Nat /\ Size <= len
        /\ some <=> Size > written
    BY <1>9, <1>4, <2>1, SizeOfImage DEF Inv
  <2>4. addr = OsStart + written /\ addr \in Addresses
    <3>1. addr = OsStart + written /\ addr < Cells
      BY <1>4, <2>1, <1>1
    <3>2. QED BY <3>1, <1>3, WholePages DEF Addresses
  <2>5. CASE ~some
    <3>1. written' = written /\ pos' = pos /\ flash' = flash
      BY <2>5, <1>1
    <3>2. QED BY <3>1, <2>1, <2>2, <1>3, <1>4
  <2>6. CASE some
    <3>1. /\ written' = written + 1 /\ written + 1 <= Size
          /\ flash' = [flash EXCEPT ![addr] = Stored(addr, written)]
      BY <2>6, <2>1, <2>3, <1>1, <1>3, <1>9
    <3>2. flash[addr] = Blank
      BY <2>2, <2>3, <2>4, <2>6, <1>3, WholePages
    <3>3. \A a \in OsStart + written' .. OsStart + erased - 1 : flash'[a] = Blank
      <4> SUFFICES ASSUME NEW a \in OsStart + written' .. OsStart + erased - 1
                   PROVE  flash'[a] = Blank
        OBVIOUS
      <4>1. a # addr /\ a \in OsStart + written .. OsStart + erased - 1
        BY <3>1, <2>4, <1>3, WholePages
      <4>2. a \in Addresses
        BY <4>1, <1>3, WholePages DEF Inv, InFlash, Addresses
      <4>3. QED BY <4>1, <4>2, <3>1, <2>2, <1>3
    <3>4. ASSUME fresh
          PROVE  pos' = written' /\ \A a \in 0 .. written' - 1 : flash'[OsStart + a] = upd
      <4>1. pos = written /\ pos < len
        BY <3>4, <2>2, <2>3, <2>6, <1>3
      <4>2. pos' = written'
        BY <4>1, <3>1, <2>1, <2>6, <1>1
      <4>3. Stored(addr, written) = upd
        BY <4>1, <3>2 DEF Stored
      <4>4. ASSUME NEW a \in 0 .. written' - 1 PROVE flash'[OsStart + a] = upd
        <5>1. CASE a = written
          BY <5>1, <4>3, <3>1, <2>4, <1>3
        <5>2. CASE a < written
          <6>1. flash[OsStart + a] = upd /\ OsStart + a # addr
            BY <5>2, <3>4, <2>2, <2>4, <1>3, WholePages
          <6>2. OsStart + a \in Addresses
            BY <5>2, <2>4, <1>3, WholePages DEF Addresses
          <6>3. QED BY <6>1, <6>2, <3>1, <1>3
        <5>3. QED BY <5>1, <5>2, <3>1, <1>3
      <4>5. QED BY <4>2, <4>4
    <3>5. QED BY <3>1, <3>3, <3>4, <2>1, <2>2, <1>3, <1>4
  <2>7. QED BY <2>5, <2>6
<1>10. Writing'
  <2> SUFFICES ASSUME pc' = "write", ~error' PROVE Writing'
    BY DEF Writing
  <2>1. Size' = Size
    BY <1>2 DEF Size
  <2>2. base' = OsStart /\ required' = signing'
    BY <1>1, <1>2, <1>4
  <2>3. QED BY <2>1, <2>2, <1>2, <1>9 DEF Writing
<1>11. Installed'
  <2> SUFFICES ASSUME pc' \in {"sign", "done"}, ~error', fresh, len > 0,
                      NEW a \in 0 .. len - 1
               PROVE  flash'[OsStart + a] = IF signing /\ a = len - 1 THEN Blank ELSE upd
    BY <1>2 DEF Installed
  <2>1. InstallSize(len, signing) = Size /\ Size \in Nat /\ Size <= len
        /\ (signing => Size = len - 1) /\ (~signing => Size = len)
    BY SizeOfImage DEF Inv
  <2>2. required = signing
    BY <1>9
  <2>3. written' >= Size
    BY <1>2, <2>1, <2>2 DEF WriteEnds
  <2>4. written' = Size
    BY <2>3, <2>1, <1>9
  <2>5. CASE a < Size
    BY <2>5, <2>4, <2>1, <1>9, <1>3
  <2>6. CASE a >= Size
    <3>1. signing /\ a = len - 1 /\ a = Size
      BY <2>6, <2>1, <1>3
    <3>2. OsStart + a \in OsStart + written' .. OsStart + erased - 1
      BY <3>1, <2>4, <1>9, <1>3, WholePages
    <3>3. QED BY <3>1, <3>2, <1>9
  <2>7. QED BY <2>5, <2>6, <2>1
<1>12. QED BY <1>5, <1>6, <1>7, <1>8, <1>10, <1>11 DEF Inv

LEMMA Inductive == Inv /\ [Next]_vars => Inv'
<1> SUFFICES ASSUME Inv, [Next]_vars PROVE Inv'
  OBVIOUS
<1>1. CASE Start BY <1>1, StartStep
<1>2. CASE Open BY <1>2, OpenStep
<1>3. CASE FindPage BY <1>3, FindPageStep
<1>4. CASE EraseRound BY <1>4, EraseRoundStep
<1>5. CASE Install BY <1>5, InstallStep
<1>6. CASE WriteRound BY <1>6, WriteRoundStep
<1>7. CASE Sign BY <1>7, SignStep
<1>8. CASE Crash \/ UNCHANGED vars BY <1>8, QuietStep
<1>9. QED BY <1>1, <1>2, <1>3, <1>4, <1>5, <1>6, <1>7, <1>8 DEF Next, HostStep

LEMMA Invariant == Spec => []Inv
<1>1. QED BY InvInit, Inductive, PTL DEF Spec

-----------------------------------------------------------------------------
(* The indices of the loops stay in the flash, the position in the image.   *)
THEOREM TypeCorrect == Spec => []TypeOK
<1>1. Inv => TypeOK
  BY DEF Inv
<1>2. QED BY <1>1, Invariant, PTL

(* Whatever fails, in whatever order, nothing of the bootloader is erased or*)
(* written.                                                                 *)
THEOREM BootloaderSafe == Spec => []BootloaderKept
<1>1. Inv => BootloaderKept
  BY DEF Inv
<1>2. QED BY <1>1, Invariant, PTL

(* The update of a device on which nothing failed is the image.             *)
THEOREM FaultFree == Spec => []UndisturbedInstalls
<1>1. Inv => UndisturbedInstalls
  BY DEF Inv, ErrorsStay, Installed, UndisturbedInstalls
<1>2. QED BY <1>1, Invariant, PTL

(* An error, once pending, keeps every request from the device.             *)
LEMMA QuietErrors ==
  Inv /\ [Next]_vars => (error /\ pc \in Running => flash' = flash)
<1> SUFFICES ASSUME Inv, [Next]_vars, error, pc \in Running PROVE flash' = flash
  OBVIOUS
<1>1. CASE EraseRound
  <2>1. flash' = [a \in Addresses |-> flash[a]]
    BY <1>1 DEF EraseRound, Reaches
  <2>2. QED BY <2>1 DEF Inv, TypeOK
<1>2. CASE WriteRound
  BY <1>2 DEF WriteRound, Reaches
<1>3. CASE Start \/ Open \/ FindPage \/ Install \/ Sign \/ Crash \/ UNCHANGED vars
  BY <1>3 DEF Start, Running, Open, FindPage, Install, Sign, Crash, vars
<1>4. QED BY <1>1, <1>2, <1>3 DEF Next, HostStep

THEOREM QuietAfterErrors == Spec => QuietAfterError
<1>1. Inv /\ [Next]_vars => [error /\ pc \in Running => flash' = flash]_vars
  BY QuietErrors
<1>2. QED BY <1>1, Invariant, PTL DEF Spec, QuietAfterError

(* Flash is written only where this call has erased it, for every size of a *)
(* page and of an image that is not empty.                                  *)
LEMMA ErasedFirst ==
  ASSUME Inv, [Next]_vars, len > 0, NEW a \in Addresses,
         flash'[a] # flash[a], flash'[a] # Blank
  PROVE  flash[a] = Blank
<1>1. CASE EraseRound
  BY <1>1 DEF EraseRound
<1>2. CASE WriteRound
  <2>1. PICK taken \in BOOLEAN :
          /\ taken => ~error
          /\ flash' = IF taken /\ InstallSize(len, required) > written
                        THEN [flash EXCEPT ![base + written] = Stored(base + written, written)]
                        ELSE flash
    BY <1>2 DEF WriteRound, Reaches
  <2>2. /\ taken /\ ~error /\ InstallSize(len, required) > written
        /\ a = base + written
    BY <2>1 DEF Inv, TypeOK
  <2>3. /\ base = OsStart /\ required = signing /\ erased >= len
        /\ \A b \in OsStart + written .. OsStart + erased - 1 : flash[b] = Blank
    BY <2>2, <1>2 DEF Inv, Writing, WriteRound
  <2>4. InstallSize(len, signing) <= len /\ InstallSize(len, signing) \in Nat
    BY SizeOfImage DEF Inv
  <2>5. written \in Nat /\ erased \in Nat /\ len \in Nat /\ OsStart \in Nat
    BY WholePages DEF Inv, TypeOK
  <2>6. a \in OsStart + written .. OsStart + erased - 1
    BY <2>2, <2>3, <2>4, <2>5
  <2>7. QED BY <2>3, <2>6
<1>3. CASE Start \/ Open \/ FindPage \/ Install \/ Sign \/ Crash \/ UNCHANGED vars
  BY <1>3 DEF Start, Open, FindPage, Install, Sign, Crash, vars
<1>4. QED BY <1>1, <1>2, <1>3 DEF Next, HostStep

THEOREM ErasedBeforeWritten == Spec => WritesToErased
<1>1. Inv /\ [Next]_vars
        => [len > 0 => \A a \in Addresses :
              flash'[a] # flash[a] /\ flash'[a] # Blank => flash[a] = Blank]_vars
  BY ErasedFirst
<1>2. QED BY <1>1, Invariant, PTL DEF Spec, WritesToErased

=============================================================================
